--------------------------- MODULE RioSend_proofs ---------------------------
(***************************************************************************)
(* Theorems about RioSend, for every size of the ring, of the packets and  *)
(* of RIO's queues.                                                        *)
(***************************************************************************)
EXTENDS RioSend, Integers, SequenceTheorems, TLAPS

\* A request without a commit was posted by the SendDeferred that is running.
Deferring ==
    m_bConnected /\ deferred > 0 =>
        /\ sendCount > 0 /\ m_sendCnt > 0
        /\ pc \in {"dequeue", "post", "flush", "commit"}

\* Except where SendDeferred posts all it can, the next packet leaves a cell.
RoomForOne ==
    m_bConnected /\ pc # "post" => written - posted + MaxPacket < BUFFER_SIZE

\* How long the pieces in flight are, the oldest first.
Pieces ==
    [i \in 1 .. Outstanding |->
        IF i <= Len(completions) THEN completions[i].length
                                 ELSE requests[i - Len(completions)].length]

\* start says at which byte each piece in flight starts: they follow each
\* other from the first byte that the ring keeps to the first not posted, a
\* byte at least each.
LaidAs(start) ==
    /\ start \in [1 .. Outstanding + 1 -> Nat]
    /\ start[1] + m_size = written
    /\ start[Outstanding + 1] = posted
    /\ \A i \in 1 .. Outstanding :
          Pieces[i] \in Nat \ {0} /\ start[i + 1] = start[i] + Pieces[i]
    /\ \A i, j \in 1 .. Outstanding + 1 : i <= j => start[i] + (j - i) <= start[j]

Laid == m_bConnected => \E start : LaidAs(start)

UInv == TypeOK /\ UnsentIsExact /\ RoomForOne /\ Laid
-----------------------------------------------------------------------------
LEMMA Sizes ==
    /\ BUFFER_SIZE \in Nat /\ BUFFER_SIZE > 0
    /\ MaxPacket \in Nat /\ MAX_SEND_RQ_SIZE \in Nat /\ SEND_LIMIT \in Nat
    /\ SEND_LIMIT > 0 /\ MAX_POST_CNT \in Nat
  BY SizesAssumption

LEMMA ModBelow ==
    ASSUME NEW n \in Nat
    PROVE  n % BUFFER_SIZE \in Cells
  BY Sizes DEF Cells

LEMMA ModOnce ==
    ASSUME NEW x \in Cells, NEW s \in 0 .. BUFFER_SIZE
    PROVE  (x + s) % BUFFER_SIZE = IF x + s < BUFFER_SIZE THEN x + s
                                                          ELSE x + s - BUFFER_SIZE
<1>1. BUFFER_SIZE \in Nat \ {0}
  BY Sizes
<1>2. \A y \in 0 .. BUFFER_SIZE - 1 : y % BUFFER_SIZE = y
  BY <1>1
<1>3. \A y \in BUFFER_SIZE .. 2 * BUFFER_SIZE - 1 : y % BUFFER_SIZE = y - BUFFER_SIZE
  BY <1>1
<1>4. QED
  BY <1>1, <1>2, <1>3 DEF Cells

LEMMA Tails ==
    ASSUME NEW S, NEW s \in Seq(S), s # <<>>
    PROVE  /\ Head(s) \in S /\ Head(s) = s[1] /\ Tail(s) \in Seq(S)
           /\ Len(s) \in Nat \ {0} /\ Len(Tail(s)) = Len(s) - 1
           /\ \A i \in 1 .. Len(s) - 1 : Tail(s)[i] = s[i + 1]
  OBVIOUS

LEMMA Appends ==
    ASSUME NEW S, NEW s \in Seq(S), NEW e \in S
    PROVE  /\ Append(s, e) \in Seq(S) /\ Len(s) \in Nat
           /\ Len(Append(s, e)) = Len(s) + 1 /\ Append(s, e)[Len(s) + 1] = e
           /\ \A i \in 1 .. Len(s) : Append(s, e)[i] = s[i]
  BY AppendProperties

\* What the sizes of the ring's two kinds of data are.
LEMMA SizesTyped ==
    ASSUME TypeOK
    PROVE  /\ GetChunkSendSize \in 0 .. BUFFER_SIZE
           /\ m_sendPos + GetChunkSendSize <= BUFFER_SIZE
           /\ GetSendDataSize \in Nat
           /\ GetChunkSendSize <= GetSendDataSize
           /\ GetSendDataSize > 0 => GetChunkSendSize > 0
           /\ Outstanding \in Nat
  BY Sizes DEF TypeOK, Cells, GetChunkSendSize, GetSendDataSize, Outstanding, Requests

LEMMA InitTypeOK == Init => TypeOK
<1> SUFFICES ASSUME Init PROVE TypeOK
  OBVIOUS
<1>1. 0 \in Cells /\ BUFFER_SIZE \in Nat
  BY Sizes DEF Cells
<1>2. <<>> \in Seq(1 .. MaxPacket) /\ <<>> \in Seq(Requests) /\ <<>> \in Seq(Nat)
  OBVIOUS
<1>3. QED
  BY <1>1, <1>2 DEF Init, TypeOK, PCs

\* A request that is posted stays within the ring and within the types.
LEMMA PostTypes ==
    ASSUME TypeOK, RegisterSend, pc' \in PCs
    PROVE  TypeOK'
<1>1. /\ m_sendPos \in Cells /\ GetChunkSendSize \in 0 .. BUFFER_SIZE
      /\ m_sendPos + GetChunkSendSize <= BUFFER_SIZE /\ BUFFER_SIZE \in Nat
  BY SizesTyped, Sizes DEF TypeOK
<1>2. m_sendPos' \in Cells /\ posted' \in Nat
  <2>1. m_sendPos + GetChunkSendSize \in Nat
    BY <1>1 DEF Cells
  <2>2. QED
    BY <1>1, <2>1, ModBelow DEF RegisterSend, OnSendBuffer, TypeOK
<1>3. [offset |-> m_sendPos, length |-> GetChunkSendSize] \in Requests
  BY <1>1 DEF Requests
<1>4. /\ requests' \in Seq(Requests) /\ Len(requests') = Len(requests) + 1
      /\ \A i \in 1 .. Len(requests) : requests'[i] = requests[i]
      /\ requests'[Len(requests) + 1] = [offset |-> m_sendPos, length |-> GetChunkSendSize]
  BY <1>3, Appends DEF RegisterSend, TypeOK
<1>5. \A i \in DOMAIN requests' : requests'[i].offset + requests'[i].length <= BUFFER_SIZE
  <2>1. Len(requests) \in Nat /\ DOMAIN requests = 1 .. Len(requests)
        /\ DOMAIN requests' = 1 .. Len(requests) + 1
    BY <1>4 DEF TypeOK
  <2>2. \A i \in 1 .. Len(requests) :
           requests'[i].offset + requests'[i].length <= BUFFER_SIZE
    BY <1>4, <2>1 DEF TypeOK
  <2>3. LET last == requests'[Len(requests) + 1]
        IN  last.offset + last.length <= BUFFER_SIZE
    BY <1>1, <1>4
  <2>4. QED
    BY <2>1, <2>2, <2>3
<1>6. deferred' \in 0 .. Len(requests')
  BY <1>4, LenProperties DEF TypeOK, RegisterSend
<1>7. /\ m_sendCnt' \in Nat /\ sendCount' \in Nat
      /\ UNCHANGED <<m_bConnected, queueVars, ringVars, completions, wire>>
  BY DEF TypeOK, RegisterSend
<1>8. QED
  BY <1>2, <1>4, <1>5, <1>6, <1>7 DEF TypeOK, ringVars, queueVars

LEMMA StepTypeOK == TypeOK /\ [Next]_vars => TypeOK'
<1> SUFFICES ASSUME TypeOK, [Next]_vars PROVE TypeOK'
  OBVIOUS
<1> USE DEF queueVars, ringVars, postVars, rioVars
<1>1. CASE Send
  <2>1. PICK size \in 1 .. MaxPacket :
           m_sendBufQueue' = Append(m_sendBufQueue, size) /\ produced' = produced + size
    BY <1>1 DEF Send
  <2>2. m_sendBufQueue' \in Seq(1 .. MaxPacket) /\ produced' \in Nat
    BY <2>1, Sizes DEF TypeOK
  <2>3. QED
    BY <1>1, <2>2 DEF Send, TypeOK
<1>2. CASE SendDeferred
  BY <1>2 DEF SendDeferred, TypeOK, Goto, PCs
<1>3. CASE SendSkipped
  BY <1>3 DEF SendSkipped, TypeOK, Goto, PCs
<1>4. CASE Dequeue
  <2> DEFINE size == Head(m_sendBufQueue)
  <2>1. size \in 1 .. MaxPacket /\ m_sendBufQueue' \in Seq(1 .. MaxPacket)
    BY <1>4, Tails DEF Dequeue, TypeOK
  <2>2. size \in Nat /\ BUFFER_SIZE \in Nat
    BY <2>1, Sizes
  <2>3. m_size' \in 0 .. BUFFER_SIZE /\ written' \in Nat
    <3>1. /\ size <= BUFFER_SIZE - m_size /\ m_size \in 0 .. BUFFER_SIZE /\ written \in Nat
          /\ m_size' = m_size + size /\ written' = written + size
      BY <1>4 DEF Dequeue, WriteBuffer, GetFreeSize, TypeOK
    <3> HIDE DEF size
    <3>2. QED
      BY <2>2, <3>1
  <2>4. m_headPos' \in Cells
    <3>1. m_headPos + size \in Nat
      BY <2>2 DEF TypeOK, Cells
    <3>2. QED
      BY <1>4, <3>1, ModBelow DEF Dequeue, WriteBuffer
  <2>5. m_buffer' \in [Cells -> Nat]
    <3>1. \A c \in Cells : c + BUFFER_SIZE - m_headPos \in Nat
      BY <2>2 DEF TypeOK, Cells
    <3>2. \A c \in Cells : Ahead(c) \in Nat
      BY <3>1, ModBelow DEF Cells, Ahead
    <3>3. m_buffer' = [c \in Cells |-> IF Ahead(c) < size THEN written + Ahead(c)
                                                         ELSE m_buffer[c]]
      BY <1>4 DEF Dequeue, WriteBuffer
    <3>4. /\ written \in Nat /\ m_buffer \in [Cells -> Nat]
          /\ \A c \in Cells : written + Ahead(c) \in Nat
      BY <3>2 DEF TypeOK
    <3> HIDE DEF size
    <3>5. QED
      BY <3>3, <3>4
  <2>6. pc' \in PCs
    BY <1>4 DEF Dequeue, Goto, PCs
  <2>7. QED
    BY <1>4, <2>1, <2>3, <2>4, <2>5, <2>6 DEF Dequeue, WriteBuffer, TypeOK
<1>5. CASE DequeueStops
  BY <1>5 DEF DequeueStops, AfterDequeue, TypeOK, Goto, PCs
<1>6. CASE Post
  <2>1. CASE RegisterSend /\ UNCHANGED pc
    BY <2>1, PostTypes DEF TypeOK
  <2>2. CASE RegisterSendFails(AfterPosts)
    BY <2>2 DEF RegisterSendFails, DisconnectInDeferredSend, AfterPosts, TypeOK, PCs
  <2>3. QED
    BY <1>6, <2>1, <2>2 DEF Post
<1>7. CASE PostDone
  BY <1>7 DEF PostDone, AfterPosts, TypeOK, Goto, PCs
<1>8. CASE Flush
  <2>1. CASE RegisterSend /\ pc' = IF sendCount' >= MAX_POST_CNT THEN "commit" ELSE "flush"
    BY <2>1, PostTypes DEF PCs
  <2>2. CASE RegisterSendFails("commit")
    BY <2>2 DEF RegisterSendFails, DisconnectInDeferredSend, TypeOK, PCs
  <2>3. QED
    BY <1>8, <2>1, <2>2 DEF Flush
<1>9. CASE FlushDone
  BY <1>9 DEF FlushDone, TypeOK, Goto, PCs
<1>10. CASE SendCommit
  <2>1. deferred' \in {0, deferred} /\ m_sendCnt' \in {0, m_sendCnt}
    BY <1>10 DEF SendCommit
  <2>2. pc' \in PCs /\ m_bConnected' \in BOOLEAN
    BY <1>10 DEF SendCommit, DisconnectInDeferredSend, TypeOK, PCs
  <2>3. deferred' \in 0 .. Len(requests)
    BY <2>1, LenProperties DEF TypeOK
  <2>4. QED
    BY <1>10, <2>1, <2>2, <2>3 DEF SendCommit, TypeOK
<1>11. CASE ProcessSend
  <2>1. completions' \in Seq(Requests) /\ Head(completions).length \in Nat
    <3>1. completions \in Seq(Requests) /\ completions # <<>>
          /\ completions' = Tail(completions)
      BY <1>11 DEF ProcessSend, TypeOK
    <3>2. Head(completions) \in Requests /\ Tail(completions) \in Seq(Requests)
      BY <3>1, Tails
    <3>3. QED
      BY <3>1, <3>2, Sizes DEF Requests
  <2>2. CASE m_bConnected' = FALSE /\ UNCHANGED ringVars
    BY <1>11, <2>1, <2>2 DEF ProcessSend, TypeOK
  <2>3. CASE /\ ~(Head(completions).length > m_size)
             /\ OnReadBuffer(Head(completions).length) /\ UNCHANGED m_bConnected
    <3>1. m_tailPos + Head(completions).length \in Nat
      BY <2>1 DEF TypeOK, Cells
    <3>2. m_tailPos' \in Cells
      BY <2>3, <3>1, ModBelow DEF OnReadBuffer
    <3>3. m_size' \in 0 .. BUFFER_SIZE
      BY <2>1, <2>3, Sizes DEF OnReadBuffer, TypeOK
    <3>4. QED
      BY <1>11, <2>1, <2>3, <3>2, <3>3 DEF ProcessSend, OnReadBuffer, TypeOK
  <2>4. QED
    BY <1>11, <2>2, <2>3 DEF ProcessSend
<1>12. CASE OtherDisconnect
  BY <1>12 DEF OtherDisconnect, TypeOK
<1>13. CASE DispatchDone
  BY <1>13 DEF DispatchDone, TypeOK, Goto, PCs
<1>14. CASE Transmit
  <2> DEFINE first == Head(requests)
  <2>1. /\ requests # <<>> /\ requests' = Tail(requests) /\ requests \in Seq(Requests)
        /\ completions \in Seq(Requests) /\ wire \in Seq(Nat) /\ m_buffer \in [Cells -> Nat]
    BY <1>14 DEF Transmit, TypeOK
  <2>2. /\ first \in Requests /\ requests' \in Seq(Requests) /\ Len(requests') = Len(requests) - 1
        /\ \A i \in 1 .. Len(requests') : requests'[i] = requests[i + 1]
    BY <2>1, Tails
  <2>3. \A i \in DOMAIN requests' :
           requests'[i].offset + requests'[i].length <= BUFFER_SIZE
    <3>1. Len(requests) \in Nat /\ DOMAIN requests' = 1 .. Len(requests) - 1
          /\ \A i \in 1 .. Len(requests) - 1 : i + 1 \in DOMAIN requests
      BY <2>1, <2>2
    <3>2. QED
      BY <2>2, <3>1 DEF TypeOK
  <2>4. deferred' \in 0 .. Len(requests')
    <3>1. /\ Len(requests) \in Nat \ {0} /\ deferred \in 0 .. Len(requests)
          /\ deferred' = IF deferred = Len(requests) THEN deferred - 1 ELSE deferred
      BY <1>14, <2>1, Tails DEF Transmit, TypeOK
    <3> HIDE DEF first
    <3>2. QED
      BY <2>2, <3>1
  <2>5. completions' \in Seq(Requests)
    <3>1. [first EXCEPT !.length = 0] \in Requests
      BY <2>2, Sizes DEF Requests
    <3>2. \/ completions' = Append(completions, first)
          \/ completions' = Append(completions, [first EXCEPT !.length = 0])
      BY <1>14 DEF Transmit
    <3> HIDE DEF first
    <3>3. QED
      <4>1. completions \in Seq(Requests) /\ first \in Requests
        BY <2>1, <2>2 DEF first
      <4>2. /\ Append(completions, first) \in Seq(Requests)
            /\ Append(completions, [first EXCEPT !.length = 0]) \in Seq(Requests)
        BY <3>1, <4>1, Appends
      <4>3. QED
        BY <3>2, <4>2
  <2>6. wire' \in Seq(Nat)
    <3> DEFINE sent == [i \in 1 .. first.length |-> m_buffer[(first.offset + i - 1) % BUFFER_SIZE]]
    <3>1. \A i \in 1 .. first.length : first.offset + i - 1 \in Nat
      BY <2>2, Sizes DEF Requests, Cells
    <3>2. \A i \in 1 .. first.length : (first.offset + i - 1) % BUFFER_SIZE \in Cells
      BY <3>1, ModBelow
    <3>3. sent \in Seq(Nat)
      <4>1. first.length \in Nat
        BY <2>2, Sizes DEF Requests
      <4>2. \A i \in 1 .. first.length :
               m_buffer[(first.offset + i - 1) % BUFFER_SIZE] \in Nat
        BY <2>1, <3>2
      <4> HIDE DEF first
      <4>3. QED
        BY <4>1, <4>2
    <3> HIDE DEF sent
    <3>4. wire' = wire \/ wire' = wire \o sent
      BY <1>14 DEF Transmit, sent
    <3>5. wire \o sent \in Seq(Nat)
      BY <2>1, <3>3, ConcatProperties
    <3>6. QED
      BY <2>1, <3>4, <3>5
  <2>7. QED
    BY <1>14, <2>2, <2>3, <2>4, <2>5, <2>6 DEF Transmit, TypeOK
<1>15. CASE UNCHANGED vars
  BY <1>15 DEF vars, TypeOK
<1>16. QED
  BY <1>1, <1>2, <1>3, <1>4, <1>5, <1>6, <1>7, <1>8, <1>9, <1>10, <1>11, <1>12,
     <1>13, <1>14, <1>15 DEF Next, Core

\* Every state of the specification has the type of TypeOK.
THEOREM TypeCorrect == Spec => []TypeOK
  BY InitTypeOK, StepTypeOK, PTL DEF Spec
-----------------------------------------------------------------------------
LEMMA StepDeferring == TypeOK /\ Deferring /\ [Next]_vars => Deferring'
<1> SUFFICES ASSUME TypeOK, Deferring, [Next]_vars PROVE Deferring'
  OBVIOUS
<1> USE DEF queueVars, ringVars, postVars, rioVars
<1>1. CASE Send
  BY <1>1 DEF Send, Deferring
<1>2. CASE SendDeferred
  BY <1>2 DEF SendDeferred, Goto, Deferring
<1>3. CASE SendSkipped
  BY <1>3 DEF SendSkipped, Goto, Deferring
<1>4. CASE Dequeue
  BY <1>4 DEF Dequeue, Goto, Deferring
<1>5. CASE DequeueStops
  BY <1>5 DEF DequeueStops, AfterDequeue, Goto, Deferring
<1>6. CASE Post
  <2>1. CASE RegisterSend /\ UNCHANGED pc
    BY <1>6, <2>1 DEF Post, RegisterSend, TypeOK, Deferring
  <2>2. CASE RegisterSendFails(AfterPosts)
    BY <1>6, <2>2 DEF Post, RegisterSendFails, DisconnectInDeferredSend, AfterPosts, Deferring
  <2>3. QED
    BY <1>6, <2>1, <2>2 DEF Post
<1>7. CASE PostDone
  BY <1>7 DEF PostDone, AfterPosts, Goto, Deferring
<1>8. CASE Flush
  <2>1. CASE RegisterSend /\ pc' = IF sendCount' >= MAX_POST_CNT THEN "commit" ELSE "flush"
    BY <1>8, <2>1 DEF Flush, RegisterSend, TypeOK, Deferring
  <2>2. CASE RegisterSendFails("commit")
    BY <1>8, <2>2 DEF Flush, RegisterSendFails, DisconnectInDeferredSend, Deferring
  <2>3. QED
    BY <1>8, <2>1, <2>2 DEF Flush
<1>9. CASE FlushDone
  BY <1>9 DEF FlushDone, Goto, Deferring
<1>10. CASE SendCommit
  <2>1. CASE CommitNeeded
    <3>1. deferred' = 0 \/ ~m_bConnected'
      BY <1>10, <2>1 DEF SendCommit, DisconnectInDeferredSend, TypeOK
    <3>2. QED
      BY <3>1 DEF Deferring
  <2>2. CASE ~CommitNeeded
    BY <1>10, <2>2 DEF SendCommit, CommitNeeded, Deferring
  <2>3. QED
    BY <2>1, <2>2
<1>11. CASE ProcessSend
  <2>1. /\ UNCHANGED <<postVars, deferred, pc>>
        /\ m_bConnected' => m_bConnected
    BY <1>11 DEF ProcessSend
  <2>2. QED
    BY <2>1 DEF Deferring
<1>12. CASE OtherDisconnect
  BY <1>12 DEF OtherDisconnect, Deferring
<1>13. CASE DispatchDone
  BY <1>13 DEF DispatchDone, Goto, Deferring
<1>14. CASE Transmit
  <2>1. /\ UNCHANGED <<m_bConnected, postVars, pc>>
        /\ deferred' = IF deferred = Len(requests) THEN deferred - 1 ELSE deferred
        /\ requests \in Seq(Requests) /\ requests # <<>> /\ deferred \in 0 .. Len(requests)
    BY <1>14 DEF Transmit, TypeOK
  <2>2. deferred' > 0 => deferred > 0
    BY <2>1, Tails
  <2>3. QED
    BY <2>1, <2>2 DEF Deferring
<1>15. CASE UNCHANGED vars
  BY <1>15 DEF vars, Deferring
<1>16. QED
  BY <1>1, <1>2, <1>3, <1>4, <1>5, <1>6, <1>7, <1>8, <1>9, <1>10, <1>11, <1>12,
     <1>13, <1>14, <1>15 DEF Next, Core

\* A request waits for its commit only while the SendDeferred that posted it
\* runs, for every size of the ring and of RIO's queues.
THEOREM NothingLeftDeferredAlways == Spec => []NothingLeftDeferred
<1>1. Init => Deferring
  BY DEF Init, Deferring
<1>2. TypeOK /\ Deferring => NothingLeftDeferred
  BY LenProperties DEF TypeOK, Deferring, NothingLeftDeferred
<1>3. QED
  BY <1>1, <1>2, InitTypeOK, StepTypeOK, StepDeferring, PTL DEF Spec
-----------------------------------------------------------------------------
\* The position arithmetic: the ring has as many unsent bytes as its positions
\* say while there is a cell between them.
LEMMA WriteKeepsExact ==
    ASSUME NEW h \in Cells, NEW s \in Cells, NEW d \in Nat, NEW n \in 1 .. BUFFER_SIZE,
           d = IF h >= s THEN h - s ELSE BUFFER_SIZE - s + h, d + n < BUFFER_SIZE,
           NEW g, g = (h + n) % BUFFER_SIZE
    PROVE  d + n = IF g >= s THEN g - s ELSE BUFFER_SIZE - s + g
<1>1. g = IF h + n < BUFFER_SIZE THEN h + n ELSE h + n - BUFFER_SIZE
  BY ModOnce, Sizes
<1>2. QED
  BY <1>1, Sizes DEF Cells

LEMMA PostKeepsExact ==
    ASSUME NEW h \in Cells, NEW s \in Cells, NEW d \in Nat, NEW n \in 0 .. BUFFER_SIZE,
           d = IF h >= s THEN h - s ELSE BUFFER_SIZE - s + h,
           n = IF h >= s THEN h - s ELSE BUFFER_SIZE - s,
           NEW g, g = (s + n) % BUFFER_SIZE
    PROVE  d - n = IF h >= g THEN h - g ELSE BUFFER_SIZE - g + h
<1>1. g = IF s + n < BUFFER_SIZE THEN s + n ELSE s + n - BUFFER_SIZE
  BY ModOnce, Sizes
<1>2. QED
  BY <1>1, Sizes DEF Cells

LEMMA StepUnsent == UInv /\ [Next]_vars => UnsentIsExact'
<1> SUFFICES ASSUME UInv, [Next]_vars, m_bConnected'
             PROVE  GetSendDataSize' = written' - posted'
  BY DEF UnsentIsExact
<1> USE DEF queueVars, ringVars, postVars, rioVars, UInv
<1>1. m_bConnected /\ GetSendDataSize = written - posted
  BY DEF UnsentIsExact, Next, Core, Send, SendDeferred, SendSkipped, Dequeue, DequeueStops,
     Post, PostDone, Flush, FlushDone, SendCommit, ProcessSend, OtherDisconnect, DispatchDone,
     Transmit, RegisterSend, RegisterSendFails, DisconnectInDeferredSend, vars, OnReadBuffer, TypeOK
<1>2. CASE UNCHANGED <<m_headPos, m_sendPos, written, posted>>
  BY <1>1, <1>2 DEF GetSendDataSize
<1>3. CASE Dequeue
  <2> DEFINE size == Head(m_sendBufQueue)
  <2>1. size \in 1 .. MaxPacket
    BY <1>3, Tails DEF Dequeue, TypeOK
  <2>2. /\ m_headPos' = (m_headPos + size) % BUFFER_SIZE /\ written' = written + size
        /\ UNCHANGED <<m_sendPos, posted>> /\ pc = "dequeue"
    BY <1>3 DEF Dequeue, WriteBuffer, Goto
  <2>3. written - posted + MaxPacket < BUFFER_SIZE
    BY <1>1, <2>2 DEF RoomForOne
  <2>4. written - posted \in Nat /\ written \in Nat /\ posted \in Nat
    BY <1>1, SizesTyped DEF TypeOK
  <2>5. size \in 1 .. BUFFER_SIZE /\ written - posted + size < BUFFER_SIZE
    <3> HIDE DEF size
    <3>1. QED
      BY <2>1, <2>3, <2>4, Sizes
  <2> HIDE DEF size
  <2>6. written - posted + size =
           IF m_headPos' >= m_sendPos THEN m_headPos' - m_sendPos
                                      ELSE BUFFER_SIZE - m_sendPos + m_headPos'
    <3>1. /\ m_headPos \in Cells /\ m_sendPos \in Cells
          /\ written - posted = IF m_headPos >= m_sendPos THEN m_headPos - m_sendPos
                                ELSE BUFFER_SIZE - m_sendPos + m_headPos
      BY <1>1 DEF GetSendDataSize, TypeOK
    <3>2. QED
      BY <2>2, <2>4, <2>5, <3>1, WriteKeepsExact
  <2>7. written' - posted' = written - posted + size
    BY <2>2, <2>4, <2>5
  <2>8. QED
    BY <2>2, <2>6, <2>7 DEF GetSendDataSize
<1>4. CASE RegisterSend
  <2> DEFINE size == GetChunkSendSize
  <2>1. /\ m_sendPos' = (m_sendPos + size) % BUFFER_SIZE /\ posted' = posted + size
        /\ UNCHANGED <<m_headPos, written>>
    BY <1>4 DEF RegisterSend, OnSendBuffer
  <2>2. written - posted \in Nat /\ written \in Nat /\ posted \in Nat /\ size \in 0 .. BUFFER_SIZE
    BY <1>1, SizesTyped DEF TypeOK
  <2>3. size = IF m_headPos >= m_sendPos THEN m_headPos - m_sendPos ELSE BUFFER_SIZE - m_sendPos
    BY DEF GetChunkSendSize
  <2> HIDE DEF size
  <2>4. written - posted - size =
           IF m_headPos >= m_sendPos' THEN m_headPos - m_sendPos'
                                      ELSE BUFFER_SIZE - m_sendPos' + m_headPos
    <3>1. /\ m_headPos \in Cells /\ m_sendPos \in Cells
          /\ written - posted = IF m_headPos >= m_sendPos THEN m_headPos - m_sendPos
                                ELSE BUFFER_SIZE - m_sendPos + m_headPos
      BY <1>1 DEF GetSendDataSize, TypeOK
    <3>2. QED
      BY <2>1, <2>2, <2>3, <3>1, PostKeepsExact
  <2>5. written' - posted' = written - posted - size
    BY <2>1, <2>2
  <2>6. QED
    BY <2>1, <2>4, <2>5 DEF GetSendDataSize
<1>5. QED
  BY <1>2, <1>3, <1>4 DEF Next, Core, Send, SendDeferred, SendSkipped, DequeueStops,
     Post, PostDone, Flush, FlushDone, SendCommit, ProcessSend, OtherDisconnect, DispatchDone,
     Transmit, RegisterSendFails, vars, OnReadBuffer
-----------------------------------------------------------------------------
\* The requests in flight keep a byte of the ring each.
LEMMA InFlightKeepsRoom ==
    ASSUME UInv, m_bConnected
    PROVE  written - posted + Outstanding <= m_size
<1>1. PICK start : LaidAs(start)
  BY DEF UInv, Laid
<1>2. Outstanding \in Nat /\ written \in Nat /\ posted \in Nat /\ m_size \in Nat
  BY SizesTyped DEF UInv, TypeOK
<1>3. 1 \in 1 .. Outstanding + 1 /\ Outstanding + 1 \in 1 .. Outstanding + 1
  BY <1>2
<1>4. start[1] + Outstanding <= start[Outstanding + 1] /\ start[1] \in Nat
  BY <1>1, <1>2, <1>3 DEF LaidAs
<1>5. start[1] + m_size = written /\ start[Outstanding + 1] = posted
  BY <1>1 DEF LaidAs
<1>6. QED
  BY <1>2, <1>4, <1>5

LEMMA AddBelow ==
    ASSUME NEW w \in Nat, NEW q \in Nat, NEW l \in Nat, NEW n \in Nat, NEW b \in Nat,
           w - q < l, l + n <= b
    PROVE  w - q + n < b
  OBVIOUS

LEMMA StepRoom ==
    ASSUME PacketsFit, UInv, UnsentIsExact', TypeOK', [Next]_vars
    PROVE  RoomForOne'
<1> SUFFICES ASSUME m_bConnected', pc' # "post"
             PROVE  written' - posted' + MaxPacket < BUFFER_SIZE
  BY DEF RoomForOne
<1> USE DEF queueVars, ringVars, postVars, rioVars, UInv
<1>1. m_bConnected /\ GetSendDataSize = written - posted
  BY DEF UnsentIsExact, Next, Core, Send, SendDeferred, SendSkipped, Dequeue, DequeueStops,
     Post, PostDone, Flush, FlushDone, SendCommit, ProcessSend, OtherDisconnect, DispatchDone,
     Transmit, RegisterSend, RegisterSendFails, DisconnectInDeferredSend, vars, OnReadBuffer, TypeOK
<1>2. written \in Nat /\ posted \in Nat /\ m_size \in 0 .. BUFFER_SIZE /\ Outstanding \in Nat
  BY SizesTyped DEF TypeOK
<1>3. SEND_LIMIT + MaxPacket <= BUFFER_SIZE /\ MaxPacket < MAX_SEND_RQ_SIZE
  BY DEF PacketsFit
<1>4. CASE pc # "post" /\ UNCHANGED <<written, posted>>
  BY <1>1, <1>4 DEF RoomForOne
<1>5. CASE Dequeue
  <2>1. pc' = "dequeue" /\ GetSendDataSize' < SEND_LIMIT
    BY <1>5 DEF Dequeue, Goto
  <2>2. written' - posted' < SEND_LIMIT /\ written' \in Nat /\ posted' \in Nat
    BY <2>1 DEF UnsentIsExact, TypeOK
  <2>3. QED
    BY <2>2, <1>3, Sizes, AddBelow
<1>6. CASE RegisterSend /\ pc # "post"
  <2>1. written' = written /\ posted' = posted + GetChunkSendSize /\ GetChunkSendSize \in Nat
    BY <1>6, SizesTyped, Sizes DEF RegisterSend, OnSendBuffer
  <2>2. written - posted + MaxPacket < BUFFER_SIZE
    BY <1>1, <1>6 DEF RoomForOne
  <2>3. QED
    BY <1>2, <2>1, <2>2, Sizes
<1>7. CASE Post /\ RegisterSendFails(AfterPosts)
  <2>1. Outstanding = MAX_SEND_RQ_SIZE /\ written' = written /\ posted' = posted
    BY <1>1, <1>7 DEF RegisterSendFails, DisconnectInDeferredSend
  <2>2. written - posted + Outstanding <= m_size
    BY <1>1, InFlightKeepsRoom
  <2>3. QED
    BY <1>2, <2>1, <2>2, <1>3, Sizes
<1>8. CASE PostDone
  <2>1. written' - posted' = 0
    BY <1>1, <1>8 DEF PostDone
  <2>2. QED
    BY <2>1, <1>3, Sizes
<1>9. CASE Post /\ RegisterSend
  BY <1>9 DEF Post, RegisterSend, RegisterSendFails, DisconnectInDeferredSend
<1>10. CASE Flush
  <2>1. CASE RegisterSend
    BY <1>6, <1>10, <2>1 DEF Flush
  <2>2. CASE RegisterSendFails("commit")
    BY <1>4, <1>10, <2>2 DEF Flush, RegisterSendFails
  <2>3. QED
    BY <1>10, <2>1, <2>2 DEF Flush
<1>11. CASE UNCHANGED vars
  BY <1>4, <1>11 DEF vars
<1>12. CASE \/ Send \/ SendDeferred \/ SendSkipped \/ DequeueStops \/ FlushDone \/ SendCommit
            \/ ProcessSend \/ OtherDisconnect \/ DispatchDone \/ Transmit
  BY <1>4, <1>12 DEF Send, SendDeferred, SendSkipped, DequeueStops, Goto, FlushDone,
     SendCommit, ProcessSend, OtherDisconnect, DispatchDone, Transmit, OnReadBuffer
<1>13. Post => RegisterSend \/ RegisterSendFails(AfterPosts)
  BY DEF Post
<1>14. QED
  BY <1>5, <1>7, <1>8, <1>9, <1>10, <1>11, <1>12, <1>13 DEF Next, Core
-----------------------------------------------------------------------------
\* A piece that is posted comes after the others.
LEMMA PostLaid ==
    ASSUME TypeOK, RegisterSend, GetSendDataSize > 0, NEW start, LaidAs(start)
    PROVE  \E longer : /\ LaidAs(longer)'
                       /\ \A i \in 1 .. Outstanding + 1 : longer[i] = start[i]
<1> DEFINE k == Outstanding
           n == GetChunkSendSize
<1>1. /\ Len(requests) \in Nat /\ Len(completions) \in Nat /\ posted \in Nat
      /\ requests' = Append(requests, [offset |-> m_sendPos, length |-> n])
      /\ posted' = posted + n
      /\ UNCHANGED <<completions, written, m_size>>
  BY LenProperties DEF RegisterSend, OnSendBuffer, TypeOK, ringVars
<1>2. n \in Nat /\ n > 0
  BY SizesTyped, Sizes
<1>3. k \in Nat /\ Outstanding' = k + 1 /\ k = Len(requests) + Len(completions)
  <2>1. Len(requests') = Len(requests) + 1
    BY <1>1 DEF TypeOK
  <2>2. QED
    BY <1>1, <2>1 DEF Outstanding
<1>4. Pieces' = [i \in 1 .. k + 1 |-> IF i <= k THEN Pieces[i] ELSE n]
  <2>1. /\ \A i \in 1 .. Len(requests) : requests'[i] = requests[i]
        /\ requests'[Len(requests) + 1] = [offset |-> m_sendPos, length |-> n]
    BY <1>1 DEF TypeOK
  <2>2. Pieces' = [i \in 1 .. k + 1 |->
           IF i <= Len(completions) THEN completions[i].length
                                    ELSE requests'[i - Len(completions)].length]
    BY <1>1, <1>3 DEF Pieces
  <2>3. \A i \in 1 .. k : i > Len(completions) =>
           /\ i - Len(completions) \in 1 .. Len(requests)
           /\ requests'[i - Len(completions)] = requests[i - Len(completions)]
    BY <1>1, <1>3, <2>1
  <2>4. k + 1 - Len(completions) = Len(requests) + 1 /\ ~(k + 1 <= Len(completions))
    BY <1>1, <1>3
  <2>5. ASSUME NEW i \in 1 .. k + 1
        PROVE  Pieces'[i] = IF i <= k THEN Pieces[i] ELSE n
    <3>1. CASE i \in 1 .. k
      BY <1>1, <1>3, <2>2, <2>3, <3>1 DEF Pieces
    <3>2. CASE i = k + 1
      BY <1>1, <1>3, <2>1, <2>2, <2>4, <3>2
    <3>3. QED
      BY <1>3, <3>1, <3>2
  <2>6. QED
    BY <2>2, <2>5
<1> HIDE DEF k, n
<1>5. /\ start \in [1 .. k + 1 -> Nat] /\ start[1] + m_size = written /\ start[k + 1] = posted
      /\ \A i \in 1 .. k : Pieces[i] \in Nat \ {0} /\ start[i + 1] = start[i] + Pieces[i]
      /\ \A i, j \in 1 .. k + 1 : i <= j => start[i] + (j - i) <= start[j]
  BY DEF LaidAs, k
<1>6. PICK longer : /\ longer \in [1 .. k + 2 -> Nat]
                    /\ \A i \in 1 .. k + 1 : longer[i] = start[i]
                    /\ longer[k + 2] = posted + n
  <2> WITNESS [i \in 1 .. k + 2 |-> IF i <= k + 1 THEN start[i] ELSE posted + n]
  <2>1. QED
    BY <1>1, <1>2, <1>3, <1>5
<1>7. longer[1] + m_size = written
  BY <1>3, <1>5, <1>6
<1>8. \A i \in 1 .. k + 1 :
         Pieces'[i] \in Nat \ {0} /\ longer[i + 1] = longer[i] + Pieces'[i]
  <2> SUFFICES ASSUME NEW i \in 1 .. k + 1
               PROVE  Pieces'[i] \in Nat \ {0} /\ longer[i + 1] = longer[i] + Pieces'[i]
    OBVIOUS
  <2>1. CASE i = k + 1
    <3>1. Pieces'[i] = n /\ longer[i] = posted /\ longer[i + 1] = posted + n
      <4>1. k + 1 + 1 = k + 2 /\ ~(k + 1 <= k) /\ k + 1 \in 1 .. k + 1
        BY <1>3
      <4>2. QED
        BY <1>4, <1>5, <1>6, <2>1, <4>1
    <3>2. QED
      BY <1>2, <3>1
  <2>2. CASE i \in 1 .. k
    <3>1. Pieces'[i] = Pieces[i] /\ longer[i] = start[i] /\ longer[i + 1] = start[i + 1]
      BY <1>3, <1>4, <1>6, <2>2
    <3>2. QED
      BY <1>5, <2>2, <3>1
  <2>3. QED
    BY <1>3, <2>1, <2>2
<1>9. \A i, j \in 1 .. k + 2 : i <= j => longer[i] + (j - i) <= longer[j]
  <2> SUFFICES ASSUME NEW i \in 1 .. k + 2, NEW j \in 1 .. k + 2, i <= j
               PROVE  longer[i] + (j - i) <= longer[j]
    OBVIOUS
  <2>1. CASE j \in 1 .. k + 1
    <3>1. i \in 1 .. k + 1
      BY <1>3, <2>1
    <3>2. start[i] + (j - i) <= start[j]
      BY <1>5, <2>1, <3>1
    <3>3. QED
      BY <1>6, <2>1, <3>1, <3>2
  <2>2. CASE i = k + 2
    BY <1>1, <1>2, <1>3, <1>6, <2>2
  <2>3. CASE i \in 1 .. k + 1 /\ j = k + 2
    <3>1. start[i] + ((k + 1) - i) <= start[k + 1] /\ start[i] \in Nat
      <4>1. k + 1 \in 1 .. k + 1 /\ i \in 1 .. k + 1 /\ i <= k + 1
        BY <1>3, <2>3
      <4>2. \A m \in 1 .. k + 1 : i <= m => start[i] + (m - i) <= start[m]
        BY <1>5, <4>1
      <4>3. start[i] + ((k + 1) - i) <= start[k + 1]
        BY <4>1, <4>2
      <4>4. start[i] \in Nat
        BY <1>5, <4>1
      <4>5. QED
        BY <4>3, <4>4
    <3>2. longer[i] = start[i] /\ longer[j] = start[k + 1] + n /\ start[k + 1] \in Nat
      BY <1>1, <1>3, <1>5, <1>6, <2>3
    <3>3. start[i] + (k + 2 - i) <= start[k + 1] + n
      BY <1>2, <1>3, <2>3, <3>1, <3>2
    <3>4. j - i = k + 2 - i
      BY <1>3, <2>3
    <3>5. QED
      BY <3>2, <3>3, <3>4
  <2>4. QED
    BY <1>3, <2>1, <2>2, <2>3
<1>10. LaidAs(longer)'
  <2>1. k + 1 + 1 = k + 2
    BY <1>3
  <2>2. longer[Outstanding' + 1] = posted'
    BY <1>1, <1>3, <1>6, <2>1
  <2>3. QED
    <3>1. /\ longer \in [1 .. Outstanding' + 1 -> Nat]
          /\ longer[1] + m_size' = written'
      BY <1>1, <1>3, <1>6, <1>7, <2>1
    <3>2. \A i \in 1 .. Outstanding' :
             Pieces'[i] \in Nat \ {0} /\ longer[i + 1] = longer[i] + Pieces'[i]
      BY <1>3, <1>8
    <3>3. \A i, j \in 1 .. Outstanding' + 1 : i <= j => longer[i] + (j - i) <= longer[j]
      BY <1>3, <1>9, <2>1
    <3>4. QED
      BY <2>2, <3>1, <3>2, <3>3 DEF LaidAs
<1>11. QED
  BY <1>6, <1>10 DEF k
-----------------------------------------------------------------------------
\* A completion takes the first piece, of at least a byte, out of the ring.
LEMMA ReadLaid ==
    ASSUME TypeOK, ProcessSend, m_bConnected', NEW start, LaidAs(start)
    PROVE  \E shorter : /\ LaidAs(shorter)'
                        /\ \A i \in 1 .. Outstanding : shorter[i] = start[i + 1]
<1> DEFINE k == Outstanding - 1
           bytes == Head(completions).length
<1>1. /\ Len(requests) \in Nat /\ Len(completions) \in Nat \ {0} /\ m_size \in Nat
      /\ completions' = Tail(completions) /\ bytes = completions[1].length
      /\ Len(Tail(completions)) = Len(completions) - 1
      /\ \A i \in 1 .. Len(completions) - 1 : Tail(completions)[i] = completions[i + 1]
      /\ UNCHANGED <<requests, written, posted>>
  <2>1. /\ completions # <<>> /\ completions \in Seq(Requests) /\ requests \in Seq(Requests)
        /\ m_size \in Nat /\ completions' = Tail(completions) /\ OnReadBuffer(bytes)
        /\ UNCHANGED <<postVars, requests>>
    <3>1. m_size \in 0 .. BUFFER_SIZE /\ completions \in Seq(Requests) /\ requests \in Seq(Requests)
      BY DEF TypeOK
    <3>2. m_size \in Nat
      BY <3>1, Sizes
    <3>3. /\ completions # <<>> /\ completions' = Tail(completions)
          /\ OnReadBuffer(bytes) /\ UNCHANGED <<postVars, requests>>
      BY DEF ProcessSend
    <3>4. QED
      BY <3>1, <3>2, <3>3
  <2>2. UNCHANGED <<requests, written, posted>>
    BY <2>1 DEF OnReadBuffer, postVars
  <2>3. Head(completions) = completions[1]
    BY <2>1, Tails
  <2>4. QED
    BY <2>1, <2>2, <2>3, Tails, LenProperties
<1>2. m_size' = m_size - bytes
  BY DEF ProcessSend, OnReadBuffer
<1>3. /\ k \in Nat /\ Outstanding = k + 1 /\ Outstanding' = k
      /\ k + 1 = Len(requests) + Len(completions)
  BY <1>1 DEF Outstanding
<1>4. Pieces' = [i \in 1 .. k |-> Pieces[i + 1]] /\ Pieces[1] = bytes
  <2>1. Pieces' = [i \in 1 .. k |->
           IF i <= Len(completions) - 1 THEN Tail(completions)[i].length
                                    ELSE requests[i - (Len(completions) - 1)].length]
    BY <1>1, <1>3 DEF Pieces
  <2>2. ASSUME NEW i \in 1 .. k
        PROVE  Pieces'[i] = Pieces[i + 1]
    <3>1. i + 1 \in 1 .. Outstanding /\ (i + 1) - Len(completions) = i - (Len(completions) - 1)
      BY <1>1, <1>3
    <3>2. Pieces[i + 1] = IF i + 1 <= Len(completions) THEN completions[i + 1].length
                          ELSE requests[(i + 1) - Len(completions)].length
      BY <3>1 DEF Pieces
    <3>3. CASE i <= Len(completions) - 1
      BY <1>1, <1>3, <2>1, <3>2, <3>3
    <3>4. CASE ~(i <= Len(completions) - 1)
      BY <1>1, <1>3, <2>1, <3>1, <3>2, <3>4
    <3>5. QED
      BY <3>3, <3>4
  <2>3. Pieces[1] = bytes
    <3>1. 1 \in 1 .. Outstanding /\ 1 <= Len(completions)
      BY <1>1, <1>3
    <3>2. QED
      BY <1>1, <3>1 DEF Pieces
  <2>4. QED
    BY <2>1, <2>2, <2>3
<1> HIDE DEF k, bytes
<1>5. /\ start \in [1 .. k + 2 -> Nat] /\ start[1] + m_size = written /\ start[k + 2] = posted
      /\ \A i \in 1 .. k + 1 : Pieces[i] \in Nat \ {0} /\ start[i + 1] = start[i] + Pieces[i]
      /\ \A i, j \in 1 .. k + 2 : i <= j => start[i] + (j - i) <= start[j]
  <2>1. k + 1 + 1 = k + 2
    BY <1>3
  <2>2. QED
    BY <1>3, <2>1 DEF LaidAs
<1>6. PICK shorter : /\ shorter \in [1 .. k + 1 -> Nat]
                     /\ \A i \in 1 .. k + 1 : shorter[i] = start[i + 1]
  <2> WITNESS [i \in 1 .. k + 1 |-> start[i + 1]]
  <2>1. \A i \in 1 .. k + 1 : i + 1 \in 1 .. k + 2
    BY <1>3
  <2>2. QED
    BY <1>5, <2>1
<1>7. shorter[1] + m_size' = written'
  <2>1. shorter[1] = start[1] + bytes /\ start[1] \in Nat /\ bytes \in Nat
    <3>1. 1 \in 1 .. k + 1 /\ 1 \in 1 .. k + 2 /\ 1 + 1 = 2
      BY <1>3
    <3>2. shorter[1] = start[2] /\ start[2] = start[1] + Pieces[1]
      BY <1>5, <1>6, <3>1
    <3>3. QED
      BY <1>4, <1>5, <3>1, <3>2
  <2>2. m_size \in Nat /\ start[1] + m_size = written /\ written' = written
    BY <1>1, <1>5
  <2>3. start[1] + bytes + (m_size - bytes) = written
    BY <2>1, <2>2
  <2>4. QED
    BY <1>2, <2>1, <2>2, <2>3
<1>8. shorter[k + 1] = posted'
  BY <1>1, <1>3, <1>5, <1>6
<1>9. \A i \in 1 .. k :
         Pieces'[i] \in Nat \ {0} /\ shorter[i + 1] = shorter[i] + Pieces'[i]
  <2> SUFFICES ASSUME NEW i \in 1 .. k
               PROVE  Pieces'[i] \in Nat \ {0} /\ shorter[i + 1] = shorter[i] + Pieces'[i]
    OBVIOUS
  <2>1. i \in 1 .. k + 1 /\ i + 1 \in 1 .. k + 1
    BY <1>3
  <2>2. Pieces'[i] = Pieces[i + 1] /\ shorter[i] = start[i + 1]
        /\ shorter[i + 1] = start[(i + 1) + 1]
    BY <1>4, <1>6, <2>1
  <2>3. Pieces[i + 1] \in Nat \ {0} /\ start[(i + 1) + 1] = start[i + 1] + Pieces[i + 1]
    BY <1>5, <2>1
  <2>4. QED
    BY <2>2, <2>3
<1>10. ASSUME NEW i \in 1 .. k + 1, NEW j \in 1 .. k + 1, i <= j
       PROVE  shorter[i] + (j - i) <= shorter[j]
  <2>1. i + 1 \in 1 .. k + 2 /\ j + 1 \in 1 .. k + 2 /\ i + 1 <= j + 1
        /\ (j + 1) - (i + 1) = j - i
    BY <1>3, <1>10
  <2>2. start[i + 1] + ((j + 1) - (i + 1)) <= start[j + 1]
    BY <1>5, <2>1
  <2>3. QED
    BY <1>6, <2>1, <2>2
<1>11. LaidAs(shorter)'
  BY <1>3, <1>6, <1>7, <1>8, <1>9, <1>10 DEF LaidAs
<1>12. QED
  BY <1>3, <1>6, <1>11

\* Sending a request does not change the order of the pieces nor their sizes.
LEMMA TransmitLaid ==
    ASSUME TypeOK, Transmit, m_bConnected
    PROVE  Outstanding' = Outstanding /\ Pieces' = Pieces
<1>1. /\ Len(requests) \in Nat \ {0} /\ Len(completions) \in Nat
      /\ requests' = Tail(requests) /\ completions' = Append(completions, requests[1])
      /\ Len(requests') = Len(requests) - 1
      /\ \A i \in 1 .. Len(requests) - 1 : requests'[i] = requests[i + 1]
  BY Tails, LenProperties DEF Transmit, TypeOK
<1>2. /\ Len(completions') = Len(completions) + 1
      /\ \A i \in 1 .. Len(completions) : completions'[i] = completions[i]
      /\ completions'[Len(completions) + 1] = requests[1]
  <2>1. requests[1] \in Requests
    BY <1>1 DEF TypeOK
  <2>2. QED
    BY <1>1, <2>1, Appends DEF TypeOK
<1>3. Outstanding' = Outstanding /\ Outstanding = Len(requests) + Len(completions)
  BY <1>1, <1>2 DEF Outstanding
<1>4. Pieces' = [i \in 1 .. Outstanding |->
         IF i <= Len(completions) + 1 THEN completions'[i].length
                                  ELSE requests'[i - (Len(completions) + 1)].length]
  BY <1>2, <1>3 DEF Pieces
<1>5. ASSUME NEW i \in 1 .. Outstanding
      PROVE  Pieces'[i] = Pieces[i]
  <2>1. Pieces[i] = IF i <= Len(completions) THEN completions[i].length
                                             ELSE requests[i - Len(completions)].length
    BY DEF Pieces
  <2>2. CASE i <= Len(completions)
    BY <1>1, <1>2, <1>4, <2>1, <2>2
  <2>3. CASE i = Len(completions) + 1
    <3>1. i - Len(completions) = 1 /\ ~(i <= Len(completions))
      BY <1>1, <2>3
    <3>2. QED
      BY <1>1, <1>2, <1>4, <2>1, <2>3, <3>1
  <2>4. CASE i > Len(completions) + 1
    <3>1. /\ i - (Len(completions) + 1) \in 1 .. Len(requests) - 1
          /\ (i - (Len(completions) + 1)) + 1 = i - Len(completions)
      BY <1>1, <1>3, <2>4
    <3>2. QED
      BY <1>1, <1>4, <2>1, <2>4, <3>1
  <2>5. QED
    BY <1>1, <1>3, <2>2, <2>3, <2>4
<1>6. Pieces = [i \in 1 .. Outstanding |-> Pieces[i]]
  BY DEF Pieces
<1>7. QED
  BY <1>3, <1>4, <1>5, <1>6

LEMMA SameLaid ==
    ASSUME Laid, m_bConnected, Outstanding' = Outstanding, Pieces' = Pieces,
           UNCHANGED <<m_size, written, posted>>
    PROVE  Laid'
<1>1. PICK start : LaidAs(start)
  BY DEF Laid
<1>2. LaidAs(start)'
  BY <1>1 DEF LaidAs
<1>3. QED
  BY <1>2 DEF Laid

LEMMA StepLaid == TypeOK /\ Laid /\ [Next]_vars => Laid'
<1> SUFFICES ASSUME TypeOK, Laid, [Next]_vars, m_bConnected' PROVE Laid'
  BY DEF Laid
<1> USE DEF queueVars, ringVars, postVars, rioVars
<1>1. m_bConnected
  BY DEF Next, Core, Send, SendDeferred, SendSkipped, Dequeue, DequeueStops,
     Post, PostDone, Flush, FlushDone, SendCommit, ProcessSend, OtherDisconnect, DispatchDone,
     Transmit, RegisterSend, RegisterSendFails, DisconnectInDeferredSend, vars, OnReadBuffer, TypeOK
<1>2. PICK start : LaidAs(start)
  BY <1>1 DEF Laid
<1>3. CASE UNCHANGED <<requests, completions, m_size, written, posted>>
  BY <1>1, <1>3, SameLaid DEF Outstanding, Pieces
<1>4. CASE Dequeue
  <2> DEFINE size == Head(m_sendBufQueue)
  <2>1. size \in Nat
    BY <1>4, Tails, Sizes DEF Dequeue, TypeOK
  <2>2. /\ m_size' = m_size + size /\ written' = written + size
        /\ UNCHANGED <<requests, completions, posted>>
    BY <1>4 DEF Dequeue, WriteBuffer
  <2>3. Outstanding' = Outstanding /\ Pieces' = Pieces
    BY <2>2 DEF Outstanding, Pieces
  <2>4. m_size \in Nat /\ Outstanding \in Nat /\ start[1] \in Nat /\ start[1] + m_size = written
    <3>1. Outstanding \in Nat /\ m_size \in Nat
      BY SizesTyped, Sizes DEF TypeOK
    <3>2. 1 \in 1 .. Outstanding + 1
      BY <3>1
    <3>3. QED
      BY <1>2, <3>1, <3>2 DEF LaidAs
  <2> HIDE DEF size
  <2>5. start[1] + m_size' = written'
    BY <2>1, <2>2, <2>4
  <2>6. LaidAs(start)'
    BY <1>2, <2>2, <2>3, <2>5 DEF LaidAs
  <2>7. QED
    BY <2>6 DEF Laid
<1>5. CASE RegisterSend /\ GetSendDataSize > 0
  BY <1>2, <1>5, PostLaid DEF Laid
<1>6. CASE ProcessSend
  BY <1>2, <1>6, ReadLaid DEF Laid
<1>7. CASE Transmit
  <2>1. UNCHANGED <<m_size, written, posted>>
    BY <1>7 DEF Transmit
  <2>2. QED
    BY <1>1, <1>7, <2>1, TransmitLaid, SameLaid
<1>8. CASE Post
  BY <1>3, <1>5, <1>8 DEF Post, RegisterSendFails
<1>9. CASE Flush
  BY <1>3, <1>5, <1>9 DEF Flush, RegisterSendFails
<1>10. CASE \/ Send \/ SendDeferred \/ SendSkipped \/ DequeueStops \/ PostDone \/ FlushDone
            \/ SendCommit \/ OtherDisconnect \/ DispatchDone
  BY <1>3, <1>10 DEF Send, SendDeferred, SendSkipped, DequeueStops, Goto, PostDone, FlushDone,
     SendCommit, OtherDisconnect, DispatchDone
<1>11. CASE UNCHANGED vars
  BY <1>3, <1>11 DEF vars
<1>12. QED
  BY <1>4, <1>6, <1>7, <1>8, <1>9, <1>10, <1>11 DEF Next, Core

LEMMA InitLaid == Init => Laid
<1> SUFFICES ASSUME Init PROVE Laid
  OBVIOUS
<1>1. Outstanding = 0
  BY DEF Init, Outstanding
<1>2. LaidAs([i \in 1 .. 1 |-> 0])
  <2> DEFINE start == [i \in 1 .. 1 |-> 0]
  <2>1. start \in [1 .. 1 -> Nat] /\ start[1] = 0
    OBVIOUS
  <2> HIDE DEF start
  <2>2. 1 .. Outstanding = {} /\ Outstanding + 1 = 1
    BY <1>1
  <2>3. \A i, j \in 1 .. 1 : start[i] + (j - i) <= start[j]
    BY <2>1
  <2>4. start[1] + m_size = written /\ start[1] = posted
    BY <2>1 DEF Init
  <2>5. LaidAs(start)
    BY <2>1, <2>2, <2>3, <2>4 DEF LaidAs
  <2>6. QED
    BY <2>5 DEF start
<1>3. QED
  BY <1>2 DEF Laid

LEMMA InitUInv == ASSUME PacketsFit, Init PROVE UInv
<1>1. TypeOK
  BY InitTypeOK
<1>2. UnsentIsExact
  BY DEF Init, UnsentIsExact, GetSendDataSize
<1>3. RoomForOne
  BY Sizes DEF Init, RoomForOne, PacketsFit
<1>4. Laid
  BY InitLaid
<1>5. QED
  BY <1>1, <1>2, <1>3, <1>4 DEF UInv

\* If the packets are as small as PacketsFit says, the ring's positions tell
\* the bytes that are not posted, for every size: the ring never fills up with
\* data that is taken for none.
THEOREM UnsentIsExactAlways == ASSUME PacketsFit PROVE Spec => []UnsentIsExact
<1>1. Init => UInv
  BY InitUInv
<1>2. UInv /\ [Next]_vars => UInv'
  <2> SUFFICES ASSUME UInv, [Next]_vars PROVE UInv'
    OBVIOUS
  <2>1. TypeOK'
    BY StepTypeOK DEF UInv
  <2>2. UnsentIsExact'
    BY StepUnsent
  <2>3. RoomForOne'
    BY <2>1, <2>2, StepRoom
  <2>4. Laid'
    BY StepLaid DEF UInv
  <2>5. QED
    BY <2>1, <2>2, <2>3, <2>4 DEF UInv
<1>3. UInv => UnsentIsExact
  BY DEF UInv
<1>4. QED
  BY <1>1, <1>2, <1>3, PTL DEF Spec
-----------------------------------------------------------------------------
\* The cell k bytes behind the head.
BackOf(head, k) == IF k <= head THEN head - k ELSE head + BUFFER_SIZE - k
Back(k) == BackOf(m_headPos, k)

\* The ring holds the last m_size bytes copied to it.
RingHolds == \A k \in 1 .. m_size : m_buffer[Back(k)] = written - k

\* due says how many bytes were given when each packet in the queue was, the
\* next to be copied first.
DueAs(due) ==
    /\ due \in [1 .. Len(m_sendBufQueue) + 1 -> Nat]
    /\ due[1] = written
    /\ due[Len(m_sendBufQueue) + 1] = produced
    /\ \A i \in 1 .. Len(m_sendBufQueue) : due[i + 1] = due[i] + m_sendBufQueue[i]
    /\ \A i, j \in 1 .. Len(m_sendBufQueue) + 1 : i <= j => due[i] <= due[j]

Due == \E due : DueAs(due)

\* Where each request points, and what has left: all before the first of them.
PlacedAs(start) ==
    /\ posted <= written
    /\ m_sendPos = Back(written - posted)
    /\ \A i \in 1 .. Len(requests) :
          requests[i].offset = Back(written - start[Len(completions) + i])
    /\ wire = [b \in 1 .. start[Len(completions) + 1] |-> b - 1]

Placed == m_bConnected => \E start : LaidAs(start) /\ PlacedAs(start)

StreamInv == TypeOK /\ RingHolds /\ Due /\ Placed
-----------------------------------------------------------------------------
\* A cell stays as far behind the head as the head moves away from it.
LEMMA BackMoves ==
    ASSUME NEW h \in Cells, NEW n \in 0 .. BUFFER_SIZE, NEW k \in n .. BUFFER_SIZE
    PROVE  BackOf((h + n) % BUFFER_SIZE, k) = BackOf(h, k - n)
<1> DEFINE g == (h + n) % BUFFER_SIZE
<1>1. g = IF h + n < BUFFER_SIZE THEN h + n ELSE h + n - BUFFER_SIZE
  BY ModOnce
<1>2. BUFFER_SIZE \in Nat /\ h \in Nat /\ h < BUFFER_SIZE /\ n \in Nat /\ k \in Nat
      /\ n <= k /\ k <= BUFFER_SIZE
  BY Sizes DEF Cells
<1> HIDE DEF g
<1>3. BackOf(g, k) = BackOf(h, k - n)
  BY <1>1, <1>2 DEF BackOf
<1>4. QED
  BY <1>3 DEF g

LEMMA BackTyped ==
    ASSUME NEW h \in Cells, NEW k \in 0 .. BUFFER_SIZE
    PROVE  BackOf(h, k) \in Cells
BY Sizes DEF Cells, BackOf

\* How far the cell k behind the head is ahead of it.
LEMMA AheadOfBack ==
    ASSUME TypeOK, NEW k \in 1 .. BUFFER_SIZE
    PROVE  Ahead(Back(k)) = BUFFER_SIZE - k
<1>1. /\ BUFFER_SIZE \in Nat \ {0} /\ m_headPos \in Nat /\ m_headPos < BUFFER_SIZE
      /\ k \in Nat /\ 1 <= k /\ k <= BUFFER_SIZE
  BY Sizes DEF TypeOK, Cells
<1>2. \A y \in 0 .. BUFFER_SIZE - 1 : y % BUFFER_SIZE = y
  BY <1>1
<1>3. \A y \in BUFFER_SIZE .. 2 * BUFFER_SIZE - 1 : y % BUFFER_SIZE = y - BUFFER_SIZE
  BY <1>1
<1>4. CASE k <= m_headPos
  <2>1. Back(k) + BUFFER_SIZE - m_headPos = BUFFER_SIZE - k
    BY <1>1, <1>4 DEF Back, BackOf
  <2>2. QED
    BY <1>1, <1>2, <2>1 DEF Ahead
<1>5. CASE ~(k <= m_headPos)
  <2>1. Back(k) + BUFFER_SIZE - m_headPos = 2 * BUFFER_SIZE - k
    BY <1>1, <1>5 DEF Back, BackOf
  <2>2. QED
    BY <1>1, <1>3, <2>1 DEF Ahead
<1>6. QED
  BY <1>4, <1>5

\* WriteBuffer keeps what the ring holds and adds the packet behind the head.
LEMMA WriteHolds ==
    ASSUME TypeOK, RingHolds, NEW n \in 1 .. BUFFER_SIZE, n <= BUFFER_SIZE - m_size,
           WriteBuffer(n)
    PROVE  RingHolds'
<1>1. /\ BUFFER_SIZE \in Nat /\ n \in Nat /\ m_size \in Nat /\ written \in Nat
      /\ m_headPos \in Cells /\ 1 <= n /\ m_size + n <= BUFFER_SIZE
      /\ m_headPos' = (m_headPos + n) % BUFFER_SIZE
      /\ m_size' = m_size + n /\ written' = written + n
      /\ m_buffer' = [c \in Cells |-> IF Ahead(c) < n THEN written + Ahead(c)
                                                      ELSE m_buffer[c]]
  BY Sizes DEF WriteBuffer, TypeOK
<1>2. \A k \in n .. BUFFER_SIZE : BackOf(m_headPos', k) = BackOf(m_headPos, k - n)
  BY <1>1, BackMoves
<1> SUFFICES ASSUME NEW k \in 1 .. m_size + n
             PROVE  m_buffer'[BackOf(m_headPos', k)] = written + n - k
  BY <1>1 DEF RingHolds, Back
<1>3. CASE k > n
  <2>1. k - n \in 1 .. m_size /\ k - n \in 1 .. BUFFER_SIZE /\ k \in n .. BUFFER_SIZE
    BY <1>1, <1>3
  <2>2. BackOf(m_headPos', k) = Back(k - n) /\ Back(k - n) \in Cells
    BY <1>1, <1>2, <2>1, BackTyped DEF Back
  <2>3. Ahead(Back(k - n)) = BUFFER_SIZE - (k - n)
    BY <2>1, AheadOfBack
  <2>4. ~(Ahead(Back(k - n)) < n)
    BY <1>1, <2>1, <2>3
  <2>5. m_buffer'[Back(k - n)] = m_buffer[Back(k - n)]
    BY <1>1, <2>2, <2>4
  <2>6. m_buffer[Back(k - n)] = written - (k - n)
    BY <2>1 DEF RingHolds
  <2>7. QED
    BY <1>1, <2>1, <2>2, <2>5, <2>6
<1>4. CASE k <= n
  <2>1. k \in 1 .. BUFFER_SIZE /\ n - k \in 0 .. BUFFER_SIZE - 1
    BY <1>1, <1>4
  <2>2. m_headPos' \in Cells
    <3>1. m_headPos + n \in Nat
      BY <1>1 DEF Cells
    <3>2. QED
      BY <1>1, <3>1, ModBelow
  <2>3. BackOf(m_headPos', k) \in Cells
    BY <2>1, <2>2, <1>1, BackTyped
  <2>4. Ahead(BackOf(m_headPos', k)) = n - k
    <3>1. m_headPos' = IF m_headPos + n < BUFFER_SIZE THEN m_headPos + n
                                                      ELSE m_headPos + n - BUFFER_SIZE
      BY <1>1, ModOnce
    <3>2. \A y \in 0 .. BUFFER_SIZE - 1 : y % BUFFER_SIZE = y
      BY Sizes
    <3>3. \A y \in BUFFER_SIZE .. 2 * BUFFER_SIZE - 1 : y % BUFFER_SIZE = y - BUFFER_SIZE
      BY Sizes
    <3> DEFINE y == BackOf(m_headPos', k) + BUFFER_SIZE - m_headPos
    <3>4. y = n - k \/ (y = n - k + BUFFER_SIZE)
      BY <1>1, <1>4, <2>1, <3>1 DEF BackOf, Cells
    <3>5. y % BUFFER_SIZE = n - k
      BY <1>1, <2>1, <3>2, <3>3, <3>4
    <3>6. QED
      BY <3>5 DEF Ahead
  <2>5. QED
    BY <1>1, <1>4, <2>3, <2>4
<1>5. QED
  BY <1>1, <1>3, <1>4

\* Only the queue of packets moves the bytes that are due.
LEMMA SendDue == TypeOK /\ Due /\ Send => Due'
<1> SUFFICES ASSUME TypeOK, Due, Send PROVE Due'
  OBVIOUS
<1>1. PICK due : DueAs(due)
  BY DEF Due
<1>2. PICK size \in 1 .. MaxPacket :
         m_sendBufQueue' = Append(m_sendBufQueue, size) /\ produced' = produced + size
  BY DEF Send
<1> DEFINE k == Len(m_sendBufQueue)
<1>3. /\ k \in Nat /\ Len(m_sendBufQueue') = k + 1 /\ size \in Nat
      /\ produced \in Nat /\ written' = written
      /\ \A i \in 1 .. k : m_sendBufQueue'[i] = m_sendBufQueue[i]
      /\ m_sendBufQueue'[k + 1] = size
  BY <1>2, Appends, Sizes DEF Send, TypeOK, ringVars
<1>4. /\ due \in [1 .. k + 1 -> Nat] /\ due[1] = written /\ due[k + 1] = produced
      /\ \A i \in 1 .. k : due[i + 1] = due[i] + m_sendBufQueue[i]
      /\ \A i, j \in 1 .. k + 1 : i <= j => due[i] <= due[j]
  BY <1>1 DEF DueAs
<1> HIDE DEF k
<1>5. PICK longer : /\ longer \in [1 .. k + 2 -> Nat]
                    /\ \A i \in 1 .. k + 1 : longer[i] = due[i]
                    /\ longer[k + 2] = produced + size
  <2> WITNESS [i \in 1 .. k + 2 |-> IF i <= k + 1 THEN due[i] ELSE produced + size]
  <2>1. QED
    BY <1>3, <1>4
<1>6. longer[1] = written' /\ longer[k + 2] = produced'
  BY <1>2, <1>3, <1>4, <1>5
<1>7. ASSUME NEW i \in 1 .. k + 1
      PROVE  longer[i + 1] = longer[i] + m_sendBufQueue'[i]
  <2>1. CASE i \in 1 .. k
    <3>1. i + 1 \in 1 .. k + 1
      BY <1>3, <2>1
    <3>2. QED
      BY <1>3, <1>4, <1>5, <2>1, <3>1
  <2>2. CASE i = k + 1
    <3>1. k + 1 + 1 = k + 2
      BY <1>3
    <3>2. QED
      BY <1>3, <1>4, <1>5, <2>2, <3>1
  <2>3. QED
    BY <1>3, <2>1, <2>2
<1>8. ASSUME NEW i \in 1 .. k + 2, NEW j \in 1 .. k + 2, i <= j
      PROVE  longer[i] <= longer[j]
  <2>1. CASE j \in 1 .. k + 1
    <3>1. i \in 1 .. k + 1
      BY <1>3, <1>8, <2>1
    <3>2. QED
      BY <1>4, <1>5, <1>8, <2>1, <3>1
  <2>2. CASE i \in 1 .. k + 1 /\ j = k + 2
    <3>1. k + 1 \in 1 .. k + 1 /\ i <= k + 1
      BY <1>3, <2>2
    <3>2. due[i] <= due[k + 1] /\ due[i] \in Nat
      BY <1>4, <2>2, <3>1
    <3>3. longer[i] = due[i] /\ longer[j] = produced + size
      BY <1>5, <2>2
    <3>4. QED
      BY <1>3, <1>4, <3>2, <3>3
  <2>3. CASE i = k + 2 /\ j = k + 2
    BY <1>3, <1>5, <2>3
  <2>4. QED
    BY <1>3, <1>8, <2>1, <2>2, <2>3
<1>9. DueAs(longer)'
  <2>1. Len(m_sendBufQueue)' = k + 1 /\ k + 1 + 1 = k + 2
    BY <1>3
  <2>2. QED
    BY <1>5, <1>6, <1>7, <1>8, <2>1 DEF DueAs
<1>10. QED
  BY <1>9 DEF Due

LEMMA DequeueDue == TypeOK /\ Due /\ Dequeue => Due'
<1> SUFFICES ASSUME TypeOK, Due, Dequeue PROVE Due'
  OBVIOUS
<1>1. PICK due : DueAs(due)
  BY DEF Due
<1> DEFINE k == Len(m_sendBufQueue) - 1
<1>2. /\ k \in Nat /\ Len(m_sendBufQueue) = k + 1 /\ Len(m_sendBufQueue') = k
      /\ produced' = produced /\ written' = written + m_sendBufQueue[1]
      /\ \A i \in 1 .. k : m_sendBufQueue'[i] = m_sendBufQueue[i + 1]
  BY Tails DEF Dequeue, WriteBuffer, TypeOK
<1> HIDE DEF k
<1>3. /\ due \in [1 .. k + 2 -> Nat] /\ due[1] = written /\ due[k + 2] = produced
      /\ \A i \in 1 .. k + 1 : due[i + 1] = due[i] + m_sendBufQueue[i]
      /\ \A i, j \in 1 .. k + 2 : i <= j => due[i] <= due[j]
  <2>1. k + 1 + 1 = k + 2
    BY <1>2
  <2>2. QED
    BY <1>1, <1>2, <2>1 DEF DueAs
<1>4. PICK shorter : /\ shorter \in [1 .. k + 1 -> Nat]
                     /\ \A i \in 1 .. k + 1 : shorter[i] = due[i + 1]
  <2> WITNESS [i \in 1 .. k + 1 |-> due[i + 1]]
  <2>1. \A i \in 1 .. k + 1 : i + 1 \in 1 .. k + 2
    BY <1>2
  <2>2. QED
    BY <1>3, <2>1
<1>5. shorter[1] = written' /\ shorter[k + 1] = produced'
  <2>1. 1 \in 1 .. k + 1 /\ k + 1 \in 1 .. k + 1 /\ k + 1 + 1 = k + 2
    BY <1>2
  <2>2. shorter[1] = due[1] + m_sendBufQueue[1]
    BY <1>3, <1>4, <2>1
  <2>3. QED
    BY <1>2, <1>3, <1>4, <2>1, <2>2
<1>6. ASSUME NEW i \in 1 .. k
      PROVE  shorter[i + 1] = shorter[i] + m_sendBufQueue'[i]
  <2>1. i \in 1 .. k + 1 /\ i + 1 \in 1 .. k + 1
    BY <1>2
  <2>2. QED
    BY <1>2, <1>3, <1>4, <2>1
<1>7. ASSUME NEW i \in 1 .. k + 1, NEW j \in 1 .. k + 1, i <= j
      PROVE  shorter[i] <= shorter[j]
  <2>1. i + 1 \in 1 .. k + 2 /\ j + 1 \in 1 .. k + 2 /\ i + 1 <= j + 1
    BY <1>2, <1>7
  <2>2. QED
    BY <1>3, <1>4, <2>1
<1>8. DueAs(shorter)'
  BY <1>2, <1>4, <1>5, <1>6, <1>7 DEF DueAs
<1>9. QED
  BY <1>8 DEF Due
-----------------------------------------------------------------------------
LEMMA StepHolds == TypeOK /\ RingHolds /\ [Next]_vars => RingHolds'
<1> SUFFICES ASSUME TypeOK, RingHolds, [Next]_vars PROVE RingHolds'
  OBVIOUS
<1>1. CASE UNCHANGED ringVars
  BY <1>1 DEF ringVars, RingHolds, Back
<1>2. CASE Dequeue
  <2>1. /\ Head(m_sendBufQueue) \in 1 .. MaxPacket /\ m_size \in 0 .. BUFFER_SIZE
        /\ Head(m_sendBufQueue) <= BUFFER_SIZE - m_size /\ WriteBuffer(Head(m_sendBufQueue))
    BY <1>2, Tails DEF Dequeue, GetFreeSize, TypeOK
  <2>2. PICK n \in 1 .. MaxPacket : n = Head(m_sendBufQueue)
    BY <2>1
  <2>3. n \in 1 .. BUFFER_SIZE /\ n <= BUFFER_SIZE - m_size
    BY <2>1, <2>2, Sizes
  <2>4. QED
    BY <2>1, <2>2, <2>3, WriteHolds
<1>3. CASE ProcessSend
  <2>1. CASE UNCHANGED ringVars
    BY <1>1, <2>1
  <2>2. CASE OnReadBuffer(Head(completions).length)
    <3>1. /\ m_size' = m_size - Head(completions).length
          /\ UNCHANGED <<m_headPos, m_buffer, written>>
      BY <2>2 DEF OnReadBuffer
    <3>2. completions # <<>> /\ completions \in Seq(Requests)
      BY <1>3 DEF ProcessSend, TypeOK
    <3>3. Head(completions).length \in Nat
      <4>1. Head(completions) \in Requests
        BY <3>2, Tails
      <4>2. QED
        BY <4>1, Sizes DEF Requests
    <3>4. m_size \in Nat
      BY Sizes DEF TypeOK
    <3>5. 1 .. m_size' \subseteq 1 .. m_size
      BY <3>1, <3>3, <3>4
    <3>6. QED
      BY <3>1, <3>5 DEF RingHolds, Back
  <2>3. QED
    BY <1>3, <2>1, <2>2 DEF ProcessSend
<1>4. QED
  BY <1>1, <1>2, <1>3 DEF Next, Core, Send, SendDeferred, SendSkipped, DequeueStops, Post,
     PostDone, Flush, FlushDone, SendCommit, OtherDisconnect, DispatchDone, Transmit,
     RegisterSend, RegisterSendFails, vars

LEMMA StepDue == TypeOK /\ Due /\ [Next]_vars => Due'
<1>1. UNCHANGED <<queueVars, written>> /\ Due => Due'
  BY DEF queueVars, Due, DueAs
<1>2. QED
  BY <1>1, SendDue, DequeueDue
     DEF Next, Core, SendDeferred, SendSkipped, DequeueStops, Post, PostDone, Flush,
         FlushDone, SendCommit, OtherDisconnect, DispatchDone, Transmit, ProcessSend,
         OnReadBuffer, RegisterSend, RegisterSendFails, vars, ringVars

\* What is due is at least what was copied.
LEMMA WrittenWasGiven == TypeOK /\ Due => written <= produced
<1> SUFFICES ASSUME TypeOK, NEW due, DueAs(due) PROVE written <= produced
  BY DEF Due
<1>1. Len(m_sendBufQueue) \in Nat
  BY DEF TypeOK
<1>2. 1 \in 1 .. Len(m_sendBufQueue) + 1
      /\ Len(m_sendBufQueue) + 1 \in 1 .. Len(m_sendBufQueue) + 1
      /\ 1 <= Len(m_sendBufQueue) + 1
  BY <1>1
<1>3. QED
  BY <1>2 DEF DueAs

\* Where the pieces in flight lie among the bytes copied.
LEMMA StartsWithin ==
    ASSUME TypeOK, NEW start, LaidAs(start), posted <= written
    PROVE  /\ Outstanding \in Nat /\ written \in Nat /\ posted \in Nat
           /\ m_size \in 0 .. BUFFER_SIZE
           /\ written - posted \in 0 .. m_size
           /\ \A i \in 1 .. Outstanding + 1 :
                 start[i] \in Nat /\ written - start[i] \in 0 .. m_size /\ start[i] <= posted
<1>1. /\ Outstanding \in Nat /\ written \in Nat /\ posted \in Nat
      /\ m_size \in 0 .. BUFFER_SIZE /\ m_size \in Nat
  BY SizesTyped, Sizes DEF TypeOK
<1>2. ASSUME NEW i \in 1 .. Outstanding + 1
      PROVE  start[i] \in Nat /\ start[1] \in Nat /\ start[1] <= start[i] /\ start[i] <= posted
  <2>1. 1 \in 1 .. Outstanding + 1 /\ Outstanding + 1 \in 1 .. Outstanding + 1
        /\ 1 <= i /\ i <= Outstanding + 1
    BY <1>1
  <2>2. start[1] + (i - 1) <= start[i] /\ start[i] + ((Outstanding + 1) - i) <= start[Outstanding + 1]
    BY <2>1 DEF LaidAs
  <2>3. start[i] \in Nat /\ start[1] \in Nat /\ start[Outstanding + 1] = posted
    BY <2>1 DEF LaidAs
  <2>4. QED
    BY <1>1, <2>2, <2>3
<1>3. start[1] + m_size = written
  BY DEF LaidAs
<1>4. start[1] <= posted /\ start[1] \in Nat
  <2>1. 1 \in 1 .. Outstanding + 1
    BY <1>1
  <2>2. QED
    BY <1>2, <2>1
<1>5. QED
  BY <1>1, <1>2, <1>3, <1>4

\* A posted piece starts where the ring's position says and ends before the head.
LEMMA PostPlaced ==
    ASSUME TypeOK, RegisterSend, GetSendDataSize > 0, NEW start, LaidAs(start),
           PlacedAs(start), NEW longer,
           \A i \in 1 .. Outstanding + 1 : longer[i] = start[i]
    PROVE  PlacedAs(longer)'
<1> DEFINE n == GetChunkSendSize
           k == Len(requests)
           c == Len(completions)
           u == written - posted
<1>1. /\ u \in 0 .. m_size /\ m_size \in 0 .. BUFFER_SIZE /\ posted <= written
      /\ written \in Nat /\ posted \in Nat
      /\ \A i \in 1 .. Outstanding + 1 : start[i] \in Nat
  BY StartsWithin DEF PlacedAs
<1>2. /\ u \in 0 .. BUFFER_SIZE /\ BUFFER_SIZE \in Nat \ {0}
      /\ m_headPos \in Nat /\ m_headPos < BUFFER_SIZE
      /\ m_sendPos \in Nat /\ m_sendPos < BUFFER_SIZE
  BY <1>1, Sizes DEF TypeOK, Cells
<1>3. /\ m_sendPos = IF u <= m_headPos THEN m_headPos - u ELSE m_headPos + BUFFER_SIZE - u
      /\ m_headPos # m_sendPos
      /\ n = IF m_headPos >= m_sendPos THEN m_headPos - m_sendPos ELSE BUFFER_SIZE - m_sendPos
  <2>1. m_sendPos = BackOf(m_headPos, u)
    BY DEF PlacedAs, Back
  <2>2. m_headPos # m_sendPos
    BY <1>2 DEF GetSendDataSize
  <2>3. n = IF m_headPos >= m_sendPos THEN m_headPos - m_sendPos ELSE BUFFER_SIZE - m_sendPos
    BY DEF GetChunkSendSize
  <2> HIDE DEF u, n
  <2>4. QED
    BY <2>1, <2>2, <2>3 DEF BackOf
<1>4. /\ m_sendPos' = (m_sendPos + n) % BUFFER_SIZE /\ posted' = posted + n
      /\ requests' = Append(requests, [offset |-> m_sendPos, length |-> n])
      /\ UNCHANGED <<m_headPos, written, completions, wire>>
  BY DEF RegisterSend, OnSendBuffer, ringVars
<1>5. k \in Nat /\ c \in Nat /\ Outstanding = k + c
  BY DEF TypeOK, Outstanding
<1>6. /\ Len(requests') = k + 1
      /\ \A i \in 1 .. k : requests'[i] = requests[i]
      /\ requests'[k + 1] = [offset |-> m_sendPos, length |-> n]
  BY <1>4 DEF TypeOK
<1> HIDE DEF n, k, c, u
<1>7. n \in 0 .. u /\ BackOf(m_headPos, u - n) = IF m_sendPos + n < BUFFER_SIZE THEN m_sendPos + n
                                                ELSE m_sendPos + n - BUFFER_SIZE
  BY <1>2, <1>3 DEF BackOf
<1>8. m_sendPos' = BackOf(m_headPos, u - n)
  <2>1. n \in 0 .. BUFFER_SIZE /\ m_sendPos \in Cells
    BY <1>2, <1>7 DEF Cells
  <2>2. QED
    BY <1>4, <1>7, <2>1, ModOnce
<1>9. posted' <= written' /\ m_sendPos' = BackOf(m_headPos', written' - posted')
  <2>1. written - (posted + n) = u - n /\ posted + n <= written
    BY <1>1, <1>7 DEF u
  <2>2. QED
    BY <1>4, <1>8, <2>1
<1>10. ASSUME NEW i \in 1 .. k + 1
       PROVE  requests'[i].offset = BackOf(m_headPos, written - longer[c + i])
  <2>1. CASE i \in 1 .. k
    <3>1. c + i \in 1 .. Outstanding + 1
      BY <1>5, <2>1
    <3>2. requests[i].offset = BackOf(m_headPos, written - start[c + i])
      BY <2>1 DEF PlacedAs, Back, k, c
    <3>3. QED
      BY <1>6, <2>1, <3>1, <3>2
  <2>2. CASE i = k + 1
    <3>1. c + i \in 1 .. Outstanding + 1 /\ c + i = Outstanding + 1
      BY <1>5, <2>2
    <3>2. longer[c + i] = posted
      BY <3>1 DEF LaidAs
    <3>3. m_sendPos = BackOf(m_headPos, written - posted)
      BY DEF PlacedAs, Back
    <3>4. QED
      BY <1>6, <2>2, <3>2, <3>3
  <2>3. QED
    BY <1>5, <2>1, <2>2
<1>11. wire' = [b \in 1 .. longer[c + 1] |-> b - 1]
  <2>1. c + 1 \in 1 .. Outstanding + 1
    BY <1>5
  <2>2. longer[c + 1] = start[c + 1]
    BY <2>1
  <2>3. QED
    BY <1>4, <2>2 DEF PlacedAs, c
<1>12. /\ \A i \in 1 .. Len(requests') :
             requests'[i].offset = BackOf(m_headPos', written' - longer[Len(completions') + i])
       /\ wire' = [b \in 1 .. longer[Len(completions') + 1] |-> b - 1]
  <2>1. Len(completions') = c /\ Len(requests') = k + 1
    BY <1>4, <1>6 DEF c
  <2>2. QED
    BY <1>4, <1>10, <1>11, <2>1
<1>13. QED
  BY <1>9, <1>12 DEF PlacedAs, Back

\* The piece that is dequeued takes its place in start with it.
LEMMA ReadPlaced ==
    ASSUME TypeOK, ProcessSend, NEW start, PlacedAs(start), NEW shorter,
           \A i \in 1 .. Outstanding : shorter[i] = start[i + 1]
    PROVE  PlacedAs(shorter)'
<1> DEFINE k == Len(requests)
           c == Len(completions)
<1>1. /\ completions # <<>> /\ completions \in Seq(Requests) /\ completions' = Tail(completions)
      /\ requests' = requests /\ requests \in Seq(Requests)
      /\ UNCHANGED <<m_headPos, m_sendPos, written, posted, wire>>
  BY DEF ProcessSend, TypeOK, ringVars, postVars, OnReadBuffer
<1>2. k \in Nat /\ c \in Nat \ {0} /\ Len(completions') = c - 1 /\ Outstanding = k + c
  BY <1>1, Tails DEF Outstanding
<1> HIDE DEF k, c
<1>3. \A i \in 1 .. k + 1 : shorter[c - 1 + i] = start[c + i]
  <2> SUFFICES ASSUME NEW i \in 1 .. k + 1 PROVE shorter[c - 1 + i] = start[c + i]
    OBVIOUS
  <2>0. CASE i \in 1 .. k
    <3>1. c - 1 + i \in 1 .. Outstanding /\ (c - 1 + i) + 1 = c + i
      BY <1>2, <2>0
    <3>2. QED
      BY <3>1
  <2>1. CASE i = k + 1
    <3>1. c - 1 + i \in 1 .. Outstanding /\ (c - 1 + i) + 1 = c + i
      BY <1>2, <2>1
    <3>2. QED
      BY <3>1
  <2>2. QED
    BY <1>2, <2>0, <2>1
<1>4. 1 \in 1 .. k + 1 /\ \A i \in 1 .. k : i \in 1 .. k + 1
  BY <1>2
<1>5. /\ posted <= written /\ m_sendPos = Back(written - posted)
      /\ \A i \in 1 .. k : requests[i].offset = Back(written - start[c + i])
      /\ wire = [b \in 1 .. start[c + 1] |-> b - 1]
  BY DEF PlacedAs, k, c
<1>6. /\ \A i \in 1 .. k : requests[i].offset = Back(written - shorter[c - 1 + i])
      /\ wire = [b \in 1 .. shorter[c - 1 + 1] |-> b - 1]
  BY <1>3, <1>4, <1>5
<1>7. \A x : Back(x)' = Back(x)
  BY <1>1 DEF Back
<1>8. QED
  BY <1>1, <1>2, <1>5, <1>6 DEF PlacedAs, Back, k

\* What the first request reads out of the ring are the bytes that come next.
LEMMA SendsNext ==
    ASSUME TypeOK, RingHolds, Transmit, m_bConnected,
           NEW start, LaidAs(start), PlacedAs(start)
    PROVE  /\ wire' = [b \in 1 .. start[Len(completions) + 2] |-> b - 1]
           /\ Len(wire) = start[Len(completions) + 1]
           /\ start[Len(completions) + 2] > start[Len(completions) + 1]
<1> DEFINE c == Len(completions)
           s == start[c + 1]
           n == requests[1].length
           f == requests[1].offset
           sent == [i \in 1 .. n |-> m_buffer[(f + i - 1) % BUFFER_SIZE]]
<1>1. /\ requests # <<>> /\ requests \in Seq(Requests) /\ Len(requests) \in Nat \ {0} /\ c \in Nat
      /\ Head(requests) = requests[1] /\ requests[1] \in Requests
      /\ f + n <= BUFFER_SIZE
  <2>1. requests # <<>> /\ requests \in Seq(Requests) /\ completions \in Seq(Requests)
    BY DEF Transmit, TypeOK
  <2>2. Head(requests) = requests[1] /\ Len(requests) \in Nat \ {0} /\ requests[1] \in Requests
    BY <2>1, Tails
  <2>3. 1 \in DOMAIN requests
    BY <2>1, <2>2
  <2>4. QED
    BY <2>1, <2>2, <2>3 DEF TypeOK
<1>2. wire' = wire \o sent
  BY <1>1 DEF Transmit
<1>3. Outstanding = Len(requests) + c /\ c + 1 \in 1 .. Outstanding
  BY <1>1 DEF Outstanding
<1>4. Pieces[c + 1] = n
  <2>1. ~(c + 1 <= c) /\ (c + 1) - c = 1
    BY <1>1
  <2>2. QED
    BY <1>3, <2>1 DEF Pieces
<1>5. n \in Nat \ {0} /\ start[c + 2] = s + n
  <2>1. (c + 1) + 1 = c + 2
    BY <1>1
  <2>2. QED
    BY <1>3, <1>4, <2>1 DEF LaidAs
<1>6. /\ m_size \in 0 .. BUFFER_SIZE /\ written \in Nat
      /\ s \in Nat /\ written - s \in 0 .. m_size
      /\ start[c + 2] \in Nat /\ written - start[c + 2] \in 0 .. m_size
  <2>1. c + 1 \in 1 .. Outstanding + 1 /\ c + 2 \in 1 .. Outstanding + 1
    BY <1>1, <1>3
  <2>2. QED
    BY <2>1, StartsWithin DEF PlacedAs
<1>7. f = Back(written - s) /\ wire = [b \in 1 .. s |-> b - 1]
  BY <1>1 DEF PlacedAs
<1>8. f \in Nat /\ BUFFER_SIZE \in Nat \ {0} /\ m_headPos \in Nat /\ m_headPos < BUFFER_SIZE
  <2>1. f \in Cells /\ m_headPos \in Cells
    BY <1>1 DEF Requests, TypeOK
  <2> HIDE DEF f
  <2>2. QED
    BY <2>1, Sizes DEF Cells
<1> HIDE DEF c, s, n, f
<1>9. ASSUME NEW i \in 1 .. n
      PROVE  sent[i] = s + i - 1
  <2>1. f + i - 1 \in 0 .. BUFFER_SIZE - 1
    BY <1>1, <1>5, <1>8
  <2>2. (f + i - 1) % BUFFER_SIZE = f + i - 1
    BY <1>8, <2>1
  <2>3. written - s - (i - 1) \in 1 .. m_size
    BY <1>5, <1>6
  <2>4. Back(written - s - (i - 1)) = f + i - 1
    BY <1>5, <1>6, <1>7, <1>8, <2>1 DEF Back, BackOf
  <2>5. m_buffer[f + i - 1] = written - (written - s - (i - 1))
    BY <2>3, <2>4 DEF RingHolds
  <2>6. QED
    BY <1>5, <1>6, <2>2, <2>5
<1>10. Len(wire) = s /\ wire \in Seq(Nat) /\ \A b \in 1 .. s : wire[b] = b - 1
  BY <1>6, <1>7 DEF TypeOK
<1>11. Len(sent) = n /\ \A i \in 1 .. n : sent[i] = s + i - 1
  BY <1>5, <1>9
<1>12. wire' = [b \in 1 .. s + n |-> b - 1]
  <2>1. wire \o sent = [b \in 1 .. s + n |-> IF b <= s THEN wire[b] ELSE sent[b - s]]
    <3>1. sent \in Seq(Int)
      BY <1>5, <1>6, <1>9
    <3> HIDE DEF sent
    <3>2. wire \in Seq(Int)
      BY <1>10
    <3>3. /\ wire \o sent \in Seq(Int) /\ Len(wire \o sent) = s + n
          /\ \A b \in 1 .. s + n :
                (wire \o sent)[b] = IF b <= s THEN wire[b] ELSE sent[b - s]
      BY <1>10, <1>11, <3>1, <3>2, ConcatProperties
    <3> DEFINE both == wire \o sent
    <3> HIDE DEF both
    <3>4. both = [b \in 1 .. s + n |-> both[b]]
      <4>1. both \in Seq(Int) /\ Len(both) = s + n
        BY <3>3 DEF both
      <4>2. QED
        BY <4>1
    <3>5. QED
      BY <3>3, <3>4 DEF both
  <2>2. ASSUME NEW b \in 1 .. s + n, ~(b <= s) PROVE sent[b - s] = b - 1
    <3>1. b - s \in 1 .. n
      BY <1>5, <1>6, <2>2
    <3>2. s + (b - s) - 1 = b - 1
      BY <1>6
    <3>3. QED
      BY <1>11, <3>1, <3>2
  <2> HIDE DEF sent
  <2>3. \A b \in 1 .. s + n : b <= s => wire[b] = b - 1
    BY <1>5, <1>6, <1>10
  <2>4. QED
    BY <1>2, <2>1, <2>2, <2>3
<1>13. QED
  BY <1>5, <1>6, <1>10, <1>12 DEF c, s

\* A sent piece moves from the requests to the completions and keeps its place.
LEMMA TransmitPlaced ==
    ASSUME TypeOK, RingHolds, Transmit, m_bConnected,
           NEW start, LaidAs(start), PlacedAs(start)
    PROVE  PlacedAs(start)'
<1> DEFINE k == Len(requests)
           c == Len(completions)
<1>1. /\ requests # <<>> /\ requests \in Seq(Requests) /\ requests' = Tail(requests)
      /\ UNCHANGED <<m_headPos, m_sendPos, written, posted>>
  BY DEF Transmit, TypeOK, ringVars, postVars
<1>2. /\ k \in Nat \ {0} /\ Len(requests') = k - 1
      /\ \A i \in 1 .. k - 1 : requests'[i] = requests[i + 1]
  BY <1>1, Tails
<1>3. c \in Nat /\ Len(completions') = c + 1
  <2>1. /\ completions \in Seq(Requests)
        /\ \E e : completions' = Append(completions, e)
    BY DEF Transmit, TypeOK
  <2>2. PICK e : completions' = Append(completions, e)
    BY <2>1
  <2>3. completions \in Seq(Requests \cup {e}) /\ e \in Requests \cup {e}
    BY <2>1
  <2>4. QED
    BY <2>2, <2>3, Appends
<1>4. wire' = [b \in 1 .. start[c + 2] |-> b - 1]
  BY SendsNext
<1>5. /\ posted <= written /\ m_sendPos = Back(written - posted)
      /\ \A i \in 1 .. k : requests[i].offset = Back(written - start[c + i])
  BY DEF PlacedAs
<1> HIDE DEF k, c
<1>6. ASSUME NEW i \in 1 .. k - 1
      PROVE  requests'[i].offset = Back(written - start[c + 1 + i])
  <2>1. i + 1 \in 1 .. k /\ c + (i + 1) = c + 1 + i
    BY <1>2, <1>3
  <2>2. QED
    BY <1>2, <1>5, <2>1
<1>7. c + 1 + 1 = c + 2
  BY <1>3
<1>8. \A x : Back(x)' = Back(x)
  BY <1>1 DEF Back
<1>9. QED
  BY <1>1, <1>2, <1>3, <1>4, <1>5, <1>6, <1>7, <1>8 DEF PlacedAs, Back

LEMMA StepPlaced == TypeOK /\ RingHolds /\ Placed /\ [Next]_vars => Placed'
<1> SUFFICES ASSUME TypeOK, RingHolds, Placed, [Next]_vars, m_bConnected' PROVE Placed'
  BY DEF Placed
<1> USE DEF queueVars, ringVars, postVars, rioVars
<1>1. m_bConnected
  BY DEF Next, Core, Send, SendDeferred, SendSkipped, Dequeue, DequeueStops,
     Post, PostDone, Flush, FlushDone, SendCommit, ProcessSend, OtherDisconnect, DispatchDone,
     Transmit, RegisterSend, RegisterSendFails, DisconnectInDeferredSend, vars, OnReadBuffer, TypeOK
<1>2. PICK start : LaidAs(start) /\ PlacedAs(start)
  BY <1>1 DEF Placed
<1>3. CASE UNCHANGED <<requests, completions, m_size, written, posted, m_headPos, m_sendPos, wire>>
  <2>1. Outstanding' = Outstanding /\ Pieces' = Pieces
    BY <1>3 DEF Outstanding, Pieces
  <2>2. LaidAs(start)' /\ PlacedAs(start)'
    BY <1>2, <1>3, <2>1 DEF LaidAs, PlacedAs, Back
  <2>3. QED
    BY <2>2 DEF Placed
<1>4. CASE Dequeue
  <2>1. /\ Head(m_sendBufQueue) \in 1 .. MaxPacket /\ Head(m_sendBufQueue) <= BUFFER_SIZE - m_size
        /\ WriteBuffer(Head(m_sendBufQueue))
        /\ UNCHANGED <<requests, completions, posted, m_sendPos, wire>>
    BY <1>4, Tails DEF Dequeue, GetFreeSize, TypeOK
  <2>2. PICK n \in 1 .. MaxPacket : n = Head(m_sendBufQueue)
    BY <2>1
  <2>3. /\ m_size' = m_size + n /\ written' = written + n /\ n \in Nat /\ n <= BUFFER_SIZE - m_size
        /\ m_headPos' = (m_headPos + n) % BUFFER_SIZE
    BY <2>1, <2>2, Sizes DEF WriteBuffer
  <2>4. /\ Outstanding \in Nat /\ written \in Nat /\ posted \in Nat /\ m_size \in Nat
        /\ m_size <= BUFFER_SIZE /\ posted <= written /\ written - posted \in 0 .. m_size
        /\ \A i \in 1 .. Outstanding + 1 : start[i] \in Nat /\ written - start[i] \in 0 .. m_size
    BY <1>2, StartsWithin, Sizes DEF PlacedAs
  <2>5. \A k \in 0 .. m_size : BackOf(m_headPos', k + n) = Back(k)
    <3>1. m_headPos \in Cells /\ n \in 0 .. BUFFER_SIZE /\ BUFFER_SIZE \in Nat
      BY <2>3, <2>4, Sizes DEF TypeOK
    <3>2. ASSUME NEW k \in 0 .. m_size PROVE k + n \in n .. BUFFER_SIZE /\ (k + n) - n = k
      BY <2>3, <2>4, <3>1
    <3>3. QED
      BY <2>3, <3>1, <3>2, BackMoves DEF Back
  <2>6. Outstanding' = Outstanding /\ Pieces' = Pieces
    BY <2>1 DEF Outstanding, Pieces
  <2>7. LaidAs(start)'
    <3>1. 1 \in 1 .. Outstanding + 1
      BY <2>4
    <3>2. start[1] + m_size = written /\ start[1] \in Nat
      BY <1>2, <2>4, <3>1 DEF LaidAs
    <3>3. m_size' = m_size + n /\ written' = written + n /\ n \in Nat /\ m_size \in Nat
      BY <2>3, <2>4
    <3>4. start[1] + (m_size + n) = written + n
      BY <3>2, <3>3
    <3>5. start[1] + m_size' = written'
      BY <3>3, <3>4
    <3>6. QED
      BY <1>2, <2>1, <2>6, <3>5 DEF LaidAs
  <2>8. posted' <= written' /\ m_sendPos' = BackOf(m_headPos', written' - posted')
    <3>1. written' - posted' = (written - posted) + n /\ posted' <= written'
      BY <2>1, <2>3, <2>4
    <3>2. m_sendPos = Back(written - posted)
      BY <1>2 DEF PlacedAs
    <3>3. QED
      BY <2>1, <2>4, <2>5, <3>1, <3>2
  <2>9. \A i \in 1 .. Len(requests) :
           requests[i].offset = BackOf(m_headPos', written' - start[Len(completions) + i])
    <3> SUFFICES ASSUME NEW i \in 1 .. Len(requests)
                 PROVE  requests[i].offset = BackOf(m_headPos', written' - start[Len(completions) + i])
      OBVIOUS
    <3> DEFINE b == start[Len(completions) + i]
    <3>1. Len(completions) + i \in 1 .. Outstanding + 1
      BY LenProperties DEF Outstanding, TypeOK
    <3>2. b \in Nat /\ written - b \in 0 .. m_size
      BY <2>4, <3>1
    <3>3. requests[i].offset = Back(written - b)
      BY <1>2 DEF PlacedAs
    <3> HIDE DEF b
    <3>4. written' - b = (written - b) + n
      BY <2>3, <2>4, <3>2
    <3>5. requests[i].offset = BackOf(m_headPos', written' - b)
      BY <2>5, <3>2, <3>3, <3>4
    <3>6. QED
      BY <3>5 DEF b
  <2>10. PlacedAs(start)'
    BY <1>2, <2>1, <2>8, <2>9 DEF PlacedAs, Back
  <2>11. QED
    BY <2>7, <2>10 DEF Placed
<1>5. CASE RegisterSend /\ GetSendDataSize > 0
  <2>1. PICK longer : LaidAs(longer)' /\ \A i \in 1 .. Outstanding + 1 : longer[i] = start[i]
    BY <1>2, <1>5, PostLaid
  <2>2. PlacedAs(longer)'
    BY <1>2, <1>5, <2>1, PostPlaced
  <2>3. QED
    BY <2>1, <2>2 DEF Placed
<1>6. CASE ProcessSend
  <2>1. PICK shorter : LaidAs(shorter)' /\ \A i \in 1 .. Outstanding : shorter[i] = start[i + 1]
    BY <1>2, <1>6, ReadLaid
  <2>2. PlacedAs(shorter)'
    BY <1>2, <1>6, <2>1, ReadPlaced
  <2>3. QED
    BY <2>1, <2>2 DEF Placed
<1>7. CASE Transmit
  <2>1. LaidAs(start)'
    <3>1. UNCHANGED <<m_size, written, posted>>
      BY <1>7 DEF Transmit
    <3>2. QED
      BY <1>1, <1>2, <1>7, <3>1, TransmitLaid DEF LaidAs
  <2>2. PlacedAs(start)'
    BY <1>1, <1>2, <1>7, TransmitPlaced
  <2>3. QED
    BY <2>1, <2>2 DEF Placed
<1>8. CASE Post
  BY <1>3, <1>5, <1>8 DEF Post, RegisterSendFails
<1>9. CASE Flush
  BY <1>3, <1>5, <1>9 DEF Flush, RegisterSendFails
<1>10. CASE \/ Send \/ SendDeferred \/ SendSkipped \/ DequeueStops \/ PostDone \/ FlushDone
            \/ SendCommit \/ OtherDisconnect \/ DispatchDone
  BY <1>3, <1>10 DEF Send, SendDeferred, SendSkipped, DequeueStops, Goto, PostDone, FlushDone,
     SendCommit, OtherDisconnect, DispatchDone
<1>11. CASE UNCHANGED vars
  BY <1>3, <1>11 DEF vars
<1>12. QED
  BY <1>4, <1>6, <1>7, <1>8, <1>9, <1>10, <1>11 DEF Next, Core

LEMMA InitStreamInv == Init => StreamInv
<1> SUFFICES ASSUME Init PROVE StreamInv
  OBVIOUS
<1>1. TypeOK
  BY InitTypeOK
<1>2. RingHolds
  BY DEF Init, RingHolds
<1>3. Due
  <2> DEFINE due == [i \in 1 .. 1 |-> 0]
  <2>1. due \in [1 .. 1 -> Nat] /\ due[1] = 0
    OBVIOUS
  <2> HIDE DEF due
  <2>2. Len(m_sendBufQueue) = 0 /\ 1 .. 0 = {} /\ 0 + 1 = 1
    BY DEF Init
  <2>3. \A i, j \in 1 .. 1 : due[i] <= due[j]
    BY <2>1
  <2>4. DueAs(due)
    BY <2>1, <2>2, <2>3 DEF Init, DueAs
  <2>5. QED
    BY <2>4 DEF Due
<1>4. Placed
  <2>1. PICK start : LaidAs(start)
    BY InitLaid DEF Laid, Init
  <2>2. /\ Outstanding = 0 /\ Len(requests) = 0 /\ Len(completions) = 0
        /\ written = 0 /\ posted = 0 /\ m_headPos = 0 /\ m_sendPos = 0
    BY DEF Init, Outstanding
  <2>3. start[1] = 0
    BY <2>1, <2>2 DEF LaidAs
  <2>4. wire = [b \in 1 .. start[0 + 1] |-> b - 1]
    BY <2>3 DEF Init
  <2>5. Back(0) = 0 /\ 0 - 0 = 0
    BY <2>2 DEF Back, BackOf
  <2>6. PlacedAs(start)
    BY <2>2, <2>4, <2>5 DEF PlacedAs
  <2>7. QED
    BY <2>1, <2>6 DEF Placed
<1>5. QED
  BY <1>1, <1>2, <1>3, <1>4 DEF StreamInv
-----------------------------------------------------------------------------
\* A step of the send path gives something, lets the next bytes leave, or does
\* neither.
LEMMA StepStreams ==
    ASSUME StreamInv, [Next]_vars
    PROVE  [Stream!Next]_<<produced, wire>>
<1> USE DEF StreamInv
<1>1. CASE Send
  <2>1. PICK size \in 1 .. MaxPacket : produced' = produced + size
    BY <1>1 DEF Send
  <2>2. produced' \in Nat /\ produced' > produced /\ wire' = wire
    BY <1>1, <2>1, Sizes DEF Send, TypeOK, rioVars
  <2>3. QED
    BY <2>2 DEF Stream!Next, Stream!Give
<1>2. CASE Transmit /\ m_bConnected
  <2>1. PICK start : LaidAs(start) /\ PlacedAs(start)
    BY <1>2 DEF Placed
  <2> DEFINE n == start[Len(completions) + 2]
  <2>2. wire' = [b \in 1 .. n |-> b - 1] /\ n > Len(wire)
    BY <1>2, <2>1, SendsNext
  <2>3. Len(requests) \in Nat \ {0} /\ Len(completions) \in Nat
    BY <1>2, Tails, LenProperties DEF Transmit, TypeOK
  <2>4. Len(completions) + 2 \in 1 .. Outstanding + 1
    BY <2>3 DEF Outstanding
  <2>5. n \in Nat /\ n <= posted /\ posted <= written /\ posted \in Nat /\ written \in Nat
    BY <2>1, <2>4, StartsWithin DEF PlacedAs
  <2>6. written <= produced /\ produced \in Nat
    BY WrittenWasGiven DEF TypeOK
  <2>7. Len(wire) \in Nat
    BY DEF TypeOK
  <2> HIDE DEF n
  <2>8. n \in Len(wire) + 1 .. produced
    BY <2>2, <2>5, <2>6, <2>7
  <2>9. produced' = produced
    BY <1>2 DEF Transmit, queueVars
  <2>10. QED
    BY <2>2, <2>8, <2>9 DEF Stream!Next, Stream!Leave
<1>3. CASE UNCHANGED <<produced, wire>>
  BY <1>3
<1>4. QED
  BY <1>1, <1>2, <1>3 DEF Next, Core, SendDeferred, SendSkipped, Dequeue, DequeueStops, Post,
     PostDone, Flush, FlushDone, SendCommit, OtherDisconnect, DispatchDone, Transmit,
     RegisterSend, RegisterSendFails, ProcessSend, vars, queueVars, rioVars

\* The bytes leave the machine in the order in which Send took them, each once
\* and unchanged, for every size of the ring, of the packets and of RIO's
\* queues: also where PacketsFit fails and the ring gets stuck.
THEOREM StreamRefinement == Spec => StreamSpec
<1>1. StreamInv /\ [Next]_vars => StreamInv'
  BY StepTypeOK, StepHolds, StepDue, StepPlaced DEF StreamInv
<1>2. Init => Stream!Init
  BY DEF Init, Stream!Init
<1>3. StreamInv /\ [Next]_vars => [Stream!Next]_<<produced, wire>>
  BY StepStreams
<1>4. QED
  BY <1>1, <1>2, <1>3, InitStreamInv, PTL DEF Spec, StreamSpec, Stream!Spec
=============================================================================
