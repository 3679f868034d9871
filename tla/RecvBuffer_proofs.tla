------------------------- MODULE RecvBuffer_proofs -------------------------
(***************************************************************************)
(* Theorems about RecvBuffer, for every size of the buffer and every       *)
(* stream of packets smaller than it.                                      *)
(***************************************************************************)
EXTENDS RecvBuffer, TLAPS

\* The packets of the stream, end to end from what is being parsed on.
Framed ==
    /\ \A b \in DOMAIN size : b < sent /\ b + size[b] \in DOMAIN size \cup {sent}
    /\ pc # "ended" => read + processLen \in DOMAIN size \cup {sent}

\* The data lies in one piece, in the order of the stream.
InOrder(n) ==
    /\ m_tailPos + n <= m_capacity
    /\ \A i \in 0 .. n - 1 : m_buffer[m_tailPos + i] = read + i

\* What the ring holds at each point of the receiving.
Laid ==
    /\ pc # "ended" => received = read + m_size + bytes
    /\ pc # "received" => bytes = 0
    /\ pc # "parse" => processLen = 0
    /\ pc \in {"register", "pending", "received"} =>
          m_headPos = m_tailPos + m_size
    /\ pc \in {"register", "pending", "received"} =>
          /\ bytes <= m_capacity - m_headPos
          /\ InOrder(m_size + bytes)
    /\ pc \in {"parse", "adjust"} =>
          /\ InOrder(m_size)
          /\ m_headPos = IF m_tailPos + m_size = m_capacity THEN 0
                         ELSE m_tailPos + m_size
    /\ pc = "parse" => processLen <= m_size
    /\ pc = "adjust" => m_size <= MaxPacket

IInv == TypeOK /\ Framed /\ Laid

\* A position that comes to the end of the ring goes on at its front.
LEMMA WrapAtEnd ==
    ASSUME NEW x \in 0 .. m_capacity
    PROVE  Wrap(x) = IF x = m_capacity THEN 0 ELSE x
  BY SizesAssumption DEF Wrap

LEMMA InitIInv == Init => IInv
  BY SizesAssumption DEF Init, IInv, TypeOK, Framed, Laid, InOrder, Cells

LEMMA SizesOfPackets == \A s \in PacketSizes : s \in Nat \ {0} /\ s \in HEADER .. MaxPacket
  BY SizesAssumption

\* What OnRecv takes for a header is the first byte of a packet.
LEMMA HeaderRead ==
    ASSUME IInv, pc = "parse", processLen < m_size
    PROVE  /\ HeaderByte = read + processLen /\ HeaderByte \in DOMAIN size
           /\ size[HeaderByte] \in HEADER .. MaxPacket
<1>1. HeaderByte = read + processLen
  BY SizesAssumption DEF IInv, TypeOK, Laid, InOrder, HeaderByte
<1>2. read + processLen < sent
  BY SizesAssumption DEF IInv, TypeOK, Laid
<1>3. read + processLen \in DOMAIN size
  BY <1>2 DEF IInv, TypeOK, Framed
<1>4. size[HeaderByte] \in PacketSizes
  BY <1>1, <1>3 DEF IInv, TypeOK
<1>5. QED
  BY <1>1, <1>3, <1>4, SizesOfPackets

\* OnRecv leaves less than a packet.
LEMMA RestIsShort ==
    ASSUME IInv, pc = "parse", ~PacketWhole
    PROVE  m_size - processLen \in 0 .. MaxPacket
<1>1. m_size \in Nat /\ processLen \in Nat /\ processLen <= m_size
  BY DEF IInv, TypeOK, Laid
<1>2. CASE processLen = m_size
  BY <1>1, <1>2, SizesAssumption
<1>3. CASE processLen < m_size
  BY <1>1, <1>3, HeaderRead, SizesAssumption DEF PacketWhole
<1>4. QED
  BY <1>1, <1>2, <1>3

LEMMA StepIInv == IInv /\ [Next]_vars => IInv'
<1> SUFFICES ASSUME IInv, [Next]_vars PROVE IInv'
  OBVIOUS
<1> USE SizesAssumption DEF IInv, Cells
<1>1. ASSUME NEW s \in PacketSizes, PeerSend(s) PROVE IInv'
  <2>1. TypeOK'
    BY <1>1 DEF PeerSend, ringVars, peerVars, TypeOK
  <2>2. Framed'
    <3>1. /\ DOMAIN size' = {c \in DOMAIN size : c >= read} \cup {sent}
          /\ \A b \in DOMAIN size' : size'[b] = IF b = sent THEN s ELSE size[b]
          /\ sent' = sent + s /\ UNCHANGED <<pc, read, processLen>>
      BY <1>1 DEF PeerSend, ringVars
    <3>2. /\ s \in Nat \ {0} /\ sent \in Nat /\ read \in Nat /\ processLen \in Nat
          /\ \A b \in DOMAIN size : b \in Nat /\ size[b] \in Nat
      <4>1. s \in Nat \ {0} /\ (\A t \in PacketSizes : t \in Nat)
        BY SizesOfPackets
      <4>2. /\ sent \in Nat /\ read \in Nat /\ processLen \in Nat
            /\ \A b \in DOMAIN size : b \in 0 .. sent /\ size[b] \in PacketSizes
        BY DEF TypeOK
      <4>3. \A b \in DOMAIN size : b \in Nat
        BY <4>2
      <4>4. \A b \in DOMAIN size : size[b] \in Nat
        BY <4>1, <4>2
      <4>5. QED
        BY <4>1, <4>2, <4>3, <4>4
    <3>3. /\ \A b \in DOMAIN size : b < sent /\ b + size[b] \in DOMAIN size \cup {sent}
          /\ pc # "ended" => read + processLen \in DOMAIN size \cup {sent}
      BY DEF Framed
    <3>4. ASSUME NEW b \in DOMAIN size'
          PROVE  b < sent' /\ b + size'[b] \in DOMAIN size' \cup {sent'}
      <4>1. CASE b = sent
        BY <3>1, <3>2, <4>1
      <4>2. CASE b # sent
        <5>1. b \in DOMAIN size /\ b >= read /\ size'[b] = size[b]
          BY <3>1, <4>2
        <5>2. QED
          BY <3>1, <3>2, <3>3, <5>1
      <4>3. QED
        BY <4>1, <4>2
    <3>5. pc' # "ended" => read' + processLen' \in DOMAIN size' \cup {sent'}
      BY <3>1, <3>2, <3>3
    <3>6. QED
      BY <3>4, <3>5 DEF Framed
  <2>3. Laid'
    BY <1>1 DEF PeerSend, ringVars, peerVars, TypeOK, Framed, Laid, InOrder
  <2>4. QED
    BY <2>1, <2>2, <2>3
<1>2. ASSUME Disconnect PROVE IInv'
  <2>1. TypeOK'
    BY <1>2 DEF Disconnect, ringVars, peerVars, TypeOK
  <2>2. Framed'
    BY <1>2 DEF Disconnect, ringVars, peerVars, TypeOK, Framed, Laid, InOrder
  <2>3. Laid'
    BY <1>2 DEF Disconnect, ringVars, peerVars, TypeOK, Framed, Laid, InOrder
  <2>4. QED
    BY <2>1, <2>2, <2>3
<1>3. ASSUME RegisterRecv PROVE IInv'
  <2>1. TypeOK'
    BY <1>3 DEF RegisterRecv, ringVars, peerVars, TypeOK
  <2>2. Framed'
    BY <1>3 DEF RegisterRecv, ringVars, peerVars, TypeOK, Framed, Laid, InOrder
  <2>3. Laid'
    BY <1>3 DEF RegisterRecv, ringVars, peerVars, TypeOK, Framed, Laid, InOrder
  <2>4. QED
    BY <2>1, <2>2, <2>3
<1>4. ASSUME RegisterRecvFails PROVE IInv'
  <2>1. TypeOK'
    BY <1>4 DEF RegisterRecvFails, ringVars, peerVars, TypeOK
  <2>2. Framed'
    BY <1>4 DEF RegisterRecvFails, ringVars, peerVars, TypeOK, Framed, Laid, InOrder
  <2>3. Laid'
    BY <1>4 DEF RegisterRecvFails, ringVars, peerVars, TypeOK, Framed, Laid, InOrder
  <2>4. QED
    BY <2>1, <2>2, <2>3
<1>5. ASSUME NEW n \in 1 .. GetChunkWriteSize, Receive(n) PROVE IInv'
  <2>1. TypeOK'
    BY <1>5 DEF Receive, ringVars, peerVars, TypeOK, GetChunkWriteSize
  <2>2. Framed'
    BY <1>5 DEF Receive, ringVars, peerVars, TypeOK, Framed, Laid, InOrder, GetChunkWriteSize
  <2>3. /\ received \in Nat /\ m_tailPos \in Nat /\ m_size \in Nat /\ read \in Nat
        /\ m_headPos \in 0 .. m_capacity - 1 /\ n \in Nat /\ processLen = 0
        /\ m_headPos = m_tailPos + m_size /\ received = read + m_size /\ bytes = 0
        /\ InOrder(m_size)
    BY <1>5 DEF Receive, TypeOK, Laid, GetChunkWriteSize
  <2>4. n <= m_capacity - m_headPos
    BY <1>5, <2>3 DEF GetChunkWriteSize
  <2>5. /\ UNCHANGED <<m_size, m_headPos, m_tailPos, read, processLen>>
        /\ pc' = "received" /\ bytes' = n /\ received' = received + n
        /\ m_buffer' = [i \in 0 .. m_capacity - 1 |->
                           IF i >= m_headPos /\ i < m_headPos + n
                           THEN received + (i - m_headPos) ELSE m_buffer[i]]
    BY <1>5 DEF Receive
  <2>6. ASSUME NEW i \in 0 .. m_size + n - 1
        PROVE  m_buffer'[m_tailPos + i] = read + i
    <3>1. CASE i < m_size
      <4>1. m_buffer'[m_tailPos + i] = m_buffer[m_tailPos + i]
        BY <2>3, <2>4, <2>5, <3>1
      <4>2. QED
        BY <2>3, <3>1, <4>1 DEF InOrder
    <3>2. CASE i >= m_size
      <4>1. m_buffer'[m_tailPos + i] = received + ((m_tailPos + i) - m_headPos)
        BY <2>3, <2>4, <2>5, <3>2
      <4>2. QED
        BY <2>3, <4>1
    <3>3. QED
      BY <2>3, <3>1, <3>2
  <2>7. InOrder(m_size + bytes)'
    <3>1. m_size' + bytes' = m_size + n /\ m_tailPos + (m_size + n) <= m_capacity
      BY <2>3, <2>4, <2>5
    <3>2. m_tailPos' = m_tailPos /\ read' = read
      BY <2>5
    <3>3. m_tailPos' + (m_size' + bytes') <= m_capacity
      BY <3>1, <3>2
    <3>4. ASSUME NEW i \in 0 .. (m_size' + bytes') - 1
          PROVE  m_buffer'[m_tailPos' + i] = read' + i
      <4>1. i \in 0 .. m_size + n - 1
        BY <2>3, <2>5
      <4>2. m_buffer'[m_tailPos + i] = read + i
        BY <2>6, <4>1
      <4>3. QED
        BY <3>2, <4>2
    <3>5. QED
      BY <3>3, <3>4 DEF InOrder
  <2>8. Laid'
    BY <2>3, <2>4, <2>5, <2>7 DEF Laid
  <2>9. QED
    BY <2>1, <2>2, <2>8
<1>6. ASSUME ReceiveNothing PROVE IInv'
  <2>1. TypeOK'
    BY <1>6 DEF ReceiveNothing, ringVars, peerVars, TypeOK
  <2>2. Framed'
    BY <1>6 DEF ReceiveNothing, ringVars, peerVars, TypeOK, Framed, Laid, InOrder
  <2>3. Laid'
    BY <1>6 DEF ReceiveNothing, ringVars, peerVars, TypeOK, Framed, Laid, InOrder
  <2>4. QED
    BY <2>1, <2>2, <2>3
<1>7. ASSUME ProcessRecv PROVE IInv'
  <2>1. /\ m_tailPos \in 0 .. m_capacity - 1 /\ m_headPos \in 0 .. m_capacity - 1
        /\ m_size \in Nat /\ bytes \in Nat /\ read \in Nat
        /\ m_headPos = m_tailPos + m_size /\ bytes <= m_capacity - m_headPos
        /\ received = read + m_size + bytes /\ InOrder(m_size + bytes)
        /\ processLen = 0
    BY <1>7 DEF ProcessRecv, TypeOK, Laid
  <2>2. m_headPos' = IF m_headPos + bytes = m_capacity THEN 0 ELSE m_headPos + bytes
    BY <1>7, <2>1, WrapAtEnd DEF ProcessRecv
  <2>3. /\ m_size' = m_size + bytes /\ bytes' = 0 /\ pc = "received" /\ pc' = "parse"
        /\ processLen' = 0
        /\ UNCHANGED <<size, sent, received, m_buffer, m_tailPos, read, m_bConnected>>
    BY <1>7 DEF ProcessRecv, peerVars
  <2>4. TypeOK'
    BY <2>1, <2>2, <2>3 DEF TypeOK
  <2>5. Framed'
    BY <2>1, <2>3 DEF Framed
  <2>6. InOrder(m_size)'
    BY <2>1, <2>3 DEF InOrder
  <2>7. Laid'
    BY <2>1, <2>2, <2>3, <2>6 DEF Laid
  <2>8. QED
    BY <2>4, <2>5, <2>7
<1>8. ASSUME ProcessRecvFails PROVE IInv'
  <2>1. TypeOK'
    BY <1>8 DEF ProcessRecvFails, ringVars, peerVars, TypeOK, GetFreeSize
  <2>2. Framed'
    BY <1>8 DEF ProcessRecvFails, ringVars, peerVars, TypeOK, Framed, Laid, InOrder, GetFreeSize
  <2>3. Laid'
    BY <1>8 DEF ProcessRecvFails, ringVars, peerVars, TypeOK, Framed, Laid, InOrder, GetFreeSize
  <2>4. QED
    BY <2>1, <2>2, <2>3
<1>9. ASSUME OnRecvPacket PROVE IInv'
  <2>1. processLen < m_size
    BY <1>9 DEF OnRecvPacket, PacketWhole, TypeOK, Laid
  <2>2. /\ HeaderByte = read + processLen /\ HeaderByte \in DOMAIN size
        /\ size[HeaderByte] \in HEADER .. MaxPacket
    BY <1>9, <2>1, HeaderRead DEF OnRecvPacket
  <2>3. /\ processLen' = processLen + size[HeaderByte]
        /\ processLen' \in Nat /\ processLen' <= m_size
    BY <1>9, <2>2 DEF OnRecvPacket, PacketWhole, TypeOK
  <2>4. read + processLen' = HeaderByte + size[HeaderByte]
    BY <2>2, <2>3 DEF TypeOK
  <2>5. TypeOK'
    BY <1>9, <2>3 DEF OnRecvPacket, ringVars, peerVars, TypeOK
  <2>6. Framed'
    BY <1>9, <2>2, <2>4 DEF OnRecvPacket, ringVars, peerVars, Framed
  <2>7. Laid'
    BY <1>9, <2>3 DEF OnRecvPacket, ringVars, peerVars, Laid, InOrder
  <2>8. QED
    BY <2>5, <2>6, <2>7
<1>10. ASSUME OnRecvReturns PROVE IInv'
  <2> DEFINE n == m_size - processLen
  <2>1. /\ n \in 0 .. MaxPacket /\ processLen <= m_size
        /\ m_tailPos + m_size <= m_capacity
    BY <1>10, RestIsShort DEF OnRecvReturns, Laid, InOrder
  <2>2. m_tailPos' = IF m_tailPos + processLen = m_capacity THEN 0
                     ELSE m_tailPos + processLen
    BY <1>10, <2>1, WrapAtEnd DEF OnRecvReturns, TypeOK
  <2>3. /\ m_size' = n /\ read' = read + processLen /\ processLen' = 0
        /\ pc = "parse" /\ pc' = "adjust"
        /\ UNCHANGED <<size, sent, received, m_buffer, m_headPos, m_bConnected, bytes>>
    BY <1>10 DEF OnRecvReturns, peerVars
  <2>4. TypeOK'
    BY <2>1, <2>2, <2>3 DEF TypeOK
  <2>5. Framed'
    BY <2>3 DEF Framed, TypeOK
  <2>6. InOrder(n)'
    <3>1. CASE m_tailPos + processLen = m_capacity
      BY <2>1, <2>2, <2>3, <3>1 DEF InOrder, TypeOK
    <3>2. CASE m_tailPos + processLen # m_capacity
      <4>1. /\ m_tailPos \in Nat /\ processLen \in Nat /\ m_size \in Nat /\ read \in Nat
            /\ \A i \in 0 .. m_size - 1 : m_buffer[m_tailPos + i] = read + i
        BY <2>3 DEF TypeOK, Laid, InOrder
      <4>2. /\ m_tailPos' = m_tailPos + processLen
            /\ m_tailPos' + n <= m_capacity
        BY <2>1, <2>2, <3>2, <4>1
      <4>3. ASSUME NEW i \in 0 .. n - 1
            PROVE  m_buffer'[m_tailPos' + i] = read' + i
        <5>1. processLen + i \in 0 .. m_size - 1
          BY <2>1, <4>1
        <5>2. m_buffer[m_tailPos + (processLen + i)] = read + (processLen + i)
          BY <4>1, <5>1
        <5>3. QED
          BY <2>3, <4>1, <4>2, <5>2
      <4>4. QED
        BY <2>3, <4>2, <4>3 DEF InOrder
    <3>3. QED
      BY <3>1, <3>2
  <2>7. m_headPos' = IF m_tailPos' + m_size' = m_capacity THEN 0
                     ELSE m_tailPos' + m_size'
    BY <2>1, <2>2, <2>3 DEF TypeOK, Laid
  <2>8. Laid'
    BY <2>1, <2>3, <2>6, <2>7 DEF TypeOK, Laid
  <2>9. QED
    BY <2>4, <2>5, <2>8
<1>11. ASSUME AdjustEmpty PROVE IInv'
  <2>1. TypeOK'
    BY <1>11 DEF AdjustEmpty, ringVars, peerVars, TypeOK
  <2>2. Framed'
    BY <1>11 DEF AdjustEmpty, ringVars, peerVars, TypeOK, Framed, Laid, InOrder
  <2>3. Laid'
    BY <1>11 DEF AdjustEmpty, ringVars, peerVars, TypeOK, Framed, Laid, InOrder
  <2>4. QED
    BY <2>1, <2>2, <2>3
<1>12. ASSUME AdjustMove PROVE IInv'
  <2>1. /\ m_tailPos \in 0 .. m_capacity - 1 /\ m_headPos \in 0 .. m_capacity - 1
        /\ m_size \in Nat /\ read \in Nat /\ processLen = 0 /\ bytes = 0
        /\ m_headPos > m_tailPos /\ m_headPos = m_tailPos + m_size
        /\ m_size < m_capacity /\ received = read + m_size /\ InOrder(m_size)
    BY <1>12 DEF AdjustMove, TypeOK, Laid
  <2>2. /\ pc = "adjust" /\ pc' = "register"
        /\ UNCHANGED <<size, sent, received, m_size, read, m_bConnected, bytes, processLen>>
    BY <1>12 DEF AdjustMove, peerVars
  <2>3. Framed'
    BY <2>2 DEF Framed
  <2>4. CASE ~MoveNeeded
    <3>1. UNCHANGED <<m_buffer, m_tailPos, m_headPos>>
      BY <1>12, <2>4 DEF AdjustMove
    <3>2. TypeOK'
      BY <2>2, <3>1 DEF TypeOK
    <3>3. Laid'
      BY <2>1, <2>2, <3>1 DEF Laid, InOrder
    <3>4. QED
      BY <2>3, <3>2, <3>3
  <2>5. CASE MoveNeeded
    <3>1. /\ m_buffer' = [i \in 0 .. m_capacity - 1 |->
                  IF i >= 0 /\ i < 0 + m_size THEN m_buffer[m_tailPos + (i - 0)]
                  ELSE m_buffer[i]]
          /\ m_tailPos' = 0 /\ m_headPos' = m_size
      BY <1>12, <2>5 DEF AdjustMove, Moved
    <3>2. m_buffer' \in [0 .. m_capacity - 1 -> Nat]
      BY <2>1, <3>1 DEF TypeOK
    <3>3. TypeOK'
      BY <2>1, <2>2, <3>1, <3>2 DEF TypeOK
    <3>4. \A i \in 0 .. m_size - 1 : m_buffer'[0 + i] = read + i
      BY <2>1, <3>1 DEF InOrder
    <3>5. InOrder(m_size + bytes)'
      <4>1. m_size' + bytes' = m_size /\ m_tailPos' = 0 /\ read' = read
        BY <2>1, <2>2, <3>1
      <4>2. \A i \in 0 .. (m_size' + bytes') - 1 : m_buffer'[m_tailPos' + i] = read' + i
        BY <3>4, <4>1
      <4>3. QED
        BY <2>1, <4>1, <4>2 DEF InOrder
    <3>6. Laid'
      BY <2>1, <2>2, <3>1, <3>5 DEF Laid
    <3>7. QED
      BY <2>3, <3>3, <3>6
  <2>6. QED
    BY <2>4, <2>5
<1>13. ASSUME AdjustWrapped PROVE IInv'
  <2>1. /\ m_tailPos \in 1 .. m_capacity - 1 /\ m_headPos = 0
        /\ m_size \in Nat /\ read \in Nat /\ processLen = 0 /\ bytes = 0
        /\ m_tailPos + m_size = m_capacity
        /\ m_size < m_capacity /\ received = read + m_size /\ InOrder(m_size)
    BY <1>13 DEF AdjustWrapped, TypeOK, Laid
  <2>2. /\ pc = "adjust" /\ pc' = "register"
        /\ UNCHANGED <<size, sent, received, m_size, read, m_bConnected, bytes, processLen>>
    BY <1>13 DEF AdjustWrapped, peerVars
  <2>3. Framed'
    BY <2>2 DEF Framed
  <2>4. m_capacity - m_tailPos = m_size
    BY <2>1
  <2>5. /\ m_buffer' = [i \in 0 .. m_capacity - 1 |->
                IF i < m_size THEN m_buffer[m_tailPos + i]
                ELSE IF i < m_size + 0 THEN m_buffer[i - m_size] ELSE m_buffer[i]]
        /\ m_tailPos' = 0 /\ m_headPos' = m_size
    BY <1>13, <2>1, <2>4 DEF AdjustWrapped
  <2>6. m_buffer' \in [0 .. m_capacity - 1 -> Nat]
    BY <2>1, <2>5 DEF TypeOK
  <2>7. TypeOK'
    BY <2>1, <2>2, <2>5, <2>6 DEF TypeOK
  <2>8. \A i \in 0 .. m_size - 1 : m_buffer'[0 + i] = read + i
    BY <2>1, <2>5 DEF InOrder
  <2>9. Laid'
    <3>1. m_size' + bytes' = m_size /\ m_tailPos' = 0 /\ read' = read
      BY <2>1, <2>2, <2>5
    <3>2. \A i \in 0 .. (m_size' + bytes') - 1 : m_buffer'[m_tailPos' + i] = read' + i
      BY <2>8, <3>1
    <3>3. InOrder(m_size + bytes)'
      BY <2>1, <3>1, <3>2 DEF InOrder
    <3>4. QED
      BY <2>1, <2>2, <2>5, <3>3 DEF Laid
  <2>10. QED
    BY <2>3, <2>7, <2>9
<1>14. CASE UNCHANGED vars
  BY <1>14 DEF vars, TypeOK, Framed, Laid, InOrder
<1>15. QED
  BY <1>1, <1>2, <1>3, <1>4, <1>5, <1>6, <1>7, <1>8, <1>9, <1>10, <1>11, <1>12, <1>13, <1>14 DEF Next, Network, Session, AdjustPos

THEOREM Invariant == Spec => []IInv
<1>1. Init => IInv
  BY InitIInv
<1>2. IInv /\ [Next]_vars => IInv'
  BY StepIInv
<1>3. QED
  BY <1>1, <1>2, PTL DEF Spec

\* Every variable keeps its type: in particular no position and no count of
\* the ring leaves its range.
THEOREM TypeCorrect == Spec => []TypeOK
<1>1. IInv => TypeOK
  BY DEF IInv
<1>2. QED
  BY <1>1, Invariant, PTL

\* OnRecv is given the stream from a packet's first byte on, whatever the
\* packets, wherever TCP cuts the stream and however the ring is adjusted.
THEOREM PacketsAreIntact == Spec => []PacketsIntact
<1>1. IInv => PacketsIntact
  <2> SUFFICES ASSUME IInv, pc = "parse"
               PROVE  /\ processLen <= m_size
                      /\ m_tailPos + m_size <= m_capacity
                      /\ \A i \in 0 .. m_size - 1 : m_buffer[m_tailPos + i] = read + i
                      /\ processLen < m_size => read + processLen \in DOMAIN size
    BY DEF PacketsIntact
  <2>1. /\ processLen <= m_size /\ InOrder(m_size)
    BY DEF IInv, Laid
  <2>2. processLen < m_size => read + processLen \in DOMAIN size
    BY HeaderRead
  <2>3. QED
    BY <2>1, <2>2 DEF InOrder
<1>2. QED
  BY <1>1, Invariant, PTL

\* There is always room for the next receive, and it is not in the data.
THEOREM AlwaysRoom == Spec => []RoomToReceive
<1>1. IInv => RoomToReceive
  <2> SUFFICES ASSUME IInv, pc \in {"register", "pending"}
               PROVE  /\ GetChunkWriteSize > 0
                      /\ GetChunkWriteSize <= GetFreeSize
                      /\ m_headPos = m_tailPos + m_size
    BY DEF RoomToReceive
  <2>1. /\ m_headPos \in 0 .. m_capacity - 1 /\ m_tailPos \in 0 .. m_capacity - 1
        /\ m_size \in Nat /\ m_headPos = m_tailPos + m_size
    BY DEF IInv, TypeOK, Laid, Cells
  <2>2. QED
    BY <2>1, SizesAssumption DEF GetChunkWriteSize, GetFreeSize
<1>2. QED
  BY <1>1, Invariant, PTL

\* Packets of at most a third of the buffer: AdjustPos never copies a piece
\* onto itself.
THEOREM CopiesDoNotOverlap ==
    ASSUME 3 * MaxPacket <= m_capacity PROVE Spec => []MovesApart
<1>1. IInv => MovesApart
  <2> SUFFICES ASSUME IInv, pc = "adjust"
               PROVE  /\ m_headPos > m_tailPos /\ MoveNeeded => m_size <= m_tailPos
                      /\ m_headPos < m_tailPos => /\ m_capacity - m_tailPos <= m_tailPos
                                                  /\ m_headPos = 0
    BY DEF MovesApart
  <2>1. /\ m_headPos \in 0 .. m_capacity - 1 /\ m_tailPos \in 0 .. m_capacity - 1
        /\ m_size \in 0 .. MaxPacket /\ 3 * MaxPacket <= m_capacity
        /\ m_headPos = IF m_tailPos + m_size = m_capacity THEN 0 ELSE m_tailPos + m_size
        /\ m_tailPos + m_size <= m_capacity
    BY DEF IInv, TypeOK, Laid, InOrder, Cells
  <2>2. ASSUME m_headPos > m_tailPos, MoveNeeded PROVE m_size <= m_tailPos
    <3>1. m_capacity - m_headPos < m_capacity \div 3 /\ m_headPos = m_tailPos + m_size
      BY <2>1, <2>2 DEF MoveNeeded, GetChunkWriteSize
    <3>2. 3 * (m_capacity \div 3) <= m_capacity
      BY SizesAssumption
    <3>3. m_capacity \div 3 \in Int
      BY SizesAssumption
    <3>4. QED
      BY <2>1, <3>1, <3>2, <3>3, SizesAssumption
  <2>3. ASSUME m_headPos < m_tailPos
        PROVE  m_capacity - m_tailPos <= m_tailPos /\ m_headPos = 0
    BY <2>1, <2>3, SizesAssumption
  <2>4. QED
    BY <2>2, <2>3
<1>2. QED
  BY <1>1, Invariant, PTL
=============================================================================
