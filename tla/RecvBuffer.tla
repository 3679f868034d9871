----------------------------- MODULE RecvBuffer -----------------------------
(***************************************************************************)
(* The receiving half of a session, RioSession and IocpSession alike: one  *)
(* receive is posted into the free piece after the data (RegisterRecv),    *)
(* its completion is counted in (ProcessRecv), whole packets are handed    *)
(* over (OnRecv), what is left is moved to the front (AdjustPos).          *)
(*                                                                         *)
(* A byte is its number in the stream of the peer.  The peer sends         *)
(* well-formed packets: the first byte of one leads to its size.  TCP      *)
(* cuts the stream anywhere.                                               *)
(***************************************************************************)
EXTENDS Integers

CONSTANTS m_capacity, \* size of the buffer (BUFFER_SIZE, BUFSIZE)
          HEADER,     \* sizeof(PacketHeader)
          PacketSizes, \* sizes of the packets the peer sends, header included
          MaxPacket,  \* the largest (65535 at most: an unsigned short)
          MaxBytes    \* bound: bytes the peer sends

ASSUME SizesAssumption ==
    /\ HEADER \in Nat \ {0} /\ MaxPacket \in Nat /\ HEADER <= MaxPacket
    /\ PacketSizes \subseteq HEADER .. MaxPacket
    /\ m_capacity \in Nat /\ MaxPacket < m_capacity
    /\ MaxBytes \in Nat

VARIABLES
    size,         \* peer: size of the packet that starts at a byte, of those
                  \* that were not read when it sent last
    sent,         \* peer: bytes sent
    received,     \* bytes that left the network
    m_buffer, m_size, m_headPos, m_tailPos, \* RingBuffer
    m_bConnected,
    pc,           \* where the session's receiving is
    bytes,        \* bytesTransferred of the completion
    processLen,   \* local of OnRecv
    read          \* history: bytes taken from the buffer

vars == <<size, sent, received, m_buffer, m_size, m_headPos, m_tailPos,
          m_bConnected, pc, bytes, processLen, read>>

peerVars == <<size, sent, received>>
ringVars == <<m_buffer, m_size, m_headPos, m_tailPos, read>>

Cells == 0 .. m_capacity - 1

Init ==
    /\ size = [b \in {} |-> 0] /\ sent = 0 /\ received = 0
    /\ m_buffer = [i \in Cells |-> 0]
    /\ m_size = 0 /\ m_headPos = 0 /\ m_tailPos = 0
    /\ m_bConnected = TRUE
    /\ pc = "register" /\ bytes = 0 /\ processLen = 0 /\ read = 0
-----------------------------------------------------------------------------
\* The peer sends a packet of s bytes.
PeerSend(s) ==
    /\ sent + s <= MaxBytes
    /\ size' = [b \in {c \in DOMAIN size : c >= read} \cup {sent} |->
                    IF b = sent THEN s ELSE size[b]]
    /\ sent' = sent + s
    /\ UNCHANGED <<received, ringVars, m_bConnected, pc, bytes, processLen>>

\* Another thread, or a handler of this one, disconnects the session.
Disconnect ==
    /\ m_bConnected /\ m_bConnected' = FALSE
    /\ UNCHANGED <<peerVars, ringVars, pc, bytes, processLen>>
-----------------------------------------------------------------------------
GetFreeSize == m_capacity - m_size

\* Mutant: an empty buffer is taken for a full one.
GetChunkWriteSizeStrict == IF m_headPos > m_tailPos
                           THEN m_capacity - m_headPos
                           ELSE m_tailPos - m_headPos

GetChunkWriteSize == IF m_headPos >= m_tailPos
                     THEN m_capacity - m_headPos
                     ELSE m_tailPos - m_headPos

\* Nothing moves the positions while the receive is pending, so that its
\* length and offset are GetChunkWriteSize and m_headPos until it completes.
RegisterRecv ==
    /\ pc = "register" /\ m_bConnected
    /\ pc' = "pending"
    /\ UNCHANGED <<peerVars, ringVars, m_bConnected, bytes, processLen>>

\* Not connected, or RIOReceive or WSARecv fails; only RIO disconnects then.
RegisterRecvFails ==
    /\ pc = "register" /\ pc' = "ended"
    /\ m_bConnected' \in {m_bConnected, FALSE}
    /\ UNCHANGED <<peerVars, ringVars, bytes, processLen>>

\* The network fills n bytes of the piece and completes the receive.
Receive(n) ==
    /\ pc = "pending" /\ pc' = "received"
    /\ received + n <= sent
    /\ m_buffer' = [i \in Cells |-> IF i >= m_headPos /\ i < m_headPos + n
                                    THEN received + (i - m_headPos)
                                    ELSE m_buffer[i]]
    /\ received' = received + n
    /\ bytes' = n
    /\ UNCHANGED <<size, sent, m_size, m_headPos, m_tailPos, read,
                   m_bConnected, processLen>>

\* The connection ends: the receive completes with no bytes.
ReceiveNothing ==
    /\ pc = "pending" /\ pc' = "received"
    /\ bytes' = 0
    /\ UNCHANGED <<peerVars, ringVars, m_bConnected, processLen>>
-----------------------------------------------------------------------------
WrapMissing(pos) == pos \* mutant: a position runs past the end
Wrap(pos) == pos % m_capacity

\* ProcessRecv up to OnRecv: OnWriteBuffer.
ProcessRecv ==
    /\ pc = "received" /\ bytes # 0 /\ bytes <= GetFreeSize
    /\ m_headPos' = Wrap(m_headPos + bytes)
    /\ m_size' = m_size + bytes
    /\ pc' = "parse" /\ processLen' = 0 /\ bytes' = 0
    /\ UNCHANGED <<peerVars, m_buffer, m_tailPos, read, m_bConnected>>

ProcessRecvFails ==
    /\ pc = "received" /\ (bytes = 0 \/ bytes > GetFreeSize)
    /\ m_bConnected' = FALSE
    /\ pc' = "ended" /\ bytes' = 0
    /\ UNCHANGED <<peerVars, ringVars, processLen>>

\* OnRecv reads the header at buffer[processLen], buffer being GetReadBuf().
HeaderByte == m_buffer[m_tailPos + processLen]

\* Mutants: a packet is taken to be whole when its header is; a packet is
\* handed over when the first byte of the next one is there.
PacketWholeHeader == m_size - processLen >= HEADER
PacketWholeStrict ==
    /\ m_size - processLen >= HEADER
    /\ m_size - processLen > size[HeaderByte]
PacketWhole ==
    /\ m_size - processLen >= HEADER
    /\ m_size - processLen >= size[HeaderByte]

OnRecvPacket ==
    /\ pc = "parse"
    /\ PacketWhole
    /\ processLen' = processLen + size[HeaderByte]
    /\ UNCHANGED <<peerVars, ringVars, m_bConnected, pc, bytes>>

\* The end of OnRecv, and OnReadBuffer.
OnRecvReturns ==
    /\ pc = "parse"
    /\ ~PacketWhole
    /\ m_tailPos' = Wrap(m_tailPos + processLen)
    /\ m_size' = m_size - processLen
    /\ read' = read + processLen
    /\ pc' = "adjust" /\ processLen' = 0
    /\ UNCHANGED <<peerVars, m_buffer, m_headPos, m_bConnected, bytes>>
-----------------------------------------------------------------------------
\* What memcpy leaves behind if it copies as memmove does.  C promises that only
\* for pieces that do not overlap: MovesApart says when they do not.
Moved(to, from, n) ==
    [i \in Cells |-> IF i >= to /\ i < to + n THEN m_buffer[from + (i - to)]
                                              ELSE m_buffer[i]]

MoveNeededAlways == TRUE \* mutant: AdjustPos always moves
MoveNeeded == GetChunkWriteSize < m_capacity \div 3

\* AdjustPos, first half: the data ends before the end of the buffer.
AdjustEmpty ==
    /\ pc = "adjust" /\ m_headPos = m_tailPos
    /\ m_headPos' = 0 /\ m_tailPos' = 0
    /\ pc' = "register"
    /\ UNCHANGED <<peerVars, m_buffer, m_size, read, m_bConnected, bytes, processLen>>

AdjustMove ==
    /\ pc = "adjust" /\ m_headPos > m_tailPos
    /\ IF MoveNeeded
       THEN /\ m_buffer' = Moved(0, m_tailPos, m_size)
            /\ m_tailPos' = 0 /\ m_headPos' = m_size
       ELSE UNCHANGED <<m_buffer, m_tailPos, m_headPos>>
    /\ pc' = "register"
    /\ UNCHANGED <<peerVars, m_size, read, m_bConnected, bytes, processLen>>

\* Second half: m_headPos went round.  A receive ends at the end of the
\* buffer at most, so that the piece at the front is empty (AtFront) and the
\* first memcpy of the two copies nothing.
AdjustWrapped ==
    LET rDataSize == m_capacity - m_tailPos
    IN  /\ pc = "adjust" /\ m_headPos < m_tailPos
        /\ m_buffer' = [i \in Cells |->
               IF i < rDataSize THEN m_buffer[m_tailPos + i]
               ELSE IF i < rDataSize + m_headPos THEN m_buffer[i - rDataSize]
               ELSE m_buffer[i]]
        /\ m_tailPos' = 0
        /\ m_headPos' = rDataSize + m_headPos
        /\ pc' = "register"
        /\ UNCHANGED <<peerVars, m_size, read, m_bConnected, bytes, processLen>>
-----------------------------------------------------------------------------
AdjustPos == AdjustEmpty \/ AdjustMove \/ AdjustWrapped

Network == \E n \in 1 .. GetChunkWriteSize : Receive(n)

Session ==
    \/ RegisterRecv \/ RegisterRecvFails
    \/ ProcessRecv \/ ProcessRecvFails
    \/ OnRecvPacket \/ OnRecvReturns \/ AdjustPos

Next ==
    \/ \E s \in PacketSizes : PeerSend(s)
    \/ Disconnect \/ Network \/ ReceiveNothing \/ Session

Spec == Init /\ [][Next]_vars

\* Bytes that were sent arrive while the receive is pending, and the thread
\* that handles the completion runs on.
Fairness == WF_vars(Network) /\ WF_vars(Session)

FairSpec == Spec /\ Fairness
-----------------------------------------------------------------------------
\* Every variable has its type.
TypeOK ==
    /\ DOMAIN size \subseteq 0 .. sent
    /\ \A b \in DOMAIN size : size[b] \in PacketSizes
    /\ sent \in Nat /\ received \in 0 .. sent
    /\ m_buffer \in [Cells -> Nat]
    /\ m_size \in 0 .. m_capacity
    /\ m_headPos \in Cells /\ m_tailPos \in Cells
    /\ m_bConnected \in BOOLEAN
    /\ pc \in {"register", "pending", "received", "parse", "adjust", "ended"}
    /\ bytes \in Nat /\ processLen \in Nat /\ read \in Nat

\* What OnRecv is given is the stream from a packet's first byte on, in one
\* piece, none lost and none repeated, and it hands over whole packets only:
\* none is cut wrongly, however TCP cut the stream and wherever the data lay.
PacketsIntact ==
    pc = "parse" =>
        /\ processLen <= m_size
        /\ m_tailPos + m_size <= m_capacity
        /\ \A i \in 0 .. m_size - 1 : m_buffer[m_tailPos + i] = read + i
        /\ processLen < m_size => read + processLen \in DOMAIN size

\* A receive is never posted with an empty piece, which would complete with
\* no bytes and end the session, nor into data that is not read yet.
RoomToReceive ==
    pc \in {"register", "pending"} =>
        /\ GetChunkWriteSize > 0
        /\ GetChunkWriteSize <= GetFreeSize
        /\ m_size = 0 \/ m_headPos = m_tailPos + m_size

\* memcpy is used where the pieces do not overlap.  This rests on packets of
\* at most a third of the buffer, so far: what is left of one fits before it.
PacketsSmall == \A b \in DOMAIN size : 3 * size[b] <= m_capacity

MovesApart ==
    pc = "adjust" /\ PacketsSmall =>
        /\ m_headPos > m_tailPos /\ MoveNeeded => m_size <= m_tailPos
        /\ m_headPos < m_tailPos => /\ m_capacity - m_tailPos <= m_tailPos
                                    /\ m_headPos = 0

\* Every byte of a packet sent is read, unless the connection ends.
AllReceived == \A b \in 1 .. MaxBytes : sent >= b ~> (read >= b \/ pc = "ended")
=============================================================================
