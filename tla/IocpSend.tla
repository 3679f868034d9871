------------------------------ MODULE IocpSend ------------------------------
(***************************************************************************)
(* The sending half of an IocpSession.  Any thread queues a message        *)
(* (Send).  m_bSendRegistered says that somebody sends already: the thread *)
(* that sets it drains the queue into m_sendEvent and calls WSASend        *)
(* (RegisterSend); whichever worker gets the completion goes on            *)
(* (ProcessSend).  There is one m_sendEvent, so that there must be one     *)
(* sender.                                                                 *)
(*                                                                         *)
(* A message is its number in the order of the queue.                      *)
(***************************************************************************)
EXTENDS Naturals, Sequences

CONSTANTS Threads,     \* threads that send and handle completions
          MaxMessages, \* bound: no Send begins once that many were queued
          WSASendFails \* whether a WSASend may fail at once

ASSUME ConstantsAssumption ==
    MaxMessages \in Nat /\ WSASendFails \in BOOLEAN

VARIABLES
    m_bConnected, m_sendBufferQueue, m_bSendRegistered,
    m_owner, m_sendBuffer, \* of m_sendEvent
    pending,  \* the WSASend of m_sendEvent: none, sending, sent or aborted
    wire,     \* messages sent
    pushed,   \* history: messages queued
    failed,   \* history: a WSASend failed, at once or later: its messages are lost
    refused,  \* history: one failed at once
    pc

vars == <<m_bConnected, m_sendBufferQueue, m_bSendRegistered, m_owner,
          m_sendBuffer, pending, wire, pushed, failed, refused, pc>>

Init ==
    /\ m_bConnected = TRUE
    /\ m_sendBufferQueue = <<>> /\ m_bSendRegistered = FALSE
    /\ m_owner = FALSE /\ m_sendBuffer = <<>>
    /\ pending = "none" /\ wire = <<>>
    /\ pushed = 0 /\ failed = FALSE /\ refused = FALSE
    /\ pc = [t \in Threads |-> "idle"]

Goto(t, label) == pc' = [pc EXCEPT ![t] = label]
-----------------------------------------------------------------------------
Send(t) ==
    /\ pc[t] = "idle" /\ m_bConnected /\ pushed < MaxMessages
    /\ Goto(t, "push")
    /\ UNCHANGED <<m_bConnected, m_sendBufferQueue, m_bSendRegistered, m_owner,
                   m_sendBuffer, pending, wire, pushed, failed, refused>>

AfterPushAlways == "register" \* mutant: whoever queues a message sends

\* exchange(true) says whether somebody sends already.
AfterPush == IF m_bSendRegistered THEN "idle" ELSE "register"

Push(t) ==
    /\ pc[t] = "push"
    /\ m_sendBufferQueue' = Append(m_sendBufferQueue, pushed)
    /\ pushed' = pushed + 1
    /\ m_bSendRegistered' = TRUE
    /\ Goto(t, AfterPush)
    /\ UNCHANGED <<m_bConnected, m_owner, m_sendBuffer, pending, wire, failed, refused>>
-----------------------------------------------------------------------------
\* RegisterSend up to the lock.  Not connected: the flag stays set, for ever.
RegisterSend(t) ==
    /\ pc[t] = "register"
    /\ m_owner' = (m_bConnected \/ m_owner)
    /\ Goto(t, IF m_bConnected THEN "drain" ELSE "idle")
    /\ UNCHANGED <<m_bConnected, m_sendBufferQueue, m_bSendRegistered,
                   m_sendBuffer, pending, wire, pushed, failed, refused>>

\* Mutant: only the first message is taken along.
DrainFirst(t) ==
    /\ pc[t] = "drain"
    /\ m_sendBuffer' = IF m_sendBufferQueue = <<>> THEN m_sendBuffer
                       ELSE Append(m_sendBuffer, Head(m_sendBufferQueue))
    /\ m_sendBufferQueue' = <<>>
    /\ Goto(t, "wsasend")
    /\ UNCHANGED <<m_bConnected, m_bSendRegistered, m_owner, pending, wire,
                   pushed, failed, refused>>

Drain(t) ==
    /\ pc[t] = "drain"
    /\ m_sendBuffer' = m_sendBuffer \o m_sendBufferQueue
    /\ m_sendBufferQueue' = <<>>
    /\ Goto(t, "wsasend")
    /\ UNCHANGED <<m_bConnected, m_bSendRegistered, m_owner, pending, wire,
                   pushed, failed, refused>>

WSASend(t) ==
    /\ pc[t] = "wsasend"
    /\ pending' = "sending"
    /\ Goto(t, "idle")
    /\ UNCHANGED <<m_bConnected, m_sendBufferQueue, m_bSendRegistered, m_owner,
                   m_sendBuffer, wire, pushed, failed, refused>>

\* Nobody disconnects and nobody looks at the queue again.
WSASendError(t) ==
    /\ WSASendFails
    /\ pc[t] = "wsasend"
    /\ m_owner' = FALSE /\ m_sendBuffer' = <<>>
    /\ failed' = TRUE /\ refused' = TRUE
    /\ Goto(t, "unregister")
    /\ UNCHANGED <<m_bConnected, m_sendBufferQueue, m_bSendRegistered, pending,
                   wire, pushed>>

Unregister(t) ==
    /\ pc[t] = "unregister"
    /\ m_bSendRegistered' = FALSE
    /\ Goto(t, "idle")
    /\ UNCHANGED <<m_bConnected, m_sendBufferQueue, m_owner, m_sendBuffer,
                   pending, wire, pushed, failed, refused>>
-----------------------------------------------------------------------------
Transmit ==
    /\ pending = "sending" /\ pending' = "sent"
    /\ wire' = wire \o m_sendBuffer
    /\ UNCHANGED <<m_bConnected, m_sendBufferQueue, m_bSendRegistered, m_owner,
                   m_sendBuffer, pushed, failed, refused, pc>>

\* The connection is gone: the send completes with no bytes.
Abort ==
    /\ pending = "sending" /\ pending' = "aborted"
    /\ UNCHANGED <<m_bConnected, m_sendBufferQueue, m_bSendRegistered, m_owner,
                   m_sendBuffer, wire, pushed, failed, refused, pc>>

\* Mutant: the messages sent are sent again.
ProcessSendKeepsBuffer(t) ==
    /\ pc[t] = "idle" /\ pending \in {"sent", "aborted"}
    /\ pending' = "none" /\ m_owner' = FALSE
    /\ failed' = (failed \/ pending = "aborted")
    /\ Goto(t, IF pending = "sent" THEN "check" ELSE "disconnect")
    /\ UNCHANGED <<m_bConnected, m_sendBufferQueue, m_bSendRegistered, wire,
                   m_sendBuffer, pushed, refused>>

\* Mutant: a completion of no bytes is taken for one of the whole buffer.
ProcessSendGoesOn(t) ==
    /\ pc[t] = "idle" /\ pending \in {"sent", "aborted"}
    /\ pending' = "none"
    /\ m_owner' = FALSE /\ m_sendBuffer' = <<>>
    /\ failed' = (failed \/ pending = "aborted")
    /\ Goto(t, "check")
    /\ UNCHANGED <<m_bConnected, m_sendBufferQueue, m_bSendRegistered, wire,
                   pushed, refused>>

\* A worker dequeues the completion and runs ProcessSend up to the lock.
ProcessSend(t) ==
    /\ pc[t] = "idle" /\ pending \in {"sent", "aborted"}
    /\ pending' = "none"
    /\ m_owner' = FALSE /\ m_sendBuffer' = <<>>
    /\ failed' = (failed \/ pending = "aborted")
    /\ Goto(t, IF pending = "sent" THEN "check" ELSE "disconnect")
    /\ UNCHANGED <<m_bConnected, m_sendBufferQueue, m_bSendRegistered, wire,
                   pushed, refused>>

\* Mutant: what was queued meanwhile is not looked at.
CheckQueueNever(t) ==
    /\ pc[t] = "check"
    /\ m_bSendRegistered' = FALSE
    /\ Goto(t, "idle")
    /\ UNCHANGED <<m_bConnected, m_sendBufferQueue, m_owner, m_sendBuffer,
                   pending, wire, pushed, failed, refused>>

CheckQueue(t) ==
    /\ pc[t] = "check"
    /\ IF m_sendBufferQueue = <<>>
       THEN m_bSendRegistered' = FALSE /\ Goto(t, "idle")
       ELSE UNCHANGED m_bSendRegistered /\ Goto(t, "register")
    /\ UNCHANGED <<m_bConnected, m_sendBufferQueue, m_owner, m_sendBuffer,
                   pending, wire, pushed, failed, refused>>

\* ProcessSend of no bytes, and Disconnect for any other reason.
Disconnect(t) ==
    /\ \/ pc[t] = "disconnect" /\ Goto(t, "idle")
       \/ pc[t] = "idle" /\ m_bConnected /\ UNCHANGED pc
    /\ m_bConnected' = FALSE
    /\ UNCHANGED <<m_sendBufferQueue, m_bSendRegistered, m_owner, m_sendBuffer,
                   pending, wire, pushed, failed, refused>>
-----------------------------------------------------------------------------
Sending(t) ==
    \/ Push(t) \/ RegisterSend(t) \/ Drain(t) \/ WSASend(t) \/ WSASendError(t)
    \/ Unregister(t) \/ CheckQueue(t)
    \/ pc[t] = "disconnect" /\ Disconnect(t)

Next ==
    \/ \E t \in Threads : Send(t) \/ Sending(t) \/ ProcessSend(t) \/ Disconnect(t)
    \/ Transmit \/ Abort

Spec == Init /\ [][Next]_vars

\* Threads run on, sends complete, and completions are taken by some worker.
Fairness ==
    /\ \A t \in Threads : WF_vars(Sending(t))
    /\ WF_vars(Transmit \/ Abort)
    /\ WF_vars(\E t \in Threads : ProcessSend(t))

FairSpec == Spec /\ Fairness
-----------------------------------------------------------------------------
Labels == {"idle", "push", "register", "drain", "wsasend", "unregister", "check",
           "disconnect"}

\* Every variable has its type, and no more was taken from the queue than was
\* put into it.
InFlight == IF pending = "sent" THEN <<>> ELSE m_sendBuffer

TypeOK ==
    /\ m_bConnected \in BOOLEAN /\ m_bSendRegistered \in BOOLEAN
    /\ m_sendBufferQueue \in Seq(Nat) /\ m_sendBuffer \in Seq(Nat)
    /\ wire \in Seq(Nat) /\ pushed \in Nat
    /\ m_owner \in BOOLEAN /\ failed \in BOOLEAN /\ refused \in BOOLEAN
    /\ pending \in {"none", "sending", "sent", "aborted"}
    /\ pc \in [Threads -> Labels]
    /\ Len(wire) + Len(InFlight) + Len(m_sendBufferQueue) <= pushed

Sender(t) == pc[t] \in {"register", "drain", "wsasend", "unregister", "check"}

\* m_sendEvent belongs to one sender, or to the system while its WSASend is
\* pending: no thread fills, sends or clears it beside another one.  A
\* completion finds the session through its m_owner.
OneSender ==
    /\ \A t, u \in Threads : Sender(t) /\ Sender(u) => t = u
    /\ \A t \in Threads : Sender(t) => pending = "none" /\ m_bSendRegistered
    /\ pending # "none" => m_owner /\ m_bSendRegistered

\* What was sent, what is being sent and what waits is the stream of
\* messages queued: in order, none lost and none twice, for as long as no
\* WSASend failed.
StreamIntact ==
    ~failed => wire \o InFlight \o m_sendBufferQueue = [i \in 1 .. pushed |-> i - 1]

\* No message waits while nobody is going to send it.
NoneLeftBehind == ~failed /\ ~m_bSendRegistered => m_sendBufferQueue = <<>>

\* Every message queued is sent, unless the session ends or a WSASend fails,
\* which loses what it carried (IocpSession.cpp:282).
EverythingSent ==
    \A n \in 1 .. MaxMessages :
        pushed >= n ~> (Len(wire) >= n \/ ~m_bConnected \/ failed)

\* What left before the gap that the messages of a refused WSASend leave.
Unbroken == IF refused THEN [i \in {k \in DOMAIN wire : wire[k] = k - 1} |-> i - 1]
                       ELSE wire

\* Up to such a gap what leaves is a stream: a send that is aborted ends it,
\* and none overtakes or repeats another one.
Stream == INSTANCE SendStream WITH given <- pushed, wire <- Unbroken
StreamSpec == Stream!Spec
=============================================================================
