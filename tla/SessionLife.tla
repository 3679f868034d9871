---------------------------- MODULE SessionLife ----------------------------
(***************************************************************************)
(* What the life of a session looks like to the server that keeps it: it   *)
(* is put on one list once, told of its end once, taken off the list once, *)
(* in this order and never again, and the counter beside a list is its     *)
(* size.  RIO keeps a list per RioCore, IOCP one in its IocpService.       *)
(***************************************************************************)
EXTENDS Naturals

CONSTANTS Sessions, Lists

VARIABLES listed, \* per list, its sessions
          told,   \* sessions whose OnDisconnected was called
          count   \* per list, the counter kept beside it

lifeVars == <<listed, told, count>>

Init ==
    /\ listed = [l \in Lists |-> {}] /\ count = [l \in Lists |-> 0]
    /\ told = {}

Enlist(l, s) ==
    /\ s \notin told /\ \A k \in Lists : s \notin listed[k]
    /\ listed' = [listed EXCEPT ![l] = @ \cup {s}]
    /\ count' = [count EXCEPT ![l] = @ + 1]
    /\ UNCHANGED told

Tell(l, s) ==
    /\ s \in listed[l] \ told
    /\ told' = told \cup {s}
    /\ UNCHANGED <<listed, count>>

Release(l, s) ==
    /\ s \in listed[l] \cap told
    /\ listed' = [listed EXCEPT ![l] = @ \ {s}]
    /\ count' = [count EXCEPT ![l] = @ - 1]
    /\ UNCHANGED told

Next == \E l \in Lists, s \in Sessions : Enlist(l, s) \/ Tell(l, s) \/ Release(l, s)

Spec == Init /\ [][Next]_lifeVars
=============================================================================
