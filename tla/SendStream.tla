----------------------------- MODULE SendStream -----------------------------
(***************************************************************************)
(* What a session promises to those who send: what they give leaves the    *)
(* machine in the order given, nothing twice and nothing left out in       *)
(* between.  It may end anywhere, as a connection does.                    *)
(***************************************************************************)
EXTENDS Naturals, Sequences

VARIABLES given, \* number of units given: messages or bytes, numbered from 0
          wire   \* the units that left

Init == given = 0 /\ wire = <<>>

Give ==
    /\ given' \in Nat /\ given' > given
    /\ UNCHANGED wire

Leave ==
    /\ \E n \in Len(wire) + 1 .. given : wire' = [i \in 1 .. n |-> i - 1]
    /\ UNCHANGED given

Next == Give \/ Leave

Spec == Init /\ [][Next]_<<given, wire>>
=============================================================================
