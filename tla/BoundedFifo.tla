---------------------------- MODULE BoundedFifo ----------------------------
(***************************************************************************)
(* What a transmit queue promises its user: frames are handed to the       *)
(* firmware in the order they were put in, each exactly once, and at most  *)
(* Capacity of them are outstanding.  TxQueue implements it with a ring of *)
(* Capacity + 1 slots.                                                     *)
(***************************************************************************)
EXTENDS Naturals, Sequences

CONSTANTS Capacity, Frames

VARIABLE outstanding    \* frames put and not yet acknowledged, oldest first

Init == outstanding = <<>>

Put(f) ==
    /\ Len(outstanding) < Capacity
    /\ outstanding' = Append(outstanding, f)

Acknowledge ==
    /\ outstanding # <<>>
    /\ outstanding' = Tail(outstanding)

Next == Acknowledge \/ \E f \in Frames : Put(f)

Spec == Init /\ [][Next]_outstanding
=============================================================================
