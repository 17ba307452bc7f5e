----------------------------- MODULE QueueSize -----------------------------
(***************************************************************************)
(* The sizes a topic's queue may have, as the nodes use them: what         *)
(* round_pow_of_two_8() of uORBDeviceNode.cpp is meant to compute.         *)
(* RoundPow translates the function and is compared with this definition.  *)
(***************************************************************************)
EXTENDS Integers

QueueSizes == {1, 2, 4, 8, 16, 32, 64, 128}

(* The smallest queue size that holds n elements, or the largest one. *)
RoundPowOfTwo8(n) ==
    CHOOSE q \in QueueSizes :
        /\ q >= n \/ q = 128
        /\ \A r \in QueueSizes : r >= n => q <= r
=============================================================================
