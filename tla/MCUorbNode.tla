----------------------------- MODULE MCUorbNode -----------------------------
(***************************************************************************)
(* Instances of UorbNode for TLC.                                          *)
(***************************************************************************)
EXTENDS UorbNode, RoundPow, TLC

CONSTANTS p1, p2

(* One publisher, or two that advertise with different sizes. *)
OnePublisher1 == (p1 :> 1)
TwoPublishers12 == (p1 :> 1) @@ (p2 :> 2)
TwoPublishers1 == (p1 :> 1) @@ (p2 :> 1)

(* round_pow_of_two_8() computes the rounding the node is specified with,   *)
(* for all 256 arguments, and leaves a size the node uses as it is: the     *)
(* size by which generations are reduced is never 0                         *)
(* (uORBDeviceNode.cpp:51-74).                                              *)
RoundsUp == AgreesWithReference /\ queue_size = round_pow_of_two_8(queue_size)
=============================================================================
