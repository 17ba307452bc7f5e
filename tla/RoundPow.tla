------------------------------ MODULE RoundPow ------------------------------
(***************************************************************************)
(* round_pow_of_two_8() of uORBDeviceNode.cpp on its 8-bit integers.       *)
(***************************************************************************)
EXTENDS Integers, Bitwise, QueueSize

UINT8_MAX == 255

(* value |= value >> shift *)
Fill(value, shift) == value | shiftR(value, shift)

(* Mutant: the case of a value that cannot be rounded up is forgotten. *)
RoundDownNever(value) == value

(* "Unable to round-up, take the value of round-down" *)
RoundDown(value) == IF value = UINT8_MAX THEN shiftR(value, 1) ELSE value

round_pow_of_two_8(n) ==
    IF n = 0 THEN 1
    ELSE (RoundDown(Fill(Fill(Fill(n - 1, 1), 2), 4)) + 1) % (UINT8_MAX + 1)

(* Every argument yields the smallest power of two that is not below it,    *)
(* and 128 above that: "65...255 => 128".                                   *)
AgreesWithReference == \A n \in 0 .. UINT8_MAX : round_pow_of_two_8(n) = RoundPowOfTwo8(n)
=============================================================================
