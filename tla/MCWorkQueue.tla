---------------------------- MODULE MCWorkQueue ----------------------------
(***************************************************************************)
(* Instances of WorkQueue for TLC.  Threads may be called upon to add an   *)
(* item any number of times; the semaphore is bounded by their number.     *)
(***************************************************************************)
EXTENDS WorkQueue
=============================================================================
