------------------------ MODULE MCFailsafeFramework ------------------------
(***************************************************************************)
(* FailsafeFramework for TLC: two ordinary checks, the mode fallback, and   *)
(* the modes whose requirements differ.                                    *)
(***************************************************************************)
EXTENDS FailsafeFramework, FailsafeActions, TLC

CONSTANTS link, fence

MCCheckOrder == <<link, fence>>

(* A link loss with Return, a geofence breach with Warning or Terminate.     *)
MCOptionsOf ==
    (link  :> {FromNavDllOrRclActParam(2)}) @@
    (fence :> {CannotBeDeferred(FromGfActParam(value)) : value \in {1, 4}})

(* Nothing lost, no position, no attitude estimate.                         *)
MCCanRunSets ==
    {CanRun(lost, FALSE) \cap Modes :
        lost \in {{}, {"local_position", "local_position_relaxed", "global_position"},
                  {"attitude", "local_alt"}}}

(* COM_POSCTL_NAVL = 0; none of the modes needs the offboard signal.        *)
MCCheckModeFallback(can, mode) == ModeFallback(can, FALSE, mode, 0, 0)
=============================================================================
