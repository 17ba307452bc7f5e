---------------------------- MODULE FailsafeTypes ----------------------------
(***************************************************************************)
(* Enumerations and types of the failsafe code                             *)
(* (src/modules/commander/failsafe/framework.h).                           *)
(***************************************************************************)
EXTENDS Integers

(* enum class Action: actions further down take precedence. *)
None            == 0
Warn            == 1
FallbackPosCtrl == 2
FallbackAltCtrl == 3
FallbackStab    == 4
Hold            == 5
RTL             == 6
Land            == 7
Descend         == 8
Disarm          == 9
Terminate       == 10
Action          == 0 .. 10

(* enum class ClearCondition *)
WhenConditionClears  == "WhenConditionClears"
OnModeChangeOrDisarm == "OnModeChangeOrDisarm"
OnDisarm             == "OnDisarm"
NeverClear           == "Never"
ClearCondition == {WhenConditionClears, OnModeChangeOrDisarm, OnDisarm, NeverClear}

(* enum class UserTakeoverAllowed, from the least to the most restrictive. *)
Always               == 0
AlwaysModeSwitchOnly == 1
AutoTakeover         == 2
Never                == 3
UserTakeoverAllowed  == 0 .. 3

(* The navigation states the framework itself names. *)
MANUAL        == "MANUAL"
POSCTL        == "POSCTL"
ALTCTL        == "ALTCTL"
STAB          == "STAB"
AUTO_LOITER   == "AUTO_LOITER"
AUTO_RTL      == "AUTO_RTL"
AUTO_LAND     == "AUTO_LAND"
DESCEND       == "DESCEND"
AUTO_PRECLAND == "AUTO_PRECLAND"
NamedModes == {MANUAL, POSCTL, ALTCTL, STAB, AUTO_LOITER, AUTO_RTL, AUTO_LAND, DESCEND,
               AUTO_PRECLAND}

(* What a check passes to checkFailsafe() (struct ActionOptions). *)
Options == [action : Action, clear_condition : ClearCondition,
            allow_user_takeover : UserTakeoverAllowed, can_be_deferred : BOOLEAN]

(* modeFromAction(action, user_intended_mode) *)
ModeFromAction(action, user_intended_mode) ==
    CASE action = FallbackPosCtrl -> POSCTL
      [] action = FallbackAltCtrl -> ALTCTL
      [] action = FallbackStab    -> STAB
      [] action = Hold            -> AUTO_LOITER
      [] action = RTL             -> AUTO_RTL
      [] action = Land            -> AUTO_LAND
      [] action = Descend         -> DESCEND
      [] OTHER                    -> user_intended_mode
==============================================================================
