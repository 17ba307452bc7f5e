--------------------------- MODULE FailsafeActions ---------------------------
(***************************************************************************)
(* The decisions of class Failsafe                                         *)
(* (src/modules/commander/failsafe/failsafe.cpp) as functions of the       *)
(* parameters and flags: the options a parameter selects for a failing     *)
(* check, which modes can run with the estimates there are, and the action *)
(* that takes the place of a mode that cannot.                             *)
(***************************************************************************)
EXTENDS FailsafeTypes

AUTO_MISSION       == "AUTO_MISSION"
ACRO               == "ACRO"
TERMINATION        == "TERMINATION"
OFFBOARD           == "OFFBOARD"
AUTO_TAKEOFF       == "AUTO_TAKEOFF"
FOLLOW_TARGET      == "AUTO_FOLLOW_TARGET"
ORBIT              == "ORBIT"
VTOL_TAKEOFF       == "AUTO_VTOL_TAKEOFF"
PrismaModes == {"PRISMA_1", "PRISMA_MARINE_MANUAL", "PRISMA_AUTO_MARINE",
                "PRISMA_MARINE_MANUAL_TS", "PRISMA_MARINE_MANUAL_FF"}
NavStates == NamedModes \cup PrismaModes \cup
    {AUTO_MISSION, ACRO, TERMINATION, OFFBOARD, AUTO_TAKEOFF, FOLLOW_TARGET, ORBIT, VTOL_TAKEOFF}

-----------------------------------------------------------------------------
(* Options that parameters select.                                          *)

(* ActionOptions(action); with clear_condition OnModeChangeOrDisarm; and    *)
(* one that nobody takes over from and nothing clears.                      *)
Plainly(action) ==
    [action |-> action, clear_condition |-> WhenConditionClears,
     allow_user_takeover |-> AutoTakeover, can_be_deferred |-> TRUE]
Latching(action) == [Plainly(action) EXCEPT !.clear_condition = OnModeChangeOrDisarm]
Finally(action) ==
    [Plainly(action) EXCEPT !.clear_condition = NeverClear, !.allow_user_takeover = Never]
CannotBeDeferred(options) == [options EXCEPT !.can_be_deferred = FALSE]

(* NAV_RCL_ACT and NAV_DLL_ACT *)
FromNavDllOrRclActParam(value) ==
    CASE value = 1 -> Plainly(Hold)
      [] value = 2 -> Latching(RTL)
      [] value = 3 -> Plainly(Land)
      [] value = 5 -> Finally(Terminate)
      [] value = 6 -> [Plainly(Disarm) EXCEPT !.allow_user_takeover = Never]
      [] OTHER     -> Plainly(None)

(* GF_ACTION *)
FromGfActParam(value) ==
    CASE value = 0 -> Plainly(None)
      [] value = 2 -> [Latching(Hold) EXCEPT !.allow_user_takeover = AlwaysModeSwitchOnly]
      [] value = 3 -> Latching(RTL)
      [] value = 4 -> Finally(Terminate)
      [] value = 5 -> Plainly(Land)
      [] OTHER     -> Plainly(Warn)

(* COM_WIND_MAX_ACT has the same values with the same effect. *)
FromHighWindLimitActParam(value) == FromGfActParam(value)

(* COM_IMB_PROP_ACT *)
FromImbalancedPropActParam(value) ==
    CASE value = 0 -> Plainly(Warn)
      [] value = 1 -> Latching(RTL)
      [] value = 2 -> Latching(Land)
      [] OTHER     -> Plainly(None)

(* COM_ACT_FAIL_ACT *)
FromActuatorFailureActParam(value) ==
    CASE value = 1 -> Plainly(Hold)
      [] value = 2 -> Latching(Land)
      [] value = 3 -> Latching(RTL)
      [] value = 4 -> [Plainly(Terminate) EXCEPT !.clear_condition = NeverClear]
      [] OTHER     -> Plainly(Warn)

(* COM_LOW_BAT_ACT *)
FromBatteryWarningActParam(value, warning) ==
    CASE warning = "low"                              -> Plainly(Warn)
      [] warning = "critical" /\ value \in {1, 3}     -> Plainly(RTL)
      [] warning = "critical" /\ value = 2            -> Plainly(Land)
      [] warning = "emergency" /\ value = 1           -> Plainly(RTL)
      [] warning = "emergency" /\ value \in {2, 3}    -> Plainly(Land)
      [] warning \in {"critical", "emergency"} /\ value \notin 1 .. 3 -> Plainly(Warn)
      [] OTHER                                        -> Plainly(None)

(* COM_QC_ACT *)
FromQuadchuteActParam(value) ==
    CASE value = 0 -> Latching(RTL)
      [] value = 1 -> Latching(Land)
      [] value = 2 -> Latching(Hold)
      [] OTHER     -> Plainly(Warn)

-----------------------------------------------------------------------------
(* Which modes can run.                                                     *)

(* Estimates and signals that may be invalid or lost.  What getModeRequire- *)
(* ments() demands besides (manual control, wind and flight time, nothing   *)
(* that prevents arming) is not looked at by modeCanRun().                  *)
Flags == {"angular_velocity", "attitude", "local_position", "local_position_relaxed",
          "global_position", "local_alt", "mission", "offboard_signal", "home_position"}

(* getModeRequirements(): the flags a mode needs.  The modes of the fork    *)
(* need none.                                                               *)
Attitude == {"angular_velocity", "attitude"}
LocalPosition == Attitude \cup {"local_alt", "local_position"}
Requirements(mode, fixed_wing) ==
    CASE mode \in {ALTCTL, DESCEND} -> Attitude \cup {"local_alt"}
      [] mode = POSCTL       -> Attitude \cup {"local_alt", "local_position_relaxed"}
                                    \cup (IF fixed_wing THEN {"global_position"} ELSE {})
      [] mode = AUTO_MISSION -> LocalPosition \cup {"global_position", "mission"}
      [] mode = AUTO_LOITER  -> LocalPosition \cup {"global_position"}
      [] mode = AUTO_RTL     -> LocalPosition \cup {"global_position", "home_position"}
      [] mode = ACRO         -> {"angular_velocity"}
      [] mode = OFFBOARD     -> Attitude \cup {"offboard_signal"}
      [] mode = STAB         -> Attitude
      [] mode \in {AUTO_TAKEOFF, AUTO_LAND, FOLLOW_TARGET, AUTO_PRECLAND, ORBIT, VTOL_TAKEOFF} ->
            LocalPosition
      [] OTHER               -> {}

(* modeCanRun(): the modes that can run while the flags of lost are set.    *)
(* Without the modes of external components (mode_req_other).               *)
CanRun(lost, fixed_wing) == {m \in NavStates : Requirements(m, fixed_wing) \cap lost = {}}

-----------------------------------------------------------------------------
(* checkModeFallback(), statement by statement: what becomes of the action  *)
(* and of the (local) user_intended_mode.                                   *)

Intended(action, mode) == [action |-> action, mode |-> mode]

(* fromOffboardLossActParam(COM_OBL_RC_ACT) *)
FromOffboardLossActParam(value, mode) ==
    CASE value = 1 -> Intended(FallbackAltCtrl, ALTCTL)
      [] value = 2 -> Intended(FallbackStab, STAB)
      [] value = 3 -> Intended(RTL, AUTO_RTL)
      [] value = 4 -> Intended(Land, AUTO_LAND)
      [] value = 5 -> Intended(Hold, AUTO_LOITER)
      [] value = 6 -> Intended(Terminate, TERMINATION)
      [] value = 7 -> Intended(Disarm, mode)
      [] OTHER     -> Intended(FallbackPosCtrl, POSCTL)

(* A step to another mode if the one reached cannot run.                    *)
Step(i, can, from, action, to) == IF i.mode = from /\ from \notin can THEN Intended(action, to) ELSE i

(* The switch on COM_POSCTL_NAVL.                                           *)
PositionLoss(i, can, navl) ==
    CASE navl = 0 -> Step(Step(i, can, POSCTL, FallbackAltCtrl, ALTCTL), can, ALTCTL, FallbackStab, STAB)
      [] navl = 1 /\ i.mode = POSCTL -> Step(Step(i, can, POSCTL, Land, AUTO_LAND), can, AUTO_LAND, Descend, DESCEND)
      [] OTHER    -> i

ModeFallback(can, signal_lost, mode, obl, navl) ==
    LET first == IF signal_lost /\ mode = OFFBOARD THEN FromOffboardLossActParam(obl, mode)
                 ELSE Intended(None, mode)
        then  == PositionLoss(first, can, navl)
    IN  IF first.action = Disarm THEN Disarm
        ELSE IF then.mode \notin can THEN RTL
        ELSE then.action
=============================================================================
