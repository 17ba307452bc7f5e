-------------------------- MODULE MCFailsafeToggle --------------------------
(***************************************************************************)
(* A failure that comes and goes: it is present for at least MinFailing    *)
(* updates in a row and never absent for two, on an armed vehicle whose    *)
(* pilot does nothing.  Updates are evenly spaced.                         *)
(***************************************************************************)
EXTENDS FailsafeFramework

CONSTANTS link, MinFailing

VARIABLE streak   \* number of updates the failure has been present in a row

MCCheckOrder == <<link>>

MCOptionsOf ==
    [c \in Callers |-> {[action |-> RTL, clear_condition |-> WhenConditionClears,
                         allow_user_takeover |-> AutoTakeover, can_be_deferred |-> TRUE]}]

MCCanRunSets == {Modes}

MCCheckModeFallback(can, mode) == IF mode \in can THEN None ELSE RTL

Toggle(fails) ==
    /\ pc = "check" /\ next_check = 1
    /\ ~fails => streak >= MinFailing
    /\ streak' = IF fails THEN Min({streak + 1, MinFailing}) ELSE 0
    /\ \E options \in OptionsOf[link] : Check(TRUE, fails, options)

ToggleInit == Init /\ streak = 0

ToggleNext ==
    \/ \E fails \in BOOLEAN : Toggle(fails)
    \/ /\ \/ \E dt \in Dts : UpdateBegin(TRUE, POSCTL, FALSE, FALSE, dt)
          \/ \E can \in CanRunSets : CheckFallback(can)
          \/ UpdateEnd
       /\ UNCHANGED streak

(* The commander calls update() in every cycle of its loop. *)
ToggleSpec ==
    ToggleInit /\ [][ToggleNext]_<<vars, streak>> /\ WF_<<vars, streak>>(ToggleNext)

(* Even with a toggling state the delayed action is executed at some point   *)
(* (the comment of updateStartDelay(), framework.cpp:123).                   *)
ToggledFailureIsActedOn == <>(selected_action = RTL)
=============================================================================
