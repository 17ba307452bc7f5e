------------------------- MODULE FailsafeFramework -------------------------
(***************************************************************************)
(* The failsafe state machine of the commander (class FailsafeBase,        *)
(* src/modules/commander/failsafe/framework.{h,cpp}).                      *)
(*                                                                         *)
(* One call of FailsafeBase::update() runs on the commander thread without *)
(* interruption.  It is modelled in the order of the code as               *)
(*     UpdateBegin -> Check (once per check) -> CheckFallback -> UpdateEnd *)
(* and nothing else is enabled in between (pc # "idle").  The checks that  *)
(* the subclass makes in checkStateAndMode() are abstract here: each check *)
(* of CheckOrder may or may not be called, may or may not see its failure, *)
(* and passes one of the options OptionsOf allows it.  The last check is   *)
(* the mode fallback, as in Failsafe::checkStateAndMode().                 *)
(*                                                                         *)
(* Time enters the code only through differences, so the model keeps       *)
(* durations (in ticks): dt = time_us - _last_update, and the age of a     *)
(* deferral instead of its start time.                                     *)
(***************************************************************************)
EXTENDS Integers, Sequences, FiniteSetsExt, FailsafeTypes

CONSTANTS
    CheckOrder,        \* sequence of the caller ids checkStateAndMode() checks
    OwnState,          \* callers that keep their last state themselves
    FallbackId,        \* _caller_id_mode_fallback
    NoId,              \* the id -1 of an unused slot
    OptionsOf,         \* [caller -> set of the options its check may pass]
    MaxNumActions,     \* max_num_actions
    UserModes,         \* modes the user can intend
    CanRunSets,        \* sets of modes the status flags may allow to run
    CheckModeFallback(_, _),  \* virtual checkModeFallback(flags, mode)
    DelayParams,       \* values of COM_FAIL_ACT_T, in ticks
    MinTakeoverDelay,  \* the 0.1 s of checkFailsafe(), in ticks
    Dts,               \* possible times between two updates, in ticks
    DeferTimeouts,     \* values of _defer_timeout, 0 for none
    MaxAge             \* bound on the age of a deferral

-----------------------------------------------------------------------------
Modes == NamedModes \cup UserModes

Callers == {CheckOrder[i] : i \in 1 .. Len(CheckOrder)}
Ids     == Callers \cup {FallbackId}
Slots   == 1 .. MaxNumActions

(* A slot of _actions. *)
Entry == [id : Ids \cup {NoId}, action : Action, clear_condition : ClearCondition,
          allow_user_takeover : UserTakeoverAllowed, can_be_deferred : BOOLEAN,
          state_failure : BOOLEAN, activated : BOOLEAN]

(* Contents of an invalid slot: no code reads its other fields. *)
Invalid == [id |-> NoId, action |-> None, clear_condition |-> WhenConditionClears,
            allow_user_takeover |-> AutoTakeover, can_be_deferred |-> TRUE,
            state_failure |-> FALSE, activated |-> FALSE]

(* Arguments of the update in progress. *)
Input == [armed : BOOLEAN, mode : Modes, mode_updated : BOOLEAN,
          rc_sticks : BOOLEAN, dt : Nat]

ASSUME CheckOrderAssumption ==
    /\ CheckOrder \in Seq(Callers)
    /\ \A i, j \in 1 .. Len(CheckOrder) : CheckOrder[i] = CheckOrder[j] => i = j
ASSUME IdsAssumption == NoId \notin Ids /\ FallbackId \notin Callers
ASSUME OwnStateAssumption == OwnState \subseteq Callers
ASSUME OptionsAssumption == OptionsOf \in [Callers -> SUBSET Options]
ASSUME MaxNumActionsAssumption == MaxNumActions \in Nat \ {0}
ASSUME DurationsAssumption ==
    /\ DelayParams \subseteq Nat /\ DelayParams # {}
    /\ Dts \subseteq Nat
    /\ DeferTimeouts \subseteq Nat
    /\ MinTakeoverDelay \in Nat
    /\ MaxAge \in Nat
    /\ \A timeout \in DeferTimeouts : timeout < MaxAge
ASSUME ModesAssumption ==
    /\ UserModes # {}
    /\ CanRunSets \subseteq SUBSET Modes
ASSUME FallbackAssumption ==
    \A can \in CanRunSets, m \in Modes :
        /\ CheckModeFallback(can, m) \in Action \ {Warn}
        /\ CheckModeFallback(can, m) = None => m \in can

VARIABLES
    pc,                       \* where update() is: "idle", "check", "finish"
    next_check,               \* index in CheckOrder of the next check
    in,                       \* arguments of the update
    actions,                  \* _actions
    last_armed,               \* _last_armed
    last_user_intended_mode,  \* _last_user_intended_mode
    last_failure,             \* what the checks saw last (_last_status_flags, _last_state_*)
    can_run,                  \* modes the flags of the last update allow (_last_status_flags)
    selected_action,          \* _selected_action
    user_takeover_active,     \* _user_takeover_active
    defer_failsafes,          \* _defer_failsafes
    defer_timeout,            \* _defer_timeout
    defer_age,                \* time since _failsafe_defer_started, NotDeferred if that is 0
    com_fail_act_t,           \* _param_com_fail_act_t
    current_start_delay,      \* _current_start_delay
    current_delay,            \* _current_delay
    \* History of the update in progress, read by properties only.
    demanded,                 \* worst action of the checks that failed
    no_free_idx,              \* "No free failsafe action idx" was reported
    new_failsafe              \* an action >= Hold was added

history == <<demanded, no_free_idx, new_failsafe>>
delays  == <<com_fail_act_t, current_start_delay, current_delay>>
defer   == <<defer_failsafes, defer_timeout, defer_age>>
outputs == <<last_armed, last_user_intended_mode, selected_action>>
vars == <<pc, next_check, in, actions, last_failure, can_run, user_takeover_active,
          outputs, defer, delays, history>>

NotDeferred == -1

(* No update is in progress. *)
NoInput == [armed |-> FALSE, mode |-> MANUAL, mode_updated |-> FALSE,
            rc_sticks |-> FALSE, dt |-> 0]

Init ==
    /\ pc = "idle"
    /\ next_check = 1
    /\ in = NoInput
    /\ actions = [i \in Slots |-> Invalid]
    /\ last_armed = FALSE
    /\ last_user_intended_mode = MANUAL
    /\ last_failure = [c \in Ids |-> FALSE]
    /\ can_run = {}
    /\ selected_action = None
    /\ user_takeover_active = FALSE
    /\ defer_failsafes = FALSE
    /\ defer_timeout = 0
    /\ defer_age = NotDeferred
    /\ com_fail_act_t \in DelayParams
    /\ current_start_delay = com_fail_act_t
    /\ current_delay = 0
    /\ demanded = None
    /\ no_free_idx = FALSE
    /\ new_failsafe = FALSE

-----------------------------------------------------------------------------
(* The table of active actions. *)

Valid(t) == {i \in Slots : t[i].id # NoId}

(* Mutant: clears an action although its condition still fails. *)
RemoveActionsEarly(t, condition) ==
    [i \in Slots |-> IF t[i].clear_condition = condition THEN Invalid ELSE t[i]]

(* removeActions(condition) *)
RemoveActions(t, condition) ==
    [i \in Slots |-> IF ~t[i].state_failure /\ t[i].clear_condition = condition
                     THEN Invalid ELSE t[i]]

(* removeAction(action) *)
RemoveAction(e) ==
    IF e.clear_condition = WhenConditionClears
    THEN Invalid
    ELSE [e EXCEPT !.state_failure = FALSE]

(* removeNonActivatedActions() *)
RemoveNonActivatedActions(t) ==
    [i \in Slots |->
        [(IF t[i].id # NoId /\ ~t[i].activated THEN RemoveAction(t[i]) ELSE t[i])
            EXCEPT !.activated = FALSE]]

(* The slots that hold the action of a caller. *)
Found(t, id) == {i \in Slots : t[i].id = id}

(* The slots a new action may take: an unused one if there is one, else that *)
(* of a less severe action; checkFailsafe() takes the last of them.          *)
Candidates(t, action) ==
    IF Valid(t) # Slots
    THEN Slots \ Valid(t)
    ELSE {i \in Slots : action > t[i].action}

(* The entry for a new action; Auto is resolved by COM_FAIL_ACT_T. *)
NewEntry(id, options) ==
    [id |-> id, action |-> options.action,
     clear_condition |-> options.clear_condition,
     allow_user_takeover |->
        IF options.allow_user_takeover # AutoTakeover THEN options.allow_user_takeover
        ELSE IF com_fail_act_t > MinTakeoverDelay THEN Always
        ELSE AlwaysModeSwitchOnly,
     can_be_deferred |-> options.can_be_deferred,
     state_failure |-> TRUE, activated |-> TRUE]

(* Adding an action of type Auto starts the delay, unless it already runs. *)
StartsDelay(options) ==
    /\ options.allow_user_takeover = AutoTakeover
    /\ com_fail_act_t > MinTakeoverDelay
    /\ options.action # Warn
    /\ current_delay = 0

(* checkFailsafe(caller_id, last_state_failure, cur_state_failure, options): *)
(* its three outcomes for a failing check, and the one for a cleared one.    *)
(* Mutant: an action that is already active keeps its first severity. *)
UpdateEntryFlagsOnly(id, options) ==
    /\ \E i \in Found(actions, id) :
            actions' = [actions EXCEPT ![i].state_failure = TRUE, ![i].activated = TRUE]
    /\ UNCHANGED <<current_delay, user_takeover_active, no_free_idx, new_failsafe>>

UpdateEntry(id, options) ==
    /\ \E i \in Found(actions, id) :
            /\ \A j \in Found(actions, id) : i <= j
            /\ actions' = [actions EXCEPT ![i].state_failure = TRUE, ![i].activated = TRUE,
                                          ![i].action = options.action]
    /\ UNCHANGED <<current_delay, user_takeover_active, no_free_idx, new_failsafe>>

(* Mutant: a new failsafe does not clear the takeover. *)
AddEntryKeepTakeover(id, options) ==
    /\ Found(actions, id) = {}
    /\ \E i \in Candidates(actions, options.action) :
            /\ \A j \in Candidates(actions, options.action) : j <= i
            /\ actions' = [actions EXCEPT ![i] = NewEntry(id, options)]
    /\ current_delay' = IF StartsDelay(options) THEN current_start_delay ELSE current_delay
    /\ no_free_idx' = (no_free_idx \/ Valid(actions) = Slots)
    /\ new_failsafe' = (new_failsafe \/ options.action >= Hold)
    /\ UNCHANGED user_takeover_active

AddEntry(id, options) ==
    /\ Found(actions, id) = {}
    /\ \E i \in Candidates(actions, options.action) :
            /\ \A j \in Candidates(actions, options.action) : j <= i
            /\ actions' = [actions EXCEPT ![i] = NewEntry(id, options)]
    /\ current_delay' = IF StartsDelay(options) THEN current_start_delay ELSE current_delay
    /\ user_takeover_active' = (user_takeover_active /\ options.action < Hold)
    /\ no_free_idx' = (no_free_idx \/ Valid(actions) = Slots)
    /\ new_failsafe' = (new_failsafe \/ options.action >= Hold)

NoSlot(id, options) ==
    /\ Found(actions, id) = {}
    /\ Candidates(actions, options.action) = {}
    /\ no_free_idx' = TRUE
    /\ UNCHANGED <<actions, current_delay, user_takeover_active, new_failsafe>>

ConditionFails(id, options) ==
    /\ \/ UpdateEntry(id, options)
       \/ AddEntry(id, options)
       \/ NoSlot(id, options)
    /\ demanded' = Max({demanded, options.action})

ConditionOk(id) ==
    /\ actions' = [i \in Slots |->
            IF actions[i].id = id /\ last_failure[id]
            THEN RemoveAction(actions[i]) ELSE actions[i]]
    /\ UNCHANGED <<current_delay, user_takeover_active, history>>

-----------------------------------------------------------------------------
(* Selection of the action (getSelectedAction()). *)

(* Worst action, most restrictive takeover setting and deferrability of a table. *)
WorstAction(t) == Max({None} \cup {t[i].action : i \in Valid(t)})
(* Mutant: the setting of the worst action decides. *)
SettingOfWorst(t) ==
    Max({Always} \cup {t[i].allow_user_takeover : i \in {j \in Valid(t) : t[j].action = WorstAction(t)}})
MostRestrictive(t) == Max({Always} \cup {t[i].allow_user_takeover : i \in Valid(t)})
(* Mutant: only the worst action is asked whether it can be deferred. *)
WorstDeferrable(t) == \A i \in Valid(t) : t[i].action = WorstAction(t) => t[i].can_be_deferred
AllDeferrable(t) == \A i \in Valid(t) : t[i].can_be_deferred

(* actionAllowsUserTakeover(action) *)
ActionAllowsUserTakeover(action) == action \in {Hold, RTL, Land, Descend}

(* Mutant: the delay is one step too long. *)
DelayedOneMore(t, d) ==
    /\ d >= 0
    /\ ~user_takeover_active
    /\ MostRestrictive(t) <= AlwaysModeSwitchOnly
    /\ WorstAction(t) \notin {Disarm, Terminate}

(* The failsafe is delayed: stay in Hold until the delay d has elapsed. *)
Delayed(t, d) ==
    /\ d > 0
    /\ ~user_takeover_active
    /\ MostRestrictive(t) <= AlwaysModeSwitchOnly
    /\ WorstAction(t) \notin {Disarm, Terminate}

Requested(t, d) == IF Delayed(t, d) THEN Hold ELSE WorstAction(t)
TakeoverSetting(t, d) ==
    IF Delayed(t, d) THEN AlwaysModeSwitchOnly ELSE MostRestrictive(t)

(* The pilot has, or now gets, control back by a mode switch or the sticks. *)
TakesOver(t, d) ==
    LET by_mode_switch == in.mode_updated /\ selected_action = Requested(t, d)
    IN  /\ ActionAllowsUserTakeover(Requested(t, d))
        /\ \/ /\ TakeoverSetting(t, d) = Always
              /\ user_takeover_active \/ by_mode_switch \/ in.rc_sticks
           \/ /\ TakeoverSetting(t, d) = AlwaysModeSwitchOnly
              /\ user_takeover_active \/ by_mode_switch

UpdatedMode(t, d) ==
    IF TakesOver(t, d) /\ ~user_takeover_active /\ in.rc_sticks THEN POSCTL ELSE in.mode

(* Mutant: no second look at the mode after a takeover. *)
ChosenUnchecked(t, d) == IF TakesOver(t, d) THEN Warn ELSE Requested(t, d)

(* After a takeover the mode of the pilot may itself need a fallback. *)
Chosen(t, d) ==
    IF TakesOver(t, d)
    THEN Max({Warn, CheckModeFallback(can_run, UpdatedMode(t, d))})
    ELSE Requested(t, d)

(* The switch with fallthrough: the first possible action at or below a. *)
Possible(a) ==
    LET chain == {b \in FallbackPosCtrl .. Descend :
                     b >= a /\ ModeFromAction(b, MANUAL) \in can_run}
    IN  IF a \notin FallbackPosCtrl .. Descend THEN a
        ELSE IF chain = {} THEN Terminate
        ELSE Min(chain)

(* A vehicle that is already landing is not sent into RTL (or Land). *)
AlreadyLanding(mode, action, delayed_action) ==
    /\ mode \in can_run
    /\ \/ mode = AUTO_LAND /\ RTL \in {action, delayed_action}
       \/ mode = AUTO_PRECLAND /\ {RTL, Land} \cap {action, delayed_action} # {}

(* struct SelectedActionState *)
SelectedActionState(action, delayed_action, mode, user_takeover, failsafe_deferred) ==
    [action |-> action, delayed_action |-> delayed_action, mode |-> mode,
     user_takeover |-> user_takeover, failsafe_deferred |-> failsafe_deferred]

SelectNow(t, d) ==
    LET action  == Possible(Chosen(t, d))
        delayed == IF Delayed(t, d) /\ ~TakesOver(t, d) THEN WorstAction(t) ELSE None
        mode    == UpdatedMode(t, d)
    IN  IF AlreadyLanding(mode, action, delayed)
        THEN SelectedActionState(Warn, None, mode, TakesOver(t, d), FALSE)
        ELSE SelectedActionState(action, delayed, mode, TakesOver(t, d), FALSE)

(* Mutant: disarming is looked at before termination. *)
GetSelectedActionDisarmFirst(t, d) ==
    IF ~in.armed
    THEN SelectedActionState(None, None, in.mode, FALSE, FALSE)
    ELSE IF defer_failsafes /\ AllDeferrable(t) /\ WorstAction(t) # None
    THEN SelectedActionState(None, None, in.mode, FALSE, WorstAction(t) > Warn)
    ELSE SelectNow(t, d)

(* getSelectedAction() *)
GetSelectedAction(t, d) ==
    IF selected_action = Terminate
    THEN SelectedActionState(Terminate, None, in.mode, FALSE, FALSE)
    ELSE IF ~in.armed
    THEN SelectedActionState(None, None, in.mode, FALSE, FALSE)
    ELSE IF defer_failsafes /\ AllDeferrable(t) /\ WorstAction(t) # None
    THEN SelectedActionState(None, None, in.mode, FALSE, WorstAction(t) > Warn)
    ELSE SelectNow(t, d)

(* clearDelayIfNeeded() *)
ClearDelayIfNeeded ==
    IF selected_action > Hold \/ AUTO_LOITER \notin can_run \/ user_takeover_active
    THEN 0 ELSE current_delay

(* updateStartDelay(dt, delay_active): shrinks faster than it grows. *)
UpdateStartDelay(dt, delay_active) ==
    IF delay_active
    THEN IF dt < current_start_delay THEN current_start_delay - dt ELSE 0
    ELSE Min({current_start_delay + dt \div 4, com_fail_act_t})

-----------------------------------------------------------------------------
(* Mutant: the unsigned subtraction is not guarded. *)
UpdateDelayUnguarded(elapsed) == current_delay - elapsed

(* updateDelay(elapsed_us) *)
UpdateDelay(elapsed) == IF current_delay < elapsed THEN 0 ELSE current_delay - elapsed

(* Mutant: a deferral ends one tick late. *)
DeferralExpiresLate(age) == defer_timeout > 0 /\ age > defer_timeout + 1

(* time_us > _failsafe_defer_started + _defer_timeout *)
DeferralExpired(age) == defer_timeout > 0 /\ age > defer_timeout

(* update(), first part: actions and takeover that an arming edge or a mode  *)
(* change ends, end of a deferral that timed out, progress of the delay.     *)
UpdateBegin(armed, mode, mode_updated, rc_sticks, dt) ==
    LET updated  == mode_updated \/ last_user_intended_mode # mode
        edge     == last_armed # armed
        takeover == user_takeover_active /\ ~edge
        table    == IF edge
                    THEN RemoveActions(RemoveActions(actions, OnDisarm), OnModeChangeOrDisarm)
                    ELSE actions
        age      == IF defer_age = NotDeferred THEN NotDeferred
                    ELSE Min({defer_age + dt, MaxAge})
    IN  /\ pc = "idle"
        /\ pc' = "check"
        /\ next_check' = 1
        /\ in' = [armed |-> armed, mode |-> mode, mode_updated |-> updated,
                  rc_sticks |-> rc_sticks, dt |-> dt]
        /\ user_takeover_active' = takeover
        /\ actions' = IF updated \/ takeover
                      THEN RemoveActions(table, OnModeChangeOrDisarm) ELSE table
        /\ defer_age' = age
        /\ defer_failsafes' = (defer_failsafes /\ ~DeferralExpired(age))
        /\ current_delay' = IF defer_age # NotDeferred THEN current_delay
                            ELSE UpdateDelay(dt)
        /\ demanded' = None
        /\ no_free_idx' = FALSE
        /\ new_failsafe' = FALSE
        /\ UNCHANGED <<last_failure, can_run, outputs, defer_timeout, com_fail_act_t,
                       current_start_delay>>

(* One check of checkStateAndMode(): the flag it looks at fails or not, and  *)
(* the mode or a parameter may exclude the check from this update.           *)
Check(called, fails, options) ==
    /\ pc = "check"
    /\ next_check <= Len(CheckOrder)
    /\ LET c == CheckOrder[next_check]
       IN  /\ options \in OptionsOf[c]
           /\ \/ called /\ fails /\ ConditionFails(c, options)
              \/ called /\ ~fails /\ ConditionOk(c)
              \/ ~called /\ UNCHANGED <<actions, current_delay, user_takeover_active, history>>
           /\ last_failure' = IF called \/ c \notin OwnState
                              THEN [last_failure EXCEPT ![c] = fails] ELSE last_failure
    /\ next_check' = next_check + 1
    /\ UNCHANGED <<pc, in, can_run, outputs, defer, com_fail_act_t, current_start_delay>>

(* The last check: the intended mode must be able to run, else fall back. *)
FallbackOptions(action) ==
    [action |-> action, clear_condition |-> WhenConditionClears,
     allow_user_takeover |-> Always, can_be_deferred |-> FALSE]

CheckFallback(can) ==
    LET fallback == CheckModeFallback(can, in.mode)
    IN  /\ pc = "check"
        /\ next_check > Len(CheckOrder)
        /\ pc' = "finish"
        /\ can_run' = can
        /\ IF fallback # None
           THEN ConditionFails(FallbackId, FallbackOptions(fallback))
           ELSE ConditionOk(FallbackId)
        /\ last_failure' = [last_failure EXCEPT ![FallbackId] = fallback # None]
        /\ UNCHANGED <<next_check, in, outputs, defer, com_fail_act_t, current_start_delay>>

(* update(), last part: drop the actions of checks that were not made, and  *)
(* select the action, the mode and the takeover from the table.             *)
UpdateEnd ==
    LET table == RemoveNonActivatedActions(actions)
        delay == ClearDelayIfNeeded
        sel   == GetSelectedAction(table, delay)
    IN  /\ pc = "finish"
        /\ pc' = "idle"
        /\ next_check' = 1
        /\ in' = NoInput
        /\ actions' = table
        /\ current_delay' = delay
        /\ current_start_delay' = UpdateStartDelay(in.dt, sel.delayed_action # None)
        /\ defer_age' = IF ~sel.failsafe_deferred THEN NotDeferred
                        ELSE IF defer_age = NotDeferred THEN 0 ELSE defer_age
        /\ last_user_intended_mode' = sel.mode
        /\ user_takeover_active' = sel.user_takeover
        /\ selected_action' = sel.action
        /\ last_armed' = in.armed
        /\ new_failsafe' = FALSE
        /\ UNCHANGED <<last_failure, can_run, defer_failsafes, defer_timeout, com_fail_act_t,
                       demanded, no_free_idx>>

(* deferFailsafes(enabled, timeout_s) *)
DeferFailsafes(enabled, timeout) ==
    /\ pc = "idle"
    /\ ~(enabled /\ selected_action > Warn)
    /\ defer_failsafes' = enabled
    /\ defer_timeout' = timeout
    /\ UNCHANGED <<pc, next_check, in, actions, last_failure, can_run, user_takeover_active,
                   outputs, defer_age, delays, history>>

(* updateParams() *)
UpdateParams(delay) ==
    /\ pc = "idle"
    /\ com_fail_act_t' = delay
    /\ current_start_delay' = delay
    /\ UNCHANGED <<pc, next_check, in, actions, last_failure, can_run, user_takeover_active,
                   outputs, defer, current_delay, history>>

Next ==
    \/ \E armed, mode_updated, rc_sticks \in BOOLEAN, mode \in UserModes, dt \in Dts :
            UpdateBegin(armed, mode, mode_updated, rc_sticks, dt)
    \/ \E called, fails \in BOOLEAN, options \in UNION {OptionsOf[c] : c \in Callers} :
            Check(called, fails, options)
    \/ \E can \in CanRunSets : CheckFallback(can)
    \/ UpdateEnd
    \/ \E enabled \in BOOLEAN, timeout \in DeferTimeouts : DeferFailsafes(enabled, timeout)
    \/ \E delay \in DelayParams : UpdateParams(delay)

Spec == Init /\ [][Next]_vars

-----------------------------------------------------------------------------
(* Properties. *)

(* Types of the variables. *)
TypeOK ==
    /\ pc \in {"idle", "check", "finish"}
    /\ next_check \in 1 .. Len(CheckOrder) + 1
    /\ in \in Input
    /\ actions \in [Slots -> Entry]
    /\ last_armed \in BOOLEAN
    /\ last_user_intended_mode \in Modes
    /\ last_failure \in [Ids -> BOOLEAN]
    /\ can_run \in SUBSET Modes
    /\ selected_action \in Action
    /\ user_takeover_active \in BOOLEAN
    /\ defer_failsafes \in BOOLEAN
    /\ defer_timeout \in Nat
    /\ defer_age \in Nat \cup {NotDeferred}
    /\ com_fail_act_t \in Nat
    /\ current_start_delay \in Nat
    /\ current_delay \in Nat
    /\ demanded \in Action
    /\ no_free_idx \in BOOLEAN
    /\ new_failsafe \in BOOLEAN

(* A caller has at most one slot: checkFailsafe() never has to report        *)
(* "Dup action with ID" (framework.cpp:362).                                 *)
NoDuplicateIds ==
    \A i, j \in Valid(actions) : actions[i].id = actions[j].id => i = j

(* Termination is final: no later update, arming state, mode change, stick   *)
(* movement, deferral or cleared condition ends it (framework.cpp:421).      *)
TerminateIsFinal ==
    [][selected_action = Terminate => selected_action' = Terminate]_vars

(* After an update of an armed vehicle the mode that results from the        *)
(* selected action can run with the current estimates, whatever took it      *)
(* there: a failure, a fallback, the delay, a takeover, or landing already.  *)
(* Only an overflow of the action table is excepted (framework.cpp:507-590). *)
ResultingModeCanRun ==
    pc = "idle" /\ last_armed /\ ~no_free_idx /\ selected_action \notin {Disarm, Terminate} =>
        ModeFromAction(selected_action, last_user_intended_mode) \in can_run

(* Actions further down take precedence: unless the failsafe is deferred,    *)
(* delayed, taken over or moot because the vehicle lands already, the        *)
(* selected action is as severe as that of every failing check, as long as   *)
(* every failing check found a slot (framework.h:53, framework.cpp:436-455). *)
ActsOnWorstFailure ==
    /\ pc = "idle" /\ last_armed /\ ~no_free_idx
    /\ defer_age = NotDeferred /\ current_delay = 0 /\ ~user_takeover_active
    /\ last_user_intended_mode \notin {AUTO_LAND, AUTO_PRECLAND}
    /\ demanded > Warn
    => selected_action >= demanded

(* The pilot is never in control against a Never of an active action.        *)
TakeoverRespectsNever ==
    pc = "idle" /\ user_takeover_active =>
        \A i \in Valid(actions) : actions[i].allow_user_takeover # Never

(* A new failsafe (not a fallback) ends a takeover: the pilot stays in       *)
(* control only by asking again in that same update (framework.cpp:347).     *)
NewFailsafeEndsTakeover ==
    [][pc = "finish" /\ new_failsafe /\ user_takeover_active'
            => in.rc_sticks \/ in.mode_updated]_vars

(* While failsafes are deferred nothing that cannot be deferred is active.   *)
DeferralIsAllowed ==
    pc = "idle" /\ defer_age # NotDeferred =>
        /\ last_armed /\ WorstAction(actions) > Warn
        /\ \A i \in Valid(actions) : actions[i].can_be_deferred
        /\ selected_action = None

(* No update leaves a failsafe deferred for longer than the timeout that is  *)
(* set, also when it is set again or changed in between (framework.cpp:73).  *)
DeferralTimesOut ==
    [][pc = "finish" /\ defer_age' # NotDeferred /\ defer_timeout > 0
            => defer_age' <= defer_timeout]_vars

(* An action that latches leaves the table only by what its clear condition  *)
(* names, after its condition cleared, or to a worse one in a full table     *)
(* (framework.h:72-77).                                                      *)
LatchedActionsAreKept ==
    [][\A i \in Valid(actions) :
            actions'[i].id # actions[i].id =>
                \/ no_free_idx'
                \/ actions[i].clear_condition = WhenConditionClears
                \/ /\ ~actions[i].state_failure
                   /\ \/ actions[i].clear_condition # NeverClear /\ in'.armed # last_armed
                      \/ /\ actions[i].clear_condition = OnModeChangeOrDisarm
                         /\ in'.mode_updated \/ user_takeover_active']_vars

(* Every failsafe mode has a cause: an active action, or the rest of a delay *)
(* that an action has started.                                               *)
FailsafeHasCause ==
    pc = "idle" /\ selected_action > Warn /\ selected_action # Terminate =>
        current_delay > 0 \/ WorstAction(actions) > Warn

(* An update terminates the flight only for a reason: an active action or    *)
(* checkModeFallback() asks for it, or the vehicle cannot even descend, the  *)
(* mode at which every fall through ends (framework.cpp:507-560).            *)
TerminationHasCause ==
    [][selected_action # Terminate /\ selected_action' = Terminate =>
            \/ WorstAction(actions') = Terminate
            \/ \E m \in Modes : CheckModeFallback(can_run, m) = Terminate
            \/ DESCEND \notin can_run]_vars
=============================================================================
