--------------------------- MODULE FailsafeProofs ---------------------------
(***************************************************************************)
(* Proofs about FailsafeFramework, for every sequence of checks with every  *)
(* options, every number of slots, every delay and every mode fallback the  *)
(* assumptions of that module allow, and about the decisions of the class   *)
(* Failsafe that FailsafeActions models, for all values of the parameters.  *)
(*                                                                         *)
(* The properties speak of the state after an update, while the table is    *)
(* filled check by check during the update.  The inductive invariant IInv   *)
(* therefore says what the table holds in between: only entries of checks   *)
(* already made are activated, the worst demand so far is among them, and   *)
(* after the last check so is the fallback of a mode that cannot run.       *)
(***************************************************************************)
EXTENDS FailsafeFramework, FailsafeActions, TLAPS

(* The provers a step is tried with unless it names one, and their time.    *)
USE ZenonT(30), SMTT(30)

(* Every nonempty set of numbers up to n has a greatest and a least element. *)
Bounded(n) ==
    \A S \in SUBSET (0 .. n) : S # {} =>
        /\ \E x \in S : \A y \in S : x >= y
        /\ \E x \in S : \A y \in S : x <= y

(* Boundedness carries over from the numbers up to n to those up to n + 1. *)
LEMMA BoundedStep ==
    ASSUME NEW n \in Nat, Bounded(n)
    PROVE  Bounded(n + 1)
<1> SUFFICES ASSUME NEW S \in SUBSET (0 .. n + 1), S # {}
             PROVE  /\ \E x \in S : \A y \in S : x >= y
                    /\ \E x \in S : \A y \in S : x <= y
  BY DEF Bounded
<1>1. CASE S = {n + 1}
  BY <1>1, SMTT(30)
<1>2. CASE S # {n + 1}
  <2> DEFINE T == S \ {n + 1}
  <2>1. T \in SUBSET (0 .. n) /\ T # {}
    BY <1>2, SMTT(30)
  <2>2. PICK x \in T : \A y \in T : x >= y
    BY <2>1 DEF Bounded
  <2>3. PICK z \in T : \A y \in T : z <= y
    BY <2>1 DEF Bounded
  <2>4. \A y \in S : y \in T \/ y = n + 1
    OBVIOUS
  <2>5. \A y \in S : y <= n + 1
    BY SMTT(30)
  <2>6. z \in S /\ x \in S /\ z \in 0 .. n
    BY <2>1
  <2>7. \A y \in S : z <= y
    BY <2>3, <2>4, <2>6, SMTT(30)
  <2>8. \E u \in S : \A y \in S : u >= y
    <3>1. CASE n + 1 \in S
      BY <3>1, <2>5
    <3>2. CASE n + 1 \notin S
      BY <3>2, <2>2, <2>4, <2>6
    <3> QED  BY <3>1, <3>2
  <2> QED  BY <2>6, <2>7, <2>8
<1> QED  BY <1>1, <1>2

(* Sets of actions have a greatest and a least element. *)
LEMMA BoundedActions == Bounded(10)
<1>0. Bounded(0)
  <2>1. \A x \in 0 .. 0 : x = 0
    BY SMTT(30)
  <2>2. \A S \in SUBSET (0 .. 0) : S # {} => 0 \in S /\ \A y \in S : y = 0
    BY <2>1
  <2> QED  BY <2>2, SMTT(30) DEF Bounded
<1>1. Bounded(1)   BY <1>0, BoundedStep, 0 + 1 = 1, SMTT(30)
<1>2. Bounded(2)   BY <1>1, BoundedStep, 1 + 1 = 2, SMTT(30)
<1>3. Bounded(3)   BY <1>2, BoundedStep, 2 + 1 = 3, SMTT(30)
<1>4. Bounded(4)   BY <1>3, BoundedStep, 3 + 1 = 4, SMTT(30)
<1>5. Bounded(5)   BY <1>4, BoundedStep, 4 + 1 = 5, SMTT(30)
<1>6. Bounded(6)   BY <1>5, BoundedStep, 5 + 1 = 6, SMTT(30)
<1>7. Bounded(7)   BY <1>6, BoundedStep, 6 + 1 = 7, SMTT(30)
<1>8. Bounded(8)   BY <1>7, BoundedStep, 7 + 1 = 8, SMTT(30)
<1>9. Bounded(9)   BY <1>8, BoundedStep, 8 + 1 = 9, SMTT(30)
<1> QED  BY <1>9, BoundedStep, 9 + 1 = 10, SMTT(30)

(* Max of a nonempty set of actions is its greatest element. *)
LEMMA MaxOfActions ==
    ASSUME NEW S \in SUBSET (0 .. 10), S # {}
    PROVE  Max(S) \in S /\ \A y \in S : Max(S) >= y
<1>1. \E x \in S : \A y \in S : x >= y
  BY BoundedActions DEF Bounded
<1> QED  BY <1>1 DEF Max

(* Min of a nonempty set of actions is its least element. *)
LEMMA MinOfActions ==
    ASSUME NEW S \in SUBSET (0 .. 10), S # {}
    PROVE  Min(S) \in S /\ \A y \in S : Min(S) <= y
<1>1. \E x \in S : \A y \in S : x <= y
  BY BoundedActions DEF Bounded
<1> QED  BY <1>1 DEF Min

(* Max of two numbers. *)
LEMMA MaxOfTwo ==
    ASSUME NEW a \in Nat, NEW b \in Nat
    PROVE  Max({a, b}) = IF a >= b THEN a ELSE b
<1>1. \A x \in {a, b} : (\A y \in {a, b} : x >= y) <=> x = IF a >= b THEN a ELSE b
  BY SMTT(30)
<1>2. (IF a >= b THEN a ELSE b) \in {a, b}
  OBVIOUS
<1> QED  BY <1>1, <1>2 DEF Max

(* Min of two numbers. *)
LEMMA MinOfTwo ==
    ASSUME NEW a \in Nat, NEW b \in Nat
    PROVE  Min({a, b}) = IF a <= b THEN a ELSE b
<1>1. \A x \in {a, b} : (\A y \in {a, b} : x <= y) <=> x = IF a <= b THEN a ELSE b
  BY SMTT(30)
<1>2. (IF a <= b THEN a ELSE b) \in {a, b}
  OBVIOUS
<1> QED  BY <1>1, <1>2 DEF Min

-----------------------------------------------------------------------------
(* Selection. *)

(* The worst action of a table is an action of the table, or None. *)
LEMMA WorstActionFacts ==
    ASSUME NEW t \in [Slots -> Entry]
    PROVE  /\ WorstAction(t) \in Action
           /\ \A i \in Valid(t) : t[i].action <= WorstAction(t)
           /\ WorstAction(t) = None \/ \E i \in Valid(t) : t[i].action = WorstAction(t)
<1> DEFINE S == {None} \cup {t[i].action : i \in Valid(t)}
<1>1. S \in SUBSET (0 .. 10) /\ S # {}
  BY SMTT(30) DEF Valid, Entry, Action, None
<1>2. Max(S) \in S /\ \A y \in S : Max(S) >= y
  BY <1>1, MaxOfActions
<1>3. \A y \in S : y \in Int
  BY <1>1, SMTT(30)
<1> QED  BY <1>1, <1>2, <1>3 DEF WorstAction, Action

(* The most restrictive takeover setting bounds that of every entry. *)
LEMMA MostRestrictiveFacts ==
    ASSUME NEW t \in [Slots -> Entry]
    PROVE  /\ MostRestrictive(t) \in UserTakeoverAllowed
           /\ \A i \in Valid(t) : t[i].allow_user_takeover <= MostRestrictive(t)
<1> DEFINE S == {Always} \cup {t[i].allow_user_takeover : i \in Valid(t)}
<1>1. S \in SUBSET (0 .. 3) /\ S # {}
  BY SMTT(30) DEF Valid, Entry, UserTakeoverAllowed, Always
<1>2. S \in SUBSET (0 .. 10)
  BY <1>1, SMTT(30)
<1>3. Max(S) \in S /\ \A y \in S : Max(S) >= y
  BY <1>1, <1>2, MaxOfActions
<1>4. \A y \in S : y \in Int
  BY <1>1, SMTT(30)
<1> QED  BY <1>1, <1>3, <1>4 DEF MostRestrictive, UserTakeoverAllowed

(* The fallthrough of getSelectedAction() only makes an action more severe,  *)
(* and ends in one whose mode can run, or outside the modes. *)
LEMMA PossibleFacts ==
    ASSUME NEW a \in Action
    PROVE  /\ Possible(a) \in Action
           /\ Possible(a) >= a
           /\ Possible(a) \in FallbackPosCtrl .. Descend =>
                \A m : ModeFromAction(Possible(a), m) \in can_run
           /\ a \notin FallbackPosCtrl .. Descend => Possible(a) = a
           /\ Possible(a) <= Warn => a = Possible(a)
<1> DEFINE chain == {b \in FallbackPosCtrl .. Descend :
                        b >= a /\ ModeFromAction(b, MANUAL) \in can_run}
<1> USE DEF Action, FallbackPosCtrl, Descend, Warn, Terminate
<1>1. CASE a \notin FallbackPosCtrl .. Descend
  BY <1>1, SMTT(30) DEF Possible
<1>2. CASE a \in FallbackPosCtrl .. Descend /\ chain = {}
  BY <1>2, SMTT(30) DEF Possible
<1>3. CASE a \in FallbackPosCtrl .. Descend /\ chain # {}
  <2>1. Possible(a) = Min(chain)
    BY <1>3 DEF Possible
  <2>2. chain \in SUBSET (0 .. 10)
    BY SMTT(30)
  <2>3. Min(chain) \in chain
    BY <2>2, <1>3, MinOfActions
  <2>4. \A b \in FallbackPosCtrl .. Descend : \A m : ModeFromAction(b, MANUAL) = ModeFromAction(b, m)
    BY SMTT(30) DEF ModeFromAction, FallbackAltCtrl, FallbackStab, Hold, RTL, Land
  <2> QED  BY <2>1, <2>3, <2>4, <1>3, SMTT(30)
<1> QED  BY <1>1, <1>2, <1>3

(* What SelectNow can return, from which the properties of the selected      *)
(* action follow.                                                            *)
LEMMA SelectNowFacts ==
    ASSUME TypeOK, can_run \in CanRunSets,
           NEW t \in [Slots -> Entry], NEW d \in Nat
    PROVE  LET sel == SelectNow(t, d)
           IN  /\ sel.action \in Action
               /\ sel.delayed_action \in Action
               /\ sel.mode \in Modes
               /\ sel.user_takeover = TakesOver(t, d)
               /\ sel.user_takeover \in BOOLEAN
               /\ sel.failsafe_deferred = FALSE
               /\ Chosen(t, d) \in Action
               /\ \/ sel.action = Possible(Chosen(t, d)) /\ sel.mode = UpdatedMode(t, d)
                  \/ /\ sel.action = Warn /\ sel.mode = UpdatedMode(t, d)
                     /\ sel.mode \in can_run /\ sel.mode \in {AUTO_LAND, AUTO_PRECLAND}
<1>1. WorstAction(t) \in Action
  BY WorstActionFacts
<1>2. UpdatedMode(t, d) \in Modes
  BY DEF UpdatedMode, TypeOK, Input, Modes, NamedModes
<1>3. Requested(t, d) \in Action
  BY <1>1, SMTT(30) DEF Requested, Action, Hold
<1>4. CheckModeFallback(can_run, UpdatedMode(t, d)) \in Action
  BY <1>2, FallbackAssumption
<1>5. Chosen(t, d) \in Action
  <2>1. Max({Warn, CheckModeFallback(can_run, UpdatedMode(t, d))}) \in Action
    BY <1>4, MaxOfTwo, SMTT(30) DEF Action, Warn
  <2> QED  BY <2>1, <1>3 DEF Chosen
<1>6. Possible(Chosen(t, d)) \in Action
  BY <1>5, PossibleFacts
<1>7. TakesOver(t, d) \in BOOLEAN
  BY DEF TakesOver
<1> QED  BY <1>1, <1>2, <1>5, <1>6, <1>7, SMTT(60), SMTT(30)
         DEF SelectNow, SelectedActionState, AlreadyLanding, Action, None, Warn

-----------------------------------------------------------------------------
(* The table. *)

(* An unused slot is an entry. *)
LEMMA InvalidIsEntry == Invalid \in Entry
<1>1. None \in Action /\ AutoTakeover \in UserTakeoverAllowed
  BY SMTT(30) DEF None, Action, AutoTakeover, UserTakeoverAllowed
<1>2. WhenConditionClears \in ClearCondition
  BY DEF ClearCondition
<1> QED  BY <1>1, <1>2 DEF Invalid, Entry

(* What removeAction() does to an entry. *)
LEMMA RemoveActionFacts ==
    ASSUME NEW e \in Entry
    PROVE  /\ RemoveAction(e) \in Entry
           /\ RemoveAction(e).id \in {e.id, NoId}
           /\ RemoveAction(e).id # e.id => e.clear_condition = WhenConditionClears
           /\ RemoveAction(e).id # NoId =>
                RemoveAction(e).can_be_deferred = e.can_be_deferred
           /\ RemoveAction(e).activated => e.activated /\ RemoveAction(e).id = e.id
<1>1. CASE e.clear_condition = WhenConditionClears
  BY <1>1, InvalidIsEntry DEF RemoveAction, Invalid
<1>2. CASE e.clear_condition # WhenConditionClears
  BY <1>2 DEF RemoveAction, Entry
<1> QED  BY <1>1, <1>2

(* What removeActions() does to a table. *)
LEMMA RemoveActionsFacts ==
    ASSUME NEW t \in [Slots -> Entry], NEW condition
    PROVE  /\ RemoveActions(t, condition) \in [Slots -> Entry]
           /\ \A i \in Slots :
                \/ RemoveActions(t, condition)[i] = t[i]
                \/ /\ RemoveActions(t, condition)[i] = Invalid
                   /\ ~t[i].state_failure /\ t[i].clear_condition = condition
<1> QED  BY InvalidIsEntry DEF RemoveActions

(* What removeNonActivatedActions() does to a table. *)
LEMMA RemoveNonActivatedFacts ==
    ASSUME NEW t \in [Slots -> Entry]
    PROVE  /\ RemoveNonActivatedActions(t) \in [Slots -> Entry]
           /\ \A i \in Slots :
                LET e == RemoveNonActivatedActions(t)[i]
                IN  /\ e.activated = FALSE
                    /\ e.id \in {t[i].id, NoId}
                    /\ e.id # t[i].id => t[i].clear_condition = WhenConditionClears
                    /\ e.id # NoId => e.can_be_deferred = t[i].can_be_deferred
                    /\ t[i].activated => e.id = t[i].id /\ e.action = t[i].action
<1> SUFFICES ASSUME NEW i \in Slots
             PROVE  LET e == RemoveNonActivatedActions(t)[i]
                    IN  /\ e \in Entry
                        /\ e.activated = FALSE
                        /\ e.id \in {t[i].id, NoId}
                        /\ e.id # t[i].id => t[i].clear_condition = WhenConditionClears
                        /\ e.id # NoId => e.can_be_deferred = t[i].can_be_deferred
                        /\ t[i].activated => e.id = t[i].id /\ e.action = t[i].action
  BY DEF RemoveNonActivatedActions
<1> DEFINE r == IF t[i].id # NoId /\ ~t[i].activated THEN RemoveAction(t[i]) ELSE t[i]
<1>1. RemoveNonActivatedActions(t)[i] = [r EXCEPT !.activated = FALSE]
  BY DEF RemoveNonActivatedActions
<1>2. /\ r \in Entry
      /\ r.id \in {t[i].id, NoId}
      /\ r.id # t[i].id => t[i].clear_condition = WhenConditionClears
      /\ r.id # NoId => r.can_be_deferred = t[i].can_be_deferred
      /\ t[i].activated => r = t[i]
  BY RemoveActionFacts
<1> HIDE DEF r
<1> QED  BY <1>1, <1>2, ZenonT(60) DEF Entry

(* The entry that checkFailsafe() makes is an entry. *)
LEMMA NewEntryIsEntry ==
    ASSUME NEW id \in Ids, NEW options \in Options
    PROVE  NewEntry(id, options) \in Entry
<1> QED  BY SMTT(30) DEF NewEntry, Entry, Options, UserTakeoverAllowed, Always, AlwaysModeSwitchOnly

(* The checks that an update has made so far are checks of callers. *)
LEMMA CheckedAreCallers ==
    ASSUME NEW n \in 1 .. Len(CheckOrder) + 1
    PROVE  /\ Len(CheckOrder) \in Nat
           /\ \A j \in 1 .. n - 1 : CheckOrder[j] \in Callers
<1>1. Len(CheckOrder) \in Nat
  BY CheckOrderAssumption, SMTT(30)
<1>2. \A j \in 1 .. n - 1 : j \in 1 .. Len(CheckOrder)
  BY <1>1, SMTT(30)
<1> QED  BY <1>1, <1>2 DEF Callers

(* checkFailsafe() for a caller whose entry has not been activated yet in    *)
(* this update: a failing check and a cleared one.                           *)
LEMMA ConditionFailsFacts ==
    ASSUME TypeOK, NoDuplicateIds, NEW id \in Ids, NEW options \in Options,
           \A i \in Slots : actions[i].activated => actions[i].id \notin {id, NoId},
           ConditionFails(id, options)
    PROVE  /\ actions' \in [Slots -> Entry]
           /\ current_delay' \in Nat
           /\ user_takeover_active' \in BOOLEAN
           /\ no_free_idx' \in BOOLEAN
           /\ new_failsafe' \in BOOLEAN
           /\ demanded' = IF demanded >= options.action THEN demanded ELSE options.action
           /\ NoDuplicateIds'
           /\ \A i \in Slots :
                \/ actions'[i] = actions[i]
                \/ /\ actions'[i].id = id
                   /\ \/ /\ actions[i].id = id
                         /\ actions'[i].can_be_deferred = actions[i].can_be_deferred
                      \/ actions'[i].can_be_deferred = options.can_be_deferred
           /\ ~no_free_idx' =>
                /\ ~no_free_idx
                /\ \A i \in Slots : actions[i].activated => actions'[i] = actions[i]
                /\ \A i \in Valid(actions) : actions'[i].id = actions[i].id
                /\ \E i \in Slots : /\ actions'[i].id = id /\ actions'[i].activated
                                    /\ actions'[i].action = options.action
           /\ new_failsafe' /\ user_takeover_active' => new_failsafe /\ user_takeover_active
<1>0. options.action \in Action /\ demanded \in Action
  BY DEF Options, TypeOK
<1>1. demanded' = IF demanded >= options.action THEN demanded ELSE options.action
  BY <1>0, MaxOfTwo, SMTT(30) DEF ConditionFails, Action
<1>2. id # NoId
  BY IdsAssumption
<1>3. CASE UpdateEntry(id, options)
  <2>1. PICK i \in Found(actions, id) :
            actions' = [actions EXCEPT ![i].state_failure = TRUE, ![i].activated = TRUE,
                                       ![i].action = options.action]
    BY <1>3 DEF UpdateEntry
  <2>2. i \in Slots /\ actions[i].id = id /\ actions \in [Slots -> Entry]
    BY <2>1 DEF Found, TypeOK
  <2>3. /\ actions' \in [Slots -> Entry]
        /\ \A j \in Slots : actions'[j].id = actions[j].id
        /\ \A j \in Slots : actions'[j].can_be_deferred = actions[j].can_be_deferred
        /\ \A j \in Slots : j # i => actions'[j] = actions[j]
        /\ actions'[i].activated /\ actions'[i].action = options.action
    BY <2>1, <2>2, <1>0, SMTT(30) DEF Entry
  <2>4. NoDuplicateIds'
    BY <2>3, SMTT(30) DEF NoDuplicateIds, Valid
  <2>5. UNCHANGED <<current_delay, user_takeover_active, no_free_idx, new_failsafe>>
    BY <1>3 DEF UpdateEntry
  <2> QED  BY <1>1, <2>2, <2>3, <2>4, <2>5 DEF TypeOK, Valid
<1>4. CASE AddEntry(id, options)
  <2>1. PICK i \in Candidates(actions, options.action) :
            actions' = [actions EXCEPT ![i] = NewEntry(id, options)]
    BY <1>4 DEF AddEntry
  <2>2. i \in Slots /\ actions \in [Slots -> Entry] /\ NewEntry(id, options) \in Entry
    BY <2>1, NewEntryIsEntry DEF Candidates, TypeOK
  <2>3. /\ actions' \in [Slots -> Entry]
        /\ \A j \in Slots : j # i => actions'[j] = actions[j]
        /\ actions'[i] = NewEntry(id, options)
    BY <2>1, <2>2
  <2>4. /\ NewEntry(id, options).id = id /\ NewEntry(id, options).activated
        /\ NewEntry(id, options).action = options.action
        /\ NewEntry(id, options).can_be_deferred = options.can_be_deferred
    BY DEF NewEntry
  <2>5. \A j \in Slots : actions[j].id # id
    BY <1>4 DEF AddEntry, Found
  <2>6. NoDuplicateIds'
    BY <2>3, <2>4, <2>5, SMTT(30) DEF NoDuplicateIds, Valid
  <2>7. /\ current_delay' \in Nat
        /\ user_takeover_active' = (user_takeover_active /\ options.action < Hold)
        /\ no_free_idx' = (no_free_idx \/ Valid(actions) = Slots)
        /\ new_failsafe' = (new_failsafe \/ options.action >= Hold)
    BY <1>4 DEF AddEntry, TypeOK
  <2>8. ~no_free_idx' => ~no_free_idx /\ i \notin Valid(actions)
    BY <2>1, <2>7 DEF Candidates
  <2>9. new_failsafe' /\ user_takeover_active' => new_failsafe /\ user_takeover_active
    BY <2>7, <1>0, SMTT(30) DEF Action, Hold, TypeOK
  <2>10. ~no_free_idx' =>
            /\ \A j \in Slots : actions[j].activated => actions'[j] = actions[j]
            /\ \A j \in Valid(actions) : actions'[j].id = actions[j].id
    BY <2>3, <2>8 DEF Valid
  <2> QED  BY <1>1, <2>2, <2>3, <2>4, <2>6, <2>7, <2>8, <2>9, <2>10 DEF TypeOK
<1>5. CASE NoSlot(id, options)
  BY <1>5, <1>1 DEF NoSlot, TypeOK, NoDuplicateIds, Valid
<1> QED  BY <1>3, <1>4, <1>5 DEF ConditionFails

(* The same for a check that finds its condition cleared. *)
LEMMA ConditionOkFacts ==
    ASSUME TypeOK, NoDuplicateIds, NEW id \in Ids,
           \A i \in Slots : actions[i].activated => actions[i].id \notin {id, NoId},
           ConditionOk(id)
    PROVE  /\ actions' \in [Slots -> Entry]
           /\ UNCHANGED <<current_delay, user_takeover_active, history>>
           /\ NoDuplicateIds'
           /\ \A i \in Slots :
                /\ actions'[i].id \in {actions[i].id, NoId}
                /\ actions'[i].id # NoId =>
                        actions'[i].can_be_deferred = actions[i].can_be_deferred
                /\ actions'[i].id # actions[i].id =>
                        actions[i].clear_condition = WhenConditionClears
                /\ actions[i].activated => actions'[i] = actions[i]
                /\ actions'[i].activated => actions'[i].id = actions[i].id /\ actions[i].activated
<1>1. \A i \in Slots : actions[i] \in Entry
  BY DEF TypeOK
<1>2. \A i \in Slots : actions'[i] = IF actions[i].id = id /\ last_failure[id]
                                     THEN RemoveAction(actions[i]) ELSE actions[i]
  BY DEF ConditionOk
<1>3. /\ actions' \in [Slots -> Entry]
      /\ UNCHANGED <<current_delay, user_takeover_active, history>>
  BY <1>1, RemoveActionFacts DEF ConditionOk
<1>4. \A i \in Slots :
            /\ actions'[i].id \in {actions[i].id, NoId}
            /\ actions'[i].id # NoId =>
                    actions'[i].can_be_deferred = actions[i].can_be_deferred
            /\ actions'[i].id # actions[i].id =>
                    actions[i].clear_condition = WhenConditionClears
            /\ actions[i].activated => actions'[i] = actions[i]
            /\ actions'[i].activated => actions'[i].id = actions[i].id /\ actions[i].activated
  BY <1>1, <1>2, RemoveActionFacts
<1>5. NoDuplicateIds'
  BY <1>4, SMTT(30) DEF NoDuplicateIds, Valid
<1> QED  BY <1>3, <1>4, <1>5

-----------------------------------------------------------------------------
(* The inductive invariant. *)

(* Only entries of checks already made in this update are activated. *)
ActivatedIsChecked ==
    \A i \in Slots : actions[i].activated =>
        \/ pc # "idle" /\ \E j \in 1 .. next_check - 1 : actions[i].id = CheckOrder[j]
        \/ pc = "finish" /\ actions[i].id = FallbackId

(* The worst demand of this update is in the table, as long as all fitted. *)
DemandedIsInTable ==
    pc # "idle" /\ ~no_free_idx /\ demanded # None =>
        \E i \in Slots : actions[i].activated /\ actions[i].action >= demanded

(* Once the fallback was checked, the table holds it if the mode needs it. *)
FallbackIsInTable ==
    pc = "finish" =>
        /\ can_run \in CanRunSets
        /\ ~no_free_idx /\ CheckModeFallback(can_run, in.mode) # None =>
            \E i \in Slots : /\ actions[i].activated /\ actions[i].id = FallbackId
                             /\ actions[i].action = CheckModeFallback(can_run, in.mode)

(* A mode fallback is never deferrable. *)
FallbackNotDeferrable ==
    \A i \in Slots : actions[i].id = FallbackId => ~actions[i].can_be_deferred

(* During an update a deferral that is still allowed is in time. *)
DeferralInTime ==
    pc # "idle" /\ defer_failsafes /\ defer_timeout > 0 => defer_age <= defer_timeout

(* A new failsafe has ended the takeover. *)
NewFailsafeNoTakeover ==
    /\ new_failsafe => ~user_takeover_active
    /\ pc = "idle" => ~new_failsafe

TableInv == ActivatedIsChecked /\ DemandedIsInTable /\ FallbackIsInTable
            /\ FallbackNotDeferrable /\ DeferralInTime /\ NewFailsafeNoTakeover

Selected == /\ ResultingModeCanRun
            /\ ActsOnWorstFailure
            /\ TakeoverRespectsNever
            /\ DeferralIsAllowed
            /\ FailsafeHasCause

IInv == TypeOK /\ NoDuplicateIds /\ TableInv /\ Selected

USE DEF NotDeferred

(* The invariant holds initially. *)
LEMMA InitIInv == Init => IInv
<1> SUFFICES ASSUME Init PROVE IInv
  OBVIOUS
<1>1. \A i \in Slots : actions[i] = Invalid
  BY DEF Init
<1>2. Valid(actions) = {}
  BY <1>1, SMTT(30) DEF Valid, Invalid
<1>3. TypeOK
  <2>1. None \in Action /\ MANUAL \in Modes /\ NoInput \in Input
    BY SMTT(30) DEF None, Action, NoInput, Input, Modes, NamedModes, MANUAL
  <2>2. 1 \in 1 .. Len(CheckOrder) + 1
    BY CheckOrderAssumption, SMTT(30)
  <2> QED  BY <2>1, <2>2, InvalidIsEntry, DurationsAssumption DEF Init, TypeOK
<1>4. FallbackNotDeferrable
  BY <1>1, IdsAssumption, SMTT(30) DEF FallbackNotDeferrable, Invalid, Ids
<1>5. NoDuplicateIds /\ ActivatedIsChecked
  BY <1>1, <1>2, SMTT(30) DEF NoDuplicateIds, ActivatedIsChecked, Invalid
<1>6. TableInv
  BY <1>4, <1>5 DEF TableInv, Init, DemandedIsInTable, FallbackIsInTable, DeferralInTime,
                    NewFailsafeNoTakeover
<1>7. Selected
  BY SMTT(30) DEF Selected, Init, ResultingModeCanRun, ActsOnWorstFailure,
         TakeoverRespectsNever, DeferralIsAllowed, FailsafeHasCause, None, Warn
<1> QED  BY <1>3, <1>5, <1>6, <1>7 DEF IInv

(* The first part of update() preserves the invariant. *)
LEMMA UpdateBeginIInv ==
    ASSUME IInv, NEW armed \in BOOLEAN, NEW mode \in UserModes, NEW mode_updated \in BOOLEAN,
           NEW rc_sticks \in BOOLEAN, NEW dt \in Dts,
           UpdateBegin(armed, mode, mode_updated, rc_sticks, dt)
    PROVE  IInv'
<1> DEFINE table == IF last_armed # armed
                    THEN RemoveActions(RemoveActions(actions, OnDisarm), OnModeChangeOrDisarm)
                    ELSE actions
           age == IF defer_age = NotDeferred THEN NotDeferred
                  ELSE Min({defer_age + dt, MaxAge})
<1>1. TypeOK /\ actions \in [Slots -> Entry] /\ dt \in Nat
  BY DurationsAssumption DEF IInv, TypeOK
<1>2. /\ actions' \in [Slots -> Entry]
      /\ \A i \in Slots : actions'[i] = actions[i] \/ actions'[i] = Invalid
  <2>1. /\ table \in [Slots -> Entry]
        /\ \A i \in Slots : table[i] = actions[i] \/ table[i] = Invalid
    BY <1>1, RemoveActionsFacts, SMTT(30)
  <2>2. actions' \in {table, RemoveActions(table, OnModeChangeOrDisarm)}
    BY DEF UpdateBegin
  <2> HIDE DEF table
  <2> QED  BY <2>1, <2>2, RemoveActionsFacts, SMTT(30)
<1>3. age \in Nat \cup {NotDeferred}
  BY <1>1, DurationsAssumption, MinOfTwo, SMTT(30) DEF TypeOK
<1>4. UpdateDelay(dt) \in Nat
  BY <1>1, SMTT(30) DEF UpdateDelay, TypeOK
<1>5. TypeOK'
  <2>1. in' \in Input
    BY <1>1 DEF UpdateBegin, Input, Modes
  <2>2. 1 \in 1 .. Len(CheckOrder) + 1
    BY CheckOrderAssumption, SMTT(30)
  <2>3. None \in Action
    BY SMTT(30) DEF None, Action
  <2>4. defer_age' \in Nat \cup {NotDeferred} /\ current_delay' \in Nat
    BY <1>1, <1>3, <1>4 DEF UpdateBegin, TypeOK
  <2> QED  BY <1>1, <1>2, <2>1, <2>2, <2>3, <2>4
           DEF TypeOK, UpdateBegin, outputs, delays, history, DeferralExpired
<1>6. NoDuplicateIds'
  BY <1>2, SMTT(60), SMTT(30) DEF IInv, NoDuplicateIds, Valid, Invalid
<1>7. ActivatedIsChecked' /\ FallbackNotDeferrable'
  <2>1. \A i \in Slots : ~actions[i].activated
    BY DEF IInv, TableInv, ActivatedIsChecked, UpdateBegin
  <2>2. FallbackId # NoId
    BY IdsAssumption DEF Ids
  <2> QED  BY <1>2, <2>1, <2>2, SMTT(60), SMTT(30)
           DEF IInv, TableInv, ActivatedIsChecked, FallbackNotDeferrable, Invalid
<1>8. DeferralInTime'
  <2>1. defer_age' = age /\ defer_timeout' = defer_timeout
        /\ defer_failsafes' = (defer_failsafes /\ ~DeferralExpired(age))
    BY DEF UpdateBegin
  <2>2. defer_timeout \in Nat
    BY <1>1 DEF TypeOK
  <2> HIDE DEF age
  <2> SUFFICES ASSUME defer_failsafes', defer_timeout > 0
               PROVE  age <= defer_timeout
    BY <2>1 DEF DeferralInTime
  <2>3. ~DeferralExpired(age)
    BY <2>1
  <2> QED  BY <2>2, <2>3, <1>3, SMTT(30) DEF DeferralExpired
<1>9. pc' = "check" /\ demanded' = None /\ ~new_failsafe'
  BY DEF UpdateBegin
<1> QED  BY <1>5, <1>6, <1>7, <1>8, <1>9
         DEF IInv, TableInv, Selected, DemandedIsInTable, FallbackIsInTable,
             NewFailsafeNoTakeover, ResultingModeCanRun, ActsOnWorstFailure, TakeoverRespectsNever, DeferralIsAllowed, FailsafeHasCause

(* One check of checkStateAndMode() preserves the invariant. *)
LEMMA CheckIInv ==
    ASSUME IInv, NEW called \in BOOLEAN, NEW fails \in BOOLEAN, NEW options,
           Check(called, fails, options)
    PROVE  IInv'
<1> DEFINE c == CheckOrder[next_check]
<1>1. /\ TypeOK /\ NoDuplicateIds /\ TableInv
      /\ next_check \in 1 .. Len(CheckOrder) /\ Len(CheckOrder) \in Nat
  <2>1. TypeOK /\ NoDuplicateIds /\ TableInv
    BY DEF IInv
  <2>2. next_check \in 1 .. Len(CheckOrder) + 1 /\ next_check <= Len(CheckOrder)
    BY <2>1 DEF TypeOK, Check
  <2>3. Len(CheckOrder) \in Nat
    BY CheckOrderAssumption, SMTT(30)
  <2> QED  BY <2>1, <2>2, <2>3, SMTT(30)
<1>2. c \in Callers /\ c \in Ids /\ c # NoId /\ c # FallbackId
  BY <1>1, IdsAssumption DEF Callers, Ids
<1>3. options \in Options
  BY <1>2, OptionsAssumption DEF Check
<1>4. \A i \in Slots : actions[i].activated => actions[i].id \notin {c, NoId}
  <2> SUFFICES ASSUME NEW i \in Slots, actions[i].activated
               PROVE  actions[i].id \notin {c, NoId}
    OBVIOUS
  <2>1. PICK j \in 1 .. next_check - 1 : actions[i].id = CheckOrder[j]
    BY <1>1 DEF TableInv, ActivatedIsChecked, Check
  <2>2. j \in 1 .. Len(CheckOrder) /\ j # next_check
    BY <1>1, SMTT(30)
  <2>3. CheckOrder[j] \in Ids /\ CheckOrder[j] # c
    BY <1>1, <2>2, CheckOrderAssumption DEF Ids, Callers
  <2> QED  BY <2>1, <2>3, IdsAssumption
<1>5. /\ pc = "check" /\ pc' = "check" /\ next_check' = next_check + 1
      /\ UNCHANGED <<pc, in, can_run, outputs, defer, com_fail_act_t, current_start_delay>>
  BY DEF Check
<1>6. last_failure' \in [Ids -> BOOLEAN]
  BY <1>1, <1>2 DEF Check, TypeOK
<1>7. /\ actions' \in [Slots -> Entry]
      /\ current_delay' \in Nat
      /\ user_takeover_active' \in BOOLEAN
      /\ no_free_idx' \in BOOLEAN
      /\ new_failsafe' \in BOOLEAN
      /\ demanded' \in Action
      /\ NoDuplicateIds'
      /\ new_failsafe' /\ user_takeover_active' => new_failsafe /\ user_takeover_active
      /\ \A i \in Slots : /\ actions'[i].id \in {c, NoId, actions[i].id}
                          /\ actions'[i].id = FallbackId =>
                                /\ actions[i].id = FallbackId
                                /\ actions'[i].can_be_deferred = actions[i].can_be_deferred
                          /\ actions'[i].activated =>
                                \/ actions'[i].id = c
                                \/ actions'[i].id = actions[i].id /\ actions[i].activated
      /\ ~no_free_idx' =>
            /\ ~no_free_idx
            /\ \A i \in Slots : actions[i].activated => actions'[i] = actions[i]
            /\ \/ demanded' = demanded
               \/ \E i \in Slots : actions'[i].activated /\ actions'[i].action = demanded'
  <2>1. CASE called /\ fails /\ ConditionFails(c, options)
    <3>1. options.action \in Action /\ demanded \in Action
      BY <1>1, <1>3 DEF Options, TypeOK
    <3> HIDE DEF c
    <3> QED  BY <2>1, <3>1, <1>1, <1>2, <1>3, <1>4, ConditionFailsFacts, SMTT(60), SMTT(30)
  <2>2. CASE called /\ ~fails /\ ConditionOk(c)
    <3> HIDE DEF c
    <3> QED  BY <2>2, <1>1, <1>2, <1>4, ConditionOkFacts, IdsAssumption DEF TypeOK, history, Ids
  <2>3. CASE ~called /\ UNCHANGED <<actions, current_delay, user_takeover_active, history>>
    BY <2>3, <1>1 DEF TypeOK, history, NoDuplicateIds, Valid
  <2> QED  BY <2>1, <2>2, <2>3 DEF Check
<1>8. TypeOK'
  BY <1>1, <1>5, <1>6, <1>7, SMTT(60), SMTT(30) DEF TypeOK, outputs, defer
<1>9. ActivatedIsChecked'
  <2> SUFFICES ASSUME NEW i \in Slots, actions'[i].activated
               PROVE  \E j \in 1 .. next_check' - 1 : actions'[i].id = CheckOrder[j]
    BY <1>5 DEF ActivatedIsChecked
  <2>1. CASE actions'[i].id = c
    BY <2>1, <1>1, <1>5, SMTT(30)
  <2>2. CASE actions'[i].id = actions[i].id /\ actions[i].activated
    <3>1. PICK j \in 1 .. next_check - 1 : actions[i].id = CheckOrder[j]
      BY <2>2, <1>1, <1>5 DEF TableInv, ActivatedIsChecked
    <3>2. j \in 1 .. next_check' - 1
      BY <1>1, <1>5, SMTT(30)
    <3> QED  BY <2>2, <3>1, <3>2
  <2> QED  BY <1>7, <2>1, <2>2
<1>10. DemandedIsInTable'
  <2> SUFFICES ASSUME ~no_free_idx', demanded' # None
               PROVE  \E i \in Slots : actions'[i].activated /\ actions'[i].action >= demanded'
    BY DEF DemandedIsInTable
  <2>1. CASE demanded' = demanded
    BY <2>1, <1>1, <1>5, <1>7 DEF TableInv, DemandedIsInTable
  <2>2. CASE \E i \in Slots : actions'[i].activated /\ actions'[i].action = demanded'
    BY <2>2, <1>7, SMTT(30) DEF Action
  <2> QED  BY <1>7, <2>1, <2>2
<1>11. FallbackNotDeferrable'
  BY <1>1, <1>7 DEF TableInv, FallbackNotDeferrable
<1>12. DeferralInTime' /\ NewFailsafeNoTakeover' /\ FallbackIsInTable'
  BY <1>1, <1>5, <1>7 DEF TableInv, DeferralInTime, NewFailsafeNoTakeover, FallbackIsInTable, defer
<1> QED  BY <1>5, <1>7, <1>8, <1>9, <1>10, <1>11, <1>12
         DEF IInv, TableInv, Selected, ResultingModeCanRun, ActsOnWorstFailure, TakeoverRespectsNever, DeferralIsAllowed, FailsafeHasCause

(* The check of the mode fallback preserves the invariant. *)
LEMMA CheckFallbackIInv ==
    ASSUME IInv, NEW can \in CanRunSets, CheckFallback(can)
    PROVE  IInv'
<1> DEFINE fallback == CheckModeFallback(can, in.mode)
           options == FallbackOptions(fallback)
<1>1. TypeOK /\ NoDuplicateIds /\ TableInv /\ in.mode \in Modes
  BY DEF IInv, TypeOK, Input
<1>2. fallback \in Action
  BY <1>1, FallbackAssumption
<1>3. FallbackId \in Ids /\ FallbackId # NoId /\ FallbackId \notin Callers
  BY IdsAssumption DEF Ids
<1>4. /\ options \in Options /\ options.action = fallback
      /\ options.can_be_deferred = FALSE
  <2>1. WhenConditionClears \in ClearCondition /\ Always \in UserTakeoverAllowed
    BY SMTT(30) DEF ClearCondition, Always, UserTakeoverAllowed
  <2> QED  BY <1>2, <2>1 DEF FallbackOptions, Options
<1>5. \A i \in Slots : actions[i].activated => actions[i].id \notin {FallbackId, NoId}
  <2>1. \A j \in 1 .. next_check - 1 : CheckOrder[j] \in Callers
    <3>1. next_check \in 1 .. Len(CheckOrder) + 1
      BY <1>1 DEF TypeOK
    <3> QED  BY <3>1, CheckedAreCallers
  <2> QED  BY <1>1, <2>1, <1>3, IdsAssumption DEF TableInv, ActivatedIsChecked, CheckFallback, Ids
<1>6. /\ pc = "check" /\ pc' = "finish" /\ can_run' = can
      /\ UNCHANGED <<next_check, in, outputs, defer, com_fail_act_t, current_start_delay>>
  BY DEF CheckFallback
<1>7. last_failure' \in [Ids -> BOOLEAN] /\ can_run' \in SUBSET Modes
  BY <1>1, ModesAssumption DEF CheckFallback, TypeOK
<1> HIDE DEF fallback, options
<1>8. /\ actions' \in [Slots -> Entry]
      /\ current_delay' \in Nat
      /\ user_takeover_active' \in BOOLEAN
      /\ no_free_idx' \in BOOLEAN
      /\ new_failsafe' \in BOOLEAN
      /\ demanded' \in Action
      /\ NoDuplicateIds'
      /\ new_failsafe' /\ user_takeover_active' => new_failsafe /\ user_takeover_active
      /\ \A i \in Slots : /\ actions'[i].id = FallbackId => ~actions'[i].can_be_deferred
                          /\ actions'[i].activated =>
                                \/ actions'[i].id = FallbackId
                                \/ actions'[i].id = actions[i].id /\ actions[i].activated
      /\ ~no_free_idx' =>
            /\ ~no_free_idx
            /\ \A i \in Slots : actions[i].activated => actions'[i] = actions[i]
            /\ fallback # None =>
                \E i \in Slots : /\ actions'[i].id = FallbackId /\ actions'[i].activated
                                 /\ actions'[i].action = fallback
            /\ \/ demanded' = demanded
               \/ \E i \in Slots : actions'[i].activated /\ actions'[i].action = demanded'
  <2>1. CASE fallback # None
    <3>1. ConditionFails(FallbackId, options)
      BY <2>1 DEF CheckFallback, fallback, options
    <3>2. demanded \in Action
      BY <1>1 DEF TypeOK
    <3>3. \A i \in Slots : actions[i].id = FallbackId => ~actions[i].can_be_deferred
      BY <1>1 DEF TableInv, FallbackNotDeferrable
    <3>4. /\ actions' \in [Slots -> Entry]
          /\ current_delay' \in Nat
          /\ user_takeover_active' \in BOOLEAN
          /\ no_free_idx' \in BOOLEAN
          /\ new_failsafe' \in BOOLEAN
          /\ NoDuplicateIds'
          /\ new_failsafe' /\ user_takeover_active' => new_failsafe /\ user_takeover_active
      BY <3>1, <1>1, <1>3, <1>4, <1>5, ConditionFailsFacts
    <3>5. demanded' = IF demanded >= fallback THEN demanded ELSE fallback
      BY <3>1, <1>1, <1>3, <1>4, <1>5, ConditionFailsFacts
    <3>6. \A i \in Slots :
            \/ actions'[i] = actions[i]
            \/ /\ actions'[i].id = FallbackId
               /\ \/ /\ actions[i].id = FallbackId
                     /\ actions'[i].can_be_deferred = actions[i].can_be_deferred
                  \/ actions'[i].can_be_deferred = FALSE
      BY <3>1, <1>1, <1>3, <1>4, <1>5, ConditionFailsFacts, SMTT(60), SMTT(30)
    <3>7. ~no_free_idx' =>
            /\ ~no_free_idx
            /\ \A i \in Slots : actions[i].activated => actions'[i] = actions[i]
            /\ \E i \in Slots : /\ actions'[i].id = FallbackId /\ actions'[i].activated
                                /\ actions'[i].action = fallback
      BY <3>1, <1>1, <1>3, <1>4, <1>5, ConditionFailsFacts, SMTT(60), SMTT(30)
    <3>8. demanded' \in Action /\ demanded' \in {demanded, fallback}
      BY <3>2, <3>5, <1>2
    <3>9. \A i \in Slots : /\ actions'[i].id = FallbackId => ~actions'[i].can_be_deferred
                           /\ actions'[i].activated =>
                                \/ actions'[i].id = FallbackId
                                \/ actions'[i].id = actions[i].id /\ actions[i].activated
      BY <3>3, <3>6
    <3> QED  BY <3>4, <3>7, <3>8, <3>9
  <2>2. CASE fallback = None
    <3>1. ConditionOk(FallbackId)
      BY <2>2 DEF CheckFallback, fallback
    <3>2. \A i \in Slots : actions[i].id = FallbackId => ~actions[i].can_be_deferred
      BY <1>1 DEF TableInv, FallbackNotDeferrable
    <3> QED  BY <2>2, <3>1, <3>2, <1>1, <1>3, <1>5, ConditionOkFacts DEF TypeOK, history
  <2> QED  BY <2>1, <2>2
<1>9. TypeOK'
  BY <1>1, <1>6, <1>7, <1>8 DEF TypeOK, outputs, defer
<1>10. ActivatedIsChecked'
  BY <1>1, <1>6, <1>8 DEF TableInv, ActivatedIsChecked
<1>11. DemandedIsInTable'
  <2> SUFFICES ASSUME ~no_free_idx', demanded' # None
               PROVE  \E i \in Slots : actions'[i].activated /\ actions'[i].action >= demanded'
    BY DEF DemandedIsInTable
  <2>1. CASE demanded' = demanded
    BY <2>1, <1>1, <1>6, <1>8 DEF TableInv, DemandedIsInTable
  <2>2. CASE \E i \in Slots : actions'[i].activated /\ actions'[i].action = demanded'
    BY <2>2, <1>8, SMTT(30) DEF Action
  <2> QED  BY <1>8, <2>1, <2>2
<1>12. FallbackIsInTable'
  BY <1>6, <1>8 DEF FallbackIsInTable, fallback
<1>13. FallbackNotDeferrable'
  BY <1>8 DEF FallbackNotDeferrable
<1>14. DeferralInTime' /\ NewFailsafeNoTakeover'
  BY <1>1, <1>6, <1>8 DEF TableInv, DeferralInTime, NewFailsafeNoTakeover, defer
<1> QED  BY <1>6, <1>8, <1>9, <1>10, <1>11, <1>12, <1>13, <1>14
         DEF IInv, TableInv, Selected, ResultingModeCanRun, ActsOnWorstFailure, TakeoverRespectsNever, DeferralIsAllowed, FailsafeHasCause

(* The result of an update, from the table after the checks of the update.   *)
LEMMA UpdateEndSelected ==
    ASSUME IInv, UpdateEnd
    PROVE  TypeOK' /\ Selected'
<1> DEFINE table == RemoveNonActivatedActions(actions)
           delay == ClearDelayIfNeeded
           sel == GetSelectedAction(table, delay)
<1>1. TypeOK /\ TableInv /\ pc = "finish" /\ can_run \in CanRunSets
  BY DEF IInv, UpdateEnd, TableInv, FallbackIsInTable
<1>2. /\ pc' = "idle" /\ next_check' = 1 /\ in' = NoInput
      /\ actions' = table /\ current_delay' = delay
      /\ current_start_delay' = UpdateStartDelay(in.dt, sel.delayed_action # None)
      /\ defer_age' = IF ~sel.failsafe_deferred THEN NotDeferred
                      ELSE IF defer_age = NotDeferred THEN 0 ELSE defer_age
      /\ last_user_intended_mode' = sel.mode
      /\ user_takeover_active' = sel.user_takeover
      /\ selected_action' = sel.action
      /\ last_armed' = in.armed
      /\ new_failsafe' = FALSE
      /\ UNCHANGED <<last_failure, can_run, defer_failsafes, defer_timeout, com_fail_act_t,
                     demanded, no_free_idx>>
  BY DEF UpdateEnd
<1>3. table \in [Slots -> Entry] /\ delay \in Nat
  BY <1>1, RemoveNonActivatedFacts DEF TypeOK, ClearDelayIfNeeded
<1>4. /\ \A i \in Slots : actions[i].activated =>
            i \in Valid(table) /\ table[i].action = actions[i].action
      /\ \A i \in Slots : actions[i].id = FallbackId /\ i \in Valid(table) =>
            ~table[i].can_be_deferred
  <2>1. \A j \in 1 .. next_check - 1 : CheckOrder[j] \in Ids
    <3>1. next_check \in 1 .. Len(CheckOrder) + 1
      BY <1>1 DEF TypeOK
    <3> QED  BY <3>1, CheckedAreCallers DEF Ids
  <2>2. \A i \in Slots : actions[i].activated => actions[i].id # NoId
    BY <1>1, <2>1, IdsAssumption DEF TableInv, ActivatedIsChecked, Ids
  <2>3. \A i \in Slots : actions[i].id = FallbackId => ~actions[i].can_be_deferred
    BY <1>1 DEF TableInv, FallbackNotDeferrable
  <2> QED  BY <1>1, <2>2, <2>3, RemoveNonActivatedFacts, ZenonT(60) DEF TypeOK, Valid
<1> HIDE DEF table, delay
<1>5. WorstAction(table) \in Action
      /\ \A i \in Valid(table) : table[i].action <= WorstAction(table)
  BY <1>3, WorstActionFacts
<1>6. ~no_free_idx /\ demanded # None => WorstAction(table) >= demanded
  <2> SUFFICES ASSUME ~no_free_idx, demanded # None
               PROVE  WorstAction(table) >= demanded
    OBVIOUS
  <2>1. PICK i \in Slots : actions[i].activated /\ actions[i].action >= demanded
    BY <1>1 DEF TableInv, DemandedIsInTable
  <2>2. i \in Valid(table) /\ table[i].action >= demanded
    BY <1>4, <2>1
  <2>3. table[i].action \in Int /\ WorstAction(table) \in Int /\ demanded \in Int
    BY <1>1, <1>3, <1>5, SMTT(30) DEF TypeOK, Entry, Action
  <2> QED  BY <1>5, <2>2, <2>3, SMTT(30)
<1>7. ~no_free_idx /\ in.mode \notin can_run =>
            WorstAction(table) > Warn /\ ~AllDeferrable(table)
  <2> SUFFICES ASSUME ~no_free_idx, in.mode \notin can_run
               PROVE  WorstAction(table) > Warn /\ ~AllDeferrable(table)
    OBVIOUS
  <2> DEFINE fallback == CheckModeFallback(can_run, in.mode)
  <2>1. fallback \in Action \ {Warn} /\ fallback # None
    BY <1>1, FallbackAssumption DEF TypeOK, Input
  <2>2. PICK i \in Slots : /\ actions[i].activated /\ actions[i].id = FallbackId
                           /\ actions[i].action = fallback
    BY <1>1, <2>1 DEF TableInv, FallbackIsInTable
  <2>3. i \in Valid(table) /\ table[i].action = fallback /\ ~table[i].can_be_deferred
    BY <1>4, <2>2
  <2> QED  BY <1>5, <2>1, <2>3, SMTT(60), SMTT(30) DEF AllDeferrable, Action, Warn, None
<1>8. \/ /\ selected_action = Terminate
         /\ sel = SelectedActionState(Terminate, None, in.mode, FALSE, FALSE)
      \/ /\ ~in.armed
         /\ sel = SelectedActionState(None, None, in.mode, FALSE, FALSE)
      \/ /\ in.armed /\ defer_failsafes /\ AllDeferrable(table) /\ WorstAction(table) # None
         /\ \/ WorstAction(table) > Warn
               /\ sel = SelectedActionState(None, None, in.mode, FALSE, TRUE)
            \/ WorstAction(table) <= Warn
               /\ sel = SelectedActionState(None, None, in.mode, FALSE, FALSE)
      \/ /\ in.armed /\ sel = SelectNow(table, delay)
  <2>1. CASE WorstAction(table) > Warn
    <3>1. (WorstAction(table) > Warn) = TRUE
      BY <2>1
    <3> QED  BY <2>1, <3>1 DEF GetSelectedAction
  <2>2. CASE ~(WorstAction(table) > Warn)
    <3>1. (WorstAction(table) > Warn) = FALSE
      BY <2>2, SMTT(30)
    <3>2. WorstAction(table) <= Warn
      BY <2>2, <1>5, SMTT(30) DEF Action, Warn
    <3> QED  BY <3>1, <3>2 DEF GetSelectedAction
  <2> QED  BY <2>1, <2>2
<1> HIDE DEF sel
<1>9. /\ sel.action \in Action /\ sel.mode \in Modes
      /\ sel.user_takeover \in BOOLEAN /\ sel.failsafe_deferred \in BOOLEAN
  <2>1. in.mode \in Modes
    BY <1>1 DEF TypeOK, Input
  <2>2. CASE sel = SelectNow(table, delay)
    BY <1>1, <1>3, <2>2, SelectNowFacts
  <2>3. None \in Action /\ Terminate \in Action
    BY SMTT(30) DEF Action, None, Terminate
  <2>4. ASSUME NEW a \in Action, NEW b \in BOOLEAN,
               sel = SelectedActionState(a, None, in.mode, FALSE, b)
        PROVE  /\ sel.action \in Action /\ sel.mode \in Modes
               /\ sel.user_takeover \in BOOLEAN /\ sel.failsafe_deferred \in BOOLEAN
    BY <2>1, <2>4 DEF SelectedActionState
  <2> QED  BY <1>8, <2>2, <2>3, <2>4
<1>10. TypeOK'
  <2>1. NoInput \in Input
    BY DEF NoInput, Input, Modes, NamedModes
  <2>2. 1 \in 1 .. Len(CheckOrder) + 1
    BY CheckOrderAssumption, SMTT(30)
  <2>3. current_start_delay' \in Nat
    <3>1. in.dt \in Nat /\ current_start_delay \in Nat /\ com_fail_act_t \in Nat
      BY <1>1 DEF TypeOK, Input
    <3>2. in.dt \div 4 \in Nat
      BY <3>1, SMTT(30)
    <3>3. Min({current_start_delay + in.dt \div 4, com_fail_act_t}) \in Nat
      BY <3>1, <3>2, MinOfTwo, SMTT(30)
    <3> QED  BY <3>1, <3>3, <1>2, SMTT(30) DEF UpdateStartDelay
  <2>4. defer_age' \in Nat \cup {NotDeferred}
    BY <1>1, <1>2 DEF TypeOK
  <2>5. in.armed \in BOOLEAN
    BY <1>1 DEF TypeOK, Input
  <2> QED  BY <1>1, <1>2, <1>3, <1>9, <2>1, <2>2, <2>3, <2>4, <2>5 DEF TypeOK
<1>11. CASE selected_action = Terminate
            /\ sel = SelectedActionState(Terminate, None, in.mode, FALSE, FALSE)
  <2>1. /\ selected_action' = Terminate /\ ~user_takeover_active' /\ defer_age' = NotDeferred
    BY <1>2, <1>11 DEF SelectedActionState
  <2> QED  BY <1>10, <2>1, SMTT(60), SMTT(30)
           DEF Selected, ResultingModeCanRun, ActsOnWorstFailure,
               TakeoverRespectsNever, DeferralIsAllowed, FailsafeHasCause, TypeOK, Action,
               Terminate
<1>12. CASE ~in.armed /\ sel = SelectedActionState(None, None, in.mode, FALSE, FALSE)
  <2>1. /\ selected_action' = None /\ ~user_takeover_active' /\ defer_age' = NotDeferred
        /\ ~last_armed'
    BY <1>2, <1>12 DEF SelectedActionState
  <2> QED  BY <1>10, <2>1, SMTT(30)
           DEF Selected, ResultingModeCanRun, ActsOnWorstFailure,
               TakeoverRespectsNever, DeferralIsAllowed, FailsafeHasCause, None, Warn
<1>13. CASE
         /\ in.armed /\ defer_failsafes /\ AllDeferrable(table) /\ WorstAction(table) # None
         /\ \/ WorstAction(table) > Warn
               /\ sel = SelectedActionState(None, None, in.mode, FALSE, TRUE)
            \/ WorstAction(table) <= Warn
               /\ sel = SelectedActionState(None, None, in.mode, FALSE, FALSE)
  <2>1. /\ selected_action' = None /\ ~user_takeover_active'
        /\ last_user_intended_mode' = in.mode /\ last_armed'
        /\ WorstAction(table) > Warn \/ defer_age' = NotDeferred
    BY <1>2, <1>13, SMTT(60), SMTT(30) DEF SelectedActionState
  <2>2. ModeFromAction(None, in.mode) = in.mode
    BY SMTT(30) DEF ModeFromAction, None, FallbackPosCtrl, FallbackAltCtrl, FallbackStab, Hold, RTL, Land,
           Descend
  <2>3. ResultingModeCanRun'
    BY <2>1, <2>2, <1>2, <1>7, <1>13 DEF ResultingModeCanRun
  <2>4. ActsOnWorstFailure'
    <3>1. ~no_free_idx /\ demanded > Warn => WorstAction(table) > Warn
      BY <1>1, <1>5, <1>6, SMTT(60), SMTT(30) DEF TypeOK, Action, Warn, None
    <3>2. defer_age' = NotDeferred => WorstAction(table) <= Warn
      <4>1. CASE sel = SelectedActionState(None, None, in.mode, FALSE, TRUE)
        BY <4>1, <1>1, <1>2, SMTT(30) DEF SelectedActionState, TypeOK
      <4> QED  BY <4>1, <1>13
    <3>3. no_free_idx' = no_free_idx /\ demanded' = demanded
      BY <1>2
    <3>4. SUFFICES ASSUME ~no_free_idx', defer_age' = NotDeferred, demanded' > Warn
                   PROVE  FALSE
      BY DEF ActsOnWorstFailure
    <3> QED  BY <3>1, <3>2, <3>3, <3>4, <1>5, SMTT(30) DEF Action, Warn
  <2>5. DeferralIsAllowed'
    BY <2>1, <1>2, <1>5, <1>13 DEF DeferralIsAllowed, AllDeferrable
  <2> QED  BY <1>10, <2>1, <2>3, <2>4, <2>5, SMTT(30)
           DEF Selected, TakeoverRespectsNever, FailsafeHasCause, None, Warn
<1>14. CASE in.armed /\ sel = SelectNow(table, delay)
  <2>1. /\ Chosen(table, delay) \in Action
        /\ last_armed' /\ defer_age' = NotDeferred
        /\ user_takeover_active' = TakesOver(table, delay)
        /\ last_user_intended_mode' = UpdatedMode(table, delay)
        /\ UpdatedMode(table, delay) \in Modes
        /\ \/ selected_action' = Possible(Chosen(table, delay))
           \/ /\ selected_action' = Warn
              /\ last_user_intended_mode' \in can_run
              /\ last_user_intended_mode' \in {AUTO_LAND, AUTO_PRECLAND}
    BY <1>1, <1>2, <1>3, <1>9, <1>14, SelectNowFacts
  <2>2. MostRestrictive(table) \in UserTakeoverAllowed
        /\ \A i \in Valid(table) : table[i].allow_user_takeover <= MostRestrictive(table)
    BY <1>3, MostRestrictiveFacts
  <2>3. ResultingModeCanRun'
    <3> SUFFICES ASSUME ~no_free_idx, selected_action' \notin {Disarm, Terminate}
                 PROVE  ModeFromAction(selected_action', UpdatedMode(table, delay)) \in can_run
      BY <2>1, <1>2 DEF ResultingModeCanRun
    <3>1. \A a \in {None, Warn} : \A m : ModeFromAction(a, m) = m
      BY SMTT(30) DEF ModeFromAction, None, Warn, FallbackPosCtrl, FallbackAltCtrl, FallbackStab, Hold,
             RTL, Land, Descend
    <3>2. CASE selected_action' \in FallbackPosCtrl .. Descend
               /\ selected_action' = Possible(Chosen(table, delay))
      BY <3>2, <2>1, PossibleFacts
    <3>3. CASE selected_action' = Warn /\ last_user_intended_mode' \in can_run
      BY <3>3, <3>1, <2>1
    <3>4. CASE selected_action' \in {None, Warn}
               /\ selected_action' = Possible(Chosen(table, delay))
      <4>1. Chosen(table, delay) = selected_action'
        BY <3>4, <2>1, PossibleFacts, SMTT(30) DEF None, Warn
      <4>2. CASE TakesOver(table, delay)
        <5> DEFINE f == CheckModeFallback(can_run, UpdatedMode(table, delay))
        <5>1. f \in Action \ {Warn} /\ (f = None => UpdatedMode(table, delay) \in can_run)
          BY <1>1, <2>1, FallbackAssumption
        <5>2. Chosen(table, delay) = Max({Warn, f})
          BY <4>2 DEF Chosen
        <5> HIDE DEF f
        <5>3. f = None
          <6>1. Warn \in Nat /\ f \in Nat
            BY <5>1, SMTT(30) DEF Action, Warn
          <6>2. Max({Warn, f}) = IF Warn >= f THEN Warn ELSE f
            BY <6>1, MaxOfTwo
          <6>3. Max({Warn, f}) \in {None, Warn} /\ f # Warn
            BY <5>1, <5>2, <4>1, <3>4
          <6>4. (IF Warn >= f THEN Warn ELSE f) \in {None, Warn}
            BY <6>2, <6>3
          <6> QED  BY <6>1, <6>3, <6>4, SMTT(30) DEF Warn, None
        <5> QED  BY <5>1, <5>3, <3>1, <3>4
      <4>3. CASE ~TakesOver(table, delay)
        <5>1. Requested(table, delay) \in {None, Warn} /\ UpdatedMode(table, delay) = in.mode
          BY <4>1, <4>3, <3>4 DEF Chosen, UpdatedMode
        <5>2. WorstAction(table) \in {None, Warn}
          BY <5>1, SMTT(30) DEF Requested, None, Warn, Hold
        <5>3. in.mode \in can_run
          BY <5>2, <1>7, SMTT(30) DEF None, Warn
        <5> QED  BY <5>1, <5>3, <3>1, <3>4
      <4> QED  BY <4>2, <4>3
    <3>5. selected_action' \in FallbackPosCtrl .. Descend \/ selected_action' \in {None, Warn}
      BY <1>10, SMTT(30) DEF TypeOK, Action, FallbackPosCtrl, Descend, None, Warn, Disarm, Terminate
    <3> QED  BY <2>1, <3>2, <3>3, <3>4, <3>5
  <2>4. ActsOnWorstFailure'
    <3> SUFFICES ASSUME ~no_free_idx, delay = 0, ~TakesOver(table, delay),
                        last_user_intended_mode' \notin {AUTO_LAND, AUTO_PRECLAND},
                        demanded > Warn
                 PROVE  selected_action' >= demanded
      BY <2>1, <1>2 DEF ActsOnWorstFailure
    <3>1. Chosen(table, delay) = WorstAction(table)
      BY SMTT(30) DEF Chosen, Requested, Delayed
    <3>2. Possible(Chosen(table, delay)) >= Chosen(table, delay)
          /\ Possible(Chosen(table, delay)) \in Action
      BY <2>1, PossibleFacts
    <3>3. demanded \in Action
      BY <1>1 DEF TypeOK
    <3> QED  BY <3>1, <3>2, <3>3, <2>1, <1>5, <1>6, SMTT(60), SMTT(30) DEF Action, None, Warn
  <2>5. TakeoverRespectsNever'
    <3> SUFFICES ASSUME TakesOver(table, delay), NEW i \in Valid(table)
                 PROVE  table[i].allow_user_takeover # Never
      BY <2>1, <1>2 DEF TakeoverRespectsNever, Valid
    <3>1. MostRestrictive(table) <= AlwaysModeSwitchOnly
      BY SMTT(30) DEF TakesOver, TakeoverSetting, Delayed, Always, AlwaysModeSwitchOnly
    <3> QED  BY <3>1, <2>2, SMTT(60), SMTT(30) DEF UserTakeoverAllowed, AlwaysModeSwitchOnly, Never
  <2>6. FailsafeHasCause'
    <3> SUFFICES ASSUME selected_action' > Warn, delay = 0, ~(WorstAction(table) > Warn)
                 PROVE  FALSE
      BY <1>2, <1>3, SMTT(30) DEF FailsafeHasCause
    <3>1. WorstAction(table) \in {None, Warn}
      BY <1>5, SMTT(30) DEF Action, None, Warn
    <3>2. Requested(table, delay) \in {None, Warn}
      BY <3>1, SMTT(30) DEF Requested, Delayed
    <3>3. Chosen(table, delay) \in {None, Warn}
      BY <3>2, SMTT(30) DEF Chosen, TakesOver, ActionAllowsUserTakeover, None, Warn, Hold, RTL, Land, Descend
    <3>4. Possible(Chosen(table, delay)) \in {None, Warn}
      BY <3>3, <2>1, PossibleFacts, SMTT(30) DEF None, Warn, FallbackPosCtrl, Descend
    <3> QED  BY <3>4, <2>1, SMTT(30) DEF None, Warn
  <2> QED  BY <1>10, <2>1, <2>3, <2>4, <2>5, <2>6 DEF Selected, DeferralIsAllowed
<1> QED  BY <1>8, <1>10, <1>11, <1>12, <1>13, <1>14

(* The last part of update() preserves the invariant. *)
LEMMA UpdateEndIInv ==
    ASSUME IInv, UpdateEnd
    PROVE  IInv'
<1>1. TypeOK' /\ Selected'
  BY UpdateEndSelected
<1>2. TypeOK /\ actions \in [Slots -> Entry]
  BY DEF IInv, TypeOK
<1>3. /\ pc' = "idle" /\ actions' = RemoveNonActivatedActions(actions) /\ new_failsafe' = FALSE
  BY DEF UpdateEnd
<1>4. NoDuplicateIds'
  <2>1. \A i \in Slots : actions'[i].id \in {actions[i].id, NoId}
    BY <1>2, <1>3, RemoveNonActivatedFacts
  <2> QED  BY <2>1 DEF IInv, NoDuplicateIds, Valid
<1>5. ActivatedIsChecked'
  BY <1>2, <1>3, RemoveNonActivatedFacts DEF ActivatedIsChecked
<1>6. FallbackNotDeferrable'
  <2>1. FallbackId # NoId
    BY IdsAssumption DEF Ids
  <2> QED  BY <1>2, <1>3, <2>1, RemoveNonActivatedFacts DEF IInv, TableInv, FallbackNotDeferrable
<1> QED  BY <1>1, <1>3, <1>4, <1>5, <1>6
         DEF IInv, TableInv, DemandedIsInTable, FallbackIsInTable, DeferralInTime,
             NewFailsafeNoTakeover

(* deferFailsafes() and updateParams() preserve the invariant. *)
LEMMA BetweenUpdatesIInv ==
    ASSUME IInv,
           \/ \E enabled \in BOOLEAN, timeout \in DeferTimeouts : DeferFailsafes(enabled, timeout)
           \/ \E d \in DelayParams : UpdateParams(d)
    PROVE  IInv'
<1>1. /\ pc = "idle"
      /\ UNCHANGED <<pc, next_check, in, actions, last_failure, can_run, user_takeover_active,
                     outputs, defer_age, current_delay, history>>
  BY DEF DeferFailsafes, UpdateParams, delays, defer
<1>2. TypeOK'
  <2>1. defer_failsafes' \in BOOLEAN /\ defer_timeout' \in Nat
        /\ com_fail_act_t' \in Nat /\ current_start_delay' \in Nat
    BY DurationsAssumption DEF IInv, TypeOK, DeferFailsafes, UpdateParams, delays, defer
  <2> QED  BY <1>1, <2>1 DEF IInv, TypeOK, outputs, history
<1>3. NoDuplicateIds'
  BY <1>1 DEF IInv, NoDuplicateIds, Valid
<1>4. TableInv'
  BY <1>1 DEF IInv, TableInv, ActivatedIsChecked, DemandedIsInTable, FallbackIsInTable,
              FallbackNotDeferrable, DeferralInTime, NewFailsafeNoTakeover, history
<1>5. Selected'
  BY <1>1 DEF IInv, Selected, ResultingModeCanRun, ActsOnWorstFailure,
              TakeoverRespectsNever, DeferralIsAllowed, FailsafeHasCause, AllDeferrable,
              WorstAction, Valid, outputs, history
<1> QED  BY <1>2, <1>3, <1>4, <1>5 DEF IInv

(* The invariant does not depend on anything else. *)
LEMMA StutterIInv ==
    ASSUME IInv, UNCHANGED vars
    PROVE  IInv'
<1>1. UNCHANGED <<pc, next_check, in, actions, last_failure, can_run, user_takeover_active,
                  outputs, defer, delays, history>>
  BY DEF vars
<1>2. TypeOK' /\ NoDuplicateIds'
  BY <1>1 DEF IInv, TypeOK, NoDuplicateIds, Valid, outputs, defer, delays, history
<1>3. TableInv'
  BY <1>1 DEF IInv, TableInv, ActivatedIsChecked, DemandedIsInTable, FallbackIsInTable,
              FallbackNotDeferrable, DeferralInTime, NewFailsafeNoTakeover, history, defer
<1>4. Selected'
  BY <1>1 DEF IInv, Selected, ResultingModeCanRun, ActsOnWorstFailure,
              TakeoverRespectsNever, DeferralIsAllowed, FailsafeHasCause, AllDeferrable,
              WorstAction, Valid, outputs, history, delays, defer
<1> QED  BY <1>2, <1>3, <1>4 DEF IInv

(* The invariant is inductive. *)
LEMMA StepIInv == IInv /\ [Next]_vars => IInv'
<1> SUFFICES ASSUME IInv, [Next]_vars
             PROVE  IInv'
  OBVIOUS
<1> QED  BY UpdateBeginIInv, CheckIInv, CheckFallbackIInv, UpdateEndIInv, BetweenUpdatesIInv,
            StutterIInv DEF Next

(* The invariant holds in every reachable state. *)
THEOREM Invariance == Spec => []IInv
<1> QED  BY InitIInv, StepIInv, PTL DEF Spec

-----------------------------------------------------------------------------
(* The properties. *)

(* Every variable keeps its type, whatever checks, options, modes and        *)
(* durations the subclass and the commander supply.                          *)
THEOREM TypeCorrect == Spec => []TypeOK
<1>1. IInv => TypeOK
  BY DEF IInv
<1> QED  BY <1>1, Invariance, PTL

(* checkFailsafe() never makes a second entry for a caller.                  *)
THEOREM NoDuplicates == Spec => []NoDuplicateIds
<1>1. IInv => NoDuplicateIds
  BY DEF IInv
<1> QED  BY <1>1, Invariance, PTL

(* The mode that getSelectedAction() leaves an armed vehicle in can run.     *)
THEOREM ModeCanRun == Spec => []ResultingModeCanRun
<1>1. IInv => ResultingModeCanRun
  BY DEF IInv, Selected
<1> QED  BY <1>1, Invariance, PTL

(* The selected action is at least as severe as every failing check demands. *)
THEOREM WorstFailureWins == Spec => []ActsOnWorstFailure
<1>1. IInv => ActsOnWorstFailure
  BY DEF IInv, Selected
<1> QED  BY <1>1, Invariance, PTL

(* No takeover against an active action that never allows one.               *)
THEOREM NeverIsRespected == Spec => []TakeoverRespectsNever
<1>1. IInv => TakeoverRespectsNever
  BY DEF IInv, Selected
<1> QED  BY <1>1, Invariance, PTL

(* Failsafes are deferred only on an armed vehicle with deferrable actions.  *)
THEOREM DeferralAllowed == Spec => []DeferralIsAllowed
<1>1. IInv => DeferralIsAllowed
  BY DEF IInv, Selected
<1> QED  BY <1>1, Invariance, PTL

(* A failsafe mode is entered only for an active action or a running delay.  *)
THEOREM HasCause == Spec => []FailsafeHasCause
<1>1. IInv => FailsafeHasCause
  BY DEF IInv, Selected
<1> QED  BY <1>1, Invariance, PTL

(* A terminated flight stays terminated, also over disarming, takeovers and  *)
(* deferrals.                                                                *)
THEOREM TerminationIsFinal == Spec => TerminateIsFinal
<1>1. [Next]_vars => [selected_action = Terminate => selected_action' = Terminate]_vars
  <2> SUFFICES ASSUME [Next]_vars, selected_action = Terminate
               PROVE  selected_action' = Terminate
    OBVIOUS
  <2>1. CASE UpdateEnd
    BY <2>1 DEF UpdateEnd, GetSelectedAction, SelectedActionState
  <2>2. CASE ~UpdateEnd
    BY <2>2 DEF Next, UpdateBegin, Check, CheckFallback, DeferFailsafes, UpdateParams, outputs,
                vars
  <2> QED  BY <2>1, <2>2
<1> QED  BY <1>1, PTL DEF Spec, TerminateIsFinal

(* A deferral never outlives the timeout that is set.                        *)
THEOREM DeferralEnds == Spec => DeferralTimesOut
<1>1. IInv /\ [Next]_vars =>
        [pc = "finish" /\ defer_age' # NotDeferred /\ defer_timeout > 0
            => defer_age' <= defer_timeout]_vars
  <2> SUFFICES ASSUME IInv, [Next]_vars, pc = "finish", defer_age' # NotDeferred,
                      defer_timeout > 0, vars' # vars
               PROVE  defer_age' <= defer_timeout
    OBVIOUS
  <2>1. UpdateEnd
    BY DEF Next, UpdateBegin, Check, CheckFallback, DeferFailsafes, UpdateParams
  <2> DEFINE sel == GetSelectedAction(RemoveNonActivatedActions(actions), ClearDelayIfNeeded)
  <2>2. sel.failsafe_deferred => defer_failsafes
    BY DEF GetSelectedAction, SelectNow, SelectedActionState
  <2>3. defer_age' = IF ~sel.failsafe_deferred THEN NotDeferred
                     ELSE IF defer_age = NotDeferred THEN 0 ELSE defer_age
    BY <2>1 DEF UpdateEnd
  <2>4. defer_failsafes => defer_age <= defer_timeout
    BY DEF IInv, TableInv, DeferralInTime
  <2>5. defer_age \in Nat \cup {NotDeferred} /\ defer_timeout \in Nat
    BY DEF IInv, TypeOK
  <2> HIDE DEF sel
  <2> QED  BY <2>2, <2>3, <2>4, <2>5, SMTT(30)
<1> QED  BY <1>1, Invariance, PTL DEF Spec, DeferralTimesOut

(* After a new failsafe the pilot must ask again for control.                *)
THEOREM NewFailsafeTakesBack == Spec => NewFailsafeEndsTakeover
<1>1. IInv /\ [Next]_vars =>
        [pc = "finish" /\ new_failsafe /\ user_takeover_active'
            => in.rc_sticks \/ in.mode_updated]_vars
  <2> SUFFICES ASSUME IInv, [Next]_vars, pc = "finish", new_failsafe, user_takeover_active',
                      vars' # vars
               PROVE  in.rc_sticks \/ in.mode_updated
    OBVIOUS
  <2>1. UpdateEnd
    BY DEF Next, UpdateBegin, Check, CheckFallback, DeferFailsafes, UpdateParams
  <2>2. ~user_takeover_active
    BY DEF IInv, TableInv, NewFailsafeNoTakeover
  <2> DEFINE table == RemoveNonActivatedActions(actions)
             delay == ClearDelayIfNeeded
  <2>3. GetSelectedAction(table, delay).user_takeover
    BY <2>1 DEF UpdateEnd
  <2>4. TakesOver(table, delay)
    BY <2>3 DEF GetSelectedAction, SelectNow, SelectedActionState
  <2> QED  BY <2>2, <2>4 DEF TakesOver
<1> QED  BY <1>1, Invariance, PTL DEF Spec, NewFailsafeEndsTakeover

(* The ids that checkFailsafe() can remove from the table. *)
LEMMA ChecksKeepLatched ==
    ASSUME TypeOK, NEW id, NEW options, ConditionFails(id, options) \/ ConditionOk(id),
           NEW i \in Valid(actions), actions'[i].id # actions[i].id
    PROVE  no_free_idx' \/ actions[i].clear_condition = WhenConditionClears
<1>1. i \in Slots /\ actions \in [Slots -> Entry] /\ actions[i] \in Entry
  BY DEF Valid, TypeOK
<1>2. CASE UpdateEntry(id, options)
  BY <1>1, <1>2, SMTT(30) DEF UpdateEntry, Found, Entry
<1>3. CASE AddEntry(id, options)
  <2>1. PICK k \in Candidates(actions, options.action) :
            actions' = [actions EXCEPT ![k] = NewEntry(id, options)]
    BY <1>3 DEF AddEntry
  <2>2. k = i
    BY <1>1, <2>1
  <2>3. Valid(actions) = Slots
    BY <2>1, <2>2 DEF Candidates
  <2> QED  BY <1>3, <2>3 DEF AddEntry
<1>4. CASE NoSlot(id, options)
  BY <1>4 DEF NoSlot
<1>5. CASE ConditionOk(id)
  BY <1>1, <1>5, RemoveActionFacts DEF ConditionOk
<1> QED  BY <1>2, <1>3, <1>4, <1>5 DEF ConditionFails

(* Latched actions leave the table only by what their clear condition names. *)
THEOREM LatchedKept == Spec => LatchedActionsAreKept
<1> DEFINE Lawful(i) ==
        actions'[i].id # actions[i].id =>
            \/ no_free_idx'
            \/ actions[i].clear_condition = WhenConditionClears
            \/ /\ ~actions[i].state_failure
               /\ \/ actions[i].clear_condition # NeverClear /\ in'.armed # last_armed
                  \/ /\ actions[i].clear_condition = OnModeChangeOrDisarm
                     /\ in'.mode_updated \/ user_takeover_active'
<1>1. IInv /\ [Next]_vars => [\A i \in Valid(actions) : Lawful(i)]_vars
  <2> SUFFICES ASSUME IInv, [Next]_vars, vars' # vars, NEW i \in Valid(actions),
                      actions'[i].id # actions[i].id
               PROVE  Lawful(i)
    OBVIOUS
  <2>1. TypeOK /\ i \in Slots /\ actions \in [Slots -> Entry] /\ actions[i] \in Entry
    BY DEF IInv, TypeOK, Valid
  <2>2. ASSUME NEW armed \in BOOLEAN, NEW mode \in UserModes, NEW mode_updated \in BOOLEAN,
               NEW rc_sticks \in BOOLEAN, NEW dt \in Dts,
               UpdateBegin(armed, mode, mode_updated, rc_sticks, dt)
        PROVE  Lawful(i)
    <3> DEFINE once  == RemoveActions(actions, OnDisarm)
               twice == RemoveActions(once, OnModeChangeOrDisarm)
               table == IF last_armed # armed THEN twice ELSE actions
    <3>1. /\ in'.armed = armed
          /\ \/ actions' = table
             \/ /\ actions' = RemoveActions(table, OnModeChangeOrDisarm)
                /\ in'.mode_updated \/ user_takeover_active'
      BY <2>2 DEF UpdateBegin
    <3>2. /\ once \in [Slots -> Entry]
          /\ once[i] = actions[i] \/ (~actions[i].state_failure
                                        /\ actions[i].clear_condition = OnDisarm)
      BY <2>1, RemoveActionsFacts, SMTT(60), SMTT(30)
    <3>3. /\ twice \in [Slots -> Entry]
          /\ twice[i] = once[i] \/ (~once[i].state_failure
                                        /\ once[i].clear_condition = OnModeChangeOrDisarm)
      BY <2>1, <3>2, RemoveActionsFacts, SMTT(60), SMTT(30)
    <3> HIDE DEF once, twice
    <3>4. /\ table \in [Slots -> Entry]
          /\ \/ table[i] = actions[i]
             \/ /\ armed # last_armed /\ ~actions[i].state_failure
                /\ actions[i].clear_condition \in {OnDisarm, OnModeChangeOrDisarm}
      BY <2>1, <3>2, <3>3
    <3> HIDE DEF table
    <3>5. OnDisarm # NeverClear /\ OnModeChangeOrDisarm # NeverClear
      BY DEF OnDisarm, OnModeChangeOrDisarm, NeverClear
    <3>6. CASE table[i] # actions[i]
      BY <3>1, <3>4, <3>5, <3>6
    <3>7. CASE table[i] = actions[i]
      BY <2>1, <3>1, <3>4, <3>7, RemoveActionsFacts, SMTT(60), SMTT(30)
    <3> QED  BY <3>6, <3>7
  <2>3. ASSUME NEW called, NEW fails, NEW options, Check(called, fails, options)
        PROVE  Lawful(i)
    BY <2>1, <2>3, ChecksKeepLatched DEF Check
  <2>4. ASSUME NEW can \in CanRunSets, CheckFallback(can)
        PROVE  Lawful(i)
    BY <2>1, <2>4, ChecksKeepLatched DEF CheckFallback
  <2>5. CASE UpdateEnd
    BY <2>1, <2>5, RemoveNonActivatedFacts DEF UpdateEnd
  <2> QED  BY <2>2, <2>3, <2>4, <2>5 DEF Next, DeferFailsafes, UpdateParams
<1> QED  BY <1>1, Invariance, PTL DEF Spec, LatchedActionsAreKept

-----------------------------------------------------------------------------
(* FailsafeActions: the decisions of class Failsafe are of the kind the     *)
(* framework assumes of its subclass, for all values of the parameters, and *)
(* what the requirements of the modes mean for the choice of an action.     *)

(* The three kinds of options that the parameters select are options.       *)
LEMMA OptionKinds ==
    ASSUME NEW action \in Action
    PROVE  /\ Plainly(action) \in Options
           /\ Latching(action) \in Options
           /\ Finally(action) \in Options
           /\ \A setting \in UserTakeoverAllowed :
                /\ [Plainly(action) EXCEPT !.allow_user_takeover = setting] \in Options
                /\ [Latching(action) EXCEPT !.allow_user_takeover = setting] \in Options
           /\ \A condition \in ClearCondition :
                [Plainly(action) EXCEPT !.clear_condition = condition] \in Options
<1>1. /\ {WhenConditionClears, OnModeChangeOrDisarm, NeverClear} \subseteq ClearCondition
      /\ {AutoTakeover, Never} \subseteq UserTakeoverAllowed
  BY SMTT(30) DEF ClearCondition, UserTakeoverAllowed, AutoTakeover, Never
<1>2. \A o \in Options, condition \in ClearCondition, setting \in UserTakeoverAllowed :
        /\ [o EXCEPT !.clear_condition = condition] \in Options
        /\ [o EXCEPT !.allow_user_takeover = setting] \in Options
        /\ [o EXCEPT !.clear_condition = condition, !.allow_user_takeover = setting] \in Options
  BY DEF Options
<1>3. Plainly(action) \in Options
  BY <1>1 DEF Plainly, Options
<1>4. Latching(action) \in Options
  BY <1>1, <1>2, <1>3 DEF Latching
<1>5. Finally(action) \in Options
  BY <1>1, <1>2, <1>3 DEF Finally
<1>6. \A setting \in UserTakeoverAllowed :
        /\ [Plainly(action) EXCEPT !.allow_user_takeover = setting] \in Options
        /\ [Latching(action) EXCEPT !.allow_user_takeover = setting] \in Options
  BY <1>1, <1>2, <1>3, <1>4
<1>7. \A condition \in ClearCondition :
        [Plainly(action) EXCEPT !.clear_condition = condition] \in Options
  BY <1>1, <1>2, <1>3
<1> QED  BY <1>3, <1>4, <1>5, <1>6, <1>7

(* The options that the parameters select, whatever their values, are such  *)
(* that OptionsAssumption holds for the checks of failsafe.cpp.             *)
THEOREM OptionsSound ==
    ASSUME NEW value \in Int, NEW warning
    PROVE  /\ FromNavDllOrRclActParam(value) \in Options
           /\ FromGfActParam(value) \in Options
           /\ FromHighWindLimitActParam(value) \in Options
           /\ FromImbalancedPropActParam(value) \in Options
           /\ FromActuatorFailureActParam(value) \in Options
           /\ FromBatteryWarningActParam(value, warning) \in Options
           /\ FromQuadchuteActParam(value) \in Options
<1>1. /\ {None, Warn, Hold, RTL, Land, Disarm, Terminate} \subseteq Action
      /\ Never \in UserTakeoverAllowed /\ AlwaysModeSwitchOnly \in UserTakeoverAllowed
      /\ NeverClear \in ClearCondition
  BY SMTT(30) DEF Action, None, Warn, Hold, RTL, Land, Disarm, Terminate, Never, AlwaysModeSwitchOnly,
         UserTakeoverAllowed, NeverClear, ClearCondition
<1>2. FromNavDllOrRclActParam(value) \in Options
  BY <1>1, OptionKinds DEF FromNavDllOrRclActParam
<1>3. FromGfActParam(value) \in Options
  BY <1>1, OptionKinds DEF FromGfActParam
<1>4. FromImbalancedPropActParam(value) \in Options
  BY <1>1, OptionKinds DEF FromImbalancedPropActParam
<1>5. FromActuatorFailureActParam(value) \in Options
  BY <1>1, OptionKinds DEF FromActuatorFailureActParam
<1>6. FromBatteryWarningActParam(value, warning) \in Options
  BY <1>1, OptionKinds DEF FromBatteryWarningActParam
<1>7. FromQuadchuteActParam(value) \in Options
  BY <1>1, OptionKinds DEF FromQuadchuteActParam
<1> QED  BY <1>2, <1>3, <1>4, <1>5, <1>6, <1>7 DEF FromHighWindLimitActParam

-----------------------------------------------------------------------------
(* An action above a warning other than the last two determines its mode.   *)
LEMMA ModeOfAction ==
    ASSUME NEW a \in Action \ {None, Warn, Disarm, Terminate}, NEW m, NEW n
    PROVE  ModeFromAction(a, m) = ModeFromAction(a, n)
  BY SMTT(30) DEF ModeFromAction, Action, None, Warn, FallbackPosCtrl, FallbackAltCtrl, FallbackStab, Hold,
         RTL, Land, Descend, Disarm, Terminate

(* The mode that checkModeFallback() has reached is that of its action.     *)
Agree(i, mode) ==
    /\ i.action \in Action \ {Warn, Disarm}
    /\ i.action = None => i.mode = mode
    /\ i.action \notin {None, Terminate} => i.mode = ModeFromAction(i.action, MANUAL)

(* The switch on COM_POSCTL_NAVL keeps that so.                             *)
LEMMA PositionLossAgrees ==
    ASSUME NEW can, NEW navl \in Int, NEW mode, NEW i, Agree(i, mode)
    PROVE  Agree(PositionLoss(i, can, navl), mode)
  BY SMTT(30) DEF Agree, PositionLoss, Step, Intended, ModeFromAction, Action, None, Warn, FallbackPosCtrl, FallbackAltCtrl,
         FallbackStab, Hold, RTL, Land, Descend, Disarm, Terminate, POSCTL, ALTCTL, STAB, AUTO_LOITER,
         AUTO_RTL, AUTO_LAND, DESCEND

(* checkModeFallback() keeps FallbackAssumption: it returns an action other *)
(* than a warning, and none only if the intended mode can run.  And it does *)
(* not send the vehicle from one mode that cannot run into another: any     *)
(* action but RTL, the last resort, leads to a mode that can.               *)
THEOREM FallbackSound ==
    ASSUME NEW can, NEW signal_lost \in BOOLEAN, NEW mode, NEW obl \in Int, NEW navl \in Int
    PROVE  LET action == ModeFallback(can, signal_lost, mode, obl, navl)
           IN  /\ action \in Action \ {Warn}
               /\ action = None => mode \in can
               /\ action \notin {None, RTL, Disarm, Terminate} => ModeFromAction(action, mode) \in can
<1> DEFINE lost  == signal_lost /\ mode = OFFBOARD
           first == IF lost THEN FromOffboardLossActParam(obl, mode) ELSE Intended(None, mode)
           then  == PositionLoss(first, can, navl)
           action == ModeFallback(can, signal_lost, mode, obl, navl)
<1> SUFFICES /\ action \in Action \ {Warn}
             /\ action = None => mode \in can
             /\ action \notin {None, RTL, Disarm, Terminate} => ModeFromAction(action, mode) \in can
  OBVIOUS
<1>1. first.action = Disarm \/ Agree(first, mode)
  <2> USE DEF Intended, Action, None, Warn, FallbackPosCtrl, FallbackAltCtrl, FallbackStab, Hold, RTL,
              Land, Disarm, Terminate
  <2>1. Agree(Intended(None, mode), mode)
    BY SMTT(30) DEF Agree
  <2>2. LET i == FromOffboardLossActParam(obl, mode)
        IN  i.action = Disarm \/ Agree(i, mode)
    <3>1. /\ Agree(Intended(FallbackPosCtrl, POSCTL), mode)
          /\ Agree(Intended(FallbackAltCtrl, ALTCTL), mode)
          /\ Agree(Intended(FallbackStab, STAB), mode)
          /\ Agree(Intended(RTL, AUTO_RTL), mode)
          /\ Agree(Intended(Land, AUTO_LAND), mode)
          /\ Agree(Intended(Hold, AUTO_LOITER), mode)
          /\ Agree(Intended(Terminate, TERMINATION), mode)
      <4>1. \A a \in Action \ {None, Warn, Disarm} : \A m :
                (a # Terminate => m = ModeFromAction(a, MANUAL)) => Agree(Intended(a, m), mode)
        BY DEF Agree
      <4>2. /\ POSCTL = ModeFromAction(FallbackPosCtrl, MANUAL)
            /\ ALTCTL = ModeFromAction(FallbackAltCtrl, MANUAL)
            /\ STAB = ModeFromAction(FallbackStab, MANUAL)
            /\ AUTO_RTL = ModeFromAction(RTL, MANUAL)
            /\ AUTO_LAND = ModeFromAction(Land, MANUAL)
            /\ AUTO_LOITER = ModeFromAction(Hold, MANUAL)
        BY SMTT(30) DEF ModeFromAction, Descend
      <4> QED  BY <4>1, <4>2, SMTT(30)
    <3>2. Intended(Disarm, mode).action = Disarm
      OBVIOUS
    <3>3. FromOffboardLossActParam(obl, mode) \in
            {Intended(FallbackPosCtrl, POSCTL), Intended(FallbackAltCtrl, ALTCTL),
             Intended(FallbackStab, STAB), Intended(RTL, AUTO_RTL), Intended(Land, AUTO_LAND),
             Intended(Hold, AUTO_LOITER), Intended(Terminate, TERMINATION), Intended(Disarm, mode)}
      BY DEF FromOffboardLossActParam
    <3> QED  BY <3>1, <3>2, <3>3
  <2> QED  BY <2>1, <2>2
<1>2. action = IF first.action = Disarm THEN Disarm ELSE IF then.mode \notin can THEN RTL ELSE then.action
  BY DEF ModeFallback
<1> HIDE DEF first, then, action
<1>3. CASE first.action = Disarm
  BY <1>2, <1>3, SMTT(30) DEF Action, Warn, None, Disarm
<1>4. CASE first.action # Disarm
  <2>1. Agree(then, mode)
    BY <1>1, <1>4, PositionLossAgrees DEF then
  <2>2. CASE then.mode \notin can
    BY <1>2, <1>4, <2>2, SMTT(30) DEF Action, Warn, None, RTL
  <2>3. CASE then.mode \in can
    <3>1. action = then.action
      BY <1>2, <1>4, <2>3
    <3>2. action \notin {None, RTL, Disarm, Terminate} => ModeFromAction(action, mode) \in can
      BY <2>1, <2>3, <3>1, ModeOfAction DEF Agree
    <3> QED  BY <2>1, <2>3, <3>1, <3>2 DEF Agree
  <2> QED  BY <2>2, <2>3
<1> QED  BY <1>3, <1>4

-----------------------------------------------------------------------------
(* Terminating the flight.                                                  *)

(* What is lost when not even Descend is possible.                          *)
Blind(lost) == lost \cap {"angular_velocity", "attitude", "local_alt"} # {}

(* An action falls through to Terminate exactly if no mode from it down to  *)
(* Descend can run.                                                         *)
LEMMA PossibleTerminates ==
    ASSUME NEW a \in FallbackPosCtrl .. Descend
    PROVE  Possible(a) = Terminate <=>
                \A b \in a .. Descend : ModeFromAction(b, MANUAL) \notin can_run
<1> DEFINE chain == {b \in FallbackPosCtrl .. Descend :
                        b >= a /\ ModeFromAction(b, MANUAL) \in can_run}
<1> USE DEF FallbackPosCtrl, Descend, Terminate
<1>1. chain = {} <=> \A b \in a .. Descend : ModeFromAction(b, MANUAL) \notin can_run
  BY SMTT(30)
<1>2. CASE chain = {}
  BY <1>1, <1>2 DEF Possible
<1>3. CASE chain # {}
  <2>1. Possible(a) = Min(chain)
    BY <1>3 DEF Possible
  <2>2. chain \in SUBSET (0 .. 10)
    BY SMTT(30)
  <2>3. Min(chain) \in chain
    BY <1>3, <2>2, MinOfActions
  <2> QED  BY <1>1, <1>3, <2>1, <2>3, SMTT(30)
<1> QED  BY <1>2, <1>3

(* With the modes that can run for the flags in lost, getSelectedAction()   *)
(* turns an action that it was asked for into Terminate only if angular     *)
(* velocity, attitude or altitude is lost, and then it does so for every    *)
(* action from Hold on.                                                     *)
THEOREM TerminatesOnlyBlind ==
    ASSUME NEW lost, NEW fixed_wing \in BOOLEAN, can_run = CanRun(lost, fixed_wing) \cap Modes,
           NEW a \in FallbackPosCtrl .. Descend
    PROVE  /\ Possible(a) = Terminate => Blind(lost)
           /\ Blind(lost) /\ a >= Hold => Possible(a) = Terminate
<1>1. \A m \in {AUTO_LOITER, AUTO_RTL, AUTO_LAND, DESCEND} :
        {"angular_velocity", "attitude", "local_alt"} \subseteq Requirements(m, fixed_wing)
  BY DEF Requirements, LocalPosition, Attitude, AUTO_LOITER, AUTO_RTL, AUTO_LAND, DESCEND, ALTCTL,
         POSCTL, AUTO_MISSION, ACRO, OFFBOARD, STAB, AUTO_TAKEOFF, FOLLOW_TARGET, AUTO_PRECLAND,
         ORBIT, VTOL_TAKEOFF
<1>2. Requirements(DESCEND, fixed_wing) = {"angular_velocity", "attitude", "local_alt"}
  BY DEF Requirements, LocalPosition, Attitude, AUTO_LOITER, AUTO_RTL, AUTO_LAND, DESCEND, ALTCTL,
         POSCTL, AUTO_MISSION, ACRO, OFFBOARD, STAB, AUTO_TAKEOFF, FOLLOW_TARGET, AUTO_PRECLAND,
         ORBIT, VTOL_TAKEOFF
<1>3. DESCEND \in can_run <=> ~Blind(lost)
  BY <1>2 DEF CanRun, Blind, NavStates, NamedModes, Modes
<1>4. ModeFromAction(Descend, MANUAL) = DESCEND /\ Descend \in a .. Descend
  BY SMTT(30) DEF ModeFromAction, FallbackPosCtrl, FallbackAltCtrl, FallbackStab, Hold, RTL, Land, Descend
<1>5. Possible(a) = Terminate => Blind(lost)
  BY <1>3, <1>4, PossibleTerminates
<1>6. ASSUME Blind(lost), a >= Hold
      PROVE  Possible(a) = Terminate
  <2>1. \A b \in a .. Descend :
            ModeFromAction(b, MANUAL) \in {AUTO_LOITER, AUTO_RTL, AUTO_LAND, DESCEND}
    BY <1>6, SMTT(30) DEF ModeFromAction, FallbackPosCtrl, FallbackAltCtrl, FallbackStab, Hold, RTL, Land, Descend
  <2>2. \A m \in {AUTO_LOITER, AUTO_RTL, AUTO_LAND, DESCEND} : m \notin can_run
    BY <1>1, <1>6 DEF CanRun, Blind
  <2> QED  BY <2>1, <2>2, PossibleTerminates
<1> QED  BY <1>5, <1>6

(* Whatever the checks, the fallbacks and the pilot do, the flight is        *)
(* terminated only on request or when the vehicle cannot even descend.      *)
THEOREM TerminationCaused == Spec => TerminationHasCause
<1>1. IInv /\ [Next]_vars =>
        [selected_action # Terminate /\ selected_action' = Terminate =>
            \/ WorstAction(actions') = Terminate
            \/ \E m \in Modes : CheckModeFallback(can_run, m) = Terminate
            \/ DESCEND \notin can_run]_vars
  <2> SUFFICES ASSUME IInv, [Next]_vars, selected_action # Terminate, selected_action' = Terminate
               PROVE  \/ WorstAction(actions') = Terminate
                      \/ \E m \in Modes : CheckModeFallback(can_run, m) = Terminate
                      \/ DESCEND \notin can_run
    OBVIOUS
  <2>1. UpdateEnd
    BY DEF Next, UpdateBegin, Check, CheckFallback, DeferFailsafes, UpdateParams, outputs, vars
  <2> DEFINE table == RemoveNonActivatedActions(actions)
             delay == ClearDelayIfNeeded
  <2>2. /\ TypeOK /\ can_run \in CanRunSets
        /\ actions' = table /\ GetSelectedAction(table, delay).action = Terminate
    BY <2>1 DEF IInv, UpdateEnd, TableInv, FallbackIsInTable
  <2>3. table \in [Slots -> Entry] /\ delay \in Nat
    BY <2>2, RemoveNonActivatedFacts DEF TypeOK, ClearDelayIfNeeded
  <2> HIDE DEF table, delay
  <2>4. SelectNow(table, delay).action = Terminate
    BY <2>2, SMTT(30) DEF GetSelectedAction, SelectedActionState, None, Terminate
  <2>5. Chosen(table, delay) \in Action /\ Possible(Chosen(table, delay)) = Terminate
    <3>1. /\ Chosen(table, delay) \in Action
          /\ \/ SelectNow(table, delay).action = Possible(Chosen(table, delay))
             \/ SelectNow(table, delay).action = Warn
      BY <2>2, <2>3, SelectNowFacts
    <3> QED  BY <2>4, <3>1, SMTT(30) DEF Warn, Terminate
  <2>6. CASE Chosen(table, delay) \in FallbackPosCtrl .. Descend
    <3>1. ModeFromAction(Descend, MANUAL) = DESCEND /\ Descend \in Chosen(table, delay) .. Descend
      BY <2>6, SMTT(30) DEF ModeFromAction, FallbackPosCtrl, FallbackAltCtrl, FallbackStab, Hold, RTL, Land, Descend
    <3> QED  BY <2>5, <2>6, <3>1, PossibleTerminates
  <2>7. CASE Chosen(table, delay) \notin FallbackPosCtrl .. Descend
    <3>1. Chosen(table, delay) = Terminate
      BY <2>5, <2>7, PossibleFacts
    <3>2. CASE TakesOver(table, delay)
      <4>1. UpdatedMode(table, delay) \in Modes
        BY <2>2 DEF UpdatedMode, TypeOK, Input, Modes, NamedModes
      <4>2. CheckModeFallback(can_run, UpdatedMode(table, delay)) \in Nat
        BY <2>2, <4>1, FallbackAssumption, SMTT(30) DEF Action
      <4>3. Max({Warn, CheckModeFallback(can_run, UpdatedMode(table, delay))}) = Terminate
        BY <3>1, <3>2 DEF Chosen
      <4>4. CheckModeFallback(can_run, UpdatedMode(table, delay)) = Terminate
        BY <4>2, <4>3, MaxOfTwo, SMTT(30) DEF Warn, Terminate
      <4> QED  BY <4>1, <4>4
    <3>3. CASE ~TakesOver(table, delay)
      BY <2>2, <3>1, <3>3, SMTT(30) DEF Chosen, Requested, Hold, Terminate
    <3> QED  BY <3>2, <3>3
  <2> QED  BY <2>6, <2>7
<1> QED  BY <1>1, Invariance, PTL DEF Spec, TerminationHasCause
=============================================================================
