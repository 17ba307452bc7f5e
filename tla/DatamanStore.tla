---------------------------- MODULE DatamanStore ----------------------------
(***************************************************************************)
(* What the data manager promises the callers of DatamanClient             *)
(* (src/lib/dataman_client/DatamanClient.hpp): a store of items with       *)
(* operations that take effect between call and return.  A caller is one   *)
(* side, synchronous or asynchronous, of a client.  An operation may take  *)
(* effect more than once, but only while it is in progress; it succeeds    *)
(* only if it took effect; a read returns a value the item had meanwhile.  *)
(***************************************************************************)
CONSTANTS
    Callers,
    Items, Indices,
    Values,
    Empty           \* the value of a cleared item

VARIABLES
    store,          \* [key -> value]
    pending,        \* [caller -> its operation in progress]
    outcome,        \* [caller -> results the operation may return by now]
    returned        \* what the last step made an operation return, if it did

Keys == Items \X Indices
Op == [type : {"read", "write", "clear"}, item : Items, index : Indices, value : Values \cup {Empty}]
NoOp == [type |-> "none", item |-> "none", index |-> "none", value |-> Empty]
NoReturn == [caller |-> <<"none", "none">>, result |-> "none"]
Key(op) == <<op.item, op.index>>

vars == <<store, pending, outcome, returned>>

Init ==
    /\ store = [key \in Keys |-> Empty]
    /\ pending = [c \in Callers |-> NoOp]
    /\ outcome = [c \in Callers |-> {}]
    /\ returned = NoReturn

Begin(c) ==
    /\ pending[c] = NoOp
    /\ returned' = NoReturn
    /\ UNCHANGED store
    /\ LET op == pending'[c]
       IN  /\ op \in Op
           /\ pending' = [pending EXCEPT ![c] = op]
           /\ outcome' = [outcome EXCEPT ![c] = IF op.type = "read" THEN {store[Key(op)]} ELSE {}]

(* A store in which the operation has taken effect, for a clear that fails  *)
(* on some of the indices only.                                             *)
Effects(op) ==
    CASE op.type = "write" -> {[store EXCEPT ![Key(op)] = op.value]}
      [] op.type = "clear" ->
            {[key \in Keys |-> IF key \in {op.item} \X cleared THEN Empty ELSE store[key]] :
                cleared \in SUBSET Indices}
      [] OTHER -> {store}

Done(op) ==
    CASE op.type = "write" -> store' = [store EXCEPT ![Key(op)] = op.value]
      [] op.type = "clear" -> \A index \in Indices : store'[<<op.item, index>>] = Empty
      [] OTHER -> FALSE

(* An operation takes effect: from now on it may succeed, and reads of      *)
(* other callers may return the new value.                                  *)
Perform(c) ==
    /\ pending[c] # NoOp
    /\ returned' = NoReturn
    /\ UNCHANGED pending
    /\ store' \in Effects(pending[c])
    /\ \E ok \in {{}, {"ok"}} :
        /\ ok # {} => Done(pending[c])
        /\ outcome' = [d \in Callers |->
                outcome[d] \cup (IF pending[d].type = "read" THEN {store'[Key(pending[d])]} ELSE {})
                           \cup (IF d = c THEN ok ELSE {})]

End(c) ==
    /\ pending[c] # NoOp
    /\ \E r \in outcome[c] \cup {"failed"} : returned' = [caller |-> c, result |-> r]
    /\ pending' = [pending EXCEPT ![c] = NoOp]
    /\ outcome' = [outcome EXCEPT ![c] = {}]
    /\ UNCHANGED store

(* Anything else the system does.                                           *)
Other == returned' = NoReturn /\ UNCHANGED <<store, pending, outcome>>

Next == Other \/ \E c \in Callers : Begin(c) \/ Perform(c) \/ End(c)

Spec == Init /\ [][Next]_vars
=============================================================================
