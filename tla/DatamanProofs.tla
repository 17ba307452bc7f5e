--------------------------- MODULE DatamanProofs ---------------------------
(***************************************************************************)
(* Theorems about the data manager and its clients.                        *)
(***************************************************************************)
EXTENDS DatamanCache, FiniteSetTheorems, TLAPS

(* The provers a step is tried with unless it names one, and their time.    *)
USE ZenonT(30), SMTT(30)

-----------------------------------------------------------------------------
(* What a step of the system is for the clients, the topics and the server. *)

Unmoved == Silent /\ UNCHANGED <<store, topics, clientVars, outcome>>
ReadOps == {op \in Op : op.type = "read"}
ClientStep(c) ==
    \/ Construct(c) \/ RetrySync(c) \/ ReceiveSync(c)
    \/ \E op \in Op : CallSyncOp(c, op)
    \/ \E op \in ReadOps : CallAsync(c, op)
    \/ Update(c, "Idle") \/ Update(c, "ResponseReceived")
    \/ constructed[c] /\ sync[c] = NoOp /\ Abort(c)
    \/ Complete(c)

(* Asynchronous operations are reads: the cache calls no other.             *)
ActiveReads == \A c \in Clients : state[c] = "RequestSent" => active[c] \in ReadOps

StoreStep == Unmoved \/ TakeRequest \/ AnswerRequest \/ \E c \in Clients : ClientStep(c)

-----------------------------------------------------------------------------
(* Types.                                                                   *)

LEMMA IdTypes == MaxId \in Nat \ {0} /\ NotSet \in Ids
<1>1. Cardinality(Clients \ Late) \in Nat
  BY ClientsAssumption, FS_Difference, FS_CardinalityType
<1> QED  BY <1>1, ClientsAssumption, SMTT(30) DEF Ids, NotSet

LEMMA ConstantTypes ==
    /\ NoMessage \in Requests /\ NoResponse \in Responses
    /\ GetId # NoOp /\ GetId \notin Op /\ NoOp \notin Op
    /\ \A m \in Requests : m # NoMessage =>
            /\ m.from \in Clients /\ m.port \in Ports \cup {"old"}
            /\ m.id \in Ids /\ m.op \in Op \cup {GetId}
    /\ \A op \in Op \cup {GetId} : [op EXCEPT !.value = Empty] \in Op \cup {GetId}
  BY ClientsAssumption, IdTypes, SMTT(30) DEF NoMessage, NoResponse, Requests, Responses, NoOp, GetId, OpOf,
     Op, Contents, Ports

LEMMA EffectsTyped ==
    ASSUME TypeOK, NEW op \in Op \cup {GetId}, NEW e \in Effects(op) \cup Failures(op)
    PROVE  e.ok \in BOOLEAN /\ e.store \in [Keys -> Contents] /\ ValueRead(op, e) \in Contents
<1>1. \A s \in SUBSET Indices : Cleared(op.item, s) \in [Keys -> Contents]
  BY DEF TypeOK, Cleared, Contents
<1>2. e.ok \in BOOLEAN /\ e.store \in [Keys -> Contents]
  <2>1. CASE e \in Failures(op)
    <3>1. PICK s \in IF op.type = "clear" THEN {Cleared(op.item, i) : i \in SUBSET Indices} ELSE {store} :
            e = [ok |-> FALSE, store |-> s]
      BY <2>1 DEF Failures
    <3>2. s \in [Keys -> Contents]
      BY <1>1, <3>1, SMTT(30) DEF TypeOK
    <3> QED  BY <3>1, <3>2
  <2>2. CASE e \in Effects(op)
    <3>1. CASE op.type = "write"
      <4>1. Key(op) \in Keys /\ op.value \in Contents
        BY <3>1, SMTT(30) DEF Op, GetId, OpOf, Key, Keys
      <4>2. e = [ok |-> TRUE, store |-> [store EXCEPT ![Key(op)] = op.value]]
        BY <2>2, <3>1 DEF Effects
      <4> QED  BY <4>1, <4>2 DEF TypeOK
    <3>2. CASE op.type = "clear"
      <4>1. e = [ok |-> TRUE, store |-> Cleared(op.item, Indices)]
        BY <2>2, <3>2 DEF Effects
      <4> QED  BY <1>1, <4>1
    <3>3. CASE op.type # "write" /\ op.type # "clear"
      <4>1. CASE op.type = "read"
        <5>1. Effects(op) = {[ok |-> TRUE, store |-> store]}
          BY <4>1 DEF Effects
        <5>2. e = [ok |-> TRUE, store |-> store]
          BY <2>2, <5>1
        <5> QED  BY <5>2 DEF TypeOK
      <4>2. CASE op.type # "read"
        <5>1. Effects(op) = {[ok |-> FALSE, store |-> store]}
          BY <3>3, <4>2 DEF Effects
        <5>2. e = [ok |-> FALSE, store |-> store]
          BY <2>2, <5>1
        <5> QED  BY <5>2 DEF TypeOK
      <4> QED  BY <4>1, <4>2
    <3> QED  BY <3>1, <3>2, <3>3
  <2> QED  BY <2>1, <2>2
<1>3. op.type = "read" => Key(op) \in Keys
  BY SMTT(30) DEF Op, GetId, OpOf, Key, Keys
<1> QED  BY <1>2, <1>3 DEF ValueRead, Contents

LEMMA UnmovedTypeOK ==
    ASSUME TypeOK, Unmoved
    PROVE  TypeOK'
BY DEF TypeOK, Unmoved, Silent, topics, clientVars, NoReturn

LEMMA TakeRequestTypeOK ==
    ASSUME TypeOK, TakeRequest
    PROVE  TypeOK'
BY ConstantTypes DEF TypeOK, TakeRequest, Silent, NoReturn

LEMMA AnswerRequestTypeOK ==
    ASSUME TypeOK, AnswerRequest
    PROVE  TypeOK'
<1>1. serving \in Requests /\ serving # NoMessage
  BY DEF TypeOK, AnswerRequest
<1> DEFINE op == serving.op
           granted == op = GetId /\ clients_count < MaxId
<1>2. op \in Op \cup {GetId} /\ serving.from \in Clients /\ serving.id \in Ids
  BY <1>1, ConstantTypes
<1>3. PICK e \in Effects(op) \cup Failures(op) :
        /\ store' = e.store
        /\ clients_count' = IF granted THEN clients_count + 1 ELSE clients_count
        /\ response' = [stamp |-> IF granted THEN serving.from ELSE "none",
                        id |-> IF granted THEN clients_count ELSE serving.id,
                        op |-> [op EXCEPT !.value = Empty],
                        ok |-> e.ok, value |-> ValueRead(op, e)]
        /\ outcome' = Outcomes(e)
  BY DEF AnswerRequest
<1>4. e.ok \in BOOLEAN /\ e.store \in [Keys -> Contents] /\ ValueRead(op, e) \in Contents
  BY <1>2, EffectsTyped
<1>5. clients_count' \in 1 .. MaxId
  BY <1>3, ClientsAssumption, SMTT(30) DEF TypeOK
<1>6. response' \in Responses
  <2>1. [op EXCEPT !.value = Empty] \in Op \cup {GetId}
    BY <1>2, ConstantTypes
  <2>2. (IF granted THEN clients_count ELSE serving.id) \in Ids
    BY <1>2, ClientsAssumption, SMTT(30) DEF TypeOK, Ids, NotSet
  <2> HIDE DEF op, granted
  <2> QED  BY <1>2, <1>3, <1>4, <2>1, <2>2 DEF Responses
<1>7. outcome' \in [Clients -> [Ports -> SUBSET Results]]
  <2> SUFFICES ASSUME NEW c \in Clients, NEW p \in Ports
               PROVE  (IF Pending(c, p).type = "read" THEN {e.store[Key(Pending(c, p))]} ELSE {})
                        \in SUBSET Results
    BY <1>3 DEF Outcomes, TypeOK, Results
  <2>1. Pending(c, p) \in Op \cup {NoOp, GetId}
    BY DEF TypeOK, Pending
  <2>2. Pending(c, p).type = "read" => Key(Pending(c, p)) \in Keys
    BY <2>1, SMTT(30) DEF Op, NoOp, GetId, OpOf, Key, Keys
  <2> QED  BY <1>4, <2>2 DEF Results
<1>8. /\ response_new' \in [Clients -> BOOLEAN] /\ serving' \in Requests /\ returned' = NoReturn
      /\ UNCHANGED <<request, id, constructed, sync, state, active, status>>
  BY ConstantTypes DEF AnswerRequest, Silent
<1> QED  BY <1>3, <1>4, <1>5, <1>6, <1>7, <1>8 DEF TypeOK

LEMMA CallTypes ==
    ASSUME TypeOK, NEW c \in Clients, NEW p \in Ports, NEW op \in Op \cup {GetId}
    PROVE  /\ Message(c, p, op) \in Requests
           /\ Opened(c, p, op) => outcome' \in [Clients -> [Ports -> SUBSET Results]]
<1>1. Message(c, p, op) \in Requests
  BY ClientsAssumption DEF TypeOK, Message, Requests, Ids, NotSet
<1>2. op.type = "read" => Key(op) \in Keys
  BY SMTT(30) DEF Op, GetId, OpOf, Key, Keys
<1>3. ASSUME Opened(c, p, op) PROVE outcome' \in [Clients -> [Ports -> SUBSET Results]]
  <2>1. (IF op.type = "read" THEN {store[Key(op)]} ELSE {}) \in SUBSET Results
    BY <1>2, SMTT(30) DEF TypeOK, Results
  <2> QED  BY <1>3, <2>1 DEF Opened, TypeOK
<1> QED  BY <1>1, <1>3

LEMMA CopyTypes ==
    ASSUME TypeOK, NEW c \in Clients, Copy(c)
    PROVE  response_new' \in [Clients -> BOOLEAN] /\ response' \in Responses
BY ConstantTypes DEF TypeOK, Copy

LEMMA RetiredTypes ==
    ASSUME NEW m \in Requests, NEW c, NEW p
    PROVE  /\ Retired(m, c, p) \in Requests
           /\ Retired(m, c, p).from = m.from /\ Retired(m, c, p).id = m.id /\ Retired(m, c, p).op = m.op
           /\ Retired(m, c, p).port \in {m.port, "old"}
           /\ m.port # p \/ m.from # c => Retired(m, c, p) = m
BY SMTT(30) DEF Retired, Requests, NoMessage

LEMMA ClosedTypes ==
    ASSUME TypeOK, NEW c \in Clients, NEW p \in Ports, NEW r \in Results, Closed(c, p, r)
    PROVE  /\ outcome' \in [Clients -> [Ports -> SUBSET Results]]
           /\ returned' \in [caller : Clients \X Ports, result : Results]
BY DEF TypeOK, Closed

LEMMA ConstructTypeOK ==
    ASSUME TypeOK, NEW c \in Clients, Construct(c)
    PROVE  TypeOK'
<1>1. request' \in Requests /\ outcome' \in [Clients -> [Ports -> SUBSET Results]]
  BY CallTypes DEF Construct, CallSync, Publish, Ports
<1>2. response_new' \in [Clients -> BOOLEAN] /\ response' \in Responses
  BY CopyTypes DEF Construct
<1> QED  BY <1>1, <1>2 DEF TypeOK, Construct, CallSync, Silent, NoReturn

LEMMA CallSyncOpTypeOK ==
    ASSUME TypeOK, NEW c \in Clients, NEW op \in Op, CallSyncOp(c, op)
    PROVE  TypeOK'
<1>1. request' \in Requests /\ outcome' \in [Clients -> [Ports -> SUBSET Results]]
  BY CallTypes DEF CallSyncOp, CallSync, Publish, Ports
<1> QED  BY <1>1 DEF TypeOK, CallSyncOp, CallSync, Silent, NoReturn

LEMMA CallAsyncTypeOK ==
    ASSUME TypeOK, NEW c \in Clients, NEW op \in ReadOps, CallAsync(c, op)
    PROVE  TypeOK'
<1>0. op \in Op
  BY DEF ReadOps
<1>1. request' \in Requests /\ outcome' \in [Clients -> [Ports -> SUBSET Results]]
  BY <1>0, CallTypes DEF CallAsync, Publish, Ports
<1> QED  BY <1>0, <1>1 DEF TypeOK, CallAsync, Silent, NoReturn

LEMMA ReturnTypes ==
    ASSUME TypeOK, NEW c \in Clients, NEW r \in Results, NEW m \in Requests, Return(c, r, m)
    PROVE  /\ request' \in Requests /\ serving' \in Requests
           /\ sync' \in [Clients -> Op \cup {NoOp, GetId}] /\ constructed' \in [Clients -> BOOLEAN]
           /\ outcome' \in [Clients -> [Ports -> SUBSET Results]]
           /\ returned' \in [caller : Clients \X Ports, result : Results] \cup {NoReturn}
<1>1. request' \in Requests /\ serving' \in Requests
  BY RetiredTypes DEF TypeOK, Return
<1>2. sync' \in [Clients -> Op \cup {NoOp, GetId}] /\ constructed' \in [Clients -> BOOLEAN]
  BY DEF TypeOK, Return
<1>3. CASE sync[c] = GetId
  BY <1>1, <1>2, <1>3 DEF TypeOK, Return, Silent
<1>4. CASE sync[c] # GetId
  BY <1>1, <1>2, <1>4, ClosedTypes DEF Return, Ports
<1> QED  BY <1>3, <1>4

LEMMA ResultTypes ==
    ASSUME TypeOK, NEW c \in Clients
    PROVE  SyncResult(c) \in Results /\ AsyncResult(c) \in Results /\ "failed" \in Results /\ "ok" \in Results
<1>1. response.value \in Contents
  BY DEF TypeOK, Responses
<1> QED  BY <1>1 DEF SyncResult, AsyncResult, Results

LEMMA ReceiveSyncTypeOK ==
    ASSUME TypeOK, NEW c \in Clients, ReceiveSync(c)
    PROVE  TypeOK'
<1>1. response_new' \in [Clients -> BOOLEAN] /\ response' \in Responses
  BY CopyTypes DEF ReceiveSync
<1>2. UNCHANGED <<store, clients_count, state, active, status>> /\ request \in Requests
  BY DEF ReceiveSync, TypeOK
<1>3. CASE Accepts(c) /\ Return(c, SyncResult(c), request)
             /\ id' = [id EXCEPT ![c] = IF sync[c] = GetId THEN response.id ELSE @]
  <2>1. id' \in [Clients -> Ids]
    BY <1>3 DEF TypeOK, Responses
  <2> QED  BY <1>1, <1>2, <1>3, <2>1, ReturnTypes, ResultTypes DEF TypeOK
<1>4. CASE Silent /\ UNCHANGED <<serving, request, id, constructed, sync, outcome>>
  BY <1>1, <1>2, <1>4 DEF TypeOK, Silent
<1>5. CASE Return(c, "failed", request) /\ UNCHANGED id
  BY <1>1, <1>2, <1>5, ReturnTypes, ResultTypes DEF TypeOK
<1> QED  BY <1>3, <1>4, <1>5 DEF ReceiveSync

LEMMA RetrySyncTypeOK ==
    ASSUME TypeOK, NEW c \in Clients, RetrySync(c)
    PROVE  TypeOK'
<1>1. sync[c] \in Op \cup {GetId}
  BY DEF TypeOK, RetrySync
<1>2. Message(c, "sync", sync[c]) \in Requests
  BY <1>1, CallTypes DEF Ports
<1>3. UNCHANGED <<store, clients_count, response, response_new, id, state, active, status>>
  BY DEF RetrySync
<1>4. CASE Publish(Message(c, "sync", sync[c])) /\ Silent /\ UNCHANGED <<serving, constructed, sync, outcome>>
  BY <1>2, <1>3, <1>4 DEF TypeOK, Silent, Publish
<1>5. CASE Return(c, "failed", Message(c, "sync", sync[c]))
  BY <1>2, <1>3, <1>5, ReturnTypes, ResultTypes DEF TypeOK
<1> QED  BY <1>4, <1>5 DEF RetrySync

LEMMA LeaveTypes ==
    ASSUME TypeOK, NEW c \in Clients, NEW next \in {"Idle", "ResponseReceived"}, NEW r \in Results,
           Leave(c, next, r)
    PROVE  /\ state' \in [Clients -> {"Idle", "RequestSent", "ResponseReceived"}]
           /\ active' \in [Clients -> Op \cup {NoOp}] /\ status' \in [Clients -> BOOLEAN]
           /\ request' \in Requests /\ serving' \in Requests
           /\ outcome' \in [Clients -> [Ports -> SUBSET Results]]
           /\ returned' \in [caller : Clients \X Ports, result : Results] \cup {NoReturn}
<1>1. request' \in Requests /\ serving' \in Requests
  BY RetiredTypes DEF TypeOK, Leave
<1>2. /\ state' \in [Clients -> {"Idle", "RequestSent", "ResponseReceived"}]
      /\ active' \in [Clients -> Op \cup {NoOp}]
  BY DEF TypeOK, Leave
<1>3. status' \in [Clients -> BOOLEAN]
  BY DEF TypeOK, Leave
<1>4. CASE state[c] = "RequestSent"
  BY <1>1, <1>2, <1>3, <1>4, ClosedTypes DEF Leave, Ports
<1>5. CASE state[c] # "RequestSent"
  BY <1>1, <1>2, <1>3, <1>5 DEF TypeOK, Leave, Silent
<1> QED  BY <1>4, <1>5

LEMMA UpdateTypeOK ==
    ASSUME TypeOK, ActiveReads,
           NEW c \in Clients, NEW received \in {"Idle", "ResponseReceived"}, Update(c, received)
    PROVE  TypeOK'
<1>1. response_new' \in [Clients -> BOOLEAN] /\ response' \in Responses
  BY CopyTypes DEF Update
<1>2. UNCHANGED <<store, clients_count, id, constructed, sync>>
  BY DEF Update
<1>3. CASE Leave(c, received, AsyncResult(c))
  BY <1>1, <1>2, <1>3, LeaveTypes, ResultTypes DEF TypeOK
<1>4. CASE /\ Publish(Message(c, "async", active[c])) \/ UNCHANGED request
           /\ Silent /\ UNCHANGED <<serving, state, active, status, outcome>>
  <2>1. active[c] \in Op
    BY DEF Update, ActiveReads, ReadOps
  <2>2. Message(c, "async", active[c]) \in Requests
    BY <2>1, CallTypes DEF Ports
  <2> QED  BY <1>1, <1>2, <1>4, <2>2 DEF TypeOK, Silent, Publish
<1> QED  BY <1>3, <1>4 DEF Update

LEMMA AbortTypeOK ==
    ASSUME TypeOK, NEW c \in Clients, Abort(c) \/ Complete(c)
    PROVE  TypeOK'
<1>1. Leave(c, "Idle", "failed") \/ Leave(c, "Idle", "ok")
  BY DEF Abort, Complete
<1>2. UNCHANGED <<store, clients_count, response, response_new, id, constructed, sync>>
  BY DEF Abort, Complete
<1> QED  BY <1>1, <1>2, LeaveTypes, ResultTypes DEF TypeOK

LEMMA StepTypeOK ==
    ASSUME TypeOK, ActiveReads, StoreStep
    PROVE  TypeOK' /\ ActiveReads'
<1>1. TypeOK'
  <2>1. ASSUME NEW c \in Clients, ClientStep(c) PROVE TypeOK'
    BY <2>1, ConstructTypeOK, RetrySyncTypeOK, ReceiveSyncTypeOK, CallSyncOpTypeOK, CallAsyncTypeOK,
       UpdateTypeOK, AbortTypeOK DEF ClientStep
  <2> QED  BY <2>1, UnmovedTypeOK, TakeRequestTypeOK, AnswerRequestTypeOK DEF StoreStep
<1>2. ActiveReads'
  <2>1. ASSUME NEW c \in Clients, ClientStep(c) PROVE ActiveReads'
    <3>1. ASSUME NEW op \in ReadOps, CallAsync(c, op) PROVE ActiveReads'
      BY <3>1 DEF CallAsync, ActiveReads, TypeOK
    <3>2. ASSUME NEW next \in {"Idle", "ResponseReceived"}, NEW r, Leave(c, next, r) PROVE ActiveReads'
      BY <3>2 DEF Leave, ActiveReads, TypeOK
    <3>3. ASSUME UNCHANGED <<state, active>> PROVE ActiveReads'
      BY <3>3 DEF ActiveReads
    <3> QED  BY <2>1, <3>1, <3>2, <3>3
             DEF ClientStep, Construct, RetrySync, ReceiveSync, CallSyncOp, Update, Abort, Complete
  <2>2. ASSUME UNCHANGED <<state, active>> PROVE ActiveReads'
    BY <2>2 DEF ActiveReads
  <2> QED  BY <2>1, <2>2 DEF StoreStep, Unmoved, clientVars, TakeRequest, AnswerRequest
<1> QED  BY <1>1, <1>2

-----------------------------------------------------------------------------
(* What a step is for the operations in progress.                           *)

(* The operation of a caller that DatamanStore knows of.                    *)
Calls(c, p) == IF Pending(c, p) = GetId THEN NoOp ELSE Pending(c, p)

BeginStep(c, p, op) ==
    /\ Calls(c, p) = NoOp
    /\ \A d \in Clients, q \in Ports : Calls(d, q)' = IF d = c /\ q = p THEN op ELSE Calls(d, q)
    /\ Opened(c, p, op) /\ Silent /\ UNCHANGED store
EndStep(c, p, r) ==
    /\ Calls(c, p) # NoOp
    /\ \A d \in Clients, q \in Ports : Calls(d, q)' = IF d = c /\ q = p THEN NoOp ELSE Calls(d, q)
    /\ Closed(c, p, r) /\ UNCHANGED store
StillStep ==
    /\ \A c \in Clients, p \in Ports : Calls(c, p)' = Calls(c, p)
    /\ Silent /\ UNCHANGED <<store, outcome>>

(* A read in progress may return what its item holds now, and contents      *)
(* only; a caller without operation has nothing to return.                  *)
OutcomeInv ==
    \A c \in Clients, p \in Ports :
        /\ Calls(c, p).type = "read" =>
                store[Key(Calls(c, p))] \in outcome[c][p] /\ outcome[c][p] \subseteq Contents
        /\ Calls(c, p) = NoOp => outcome[c][p] = {}

LEMMA CallsTypes ==
    ASSUME TypeOK, NEW c \in Clients, NEW p \in Ports
    PROVE  Calls(c, p) \in Op \cup {NoOp}
BY DEF TypeOK, Calls, Pending

LEMMA SameCalls ==
    ASSUME UNCHANGED <<sync, state, active>>
    PROVE  \A c \in Clients, p \in Ports : Calls(c, p)' = Calls(c, p)
BY DEF Calls, Pending

LEMMA ReturnCalls ==
    ASSUME TypeOK, NEW c \in Clients, NEW r, NEW m, sync[c] # NoOp, Return(c, r, m),
           UNCHANGED <<store, state, active>>
    PROVE  IF sync[c] = GetId THEN StillStep ELSE EndStep(c, "sync", r)
<1>1. \A d \in Clients, q \in Ports :
        Calls(d, q)' = IF d = c /\ q = "sync" THEN NoOp ELSE Calls(d, q)
  BY ConstantTypes DEF Calls, Pending, Return, TypeOK, Ports
<1>2. CASE sync[c] = GetId
  <2>1. Calls(c, "sync") = NoOp
    BY <1>2 DEF Calls, Pending
  <2> QED  BY <1>1, <1>2, <2>1 DEF StillStep, Return
<1>3. CASE sync[c] # GetId
  BY <1>1, <1>3 DEF EndStep, Return, Calls, Pending
<1> QED  BY <1>2, <1>3

LEMMA LeaveCalls ==
    ASSUME TypeOK, ActiveReads, NEW c \in Clients, NEW next \in {"Idle", "ResponseReceived"}, NEW r,
           Leave(c, next, r), UNCHANGED <<store, sync>>
    PROVE  IF state[c] = "RequestSent" THEN EndStep(c, "async", r) ELSE StillStep
<1>1. \A d \in Clients, q \in Ports :
        Calls(d, q)' = IF d = c /\ q = "async" THEN NoOp ELSE Calls(d, q)
  BY ConstantTypes DEF Calls, Pending, Leave, TypeOK, Ports
<1>2. CASE state[c] # "RequestSent"
  <2>1. Calls(c, "async") = NoOp
    BY <1>2, ConstantTypes DEF Calls, Pending
  <2> QED  BY <1>1, <1>2, <2>1 DEF StillStep, Leave
<1>3. CASE state[c] = "RequestSent"
  <2>1. Calls(c, "async") # NoOp
    BY <1>3, ConstantTypes DEF Calls, Pending, ActiveReads, ReadOps
  <2> QED  BY <1>1, <1>3, <2>1 DEF EndStep, Leave
<1> QED  BY <1>2, <1>3

LEMMA CallSyncCalls ==
    ASSUME TypeOK, OutcomeInv, NEW c \in Clients, NEW op \in Op \cup {GetId}, CallSync(c, op),
           UNCHANGED <<store, state, active>>
    PROVE  IF op = GetId THEN StillStep ELSE BeginStep(c, "sync", op)
<1>1. \A d \in Clients, q \in Ports :
        Calls(d, q)' = IF d = c /\ q = "sync" THEN (IF op = GetId THEN NoOp ELSE op) ELSE Calls(d, q)
  BY ConstantTypes DEF Calls, Pending, CallSync, TypeOK, Ports
<1>2. Calls(c, "sync") = NoOp
  BY ConstantTypes DEF Calls, Pending, CallSync
<1>3. CASE op = GetId
  <2>1. outcome[c]["sync"] = {}
    BY <1>2 DEF OutcomeInv, Ports
  <2>2. outcome' = [outcome EXCEPT ![c]["sync"] = {}]
    BY <1>3 DEF CallSync, Opened, GetId, OpOf
  <2>3. outcome' = outcome
    BY <2>1, <2>2 DEF TypeOK, Ports
  <2> QED  BY <1>1, <1>2, <1>3, <2>3 DEF StillStep, CallSync
<1>4. CASE op # GetId
  BY <1>1, <1>2, <1>4 DEF BeginStep, CallSync
<1> QED  BY <1>3, <1>4

(* The result of an operation that ends, and why.                           *)
Justified(c, p, r) ==
    \/ r = "failed"
    \/ p = "sync" /\ response_new[c] /\ Accepts(c) /\ r = SyncResult(c)
    \/ p = "async" /\ Answers(c) /\ r = AsyncResult(c)

LEMMA ClientCalls ==
    ASSUME TypeOK, ActiveReads, OutcomeInv, NEW c \in Clients, ClientStep(c)
    PROVE  \/ StillStep
           \/ \E p \in Ports, op \in Op : BeginStep(c, p, op)
           \/ \E p \in Ports, r \in Results : EndStep(c, p, r) /\ Justified(c, p, r)
<1> DEFINE Goal == \/ StillStep
                   \/ \E p \in Ports, op \in Op : BeginStep(c, p, op)
                   \/ \E p \in Ports, r \in Results : EndStep(c, p, r) /\ Justified(c, p, r)
<1>1. CASE Construct(c)
  <2>1. CallSync(c, GetId) /\ UNCHANGED <<store, state, active>>
    BY <1>1 DEF Construct
  <2> QED  BY <2>1, CallSyncCalls
<1>2. ASSUME NEW op \in Op, CallSyncOp(c, op) PROVE Goal
  <2>1. CallSync(c, op) /\ UNCHANGED <<store, state, active>> /\ op # GetId
    BY <1>2, ConstantTypes DEF CallSyncOp
  <2>2. BeginStep(c, "sync", op)
    BY <2>1, CallSyncCalls
  <2> QED  BY <2>2 DEF Ports
<1>3. ASSUME NEW op \in ReadOps, CallAsync(c, op) PROVE Goal
  <2>0. op \in Op /\ op # GetId
    BY ConstantTypes DEF ReadOps
  <2>1. \A d \in Clients, q \in Ports :
          Calls(d, q)' = IF d = c /\ q = "async" THEN op ELSE Calls(d, q)
    BY <1>3, <2>0, ConstantTypes DEF Calls, Pending, CallAsync, TypeOK, Ports
  <2>2. Calls(c, "async") = NoOp
    BY <1>3, ConstantTypes DEF Calls, Pending, CallAsync
  <2>3. BeginStep(c, "async", op)
    BY <1>3, <2>1, <2>2 DEF BeginStep, CallAsync
  <2> QED  BY <2>0, <2>3 DEF Ports
<1>4. CASE RetrySync(c)
  <2>1. UNCHANGED <<store, state, active>> /\ sync[c] # NoOp
    BY <1>4 DEF RetrySync
  <2>2. CASE Silent /\ UNCHANGED <<serving, constructed, sync, outcome>>
    BY <2>1, <2>2, SameCalls DEF StillStep
  <2>3. CASE Return(c, "failed", Message(c, "sync", sync[c]))
    BY <2>1, <2>3, ReturnCalls, ResultTypes DEF Ports, Justified
  <2> QED  BY <1>4, <2>2, <2>3 DEF RetrySync
<1>5. CASE ReceiveSync(c)
  <2>1. UNCHANGED <<store, state, active>> /\ sync[c] # NoOp /\ response_new[c]
    BY <1>5 DEF ReceiveSync
  <2>2. CASE Silent /\ UNCHANGED <<serving, request, id, constructed, sync, outcome>>
    BY <2>1, <2>2, SameCalls DEF StillStep
  <2>3. CASE Return(c, "failed", request)
    BY <2>1, <2>3, ReturnCalls, ResultTypes DEF Ports, Justified
  <2>4. CASE Accepts(c) /\ Return(c, SyncResult(c), request)
    BY <2>1, <2>4, ReturnCalls, ResultTypes DEF Ports, Justified
  <2> QED  BY <1>5, <2>2, <2>3, <2>4 DEF ReceiveSync
<1>6. ASSUME NEW received \in {"Idle", "ResponseReceived"}, Update(c, received) PROVE Goal
  <2>1. UNCHANGED <<store, sync>> /\ state[c] = "RequestSent"
    BY <1>6 DEF Update
  <2>2. CASE Silent /\ UNCHANGED <<serving, state, active, status, outcome>>
    BY <2>1, <2>2, SameCalls DEF StillStep
  <2>3. CASE Answers(c) /\ Leave(c, received, AsyncResult(c))
    BY <2>1, <2>3, LeaveCalls, ResultTypes DEF Ports, Justified
  <2> QED  BY <1>6, <2>2, <2>3 DEF Update
<1>7. CASE Abort(c)
  <2>1. UNCHANGED <<store, sync>> /\ Leave(c, "Idle", "failed")
    BY <1>7 DEF Abort
  <2> QED  BY <2>1, LeaveCalls, ResultTypes DEF Ports, Justified
<1>8. CASE Complete(c)
  <2>1. UNCHANGED <<store, sync>> /\ Leave(c, "Idle", "ok") /\ state[c] # "RequestSent"
    BY <1>8 DEF Complete
  <2> QED  BY <2>1, LeaveCalls
<1> QED  BY <1>1, <1>2, <1>3, <1>4, <1>5, <1>6, <1>7, <1>8 DEF ClientStep

LEMMA QuietCalls ==
    ASSUME Unmoved \/ TakeRequest
    PROVE  StillStep
<1>1. UNCHANGED <<sync, state, active, store, outcome>> /\ Silent
  BY DEF Unmoved, TakeRequest, clientVars
<1> QED  BY <1>1, SameCalls DEF StillStep

-----------------------------------------------------------------------------
(* Messages and outcomes.                                                   *)

(* A request belongs to the operation its port names.                       *)
Belongs(m, syncs, states, actives) ==
    m # NoMessage =>
        /\ m.port = "sync" => syncs[m.from] = m.op
        /\ m.port = "async" => states[m.from] = "RequestSent" /\ actives[m.from] = m.op
PortInv == Belongs(request, sync, state, active) /\ Belongs(serving, sync, state, active)

(* The value of a read is the one the item still has: whatever changes the  *)
(* item also replaces the response.  An id comes with a status of failure.  *)
ResponseInv ==
    /\ response.op.type = "read" /\ response.ok => response.value = store[Key(response.op)]
    /\ response.stamp # "none" => ~response.ok

LEMMA CopyResponseInv ==
    ASSUME TypeOK, ResponseInv, NEW c \in Clients, Copy(c) \/ UNCHANGED response, UNCHANGED store
    PROVE  ResponseInv'
BY SMTT(30) DEF ResponseInv, Copy, NoResponse, NoOp, OpOf

LEMMA ClientResponseInv ==
    ASSUME TypeOK, ResponseInv, NEW c \in Clients, ClientStep(c)
    PROVE  ResponseInv'
<1>1. (Copy(c) \/ UNCHANGED response) /\ UNCHANGED store
  BY DEF ClientStep, Construct, RetrySync, ReceiveSync, CallSyncOp, CallAsync, Update, Abort, Complete
<1> QED  BY <1>1, CopyResponseInv

(* The effect of the request that is answered.                              *)
Answered(e) ==
    LET op == serving.op
        granted == op = GetId /\ clients_count < MaxId
    IN  /\ store' = e.store
        /\ clients_count' = IF granted THEN clients_count + 1 ELSE clients_count
        /\ response' = [stamp |-> IF granted THEN serving.from ELSE "none",
                        id |-> IF granted THEN clients_count ELSE serving.id,
                        op |-> [op EXCEPT !.value = Empty],
                        ok |-> e.ok, value |-> ValueRead(op, e)]
        /\ outcome' = Outcomes(e)

LEMMA AnswerFacts ==
    ASSUME TypeOK, AnswerRequest
    PROVE  /\ serving.op \in Op \cup {GetId} /\ serving.from \in Clients /\ serving.id \in Ids
           /\ serving.port \in Ports \cup {"old"}
           /\ serving' = NoMessage /\ response_new' = [c \in Clients |-> TRUE] /\ Silent
           /\ UNCHANGED <<request, id, constructed, sync, state, active, status>>
           /\ \E e \in Effects(serving.op) \cup Failures(serving.op) :
                /\ Answered(e)
                /\ e.ok \in BOOLEAN /\ e.store \in [Keys -> Contents]
<1>1. serving \in Requests /\ serving # NoMessage
  BY DEF TypeOK, AnswerRequest
<1>2. /\ serving.op \in Op \cup {GetId} /\ serving.from \in Clients /\ serving.id \in Ids
      /\ serving.port \in Ports \cup {"old"}
  BY <1>1, ConstantTypes
<1>3. PICK e \in Effects(serving.op) \cup Failures(serving.op) : Answered(e)
  BY DEF AnswerRequest, Answered
<1>4. e.ok \in BOOLEAN /\ e.store \in [Keys -> Contents]
  BY <1>2, EffectsTyped
<1>5. /\ serving' = NoMessage /\ response_new' = [c \in Clients |-> TRUE] /\ Silent
      /\ UNCHANGED <<request, id, constructed, sync, state, active, status>>
  BY DEF AnswerRequest
<1> QED  BY <1>2, <1>3, <1>4, <1>5

(* Reads and requests for an id leave the store alone; the latter fail.     *)
LEMMA EffectCases ==
    ASSUME NEW op \in Op \cup {GetId}, NEW e \in Effects(op) \cup Failures(op)
    PROVE  /\ op.type \in {"read", "get_id"} => e.store = store
           /\ op.type = "get_id" => ~e.ok
           /\ op.type = "write" => e.store \in {store, [store EXCEPT ![Key(op)] = op.value]}
           /\ op.type = "write" /\ e.ok => e.store = [store EXCEPT ![Key(op)] = op.value]
           /\ op.type = "clear" => \E s \in SUBSET Indices : e.store = Cleared(op.item, s)
           /\ op.type = "clear" /\ e.ok => e.store = Cleared(op.item, Indices)
<1>1. CASE e \in Failures(op)
  <2>1. PICK s \in IF op.type = "clear" THEN {Cleared(op.item, i) : i \in SUBSET Indices} ELSE {store} :
          e = [ok |-> FALSE, store |-> s]
    BY <1>1 DEF Failures
  <2>2. ~e.ok /\ e.store = s
    BY <2>1
  <2> QED  BY <2>1, <2>2
<1>2. CASE e \in Effects(op)
  <2>1. CASE op.type = "write"
    <3>1. Effects(op) = {[ok |-> TRUE, store |-> [store EXCEPT ![Key(op)] = op.value]]}
      BY <2>1 DEF Effects
    <3>2. e = [ok |-> TRUE, store |-> [store EXCEPT ![Key(op)] = op.value]]
      BY <1>2, <3>1
    <3> QED  BY <2>1, <3>2
  <2>2. CASE op.type = "clear"
    <3>1. Effects(op) = {[ok |-> TRUE, store |-> Cleared(op.item, Indices)]}
      BY <2>2 DEF Effects
    <3>2. e = [ok |-> TRUE, store |-> Cleared(op.item, Indices)]
      BY <1>2, <3>1
    <3> QED  BY <2>2, <3>2
  <2>3. CASE op.type = "read"
    <3>1. Effects(op) = {[ok |-> TRUE, store |-> store]}
      BY <2>3 DEF Effects
    <3>2. e = [ok |-> TRUE, store |-> store]
      BY <1>2, <3>1
    <3> QED  BY <2>3, <3>2
  <2>4. CASE op.type = "get_id"
    <3>1. Effects(op) = {[ok |-> FALSE, store |-> store]}
      BY <2>4 DEF Effects
    <3>2. e = [ok |-> FALSE, store |-> store]
      BY <1>2, <3>1
    <3> QED  BY <2>4, <3>2
  <2> QED  BY <2>1, <2>2, <2>3, <2>4 DEF Op, GetId, OpOf
<1> QED  BY <1>1, <1>2

LEMMA AnswerResponseInv ==
    ASSUME TypeOK, AnswerRequest
    PROVE  ResponseInv'
<1>1. PICK e \in Effects(serving.op) \cup Failures(serving.op) : Answered(e)
  BY AnswerFacts
<1>2. serving.op \in Op \cup {GetId}
  BY AnswerFacts
<1>3. Key([serving.op EXCEPT !.value = Empty]) = Key(serving.op) /\ [serving.op EXCEPT !.value = Empty].type = serving.op.type
  BY <1>2 DEF Key, Op, GetId, OpOf
<1>4. serving.op = GetId => ~e.ok
  <2>1. serving.op.type = "get_id" => ~e.ok
    BY <1>1, <1>2, EffectCases
  <2> QED  BY <2>1, SMTT(30) DEF GetId, OpOf
<1>5. /\ response'.op = [serving.op EXCEPT !.value = Empty] /\ response'.ok = e.ok
      /\ response'.value = ValueRead(serving.op, e) /\ store' = e.store
      /\ response'.stamp # "none" => serving.op = GetId
  BY <1>1 DEF Answered
<1> QED  BY <1>3, <1>4, <1>5 DEF ResponseInv, ValueRead

LEMMA AnswerOutcomeInv ==
    ASSUME TypeOK, PortInv, OutcomeInv, AnswerRequest
    PROVE  OutcomeInv'
<1>1. PICK e \in Effects(serving.op) \cup Failures(serving.op) :
        Answered(e) /\ e.ok \in BOOLEAN /\ e.store \in [Keys -> Contents]
  BY AnswerFacts
<1> SUFFICES ASSUME NEW c \in Clients, NEW p \in Ports
             PROVE  /\ Calls(c, p)'.type = "read" => /\ store'[Key(Calls(c, p)')] \in outcome'[c][p]
                                                     /\ outcome'[c][p] \subseteq Contents
                    /\ Calls(c, p)' = NoOp => outcome'[c][p] = {}
  BY DEF OutcomeInv
<1>2. Calls(c, p)' = Calls(c, p)
  <2>1. UNCHANGED <<sync, state, active>>
    BY AnswerFacts
  <2> QED  BY <2>1, SameCalls
<1>3. outcome'[c][p] = outcome[c][p]
            \cup (IF Pending(c, p).type = "read" THEN {e.store[Key(Pending(c, p))]} ELSE {})
            \cup (IF serving.from = c /\ serving.port = p /\ serving.op.type # "read" /\ e.ok
                  THEN {"ok"} ELSE {})
  BY <1>1 DEF Answered, Outcomes
<1>4. Calls(c, p).type = "read" => Pending(c, p) = Calls(c, p)
  BY DEF Calls, NoOp, OpOf
<1>5. ASSUME Calls(c, p) = NoOp PROVE outcome'[c][p] = {}
  <2>1. Pending(c, p) \in {NoOp, GetId}
    BY <1>5 DEF Calls
  <2>2. Pending(c, p).type # "read"
    BY <2>1, SMTT(30) DEF NoOp, GetId, OpOf
  <2>3. outcome[c][p] = {}
    BY <1>5 DEF OutcomeInv
  <2>4. ASSUME serving.from = c, serving.port = p, serving.op.type # "read", e.ok PROVE FALSE
    <3>1. serving.op = Pending(c, p)
      BY <2>4 DEF PortInv, Belongs, Pending, Ports, AnswerRequest
    <3>2. serving.op = GetId
      BY <2>1, <3>1, AnswerFacts, ConstantTypes
    <3>3. serving.op.type = "get_id" => ~e.ok
      BY <1>1, AnswerFacts, EffectCases
    <3>4. GetId.type = "get_id"
      BY DEF GetId, OpOf
    <3> QED  BY <2>4, <3>2, <3>3, <3>4
  <2> QED  BY <1>3, <2>2, <2>3, <2>4
<1>6. ASSUME Calls(c, p).type = "read"
      PROVE  store'[Key(Calls(c, p))] \in outcome'[c][p] /\ outcome'[c][p] \subseteq Contents
  <2>1. Pending(c, p) = Calls(c, p) /\ store' = e.store
    BY <1>1, <1>4, <1>6 DEF Answered
  <2>2. ~(serving.from = c /\ serving.port = p /\ serving.op.type # "read")
    BY <1>6, <2>1 DEF PortInv, Belongs, Pending, Ports, AnswerRequest
  <2>3. Calls(c, p) \in Op
    BY <1>6, CallsTypes, SMTT(30) DEF NoOp, OpOf
  <2>4. e.store[Key(Calls(c, p))] \in Contents
    BY <1>1, <2>3 DEF Op, Key, Keys
  <2>5. outcome'[c][p] = outcome[c][p] \cup {e.store[Key(Calls(c, p))]} \cup {}
    BY <1>3, <1>6, <2>1, <2>2
  <2>6. outcome[c][p] \subseteq Contents
    BY <1>6 DEF OutcomeInv
  <2> QED  BY <2>1, <2>4, <2>5, <2>6
<1> QED  BY <1>2, <1>5, <1>6

LEMMA KeptOutcomeInv ==
    ASSUME OutcomeInv, store' = store, outcome' = outcome,
           \A c \in Clients, p \in Ports : Calls(c, p)' = Calls(c, p)
    PROVE  OutcomeInv'
<1> SUFFICES ASSUME NEW d \in Clients, NEW q \in Ports
             PROVE  /\ Calls(d, q)'.type = "read" => /\ store'[Key(Calls(d, q)')] \in outcome'[d][q]
                                                      /\ outcome'[d][q] \subseteq Contents
                    /\ Calls(d, q)' = NoOp => outcome'[d][q] = {}
  BY DEF OutcomeInv
<1>1. Calls(d, q)' = Calls(d, q)
  OBVIOUS
<1>2. /\ Calls(d, q).type = "read" => store[Key(Calls(d, q))] \in outcome[d][q] /\ outcome[d][q] \subseteq Contents
      /\ Calls(d, q) = NoOp => outcome[d][q] = {}
  BY DEF OutcomeInv
<1> QED  BY <1>1, <1>2

LEMMA ClientOutcomeInv ==
    ASSUME TypeOK, OutcomeInv,
           \/ StillStep
           \/ \E c \in Clients, p \in Ports, op \in Op : BeginStep(c, p, op)
           \/ \E c \in Clients, p \in Ports, r \in Results : EndStep(c, p, r)
    PROVE  OutcomeInv'
<1>1. CASE StillStep
  <2>1. /\ store' = store /\ outcome' = outcome
        /\ \A c \in Clients, p \in Ports : Calls(c, p)' = Calls(c, p)
    BY <1>1 DEF StillStep
  <2> QED  BY <2>1, KeptOutcomeInv
<1>2. ASSUME NEW c \in Clients, NEW p \in Ports, NEW op \in Op, BeginStep(c, p, op)
      PROVE  OutcomeInv'
  <2> SUFFICES ASSUME NEW d \in Clients, NEW q \in Ports
               PROVE  /\ Calls(d, q)'.type = "read" => /\ store'[Key(Calls(d, q)')] \in outcome'[d][q]
                                                        /\ outcome'[d][q] \subseteq Contents
                      /\ Calls(d, q)' = NoOp => outcome'[d][q] = {}
    BY DEF OutcomeInv
  <2>1. store' = store /\ Calls(d, q)' = IF d = c /\ q = p THEN op ELSE Calls(d, q)
    BY <1>2 DEF BeginStep
  <2>2. outcome'[d][q] = IF d = c /\ q = p THEN (IF op.type = "read" THEN {store[Key(op)]} ELSE {})
                         ELSE outcome[d][q]
    BY <1>2 DEF BeginStep, Opened, TypeOK
  <2>3. CASE d = c /\ q = p
    <3>1. store[Key(op)] \in Contents
      BY DEF TypeOK, Op, Key, Keys
    <3> QED  BY <2>1, <2>2, <2>3, <3>1, ConstantTypes
  <2>4. CASE ~(d = c /\ q = p)
    BY <2>1, <2>2, <2>4 DEF OutcomeInv
  <2> QED  BY <2>3, <2>4
<1>3. ASSUME NEW c \in Clients, NEW p \in Ports, NEW r \in Results, EndStep(c, p, r)
      PROVE  OutcomeInv'
  <2> SUFFICES ASSUME NEW d \in Clients, NEW q \in Ports
               PROVE  /\ Calls(d, q)'.type = "read" => /\ store'[Key(Calls(d, q)')] \in outcome'[d][q]
                                                        /\ outcome'[d][q] \subseteq Contents
                      /\ Calls(d, q)' = NoOp => outcome'[d][q] = {}
    BY DEF OutcomeInv
  <2>1. store' = store /\ Calls(d, q)' = IF d = c /\ q = p THEN NoOp ELSE Calls(d, q)
    BY <1>3 DEF EndStep
  <2>2. outcome'[d][q] = IF d = c /\ q = p THEN {} ELSE outcome[d][q]
    BY <1>3 DEF EndStep, Closed, TypeOK
  <2>3. CASE d = c /\ q = p
    <3>1. NoOp.type # "read"
      BY DEF NoOp, OpOf
    <3> QED  BY <2>1, <2>2, <2>3, <3>1
  <2>4. CASE ~(d = c /\ q = p)
    BY <2>1, <2>2, <2>4 DEF OutcomeInv
  <2> QED  BY <2>3, <2>4
<1> QED  BY <1>1, <1>2, <1>3

(* A port is retired when its operation ends, so what is left belongs.      *)
LEMMA RetiredBelongs ==
    ASSUME NEW m \in Requests, NEW c \in Clients, NEW p \in Ports,
           NEW sy, NEW st, NEW ac, NEW sy1, NEW st1, NEW ac1,
           Belongs(m, sy, st, ac),
           p = "sync" => (\A d \in Clients \ {c} : sy1[d] = sy[d]) /\ st1 = st /\ ac1 = ac,
           p = "async" => sy1 = sy /\ \A d \in Clients \ {c} : st1[d] = st[d] /\ ac1[d] = ac[d]
    PROVE  Belongs(Retired(m, c, p), sy1, st1, ac1)
<1>1. CASE m = NoMessage
  BY <1>1, ConstantTypes DEF Retired, Belongs, NoMessage
<1>2. CASE m # NoMessage /\ m.from = c /\ m.port = p
  <2>1. Retired(m, c, p).port = "old"
    BY <1>2 DEF Retired, Requests
  <2> QED  BY <2>1 DEF Belongs
<1>3. CASE m # NoMessage /\ ~(m.from = c /\ m.port = p)
  <2>1. Retired(m, c, p) = m /\ m.from \in Clients
    BY <1>3, ConstantTypes DEF Retired
  <2> QED  BY <1>3, <2>1 DEF Belongs, Ports
<1> QED  BY <1>1, <1>2, <1>3

LEMMA MessageBelongs ==
    ASSUME NEW c \in Clients, NEW op, NEW sy, NEW st, NEW ac, NEW p \in Ports,
           p = "sync" => sy[c] = op, p = "async" => st[c] = "RequestSent" /\ ac[c] = op
    PROVE  Belongs(Message(c, p, op), sy, st, ac)
BY DEF Belongs, Message

LEMMA ClientPortInv ==
    ASSUME TypeOK, PortInv, NEW c \in Clients, ClientStep(c)
    PROVE  PortInv'
<1> USE DEF PortInv
<1>0. request \in Requests /\ serving \in Requests
  BY DEF TypeOK
<1>1. ASSUME NEW op \in Op \cup {GetId}, CallSync(c, op), UNCHANGED <<serving, state, active>>
      PROVE  PortInv'
  <2>1. sync[c] = NoOp /\ request' = Message(c, "sync", op)
    BY <1>1 DEF CallSync, Publish
  <2>2. sync' = [sync EXCEPT ![c] = op]
    BY <1>1 DEF CallSync
  <2>3. Belongs(Message(c, "sync", op), sync', state', active')
    BY <2>2, MessageBelongs DEF TypeOK, Ports
  <2>4. Belongs(serving, sync', state', active')
    BY <1>0, <1>1, <2>1, <2>2, ConstantTypes DEF Belongs, TypeOK
  <2> QED  BY <1>1, <2>1, <2>3, <2>4
<1>2. ASSUME NEW op \in Op, CallAsync(c, op) PROVE PortInv'
  <2>1. request' = Message(c, "async", op) /\ UNCHANGED <<serving, sync>> /\ state[c] = "Idle"
    BY <1>2 DEF CallAsync, Publish
  <2>2. state' = [state EXCEPT ![c] = "RequestSent"] /\ active' = [active EXCEPT ![c] = op]
    BY <1>2 DEF CallAsync
  <2>3. Belongs(Message(c, "async", op), sync', state', active')
    BY <2>2, MessageBelongs DEF TypeOK, Ports
  <2>4. Belongs(serving, sync', state', active')
    BY <1>0, <2>1, <2>2, ConstantTypes DEF Belongs, TypeOK
  <2> QED  BY <2>1, <2>3, <2>4
<1>3. ASSUME NEW r, NEW m \in Requests, Belongs(m, sync, state, active), Return(c, r, m),
             UNCHANGED <<state, active>>
      PROVE  PortInv'
  <2>1. request' = Retired(m, c, "sync") /\ serving' = Retired(serving, c, "sync")
    BY <1>3 DEF Return
  <2>2. \A d \in Clients \ {c} : sync'[d] = sync[d]
    BY <1>3 DEF Return, TypeOK
  <2>3. Belongs(Retired(m, c, "sync"), sync', state', active')
    BY <1>3, <2>2, RetiredBelongs DEF Ports
  <2>4. Belongs(Retired(serving, c, "sync"), sync', state', active')
    BY <1>0, <1>3, <2>2, RetiredBelongs DEF Ports
  <2> QED  BY <2>1, <2>3, <2>4
<1>4. ASSUME NEW next, NEW r, Leave(c, next, r), UNCHANGED sync PROVE PortInv'
  <2>1. request' = Retired(request, c, "async") /\ serving' = Retired(serving, c, "async")
    BY <1>4 DEF Leave
  <2>2. \A d \in Clients \ {c} : state'[d] = state[d] /\ active'[d] = active[d]
    BY <1>4 DEF Leave, TypeOK
  <2>3. Belongs(Retired(request, c, "async"), sync', state', active')
    BY <1>0, <1>4, <2>2, RetiredBelongs DEF Ports
  <2>4. Belongs(Retired(serving, c, "async"), sync', state', active')
    BY <1>0, <1>4, <2>2, RetiredBelongs DEF Ports
  <2> QED  BY <2>1, <2>3, <2>4
<1>5. Belongs(Message(c, "sync", sync[c]), sync, state, active)
  BY MessageBelongs DEF Ports
<1>6. sync[c] # NoOp => Message(c, "sync", sync[c]) \in Requests
  BY CallTypes DEF Ports, TypeOK
<1>7. CASE UNCHANGED <<request, serving, sync, state, active>>
  BY <1>7
<1>8. CASE Construct(c)
  BY <1>1, <1>8 DEF Construct
<1>9. ASSUME NEW op \in Op, CallSyncOp(c, op) PROVE PortInv'
  BY <1>1, <1>9 DEF CallSyncOp
<1>10. CASE RetrySync(c)
  <2>1. CASE Publish(Message(c, "sync", sync[c])) /\ UNCHANGED <<serving, sync, state, active>>
    BY <1>5, <2>1 DEF Publish
  <2>2. CASE Return(c, "failed", Message(c, "sync", sync[c])) /\ sync[c] # NoOp /\ UNCHANGED <<state, active>>
    BY <1>3, <1>5, <1>6, <2>2
  <2> QED  BY <1>10, <2>1, <2>2 DEF RetrySync
<1>11. CASE ReceiveSync(c)
  <2>1. UNCHANGED <<state, active>>
    BY <1>11 DEF ReceiveSync
  <2>2. ASSUME NEW r, Return(c, r, request) PROVE PortInv'
    BY <1>0, <1>3, <2>1, <2>2
  <2> QED  BY <1>7, <1>11, <2>1, <2>2 DEF ReceiveSync
<1>12. ASSUME NEW received, Update(c, received) PROVE PortInv'
  <2>1. UNCHANGED sync /\ state[c] = "RequestSent"
    BY <1>12 DEF Update
  <2>2. CASE Publish(Message(c, "async", active[c])) /\ UNCHANGED <<serving, state, active>>
    <3>1. Belongs(Message(c, "async", active[c]), sync, state, active)
      BY <2>1, MessageBelongs DEF Ports
    <3> QED  BY <2>1, <2>2, <3>1 DEF Publish
  <2> QED  BY <1>4, <1>7, <1>12, <2>1, <2>2 DEF Update
<1>13. CASE Abort(c) \/ Complete(c)
  BY <1>4, <1>13 DEF Abort, Complete
<1> QED  BY <1>2, <1>8, <1>9, <1>10, <1>11, <1>12, <1>13 DEF ClientStep, ReadOps

-----------------------------------------------------------------------------
(* Ids, and the requests that change the store, when the server is prompt.  *)

Asks(m) == IF m.op = GetId THEN 1 ELSE 0

(* A request for an id comes from a constructor, which may have returned    *)
(* since; any other carries the id of its client.                           *)
Sent(m, ids, built, syncs) ==
    m # NoMessage =>
        IF m.op = GetId THEN built[m.from] \/ syncs[m.from] = GetId
        ELSE built[m.from] /\ m.id = ids[m.from]

(* Ids are unique and below the counter; an id that is on its way to a      *)
(* client is nobody else's; there are ids for all requests on their way.    *)
IdsInv ==
    /\ \A c \in Clients :
        /\ id[c] < clients_count
        /\ constructed[c] <=> id[c] # NotSet
        /\ IF constructed[c] THEN sync[c] # GetId ELSE sync[c] \in {NoOp, GetId} /\ state[c] = "Idle"
    /\ \A c, d \in Clients : c # d /\ id[c] = id[d] => id[c] = NotSet
SentInv == Sent(request, id, constructed, sync) /\ Sent(serving, id, constructed, sync)
GrantInv ==
    /\ response.stamp # "none" =>
        /\ response.id # NotSet /\ response.id < clients_count
        /\ \A d \in Clients : id[d] = response.id => d = response.stamp
    /\ response.op.type = "get_id" <=> response.stamp # "none"
    /\ response.id = NotSet => response.op = NoOp
CountInv == clients_count + Asks(request) + Asks(serving) <= MaxId
IdInv == IdsInv /\ SentInv /\ GrantInv /\ CountInv

Changes == {"write", "clear"}
Requested(c) == request # NoMessage /\ request.from = c /\ request.op.type \in Changes
Served(c) == serving # NoMessage /\ serving.from = c /\ serving.op.type \in Changes
Responded(c) == response_new[c] /\ response.id = id[c] /\ response.op.type \in Changes

(* A change is requested, served or answered, one at a time, and only while *)
(* the operation is in progress.                                            *)
WireOf(c) ==
    /\ Requested(c) => request.port = "sync" /\ ~Served(c) /\ ~Responded(c)
    /\ Served(c) => serving.port = "sync" /\ ~Responded(c)
    /\ Responded(c) => /\ response.op = [sync[c] EXCEPT !.value = Empty]
                       /\ response.ok => "ok" \in outcome[c]["sync"]
WireInv == \A c \in Clients : WireOf(c)

LEMMA SomeClients ==
    /\ Cardinality(Clients) \in Nat
    /\ \A c \in Clients : Cardinality(Clients) >= 1
    /\ \A c, d \in Clients : c # d => Cardinality(Clients) >= 2
<1>1. IsFiniteSet(Clients) /\ Cardinality(Clients) \in Nat
  BY ClientsAssumption, FS_CardinalityType
<1>2. ASSUME NEW c \in Clients
      PROVE  /\ IsFiniteSet(Clients \ {c}) /\ Cardinality(Clients \ {c}) = Cardinality(Clients) - 1
             /\ Cardinality(Clients \ {c}) \in Nat
  BY <1>1, FS_RemoveElement, FS_CardinalityType
<1>3. ASSUME NEW c \in Clients, NEW d \in Clients, c # d PROVE Cardinality(Clients) >= 2
  <2>1. d \in Clients \ {c}
    BY <1>3
  <2>2. /\ Cardinality((Clients \ {c}) \ {d}) = Cardinality(Clients \ {c}) - 1
        /\ IsFiniteSet((Clients \ {c}) \ {d})
    BY <1>2, <2>1, FS_RemoveElement
  <2>3. Cardinality((Clients \ {c}) \ {d}) \in Nat
    BY <2>2, FS_CardinalityType
  <2> QED  BY <1>1, <1>2, <2>2, <2>3, SMTT(30)
<1>4. ASSUME NEW c \in Clients PROVE Cardinality(Clients) >= 1
  <2>1. Cardinality(Clients \ {c}) = Cardinality(Clients) - 1 /\ Cardinality(Clients \ {c}) \in Nat
    BY <1>2
  <2> QED  BY <1>1, <2>1, SMTT(30)
<1> QED  BY <1>1, <1>3, <1>4

LEMMA AskTypes ==
    /\ \A m : Asks(m) \in 0 .. 1
    /\ Asks(NoMessage) = 0
    /\ \A m, c, p : m \in Requests => Asks(Retired(m, c, p)) = Asks(m)
    /\ \A c, p, op : Asks(Message(c, p, op)) = IF op = GetId THEN 1 ELSE 0
<1>1. NoMessage.op # GetId
  BY ConstantTypes DEF NoMessage
<1>2. ASSUME NEW m \in Requests, NEW c, NEW p PROVE Retired(m, c, p).op = m.op
  BY DEF Retired, Requests, NoMessage
<1> QED  BY <1>1, <1>2, SMTT(30) DEF Asks, Message

LEMMA InitIdInv ==
    ASSUME Init
    PROVE  IdInv
<1>1. IdsInv
  <2>1. clients_count \in Nat
    BY ClientsAssumption, FS_Subset, FS_CardinalityType, SMTT(30) DEF Init
  <2>2. \A c \in Clients : id[c] \in 0 .. clients_count - 1
    BY DEF Init
  <2>3. \A c \in Clients : id[c] < clients_count
    BY <2>1, <2>2, SMTT(30)
  <2>4. \A c \in Clients : constructed[c] <=> id[c] # NotSet
    BY DEF Init
  <2>5. \A c \in Clients :
          IF constructed[c] THEN sync[c] # GetId ELSE sync[c] \in {NoOp, GetId} /\ state[c] = "Idle"
    BY ConstantTypes DEF Init
  <2>6. \A c, d \in Clients : c # d /\ id[c] = id[d] => id[c] = NotSet
    BY DEF Init
  <2> QED  BY <2>3, <2>4, <2>5, <2>6 DEF IdsInv
<1>2. SentInv
  BY DEF Init, SentInv, Sent
<1>3. GrantInv
  BY DEF Init, GrantInv, NoResponse, NoOp, OpOf
<1>4. IsFiniteSet(Clients \ Late) /\ Cardinality(Clients \ Late) \in Nat
  BY ClientsAssumption, FS_Subset, FS_CardinalityType
<1>5. CountInv
  BY <1>4, AskTypes, ClientsAssumption, SMTT(30) DEF Init, CountInv
<1> QED  BY <1>1, <1>2, <1>3, <1>5 DEF IdInv

LEMMA AnswerIdInv ==
    ASSUME TypeOK, IdInv, AnswerRequest
    PROVE  IdInv'
<1> USE DEF IdInv
<1>1. PICK e \in Effects(serving.op) \cup Failures(serving.op) : Answered(e)
  BY AnswerFacts
<1> DEFINE granted == serving.op = GetId /\ clients_count < MaxId
<1>2. /\ clients_count' = IF granted THEN clients_count + 1 ELSE clients_count
      /\ response'.stamp = IF granted THEN serving.from ELSE "none"
      /\ response'.id = IF granted THEN clients_count ELSE serving.id
      /\ response'.op = [serving.op EXCEPT !.value = Empty]
  BY <1>1 DEF Answered
<1>3. /\ serving.op \in Op \cup {GetId} /\ serving.from \in Clients /\ serving.id \in Ids
      /\ serving # NoMessage /\ serving' = NoMessage /\ UNCHANGED <<request, id, constructed, sync, state>>
  BY AnswerFacts DEF AnswerRequest
<1>4. clients_count \in 1 .. MaxId /\ MaxId \in Nat /\ id \in [Clients -> Ids]
  BY ClientsAssumption DEF TypeOK
<1>5. serving.op = GetId <=> granted
  BY <1>4, AskTypes, SMTT(30) DEF CountInv, Asks
<1>6. IdsInv'
  BY <1>2, <1>3, <1>4, SMTT(30) DEF IdsInv, Ids
<1>7. SentInv'
  BY <1>3 DEF SentInv, Sent
<1>8. CountInv'
  BY <1>2, <1>3, <1>4, <1>5, AskTypes, SMTT(30) DEF CountInv, Asks
<1>9. GrantInv'
  <2>1. CASE granted
    <3>1. response'.stamp # "none" /\ response'.id = clients_count /\ clients_count' = clients_count + 1
      BY <1>2, <1>3, <2>1, ClientsAssumption
    <3>2. \A d \in Clients : id[d] # clients_count
      BY <1>4, SMTT(30) DEF IdsInv, Ids, NotSet
    <3>3. response'.op.type = "get_id"
      BY <1>2, <1>5, <2>1, SMTT(30) DEF GetId, OpOf
    <3> QED  BY <1>3, <1>4, <3>1, <3>2, <3>3, SMTT(30) DEF GrantInv, NotSet
  <2>2. CASE ~granted
    <3>1. serving.op \in Op /\ serving.id = id[serving.from] /\ constructed[serving.from]
      BY <1>3, <1>5, <2>2 DEF SentInv, Sent
    <3>2. serving.id # NotSet
      BY <1>3, <3>1 DEF IdsInv
    <3>3. response'.op.type # "get_id"
      BY <1>2, <3>1 DEF Op
    <3> QED  BY <1>2, <2>2, <3>2, <3>3 DEF GrantInv
  <2> QED  BY <2>1, <2>2
<1> QED  BY <1>6, <1>7, <1>8, <1>9

(* A response stays as it is, or is dropped once everybody has copied it.   *)
LEMMA CopyGrantInv ==
    ASSUME TypeOK, GrantInv, NEW c \in Clients, Copy(c) \/ UNCHANGED response,
           UNCHANGED clients_count,
           \A d \in Clients : id'[d] = id[d] \/ (d = response.stamp)
    PROVE  GrantInv'
<1>1. CASE response' = NoResponse
  BY <1>1 DEF GrantInv, NoResponse, NoOp, OpOf
<1>2. CASE response' = response
  BY <1>2 DEF GrantInv
<1> QED  BY <1>1, <1>2 DEF Copy

LEMMA SentLeft ==
    ASSUME NEW m \in Requests, NEW c, NEW p, NEW ids, NEW built, NEW syncs, Sent(m, ids, built, syncs)
    PROVE  Sent(Retired(m, c, p), ids, built, syncs)
<1>1. CASE m = NoMessage
  BY <1>1, ConstantTypes DEF Sent, Retired, NoMessage
<1>2. CASE m # NoMessage
  <2>1. /\ Retired(m, c, p).from = m.from /\ Retired(m, c, p).op = m.op
        /\ Retired(m, c, p).id = m.id
    BY <1>2 DEF Retired, Requests
  <2> QED  BY <1>2, <2>1 DEF Sent
<1> QED  BY <1>1, <1>2

LEMMA AcceptsId ==
    ASSUME TypeOK, IdInv, NEW c \in Clients, Accepts(c), sync[c] = GetId
    PROVE  response.stamp = c /\ id[c] = NotSet /\ response.id # NotSet
<1>1. id[c] = NotSet
  BY DEF IdInv, IdsInv
<1>2. response.id # id[c]
  <2>1. SUFFICES ASSUME response.id = id[c] PROVE FALSE
    OBVIOUS
  <2>2. response.op = [GetId EXCEPT !.value = Empty] /\ response.op = NoOp
    BY <1>1, <2>1 DEF Accepts, IdInv, GrantInv
  <2> QED  BY <2>2, SMTT(30) DEF GetId, NoOp, OpOf
<1> QED  BY <1>1, <1>2 DEF Accepts

(* What the steps of a client do, with a prompt server.                     *)
LEMMA ReturnIdInv ==
    ASSUME TypeOK, IdInv, NEW c \in Clients, sync[c] # NoOp, Copy(c), Accepts(c),
           Return(c, SyncResult(c), request),
           id' = [id EXCEPT ![c] = IF sync[c] = GetId THEN response.id ELSE @],
           UNCHANGED <<clients_count, state>>
    PROVE  IdInv'
<1> USE DEF IdInv
<1>1. /\ request' = Retired(request, c, "sync") /\ serving' = Retired(serving, c, "sync")
      /\ sync' = [sync EXCEPT ![c] = NoOp] /\ constructed' = [constructed EXCEPT ![c] = TRUE]
  BY DEF Return
<1>2. request \in Requests /\ serving \in Requests /\ clients_count \in Nat
  BY SMTT(30) DEF TypeOK
<1>3. sync[c] = GetId => response.stamp = c /\ id[c] = NotSet /\ response.id # NotSet
  BY AcceptsId
<1>4. sync[c] # GetId => constructed[c] /\ id' = id
  BY DEF IdsInv, TypeOK
<1>5. sync[c] = GetId => c # "none"
  BY ClientsAssumption
<1>6. IdsInv'
  <2>1. CASE sync[c] = GetId
    BY <1>1, <1>3, <1>5, <2>1, ConstantTypes, SMTT(30) DEF IdsInv, GrantInv, TypeOK
  <2>2. CASE sync[c] # GetId
    BY <1>1, <1>4, <2>2, ConstantTypes, SMTT(30) DEF IdsInv, TypeOK
  <2> QED  BY <2>1, <2>2
<1>7. SentInv'
  <2>1. ASSUME NEW m \in Requests, Sent(m, id, constructed, sync)
        PROVE  Sent(m, id', constructed', sync')
    <3>1. m # NoMessage => m.from \in Clients
      BY ConstantTypes
    <3>2. sync[c] = GetId => ~constructed[c]
      BY DEF IdsInv
    <3> QED  BY <1>1, <1>4, <2>1, <3>1, <3>2 DEF Sent, TypeOK
  <2>2. Sent(request, id', constructed', sync') /\ Sent(serving, id', constructed', sync')
    BY <1>2, <2>1 DEF SentInv
  <2> QED  BY <1>1, <1>2, <2>2, SentLeft DEF SentInv
<1>8. GrantInv'
  <2>1. \A d \in Clients : id'[d] = id[d] \/ d = response.stamp
    BY <1>3, <1>4 DEF TypeOK
  <2> QED  BY <2>1, CopyGrantInv
<1>9. CountInv'
  BY <1>1, <1>2, AskTypes DEF CountInv
<1> QED  BY <1>6, <1>7, <1>8, <1>9

LEMMA ClientIdInv ==
    ASSUME Prompt, TypeOK, ActiveReads, IdInv, NEW c \in Clients, ClientStep(c)
    PROVE  IdInv'
<1> USE DEF IdInv
<1>0. /\ request \in Requests /\ serving \in Requests
      /\ clients_count \in Nat /\ MaxId \in Nat
  BY ClientsAssumption, SMTT(30) DEF TypeOK
(* The client's own state stays, or it sends a request of the sync port.    *)
<1>1. ASSUME UNCHANGED <<id, clients_count, constructed, sync>>,
             state' = state \/ constructed[c], \A d \in Clients : d # c => state'[d] = state[d],
             Copy(c) \/ UNCHANGED response
      PROVE  IdsInv' /\ GrantInv'
  <2>1. IdsInv'
    BY <1>1 DEF IdsInv
  <2> QED  BY <1>1, <2>1, CopyGrantInv
<1>2. ASSUME UNCHANGED <<id, clients_count, constructed, sync>>, serving' = serving,
             \/ request' = request
             \/ constructed[c] /\ \E p, op : op # GetId /\ request' = Message(c, p, op)
      PROVE  SentInv' /\ CountInv'
  <2>1. CASE request' = request
    BY <1>2, <2>1 DEF SentInv, CountInv
  <2>2. ASSUME NEW p, NEW op, constructed[c], op # GetId, request' = Message(c, p, op)
        PROVE  SentInv' /\ CountInv'
    <3>1. Asks(request') = 0
      BY <2>2, AskTypes, SMTT(30)
    <3>2. SentInv'
      BY <1>2, <2>2 DEF SentInv, Sent, Message
    <3>3. CountInv'
      BY <1>0, <1>2, <3>1, AskTypes, SMTT(30) DEF CountInv
    <3> QED  BY <3>2, <3>3
  <2> QED  BY <1>2, <2>1, <2>2
<1>3. CASE Construct(c)
  <2>1. /\ ~constructed[c] /\ sync[c] = NoOp /\ sync' = [sync EXCEPT ![c] = GetId]
        /\ request' = Message(c, "sync", GetId) /\ Copy(c)
        /\ UNCHANGED <<serving, clients_count, id, constructed, state>>
    BY <1>3 DEF Construct, CallSync, Publish
  <2>2. IdsInv'
    BY <2>1 DEF IdsInv, TypeOK
  <2>3. \A m \in Requests : Sent(m, id, constructed, sync) => Sent(m, id', constructed', sync')
    BY <2>1, ConstantTypes DEF Sent, TypeOK
  <2>4. SentInv'
    BY <1>0, <2>1, <2>3 DEF SentInv, Sent, Message, TypeOK
  <2>5. GrantInv'
    BY <2>1, CopyGrantInv
  <2>6. CountInv'
    <3>1. clients_count + Cardinality(Clients) <= MaxId
      BY <1>3 DEF Construct, IdsLeft
    <3>2. Asks(request') = 1 /\ Asks(serving') = Asks(serving) /\ Asks(serving) \in 0 .. 1
      BY <2>1, AskTypes
    <3>3. CASE Asks(serving) = 1
      <4>1. serving.op = GetId /\ serving # NoMessage
        BY <3>3, AskTypes, SMTT(30) DEF Asks
      <4>2. serving.from \in Clients /\ serving.from # c
        BY <1>0, <2>1, <4>1, ConstantTypes, SMTT(30) DEF SentInv, Sent
      <4>3. Cardinality(Clients) >= 2 /\ Cardinality(Clients) \in Nat
        BY <4>2, SomeClients
      <4> QED  BY <1>0, <2>1, <3>1, <3>2, <3>3, <4>3, SMTT(30) DEF CountInv
    <3>4. CASE Asks(serving) = 0
      <4>1. Cardinality(Clients) >= 1 /\ Cardinality(Clients) \in Nat
        BY SomeClients
      <4> QED  BY <1>0, <2>1, <3>1, <3>2, <3>4, <4>1, SMTT(30) DEF CountInv
    <3> QED  BY <3>2, <3>3, <3>4, SMTT(30)
  <2> QED  BY <2>2, <2>4, <2>5, <2>6
<1>4. ASSUME NEW op \in Op, CallSyncOp(c, op) PROVE IdInv'
  <2>1. /\ constructed[c] /\ sync[c] = NoOp /\ sync' = [sync EXCEPT ![c] = op]
        /\ request' = Message(c, "sync", op) /\ op # GetId
        /\ UNCHANGED <<serving, clients_count, id, constructed, state, response>>
    BY <1>4, ConstantTypes DEF CallSyncOp, CallSync, Publish
  <2>2. IdsInv'
    BY <2>1 DEF IdsInv, TypeOK
  <2>3. SentInv'
    BY <1>0, <2>1, ConstantTypes DEF SentInv, Sent, Message, TypeOK
  <2>4. GrantInv'
    BY <2>1 DEF GrantInv
  <2>5. CountInv'
    BY <1>0, <2>1, AskTypes, SMTT(30) DEF CountInv
  <2> QED  BY <2>2, <2>3, <2>4, <2>5
<1>5. ASSUME NEW op \in Op, CallAsync(c, op) PROVE IdInv'
  <2>1. /\ constructed[c] /\ request' = Message(c, "async", op) /\ op # GetId
        /\ state' = [state EXCEPT ![c] = "RequestSent"]
        /\ UNCHANGED <<serving, clients_count, id, constructed, sync, response>>
    BY <1>5, ConstantTypes DEF CallAsync, Publish
  <2>2. \A d \in Clients : d # c => state'[d] = state[d]
    BY <2>1 DEF TypeOK
  <2> QED  BY <1>1, <1>2, <2>1, <2>2
<1>6. CASE RetrySync(c)
  <2>1. /\ request' = Message(c, "sync", sync[c]) /\ sync[c] # NoOp /\ ServerIdle
        /\ sync[c] = GetId => clients_count + Cardinality(Clients) <= MaxId
        /\ UNCHANGED <<serving, clients_count, id, constructed, sync, state, response>>
    BY <1>6 DEF RetrySync, Publish, IdsLeft
  <2>2. CASE sync[c] # GetId
    <3>1. constructed[c]
      BY <2>1, <2>2 DEF IdsInv
    <3> QED  BY <1>1, <1>2, <2>1, <2>2, <3>1
  <2>3. CASE sync[c] = GetId
    <3>1. Asks(request') = 1 /\ Asks(serving) = 0 /\ Cardinality(Clients) >= 1
            /\ Cardinality(Clients) \in Nat
      BY <2>1, <2>3, AskTypes, SomeClients DEF ServerIdle
    <3>2. CountInv'
      BY <1>0, <2>1, <2>3, <3>1, SMTT(30) DEF CountInv
    <3>3. SentInv'
      BY <2>1, <2>3 DEF SentInv, Sent, Message
    <3> QED  BY <1>1, <2>1, <3>2, <3>3
  <2> QED  BY <2>2, <2>3
<1>7. CASE ReceiveSync(c)
  <2>1. sync[c] # NoOp /\ Copy(c) /\ UNCHANGED <<clients_count, state>>
    BY <1>7 DEF ReceiveSync
  <2>2. CASE /\ Accepts(c) /\ Return(c, SyncResult(c), request)
             /\ id' = [id EXCEPT ![c] = IF sync[c] = GetId THEN response.id ELSE @]
    BY <2>1, <2>2, ReturnIdInv
  <2>3. CASE UNCHANGED <<serving, request, id, constructed, sync>>
    BY <1>1, <1>2, <2>1, <2>3
  <2> QED  BY <1>7, <2>2, <2>3 DEF ReceiveSync
(* The asynchronous port belongs to a client that is constructed.           *)
<1>8. ASSUME NEW next, NEW r, Leave(c, next, r), constructed[c], Copy(c) \/ UNCHANGED response,
             UNCHANGED <<clients_count, id, constructed, sync>>
      PROVE  IdInv'
  <2>1. \A d \in Clients : d # c => state'[d] = state[d]
    BY <1>8 DEF Leave, TypeOK
  <2>2. SentInv'
    BY <1>0, <1>8, SentLeft DEF SentInv, Leave
  <2>3. CountInv'
    BY <1>0, <1>8, AskTypes DEF CountInv, Leave
  <2> QED  BY <1>1, <1>8, <2>1, <2>2, <2>3
<1>9. state[c] # "Idle" => constructed[c]
  BY DEF IdsInv
<1>10. ASSUME NEW received, Update(c, received) PROVE IdInv'
  <2>1. /\ constructed[c] /\ Copy(c) /\ UNCHANGED <<clients_count, id, constructed, sync>>
        /\ active[c] # GetId
    BY <1>9, <1>10, ConstantTypes DEF Update, ActiveReads, ReadOps
  <2>2. CASE Leave(c, received, AsyncResult(c))
    BY <1>8, <2>1, <2>2
  <2>3. CASE /\ request' = Message(c, "async", active[c]) \/ UNCHANGED request
             /\ UNCHANGED <<serving, state>>
    BY <1>1, <1>2, <2>1, <2>3
  <2> QED  BY <1>10, <2>2, <2>3 DEF Update, Publish
<1>11. CASE constructed[c] /\ Abort(c)
  BY <1>8, <1>11 DEF Abort
<1>12. CASE Complete(c)
  <2>1. Leave(c, "Idle", "ok") /\ constructed[c]
    BY <1>9, <1>12 DEF Complete
  <2> QED  BY <1>8, <1>12, <2>1 DEF Complete
<1> QED  BY <1>3, <1>4, <1>5, <1>6, <1>7, <1>10, <1>11, <1>12 DEF ClientStep, ReadOps

LEMMA WireKept ==
    ASSUME NEW d \in Clients, WireOf(d),
           Requested(d)' => Requested(d) /\ request'.port = request.port,
           Served(d)' => Served(d) /\ serving'.port = serving.port,
           Responded(d)' => Responded(d) /\ response' = response
                            /\ sync'[d] = sync[d] /\ outcome'[d]["sync"] = outcome[d]["sync"]
    PROVE  WireOf(d)'
BY DEF WireOf

LEMMA CopyResponded ==
    ASSUME TypeOK, NEW c \in Clients, Copy(c)
    PROVE  /\ ~Responded(c)'
           /\ \A d \in Clients : Responded(d)' /\ id'[d] = id[d] => Responded(d) /\ response' = response
<1>1. response_new' = [response_new EXCEPT ![c] = FALSE] /\ response' \in {response, NoResponse}
  BY DEF Copy
<1>2. NoResponse.op.type \notin Changes
  BY DEF NoResponse, NoOp, OpOf, Changes
<1> QED  BY <1>1, <1>2 DEF Responded, TypeOK

(* A client without a synchronous operation has no change under way.        *)
LEMMA NothingUnderWay ==
    ASSUME TypeOK, PortInv, WireInv, NEW c \in Clients, sync[c] = NoOp
    PROVE  ~Requested(c) /\ ~Served(c) /\ ~Responded(c)
<1>1. NoOp.type \notin Changes
  BY DEF NoOp, OpOf, Changes
<1>2. ~Requested(c)
  BY <1>1 DEF PortInv, Belongs, WireInv, WireOf, Requested
<1>3. ~Served(c)
  BY <1>1 DEF PortInv, Belongs, WireInv, WireOf, Served
<1>4. ~Responded(c)
  <2>1. [NoOp EXCEPT !.value = Empty].type \notin Changes
    BY DEF NoOp, OpOf, Changes
  <2> QED  BY <2>1 DEF WireInv, WireOf, Responded
<1> QED  BY <1>2, <1>3, <1>4

LEMMA SyncAnswer ==
    ASSUME TypeOK, IdInv, NEW c \in Clients, Accepts(c), sync[c] \in Op
    PROVE  response.id = id[c] /\ response.op = [sync[c] EXCEPT !.value = Empty]
<1>1. constructed[c]
  BY ConstantTypes DEF IdInv, IdsInv
<1>2. id[c] # NotSet
  BY <1>1 DEF IdInv, IdsInv
<1> QED  BY <1>2 DEF Accepts

(* Nothing else of the client is under way when its operation returns.      *)
LEMMA NothingLeft ==
    ASSUME TypeOK, PortInv, IdInv, WireInv, NEW c \in Clients, sync[c] # NoOp,
           response_new[c], Accepts(c)
    PROVE  ~Requested(c) /\ ~Served(c)
<1>0. GetId.type \notin Changes
  BY DEF GetId, OpOf, Changes
<1>1. CASE sync[c] = GetId
  <2>1. ~constructed[c]
    BY <1>1 DEF IdInv, IdsInv
  <2>2. request # NoMessage /\ request.from = c => request.op = GetId
    BY <2>1 DEF IdInv, SentInv, Sent
  <2>3. serving # NoMessage /\ serving.from = c => serving.op = GetId
    BY <2>1 DEF IdInv, SentInv, Sent
  <2> QED  BY <1>0, <2>2, <2>3 DEF Requested, Served
<1>2. CASE sync[c] \in Op
  <2>1. response.id = id[c] /\ response.op.type = sync[c].type
    <3>1. response.id = id[c] /\ response.op = [sync[c] EXCEPT !.value = Empty]
      BY <1>2, SyncAnswer
    <3> QED  BY <1>2, <3>1 DEF Op
  <2>2. sync[c].type \in Changes => ~Requested(c) /\ ~Served(c)
    BY <2>1 DEF Responded, WireInv, WireOf
  <2>3. Requested(c) => sync[c] = request.op
    BY DEF WireInv, WireOf, PortInv, Belongs, Requested
  <2>4. Served(c) => sync[c] = serving.op
    BY DEF WireInv, WireOf, PortInv, Belongs, Served
  <2> QED  BY <2>2, <2>3, <2>4 DEF Requested, Served
<1> QED  BY <1>1, <1>2 DEF TypeOK

LEMMA AnswerWireInv ==
    ASSUME TypeOK, PortInv, IdInv, WireInv, AnswerRequest
    PROVE  WireInv'
<1> SUFFICES ASSUME NEW d \in Clients PROVE WireOf(d)'
  BY DEF WireInv
<1>1. PICK e \in Effects(serving.op) \cup Failures(serving.op) : Answered(e)
  BY AnswerFacts
<1>2. /\ serving.op \in Op \cup {GetId} /\ serving.from \in Clients /\ serving # NoMessage
      /\ serving' = NoMessage /\ UNCHANGED <<request, id, sync>>
  BY AnswerFacts DEF AnswerRequest
<1>3. ~Served(d)' /\ (Requested(d)' <=> Requested(d))
  BY <1>2 DEF Served, Requested
<1>4. CASE ~Responded(d)'
  BY <1>2, <1>3, <1>4 DEF WireOf, WireInv
<1>5. CASE Responded(d)'
  <2>1. /\ response'.op = [serving.op EXCEPT !.value = Empty] /\ response'.ok = e.ok
        /\ response'.id = IF serving.op = GetId /\ clients_count < MaxId THEN clients_count ELSE serving.id
    BY <1>1 DEF Answered
  <2>2. response'.op.type = serving.op.type /\ serving.op.type \in Changes /\ response'.id = id[d]
    BY <1>2, <1>5, <2>1 DEF Responded, Op, GetId, OpOf
  <2>3. serving.op # GetId
    BY <2>2, SMTT(30) DEF GetId, OpOf, Changes
  <2>4. serving.id = id[serving.from] /\ constructed[serving.from]
    BY <1>2, <2>3 DEF IdInv, SentInv, Sent
  <2>5. serving.from = d
    BY <1>2, <2>1, <2>2, <2>3, <2>4, SMTT(30) DEF IdInv, IdsInv
  <2>6. Served(d)
    BY <1>2, <2>2, <2>5 DEF Served
  <2>7. ~Requested(d) /\ serving.port = "sync" /\ sync[d] = serving.op
    BY <2>5, <2>6, <1>2 DEF WireInv, WireOf, PortInv, Belongs
  <2>8. e.ok => "ok" \in outcome'[d]["sync"]
    BY <1>1, <2>2, <2>5, <2>7 DEF Answered, Outcomes, Ports, Changes
  <2> QED  BY <1>2, <1>3, <2>1, <2>7, <2>8 DEF WireOf
<1> QED  BY <1>4, <1>5

(* The messages of client c change; whatever changes the store stays put.   *)
LEMMA OthersWire ==
    ASSUME TypeOK, WireInv, NEW c \in Clients, NEW d \in Clients, c # d,
           sync'[d] = sync[d], outcome'[d]["sync"] = outcome[d]["sync"], id'[d] = id[d],
           Copy(c) \/ UNCHANGED <<response, response_new>>,
           \/ request' = request
           \/ \E p, op : request' = Message(c, p, op)
           \/ \E p : request' = Retired(request, c, p),
           serving' = serving \/ \E p : serving' = Retired(serving, c, p)
    PROVE  WireOf(d)'
<1>1. \A m \in Requests : \A p : m.from # c => Retired(m, c, p) = m
  BY DEF Retired
<1>2. \A m \in Requests : \A p : Retired(m, c, p).from = m.from
  BY DEF Retired, Requests, NoMessage
<1>3. request \in Requests /\ serving \in Requests
  BY DEF TypeOK
<1>4. Requested(d)' => Requested(d) /\ request'.port = request.port
  <2>1. CASE request' = request
    BY <2>1 DEF Requested
  <2>2. ASSUME NEW p, NEW op, request' = Message(c, p, op) PROVE ~Requested(d)'
    <3>1. request'.from = c
      BY <2>2 DEF Message
    <3> QED  BY <3>1 DEF Requested
  <2>3. ASSUME NEW p, request' = Retired(request, c, p), Requested(d)' PROVE request' = request
    BY <1>1, <1>2, <1>3, <2>3 DEF Requested
  <2> QED  BY <2>1, <2>2, <2>3 DEF Requested
<1>5. Served(d)' => Served(d) /\ serving'.port = serving.port
  BY <1>1, <1>2, <1>3 DEF Served
<1>6. Responded(d)' => Responded(d) /\ response' = response
  BY CopyResponded DEF Responded
<1> QED  BY <1>4, <1>5, <1>6, WireKept DEF WireInv

(* The client's asynchronous port carries reads, and leaves the other one.  *)
LEMMA AsyncWire ==
    ASSUME TypeOK, WireInv, NEW c \in Clients, UNCHANGED <<id, sync>>,
           outcome'[c]["sync"] = outcome[c]["sync"],
           Copy(c) \/ UNCHANGED <<response, response_new>>,
           \/ request' = request
           \/ \E op \in ReadOps : request' = Message(c, "async", op)
           \/ request' = Retired(request, c, "async"),
           serving' = serving \/ serving' = Retired(serving, c, "async")
    PROVE  WireOf(c)'
<1>1. \A m \in Requests : m.port # "async" => Retired(m, c, "async") = m
  BY DEF Retired
<1>2. \A m \in Requests : m.port = "sync" \/ Retired(m, c, "async").port = "old" \/ Retired(m, c, "async") = m
  BY DEF Retired, Requests, NoMessage
<1>3. \A m \in Requests : /\ Retired(m, c, "async").from = m.from /\ Retired(m, c, "async").op = m.op
                          /\ Retired(m, c, "async") # NoMessage => m # NoMessage
  <2>1. ASSUME NEW m \in Requests, m # NoMessage PROVE Retired(m, c, "async").from = m.from /\ Retired(m, c, "async").op = m.op
    BY <2>1 DEF Retired, Requests
  <2>2. Retired(NoMessage, c, "async") = NoMessage
    BY DEF Retired, NoMessage
  <2> QED  BY <2>1, <2>2
<1>4. request \in Requests /\ serving \in Requests
  BY DEF TypeOK
<1>5. Requested(c)' => Requested(c) /\ request'.port = request.port
  <2>1. CASE request' = request
    BY <2>1 DEF Requested
  <2>2. ASSUME NEW op \in ReadOps, request' = Message(c, "async", op) PROVE ~Requested(c)'
    <3>1. request'.op.type \notin Changes
      BY <2>2 DEF Message, ReadOps, Changes
    <3> QED  BY <3>1 DEF Requested
  <2>3. CASE request' = Retired(request, c, "async")
    <3>1. Requested(c)' => Requested(c)
      BY <1>3, <1>4, <2>3 DEF Requested
    <3>2. Requested(c) => request.port = "sync"
      BY DEF WireInv, WireOf
    <3> QED  BY <1>1, <1>4, <2>3, <3>1, <3>2
  <2> QED  BY <2>1, <2>2, <2>3
<1>6. Served(c)' => Served(c) /\ serving'.port = serving.port
  <2>1. CASE serving' = serving
    BY <2>1 DEF Served
  <2>2. CASE serving' = Retired(serving, c, "async")
    <3>1. Served(c)' => Served(c)
      BY <1>3, <1>4, <2>2 DEF Served
    <3>2. Served(c) => serving.port = "sync"
      BY DEF WireInv, WireOf
    <3> QED  BY <1>1, <1>4, <2>2, <3>1, <3>2
  <2> QED  BY <2>1, <2>2
<1>7. Responded(c)' => Responded(c) /\ response' = response
  BY CopyResponded DEF Responded
<1> QED  BY <1>5, <1>6, <1>7, WireKept DEF WireInv

LEMMA ClientWireInv ==
    ASSUME Prompt, TypeOK, ActiveReads, PortInv, IdInv, WireInv, NEW c \in Clients, ClientStep(c)
    PROVE  WireInv'
<1>0. "sync" \in Ports /\ "async" \in Ports /\ "sync" # "async"
  BY DEF Ports
<1>1. CASE Construct(c)
  <2>1. /\ ~constructed[c] /\ sync' = [sync EXCEPT ![c] = GetId]
        /\ request' = Message(c, "sync", GetId) /\ Copy(c) /\ Opened(c, "sync", GetId)
        /\ UNCHANGED <<serving, id>>
    BY <1>1 DEF Construct, CallSync, Publish
  <2>2. ASSUME NEW d \in Clients, c # d PROVE WireOf(d)'
    <3>1. sync'[d] = sync[d] /\ outcome'[d]["sync"] = outcome[d]["sync"]
      BY <2>1, <2>2 DEF TypeOK, Opened
    <3> QED  BY <2>1, <2>2, <3>1, OthersWire
  <2>3. ~Requested(c)'
    BY <2>1 DEF Requested, Message, GetId, OpOf, Changes
  <2>4. ~Served(c)'
    <3>1. GetId.type \notin Changes
      BY DEF GetId, OpOf, Changes
    <3>2. serving # NoMessage /\ serving.from = c => serving.op = GetId
      BY <2>1 DEF IdInv, SentInv, Sent
    <3> QED  BY <2>1, <3>1, <3>2 DEF Served
  <2>5. WireOf(c)'
    BY <2>1, <2>3, <2>4, CopyResponded DEF WireOf
  <2> QED  BY <2>2, <2>5 DEF WireInv
<1>2. ASSUME NEW op \in Op, CallSyncOp(c, op) PROVE WireInv'
  <2>1. /\ sync[c] = NoOp /\ sync' = [sync EXCEPT ![c] = op]
        /\ request' = Message(c, "sync", op) /\ Opened(c, "sync", op)
        /\ UNCHANGED <<serving, id, response, response_new>>
    BY <1>2 DEF CallSyncOp, CallSync, Publish
  <2>2. ASSUME NEW d \in Clients, c # d PROVE WireOf(d)'
    <3>1. sync'[d] = sync[d] /\ outcome'[d]["sync"] = outcome[d]["sync"]
      BY <2>1, <2>2 DEF TypeOK, Opened
    <3> QED  BY <2>1, <2>2, <3>1, OthersWire
  <2>3. ~Served(c)' /\ ~Responded(c)'
    BY <2>1, NothingUnderWay DEF Served, Responded
  <2>4. WireOf(c)'
    BY <2>1, <2>3 DEF WireOf, Message
  <2> QED  BY <2>2, <2>4 DEF WireInv
<1>3. CASE RetrySync(c)
  <2>1. /\ request' = Message(c, "sync", sync[c]) /\ serving = NoMessage /\ ~response_new[c]
        /\ UNCHANGED <<serving, id, sync, outcome, response, response_new>>
    BY <1>3 DEF RetrySync, Publish, ServerIdle
  <2>2. ASSUME NEW d \in Clients, c # d PROVE WireOf(d)'
    BY <2>1, <2>2, OthersWire
  <2>3. ~Served(c)' /\ ~Responded(c)'
    BY <2>1 DEF Served, Responded
  <2>4. WireOf(c)'
    BY <2>1, <2>3 DEF WireOf, Message
  <2> QED  BY <2>2, <2>4 DEF WireInv
<1>4. CASE ReceiveSync(c)
  <2>0. Copy(c) /\ sync[c] # NoOp /\ response_new[c]
    BY <1>4 DEF ReceiveSync
  <2>1. CASE UNCHANGED <<serving, request, id, sync, outcome>>
    <3>1. ASSUME NEW d \in Clients, c # d PROVE WireOf(d)'
      BY <2>0, <2>1, <3>1, OthersWire
    <3>2. WireOf(c)'
      BY <2>0, <2>1, AsyncWire
    <3> QED  BY <3>1, <3>2 DEF WireInv
  <2>2. CASE /\ Accepts(c) /\ Return(c, SyncResult(c), request)
             /\ id' = [id EXCEPT ![c] = IF sync[c] = GetId THEN response.id ELSE @]
    <3>1. /\ request' = Retired(request, c, "sync") /\ serving' = Retired(serving, c, "sync")
          /\ sync' = [sync EXCEPT ![c] = NoOp]
      BY <2>2 DEF Return
    <3>2. ASSUME NEW d \in Clients, c # d PROVE WireOf(d)'
      <4>1. sync'[d] = sync[d] /\ id'[d] = id[d]
        BY <2>2, <3>1, <3>2 DEF TypeOK
      <4>2. outcome'[d]["sync"] = outcome[d]["sync"]
        BY <2>2, <3>2 DEF TypeOK, Return, Closed
      <4> QED  BY <2>0, <3>1, <3>2, <4>1, <4>2, OthersWire
    <3>3. ~Requested(c) /\ ~Served(c)
      BY <2>0, <2>2, NothingLeft
    <3>4. \A m \in Requests : /\ Retired(m, c, "sync").from = m.from /\ Retired(m, c, "sync").op = m.op
                              /\ m = NoMessage => Retired(m, c, "sync") = NoMessage
      BY SMTT(30) DEF Retired, Requests, NoMessage
    <3>5. ~Requested(c)' /\ ~Served(c)'
      BY <3>1, <3>3, <3>4 DEF Requested, Served, TypeOK
    <3>6. WireOf(c)'
      BY <2>0, <3>5, CopyResponded DEF WireOf
    <3> QED  BY <3>2, <3>6 DEF WireInv
  <2> QED  BY <1>4, <2>1, <2>2 DEF ReceiveSync
<1>5. ASSUME UNCHANGED <<id, sync>>, \A d \in Clients : outcome'[d]["sync"] = outcome[d]["sync"],
             Copy(c) \/ UNCHANGED <<response, response_new>>,
             \/ request' = request
             \/ \E op \in ReadOps : request' = Message(c, "async", op)
             \/ request' = Retired(request, c, "async"),
             serving' = serving \/ serving' = Retired(serving, c, "async")
      PROVE  WireInv'
  <2>1. ASSUME NEW d \in Clients, c # d PROVE WireOf(d)'
    BY <1>5, <2>1, OthersWire
  <2>2. WireOf(c)'
    BY <1>5, AsyncWire
  <2> QED  BY <2>1, <2>2 DEF WireInv
<1>6. ASSUME NEW op \in ReadOps, CallAsync(c, op) PROVE WireInv'
  <2>1. \A d \in Clients : outcome'[d]["sync"] = outcome[d]["sync"]
    BY <1>0, <1>6 DEF CallAsync, Opened, TypeOK
  <2> QED  BY <1>5, <1>6, <2>1 DEF CallAsync, Publish
<1>7. ASSUME NEW next, NEW r, Leave(c, next, r), Copy(c) \/ UNCHANGED <<response, response_new>>,
             UNCHANGED <<id, sync>>
      PROVE  WireInv'
  <2>0. outcome' = outcome \/ outcome' = [outcome EXCEPT ![c]["async"] = {}]
    BY <1>7 DEF Leave, Closed
  <2>1. \A d \in Clients : outcome'[d]["sync"] = outcome[d]["sync"]
    <3>1. ASSUME NEW d \in Clients PROVE [outcome EXCEPT ![c]["async"] = {}][d]["sync"] = outcome[d]["sync"]
      BY <1>0 DEF TypeOK
    <3> QED  BY <2>0, <3>1
  <2> QED  BY <1>5, <1>7, <2>1 DEF Leave
<1>8. ASSUME NEW received, Update(c, received) PROVE WireInv'
  <2>1. Copy(c) /\ UNCHANGED <<id, sync>> /\ active[c] \in ReadOps
    BY <1>8 DEF Update, ActiveReads
  <2>2. CASE Leave(c, received, AsyncResult(c))
    BY <1>7, <2>1, <2>2
  <2>3. CASE /\ request' = Message(c, "async", active[c]) \/ UNCHANGED request
             /\ UNCHANGED <<serving, outcome>>
    BY <1>5, <2>1, <2>3
  <2> QED  BY <1>8, <2>2, <2>3 DEF Update, Publish
<1>9. CASE Abort(c) \/ Complete(c)
  BY <1>7, <1>9 DEF Abort, Complete
<1> QED  BY <1>1, <1>2, <1>3, <1>4, <1>6, <1>8, <1>9 DEF ClientStep

-----------------------------------------------------------------------------
(* The clients and the server implement the store.                          *)

StoreInv == TypeOK /\ ActiveReads /\ PortInv /\ OutcomeInv /\ ResponseInv
PromptInv == StoreInv /\ IdInv /\ WireInv

LEMMA StillImplements ==
    ASSUME StillStep
    PROVE  Store!Other
<1>1. \A x \in Callers : x[1] \in Clients /\ x[2] \in Ports
  BY DEF Callers
<1>2. [x \in Callers |-> Calls(x[1], x[2])]' = [x \in Callers |-> Calls(x[1], x[2])]
  BY <1>1 DEF StillStep
<1> QED  BY <1>2 DEF Store!Other, StillStep, Calls, Silent, NoReturn, Store!NoReturn

LEMMA BeginImplements ==
    ASSUME TypeOK, NEW c \in Clients, NEW p \in Ports, NEW op \in Op, BeginStep(c, p, op)
    PROVE  Store!Begin(<<c, p>>)
<1> DEFINE P == [x \in Callers |-> Calls(x[1], x[2])]
           O == [x \in Callers |-> outcome[x[1]][x[2]]]
<1>0. /\ <<c, p>> \in Callers
      /\ \A x \in Callers : x[1] \in Clients /\ x[2] \in Ports
      /\ \A x \in Callers : (x = <<c, p>>) <=> (x[1] = c /\ x[2] = p)
  BY SMTT(30) DEF Callers
<1>1. P[<<c, p>>] = NoOp
  BY <1>0 DEF BeginStep
<1>2. P' = [P EXCEPT ![<<c, p>>] = op]
  BY <1>0 DEF BeginStep
<1>3. P'[<<c, p>>] = op
  BY <1>0, <1>2
<1>4. O' = [O EXCEPT ![<<c, p>>] = IF op.type = "read" THEN {store[Key(op)]} ELSE {}]
  <2>1. outcome' = [outcome EXCEPT ![c][p] = IF op.type = "read" THEN {store[Key(op)]} ELSE {}]
    BY DEF BeginStep, Opened
  <2> QED  BY <1>0, <2>1 DEF TypeOK
<1>5. returned' = NoReturn /\ UNCHANGED store
  BY DEF BeginStep, Silent
<1> QED  BY <1>1, <1>2, <1>3, <1>4, <1>5
         DEF Store!Begin, Calls, Store!NoOp, NoOp, OpOf, Store!NoReturn, NoReturn, Store!Op, Op, Contents,
             Store!Key, Key

LEMMA EndImplements ==
    ASSUME TypeOK, NEW c \in Clients, NEW p \in Ports, NEW r, EndStep(c, p, r),
           r \in outcome[c][p] \cup {"failed"}
    PROVE  Store!End(<<c, p>>)
<1> DEFINE P == [x \in Callers |-> Calls(x[1], x[2])]
           O == [x \in Callers |-> outcome[x[1]][x[2]]]
<1>0. /\ <<c, p>> \in Callers
      /\ \A x \in Callers : x[1] \in Clients /\ x[2] \in Ports
      /\ \A x \in Callers : (x = <<c, p>>) <=> (x[1] = c /\ x[2] = p)
  BY SMTT(30) DEF Callers
<1>1. P[<<c, p>>] # NoOp
  BY <1>0 DEF EndStep
<1>2. P' = [P EXCEPT ![<<c, p>>] = NoOp]
  BY <1>0 DEF EndStep
<1>3. O' = [O EXCEPT ![<<c, p>>] = {}]
  <2>1. outcome' = [outcome EXCEPT ![c][p] = {}]
    BY DEF EndStep, Closed
  <2> QED  BY <1>0, <2>1 DEF TypeOK
<1>4. returned' = [caller |-> <<c, p>>, result |-> r] /\ UNCHANGED store
  BY DEF EndStep, Closed
<1>5. r \in O[<<c, p>>] \cup {"failed"}
  BY <1>0
<1> QED  BY <1>1, <1>2, <1>3, <1>4, <1>5
         DEF Store!End, Calls, Store!NoOp, NoOp, OpOf

(* What a caller is told is an outcome its operation may have.              *)
LEMMA JustifiedOutcome ==
    ASSUME PromptInv, NEW c \in Clients, NEW p \in Ports, NEW r, Justified(c, p, r), Calls(c, p) # NoOp
    PROVE  r \in outcome[c][p] \cup {"failed"}
<1> USE DEF PromptInv, StoreInv
<1>1. CASE p = "sync" /\ response_new[c] /\ Accepts(c) /\ r = SyncResult(c) /\ response.ok
  <2>1. sync[c] \in Op /\ Calls(c, p) = sync[c]
    BY <1>1 DEF Calls, Pending, TypeOK
  <2>2. response.id = id[c] /\ response.op = [sync[c] EXCEPT !.value = Empty]
    BY <1>1, <2>1, SyncAnswer
  <2>3. response.op.type = sync[c].type /\ Key(response.op) = Key(sync[c])
    BY <2>1, <2>2 DEF Op, Key
  <2>4. CASE sync[c].type = "read"
    <3>1. r = store[Key(sync[c])]
      BY <1>1, <2>3, <2>4 DEF ResponseInv, SyncResult
    <3> QED  BY <2>1, <2>4, <3>1 DEF OutcomeInv
  <2>5. CASE sync[c].type # "read"
    <3>1. r = "ok" /\ Responded(c)
      BY <1>1, <2>1, <2>2, <2>3, <2>5 DEF SyncResult, Responded, Changes, Op
    <3> QED  BY <1>1, <3>1 DEF WireInv, WireOf
  <2> QED  BY <2>4, <2>5
<1>2. CASE p = "async" /\ Answers(c) /\ r = AsyncResult(c) /\ response.ok
  <2>1. state[c] = "RequestSent" /\ Calls(c, p) = active[c]
    BY <1>2 DEF Calls, Pending, Ports
  <2>2. active[c] \in Op /\ active[c].type = "read"
    BY <2>1 DEF ActiveReads, ReadOps
  <2>3. response.op.type = "read" /\ Key(response.op) = Key(active[c])
    BY <1>2, <2>2 DEF Answers, Op, Key
  <2>4. r = store[Key(active[c])]
    BY <1>2, <2>2, <2>3 DEF ResponseInv, AsyncResult
  <2> QED  BY <2>1, <2>2, <2>4 DEF OutcomeInv
<1>3. CASE r = "failed"
  BY <1>3
<1> QED  BY <1>1, <1>2, <1>3 DEF Justified, SyncResult, AsyncResult

PerformStep(c, ok) ==
    /\ \A d \in Clients, q \in Ports : Calls(d, q)' = Calls(d, q)
    /\ \A d \in Clients, q \in Ports :
            outcome'[d][q] = outcome[d][q]
                \cup (IF Calls(d, q).type = "read" THEN {store'[Key(Calls(d, q))]} ELSE {})
                \cup (IF d = c /\ q = "sync" THEN ok ELSE {})
    /\ Silent

LEMMA PerformImplements ==
    ASSUME NEW c \in Clients, NEW op \in Op, NEW ok \in {{}, {"ok"}}, Calls(c, "sync") = op,
           store' \in Store!Effects(op), ok # {} => Store!Done(op), PerformStep(c, ok)
    PROVE  Store!Perform(<<c, "sync">>)
<1> DEFINE P == [x \in Callers |-> Calls(x[1], x[2])]
           O == [x \in Callers |-> outcome[x[1]][x[2]]]
<1>0. /\ <<c, "sync">> \in Callers
      /\ \A x \in Callers : x[1] \in Clients /\ x[2] \in Ports
      /\ \A x \in Callers : (x = <<c, "sync">>) <=> (x[1] = c /\ x[2] = "sync")
  BY SMTT(30) DEF Callers, Ports
<1>1. P[<<c, "sync">>] = op /\ op # NoOp
  BY <1>0, ConstantTypes
<1>2. P' = P
  <2>1. \A x \in Callers : x[1] \in Clients /\ x[2] \in Ports
    BY <1>0
  <2> QED  BY <2>1 DEF PerformStep
<1>3. O' = [x \in Callers |-> O[x] \cup (IF P[x].type = "read" THEN {store'[Key(P[x])]} ELSE {})
                                   \cup (IF x = <<c, "sync">> THEN ok ELSE {})]
  <2>1. ASSUME NEW x \in Callers
        PROVE  outcome'[x[1]][x[2]] = O[x] \cup (IF P[x].type = "read" THEN {store'[Key(P[x])]} ELSE {})
                                          \cup (IF x = <<c, "sync">> THEN ok ELSE {})
    <3>1. P[x] = Calls(x[1], x[2]) /\ O[x] = outcome[x[1]][x[2]]
      OBVIOUS
    <3>2. x[1] \in Clients /\ x[2] \in Ports
      BY <1>0
    <3>3. (x = <<c, "sync">>) <=> (x[1] = c /\ x[2] = "sync")
      BY <1>0
    <3>4. outcome'[x[1]][x[2]] = outcome[x[1]][x[2]]
            \cup (IF Calls(x[1], x[2]).type = "read" THEN {store'[Key(Calls(x[1], x[2]))]} ELSE {})
            \cup (IF x[1] = c /\ x[2] = "sync" THEN ok ELSE {})
      BY <3>2 DEF PerformStep
    <3> QED  BY <3>1, <3>3, <3>4
  <2> QED  BY <2>1
<1> QED  BY <1>1, <1>2, <1>3
         DEF Store!Perform, PerformStep, Calls, Silent, Store!NoOp, NoOp, OpOf, Store!NoReturn, NoReturn, Store!Key, Key

LEMMA ServedEffects ==
    ASSUME TypeOK, NEW op \in Op, NEW e \in Effects(op) \cup Failures(op), op.type \in Changes,
           e.ok \/ e.store # store, store' = e.store
    PROVE  store' \in Store!Effects(op) /\ (e.ok => Store!Done(op))
<1>1. CASE op.type = "write"
  <2>1. store' = [store EXCEPT ![Key(op)] = op.value]
    BY <1>1, EffectCases
  <2>2. Store!Effects(op) = {[store EXCEPT ![Key(op)] = op.value]}
    BY <1>1 DEF Store!Effects, Store!Key, Key
  <2>3. Store!Done(op)
    BY <1>1, <2>1 DEF Store!Done, Store!Key, Key
  <2> QED  BY <2>1, <2>2, <2>3
<1>2. CASE op.type = "clear"
  <2>1. PICK s \in SUBSET Indices : e.store = Cleared(op.item, s)
    BY <1>2, EffectCases
  <2>2. Store!Effects(op) = {[key \in Keys |-> IF key \in {op.item} \X i THEN Empty ELSE store[key]] :
                                i \in SUBSET Indices}
    BY <1>2 DEF Store!Effects, Store!Keys, Keys
  <2>3. store' \in Store!Effects(op)
    BY <2>1, <2>2 DEF Cleared
  <2>4. ASSUME e.ok PROVE Store!Done(op)
    <3>1. e.store = Cleared(op.item, Indices)
      BY <1>2, <2>4, EffectCases
    <3>2. \A i \in Indices : store'[<<op.item, i>>] = Empty
      BY <3>1 DEF Cleared, Keys, Op
    <3> QED  BY <1>2, <3>2 DEF Store!Done
  <2> QED  BY <2>3, <2>4
<1> QED  BY <1>1, <1>2 DEF Changes

(* A request that changes the store is its caller's operation performed;    *)
(* any other changes nothing, and what a read may return is known already.  *)
LEMMA AnswerImplements ==
    ASSUME PromptInv, AnswerRequest
    PROVE  Store!Other \/ \E c \in Clients : Store!Perform(<<c, "sync">>)
<1> USE DEF PromptInv, StoreInv
<1>0. PICK e \in Effects(serving.op) \cup Failures(serving.op) : Answered(e) /\ e.ok \in BOOLEAN
  BY AnswerFacts
<1>1. /\ serving.op \in Op \cup {GetId} /\ serving.from \in Clients /\ serving # NoMessage
      /\ Silent /\ UNCHANGED <<sync, state, active>>
  BY AnswerFacts DEF AnswerRequest
<1>2. store' = e.store /\ outcome' = Outcomes(e)
  BY <1>0 DEF Answered
<1>3. \A c \in Clients, p \in Ports : Calls(c, p)' = Calls(c, p)
  BY <1>1, SameCalls
<1>4. \A c \in Clients, p \in Ports : (Pending(c, p).type = "read") <=> (Calls(c, p).type = "read")
  BY SMTT(30) DEF Calls, GetId, NoOp, OpOf
<1>5. \A c \in Clients, p \in Ports : Calls(c, p).type = "read" => Pending(c, p) = Calls(c, p)
  BY DEF Calls, NoOp, OpOf
<1>6. \A c \in Clients, p \in Ports :
        outcome'[c][p] = outcome[c][p]
            \cup (IF Calls(c, p).type = "read" THEN {store'[Key(Calls(c, p))]} ELSE {})
            \cup (IF serving.from = c /\ serving.port = p /\ serving.op.type # "read" /\ e.ok
                  THEN {"ok"} ELSE {})
  BY <1>2, <1>4, <1>5 DEF Outcomes
<1>7. CASE e.store = store /\ ~(serving.op.type # "read" /\ e.ok)
  <2>1. ASSUME NEW c \in Clients, NEW p \in Ports PROVE outcome'[c][p] = outcome[c][p]
    <3>1. Calls(c, p).type = "read" => store'[Key(Calls(c, p))] \in outcome[c][p]
      BY <1>2, <1>7 DEF OutcomeInv
    <3>2. outcome'[c][p] = outcome[c][p]
            \cup (IF Calls(c, p).type = "read" THEN {store'[Key(Calls(c, p))]} ELSE {}) \cup {}
      BY <1>6, <1>7
    <3> QED  BY <3>1, <3>2
  <2>2. /\ outcome' = [c \in Clients |-> [p \in Ports |-> outcome'[c][p]]]
        /\ outcome = [c \in Clients |-> [p \in Ports |-> outcome[c][p]]]
    BY <1>2 DEF Outcomes, TypeOK
  <2>3. outcome' = outcome
    BY <2>1, <2>2
  <2>4. StillStep
    BY <1>1, <1>2, <1>3, <1>7, <2>3 DEF StillStep
  <2> QED  BY <2>4, StillImplements
<1>8. CASE e.store # store \/ (serving.op.type # "read" /\ e.ok)
  <2>0. /\ serving.op.type \in {"read", "get_id"} => e.store = store
        /\ serving.op.type = "get_id" => ~e.ok
    BY <1>0, <1>1, EffectCases
  <2>1. serving.op.type \in Changes /\ serving.op \in Op
    <3>1. PICK op \in Op \cup {GetId} : op = serving.op
      BY <1>1
    <3>2. op \in Op => op.type \in {"read", "write", "clear"}
      BY DEF Op
    <3>3. GetId.type = "get_id"
      BY DEF GetId, OpOf
    <3> QED  BY <1>8, <2>0, <3>1, <3>2, <3>3 DEF Changes
  <2>2. Served(serving.from)
    BY <1>1, <2>1 DEF Served
  <2>3. serving.port = "sync"
    BY <1>1, <2>2 DEF WireInv, WireOf
  <2>4. sync[serving.from] = serving.op
    BY <1>1, <2>3 DEF PortInv, Belongs
  <2>5. Calls(serving.from, "sync") = serving.op
    BY <2>1, <2>4, ConstantTypes DEF Calls, Pending
  <2>6. store' \in Store!Effects(serving.op) /\ (e.ok => Store!Done(serving.op))
    BY <1>0, <1>2, <1>8, <2>1, ServedEffects
  <2>7. PICK c \in Clients : c = serving.from
    BY <1>1
  <2>8. PICK ok \in {{}, {"ok"}} : ok = IF e.ok THEN {"ok"} ELSE {}
    OBVIOUS
  <2>9. ASSUME NEW d \in Clients, NEW q \in Ports
        PROVE  outcome'[d][q] = outcome[d][q]
                        \cup (IF Calls(d, q).type = "read" THEN {store'[Key(Calls(d, q))]} ELSE {})
                        \cup (IF d = c /\ q = "sync" THEN ok ELSE {})
    <3>1. (IF serving.from = d /\ serving.port = q /\ serving.op.type # "read" /\ e.ok THEN {"ok"} ELSE {})
            = IF d = c /\ q = "sync" THEN ok ELSE {}
      <4>1. serving.op.type # "read"
        BY <2>1 DEF Changes
      <4> QED  BY <2>3, <2>7, <2>8, <4>1
    <3>2. outcome'[d][q] = outcome[d][q]
                        \cup (IF Calls(d, q).type = "read" THEN {store'[Key(Calls(d, q))]} ELSE {})
                        \cup (IF serving.from = d /\ serving.port = q /\ serving.op.type # "read" /\ e.ok
                              THEN {"ok"} ELSE {})
      BY <1>6
    <3> QED  BY <3>1, <3>2
  <2>10. PICK op \in Op : op = serving.op
    BY <2>1
  <2>11. Calls(c, "sync") = op /\ store' \in Store!Effects(op) /\ (ok # {} => Store!Done(op))
    BY <1>0, <2>5, <2>6, <2>7, <2>8, <2>10
  <2>12. Store!Perform(<<c, "sync">>)
    <3>1. PerformStep(c, ok)
      BY <1>1, <1>3, <2>9 DEF PerformStep
    <3> QED  BY <2>11, <3>1, PerformImplements
  <2> QED  BY <2>12
<1> QED  BY <1>7, <1>8

LEMMA InitStoreInv ==
    ASSUME Init
    PROVE  StoreInv
<1>1. TypeOK
  <2>1. IsFiniteSet(Clients \ Late) /\ Cardinality(Clients \ Late) \in Nat
    BY ClientsAssumption, FS_Subset, FS_CardinalityType
  <2>2. clients_count \in 1 .. MaxId /\ 0 .. clients_count - 1 \subseteq Ids
    <3>1. /\ clients_count = 1 + Cardinality(Clients \ Late)
          /\ MaxId \in Nat /\ Cardinality(Clients \ Late) < MaxId
      BY ClientsAssumption DEF Init
    <3>2. clients_count \in 1 .. MaxId
      BY <2>1, <3>1, SMTT(30)
    <3> QED  BY <3>1, <3>2, SMTT(30) DEF Ids, NotSet
  <2>3. id \in [Clients -> Ids]
    BY <2>2 DEF Init
  <2>4. request \in Requests /\ serving \in Requests /\ response \in Responses
    BY ConstantTypes DEF Init
  <2>5. /\ store \in [Keys -> Contents] /\ returned = NoReturn
        /\ sync \in [Clients -> Op \cup {NoOp, GetId}] /\ active \in [Clients -> Op \cup {NoOp}]
        /\ state \in [Clients -> {"Idle", "RequestSent", "ResponseReceived"}]
        /\ outcome \in [Clients -> [Ports -> SUBSET Results]]
    BY DEF Init, Contents
  <2>6. /\ response_new \in [Clients -> BOOLEAN] /\ constructed \in [Clients -> BOOLEAN]
        /\ status \in [Clients -> BOOLEAN]
    BY DEF Init
  <2> QED  BY <2>2, <2>3, <2>4, <2>5, <2>6 DEF TypeOK
<1>2. ActiveReads /\ PortInv
  BY DEF Init, ActiveReads, PortInv, Belongs
<1>3. OutcomeInv
  <2>1. \A c \in Clients, p \in Ports : Calls(c, p) = NoOp /\ outcome[c][p] = {}
    BY ConstantTypes DEF Init, Calls, Pending
  <2>2. NoOp.type # "read"
    BY DEF NoOp, OpOf
  <2> QED  BY <2>1, <2>2 DEF OutcomeInv
<1>4. ResponseInv
  BY DEF Init, ResponseInv, NoResponse, NoOp, OpOf
<1> QED  BY <1>1, <1>2, <1>3, <1>4 DEF StoreInv

LEMMA StepStoreInv ==
    ASSUME StoreInv, StoreStep
    PROVE  StoreInv'
<1> USE DEF StoreInv
<1>1. TypeOK' /\ ActiveReads'
  BY StepTypeOK
<1>2. CASE Unmoved \/ TakeRequest
  <2>1. StillStep /\ UNCHANGED <<sync, state, active, response, store>>
    BY <1>2, QuietCalls DEF Unmoved, TakeRequest, clientVars, topics
  <2>2. OutcomeInv'
    BY <2>1, ClientOutcomeInv
  <2>3. ResponseInv'
    BY <2>1 DEF ResponseInv
  <2>4. PortInv'
    BY <1>2, <2>1 DEF PortInv, Belongs, Unmoved, TakeRequest, topics
  <2> QED  BY <1>1, <2>2, <2>3, <2>4
<1>3. CASE AnswerRequest
  <2>1. PortInv'
    BY <1>3, AnswerFacts DEF PortInv, Belongs
  <2> QED  BY <1>1, <1>3, <2>1, AnswerOutcomeInv, AnswerResponseInv
<1>4. ASSUME NEW c \in Clients, ClientStep(c) PROVE StoreInv'
  <2>1. OutcomeInv'
    BY <1>4, ClientCalls, ClientOutcomeInv
  <2> QED  BY <1>1, <1>4, <2>1, ClientPortInv, ClientResponseInv
<1> QED  BY <1>2, <1>3, <1>4 DEF StoreStep

LEMMA InitPromptInv ==
    ASSUME Init
    PROVE  PromptInv
<1>1. WireInv
  BY DEF Init, WireInv, WireOf, Requested, Served, Responded
<1> QED  BY <1>1, InitStoreInv, InitIdInv DEF PromptInv

LEMMA StepPromptInv ==
    ASSUME Prompt, PromptInv, StoreStep
    PROVE  PromptInv'
<1> USE DEF PromptInv
<1>0. StoreInv' /\ TypeOK /\ ActiveReads /\ PortInv
  BY StepStoreInv DEF StoreInv
<1>1. CASE Unmoved
  <2>1. UNCHANGED <<topics, clientVars, outcome>>
    BY <1>1 DEF Unmoved
  <2>2. IdInv'
    BY <2>1 DEF IdInv, IdsInv, SentInv, GrantInv, CountInv, topics, clientVars
  <2>3. WireInv'
    BY <2>1 DEF WireInv, WireOf, Requested, Served, Responded, topics, clientVars
  <2> QED  BY <1>0, <2>2, <2>3
<1>2. CASE TakeRequest
  <2>1. /\ serving = NoMessage /\ serving' = request /\ request' = NoMessage
        /\ UNCHANGED <<clients_count, response, response_new, id, constructed, sync, state, outcome>>
    BY <1>2 DEF TakeRequest
  <2>2. IdInv'
    <3>1. IdsInv' /\ GrantInv'
      BY <2>1 DEF IdInv, IdsInv, GrantInv
    <3>2. SentInv'
      BY <2>1 DEF IdInv, SentInv, Sent
    <3>3. CountInv'
      <4>1. clients_count \in Nat /\ MaxId \in Nat
        BY <1>0, ClientsAssumption, SMTT(30) DEF TypeOK
      <4> QED  BY <2>1, <4>1, AskTypes, SMTT(30) DEF IdInv, CountInv
    <3> QED  BY <3>1, <3>2, <3>3 DEF IdInv
  <2>3. WireInv'
    BY <2>1 DEF WireInv, WireOf, Requested, Served, Responded
  <2> QED  BY <1>0, <2>2, <2>3
<1>3. CASE AnswerRequest
  BY <1>0, <1>3, AnswerIdInv, AnswerWireInv
<1>4. ASSUME NEW c \in Clients, ClientStep(c) PROVE PromptInv'
  BY <1>0, <1>4, ClientIdInv, ClientWireInv
<1> QED  BY <1>1, <1>2, <1>3, <1>4 DEF StoreStep

LEMMA InitImplements ==
    ASSUME Init
    PROVE  Store!Init
<1>1. \A c \in Clients, p \in Ports : Calls(c, p) = NoOp /\ outcome[c][p] = {}
  BY ConstantTypes DEF Init, Calls, Pending
<1>2. /\ [x \in Callers |-> Calls(x[1], x[2])] = [x \in Callers |-> NoOp]
      /\ [x \in Callers |-> outcome[x[1]][x[2]]] = [x \in Callers |-> {}]
  BY <1>1 DEF Callers
<1> QED  BY <1>2 DEF Init, Store!Init, Calls, Store!Keys, Keys, Store!NoOp, NoOp, OpOf,
                     Store!NoReturn, NoReturn

LEMMA StepImplements ==
    ASSUME PromptInv, StoreStep
    PROVE  Store!Next
<1>0. TypeOK /\ ActiveReads /\ OutcomeInv
  BY DEF PromptInv, StoreInv
<1>1. CASE Unmoved \/ TakeRequest
  BY <1>1, QuietCalls, StillImplements DEF Store!Next
<1>2. CASE AnswerRequest
  <2>1. \A c \in Clients : <<c, "sync">> \in Callers
    BY DEF Callers, Ports
  <2> QED  BY <1>2, <2>1, AnswerImplements DEF Store!Next
<1>3. ASSUME NEW c \in Clients, ClientStep(c) PROVE Store!Next
  <2>1. CASE StillStep
    BY <2>1, StillImplements DEF Store!Next
  <2>2. ASSUME NEW p \in Ports, NEW op \in Op, BeginStep(c, p, op) PROVE Store!Next
    <3>1. Store!Begin(<<c, p>>) /\ <<c, p>> \in Callers
      BY <1>0, <2>2, BeginImplements DEF Callers
    <3> QED  BY <3>1 DEF Store!Next
  <2>3. ASSUME NEW p \in Ports, NEW r \in Results, EndStep(c, p, r), Justified(c, p, r) PROVE Store!Next
    <3>1. r \in outcome[c][p] \cup {"failed"}
      BY <2>3, JustifiedOutcome DEF EndStep
    <3>2. Store!End(<<c, p>>) /\ <<c, p>> \in Callers
      BY <1>0, <2>3, <3>1, EndImplements DEF Callers
    <3> QED  BY <3>2 DEF Store!Next
  <2> QED  BY <1>0, <1>3, <2>1, <2>2, <2>3, ClientCalls
<1> QED  BY <1>1, <1>2, <1>3 DEF StoreStep
=============================================================================
