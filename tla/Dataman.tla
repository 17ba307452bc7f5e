------------------------------- MODULE Dataman -------------------------------
(***************************************************************************)
(* The data manager: the server task (src/modules/dataman/dataman.cpp) and *)
(* its clients (src/lib/dataman_client/DatamanClient.cpp), which talk over *)
(* two uORB topics of queue length one.  A request nobody took yet is      *)
(* overwritten by the next one, of whichever client; so is an answer.      *)
(* Clients publish again when 100 ms pass without an answer, and tell      *)
(* answers apart by client id, type, item and index only.                  *)
(*                                                                         *)
(* Prompt is the assumption that 100 ms suffice for the server to work off *)
(* what has been published, and that no operation runs into its timeout:   *)
(* a client then publishes again only when the server is idle.             *)
(***************************************************************************)
EXTENDS Integers, FiniteSets

CONSTANTS
    Clients,
    Items, Indices, Values, Empty,
    MaxId,          \* UINT8_MAX: ids are below it, and enough for the requests of IdsLeft
    Prompt,         \* see above
    Fallible,       \* types of operations whose storage access may fail
    Late            \* clients that are constructed while others run already

ASSUME ClientsAssumption ==
    /\ IsFiniteSet(Clients) /\ "none" \notin Clients /\ "none" \notin Items
    /\ MaxId \in Nat /\ Cardinality(Clients \ Late) < MaxId
    /\ Prompt \in BOOLEAN

VARIABLES
    store,          \* what the backend holds
    request,        \* the message on dataman_request the server has not copied yet
    serving,        \* the request the server works on
    clients_count,  \* dataman_clients_count
    response,       \* the message on dataman_response, while a client has not copied it
    response_new,   \* [client -> its subscription has not copied it yet]
    id,             \* [client -> _client_id]
    constructed,    \* [client -> its constructor has returned]
    sync,           \* [client -> operation of the syncHandler() it is in]
    state,          \* [client -> _state]
    active,         \* [client -> _active_request]
    status,         \* [client -> _response_status is STATUS_SUCCESS]
    outcome,        \* history: [client -> [port -> results an operation may return]]
    returned        \* history: what the last step made an operation return

topics == <<request, serving, clients_count, response, response_new>>
clientVars == <<id, constructed, sync, state, active, status>>
vars == <<store, topics, clientVars, outcome, returned>>

Keys == Items \X Indices
Contents == Values \cup {Empty}
Ports == {"sync", "async"}
NotSet == 0                                         \* CLIENT_ID_NOT_SET
Ids == NotSet .. MaxId - 1

OpOf(type, item, index, value) == [type |-> type, item |-> item, index |-> index, value |-> value]
NoOp == OpOf("none", "none", "none", Empty)
GetId == OpOf("get_id", "none", "none", Empty)
Op == [type : {"read", "write", "clear"}, item : Items, index : Indices, value : Contents]
Key(op) == <<op.item, op.index>>

(* from is the request's timestamp, which nobody else's request carries.    *)
(* port is history: the operation the message belongs to, or "old" once it  *)
(* has returned.                                                            *)
Message(c, p, op) == [from |-> c, port |-> p, id |-> id[c], op |-> op]
NoMessage == [from |-> "none", port |-> "old", id |-> NotSet, op |-> NoOp]
NoResponse == [stamp |-> "none", id |-> NotSet, op |-> NoOp, ok |-> FALSE, value |-> Empty]

Requests == [from : Clients, port : Ports \cup {"old"}, id : Ids, op : Op \cup {GetId}] \cup {NoMessage}
Responses == [stamp : Clients \cup {"none"}, id : Ids, op : Op \cup {NoOp, GetId},
              ok : BOOLEAN, value : Contents]
Results == {"failed", "ok"} \cup Contents
NoReturn == [caller |-> <<"none", "none">>, result |-> "none"]
Silent == returned' = NoReturn

(* One type per variable; an id is handed out below UINT8_MAX, or not set.  *)
TypeOK ==
    /\ store \in [Keys -> Contents]
    /\ request \in Requests /\ serving \in Requests /\ response \in Responses
    /\ response_new \in [Clients -> BOOLEAN]
    /\ clients_count \in 1 .. MaxId
    /\ id \in [Clients -> Ids]
    /\ constructed \in [Clients -> BOOLEAN]
    /\ sync \in [Clients -> Op \cup {NoOp, GetId}]
    /\ state \in [Clients -> {"Idle", "RequestSent", "ResponseReceived"}]
    /\ active \in [Clients -> Op \cup {NoOp}]
    /\ status \in [Clients -> BOOLEAN]
    /\ outcome \in [Clients -> [Ports -> SUBSET Results]]
    /\ returned \in [caller : Clients \X Ports, result : Results] \cup {NoReturn}

(* The clients that are not late have their ids.                            *)
Init ==
    /\ store = [key \in Keys |-> Empty]
    /\ request = NoMessage /\ serving = NoMessage
    /\ response = NoResponse /\ response_new = [c \in Clients |-> FALSE]
    /\ clients_count = 1 + Cardinality(Clients \ Late)
    /\ id \in [Clients -> 0 .. clients_count - 1]
    /\ \A c, d \in Clients : (id[c] = NotSet <=> c \in Late) /\ (id[c] = id[d] => c = d \/ c \in Late)
    /\ constructed = [c \in Clients |-> c \notin Late]
    /\ sync = [c \in Clients |-> NoOp]
    /\ state = [c \in Clients |-> "Idle"]
    /\ active = [c \in Clients |-> NoOp]
    /\ status = [c \in Clients |-> FALSE]
    /\ outcome = [c \in Clients |-> [p \in Ports |-> {}]]
    /\ returned = NoReturn

(* The operation in progress of a port.                                     *)
Pending(c, p) ==
    IF p = "sync" THEN sync[c] ELSE IF state[c] = "RequestSent" THEN active[c] ELSE NoOp

----------------------------------------------------------------------------
(* The server task.                                                         *)

ServerIdle == request = NoMessage /\ serving = NoMessage

(* px4_poll, orb_check and orb_copy of dataman_request.                     *)
TakeRequest ==
    /\ request # NoMessage /\ serving = NoMessage
    /\ serving' = request
    /\ request' = NoMessage
    /\ Silent
    /\ UNCHANGED <<store, clients_count, response, response_new,
                   id, constructed, sync, state, active, status, outcome>>

Cleared(item, indices) ==
    [key \in Keys |-> IF key \in {item} \X indices THEN Empty ELSE store[key]]

(* What an operation may do to the backend.  A clear that fails may have    *)
(* cleared some of the indices.                                             *)
Effects(op) ==
    CASE op.type = "write" -> {[ok |-> TRUE, store |-> [store EXCEPT ![Key(op)] = op.value]]}
      [] op.type = "clear" -> {[ok |-> TRUE, store |-> Cleared(op.item, Indices)]}
      [] op.type = "read" -> {[ok |-> TRUE, store |-> store]}
      [] OTHER -> {[ok |-> FALSE, store |-> store]}

Failures(op) ==
    IF op.type \notin Fallible THEN {}
    ELSE {[ok |-> FALSE, store |-> s] :
            s \in IF op.type = "clear" THEN {Cleared(op.item, i) : i \in SUBSET Indices} ELSE {store}}

ValueRead(op, e) == IF op.type = "read" /\ e.ok THEN e.store[Key(op)] ELSE Empty

(* History: the request being served has taken effect e.                    *)
Outcomes(e) ==
    [c \in Clients |-> [p \in Ports |->
        outcome[c][p]
            \cup (IF Pending(c, p).type = "read" THEN {e.store[Key(Pending(c, p))]} ELSE {})
            \cup (IF serving.from = c /\ serving.port = p /\ serving.op.type # "read" /\ e.ok
                  THEN {"ok"} ELSE {})]]

(* The operation on the backend, then the publication of dataman_response.  *)
AnswerRequest ==
    /\ serving # NoMessage
    /\ LET op == serving.op
           granted == op = GetId /\ clients_count < MaxId
       IN \E e \in Effects(op) \cup Failures(op) :
            /\ store' = e.store
            /\ clients_count' = IF granted THEN clients_count + 1 ELSE clients_count
            /\ response' = [stamp |-> IF granted THEN serving.from ELSE "none",
                            id |-> IF granted THEN clients_count ELSE serving.id,
                            op |-> [op EXCEPT !.value = Empty],
                            ok |-> e.ok, value |-> ValueRead(op, e)]
            /\ outcome' = Outcomes(e)
    /\ response_new' = [c \in Clients |-> TRUE]
    /\ serving' = NoMessage
    /\ Silent
    /\ UNCHANGED <<request, id, constructed, sync, state, active, status>>

----------------------------------------------------------------------------
(* Clients: synchronous operations.                                         *)

Publish(m) == request' = m

(* orb_copy() of dataman_response by client c.                              *)
Copy(c) ==
    /\ response_new' = [response_new EXCEPT ![c] = FALSE]
    /\ response' = IF \E d \in Clients \ {c} : response_new[d] THEN response ELSE NoResponse

(* History: an operation of client c begins or returns.                     *)
Opened(c, p, op) ==
    outcome' = [outcome EXCEPT ![c][p] = IF op.type = "read" THEN {store[Key(op)]} ELSE {}]
Closed(c, p, r) ==
    /\ outcome' = [outcome EXCEPT ![c][p] = {}]
    /\ returned' = [caller |-> <<c, p>>, result |-> r]
Retired(m, c, p) == IF m.from = c /\ m.port = p THEN [m EXCEPT !.port = "old"] ELSE m

(* readSync(), writeSync(), clearSync() and the constructor up to the first *)
(* px4_poll() of syncHandler().                                             *)
CallSync(c, op) ==
    /\ sync[c] = NoOp
    /\ sync' = [sync EXCEPT ![c] = op]
    /\ Publish(Message(c, "sync", op))
    /\ Opened(c, "sync", op)
    /\ Silent

(* Bound: constructors ask for ids as long as there are enough for all of   *)
(* them.  UINT8_MAX is beyond what a few clients with ten tries each use.   *)
IdsLeft == clients_count + Cardinality(Clients) <= MaxId

(* The constructor; its orb_copy() has discarded an answer already there.   *)
Construct(c) ==
    /\ ~constructed[c] /\ IdsLeft
    /\ CallSync(c, GetId)
    /\ Copy(c)
    /\ UNCHANGED <<store, serving, clients_count, id, constructed, state, active, status>>

(* readSync(), writeSync() or clearSync() called by the owner of a client.  *)
CallSyncOp(c, op) ==
    /\ constructed[c]
    /\ CallSync(c, op)
    /\ UNCHANGED <<store, serving, clients_count, response, response_new,
                   id, constructed, state, active, status>>

(* Mutant: a client without id takes any id that is handed out.             *)
AcceptsAnyId(c) ==
    IF response.id = id[c] THEN response.op = [sync[c] EXCEPT !.value = Empty]
    ELSE id[c] = NotSet /\ response.stamp # "none"

(* syncHandler() accepts the response: its own id, type, item and index, or *)
(* for a client without id the timestamp of the request it answers.         *)
Accepts(c) ==
    IF response.id = id[c] THEN response.op = [sync[c] EXCEPT !.value = Empty]
    ELSE id[c] = NotSet /\ response.stamp = c

(* What the accepted response makes the call return.                        *)
SyncResult(c) ==
    IF ~response.ok THEN "failed" ELSE IF sync[c].type = "read" THEN response.value ELSE "ok"

(* The call returns; m is what it leaves on dataman_request.                *)
Return(c, r, m) ==
    /\ sync' = [sync EXCEPT ![c] = NoOp]
    /\ constructed' = [constructed EXCEPT ![c] = TRUE]
    /\ IF sync[c] = GetId THEN UNCHANGED outcome /\ Silent ELSE Closed(c, "sync", r)
    /\ request' = Retired(m, c, "sync")
    /\ serving' = Retired(serving, c, "sync")

(* px4_poll() returns with a response, which orb_copy() consumes.           *)
ReceiveSync(c) ==
    /\ sync[c] # NoOp /\ response_new[c]
    /\ Copy(c)
    /\ \/ /\ Accepts(c)
          /\ Return(c, SyncResult(c), request)
          /\ id' = [id EXCEPT ![c] = IF sync[c] = GetId THEN response.id ELSE @]
       \/ /\ ~Accepts(c)
          /\ Silent
          /\ UNCHANGED <<serving, request, id, constructed, sync, outcome>>
       \/ /\ ~Accepts(c) /\ ~Prompt
          /\ Return(c, "failed", request)
          /\ UNCHANGED id
    /\ UNCHANGED <<store, clients_count, state, active, status>>

(* px4_poll() times out: the request is published again; if the timeout of  *)
(* the operation has passed too, the call then returns false all the same.  *)
RetrySync(c) ==
    /\ sync[c] # NoOp /\ ~response_new[c]
    /\ Prompt => ServerIdle
    /\ sync[c] = GetId => IdsLeft
    /\ \/ /\ Publish(Message(c, "sync", sync[c]))
          /\ Silent
          /\ UNCHANGED <<serving, constructed, sync, outcome>>
       \/ /\ ~Prompt
          /\ Return(c, "failed", Message(c, "sync", sync[c]))
    /\ UNCHANGED <<store, clients_count, response, response_new, id, state, active, status>>

----------------------------------------------------------------------------
(* Clients: asynchronous operations.  active and status are kept while they *)
(* are read: in RequestSent, and in ResponseReceived.                       *)

(* readAsync(), writeAsync() and clearAsync(); false, and nothing happens,  *)
(* unless the client is idle.                                               *)
CallAsync(c, op) ==
    /\ constructed[c] /\ sync[c] = NoOp /\ state[c] = "Idle"
    /\ state' = [state EXCEPT ![c] = "RequestSent"]
    /\ active' = [active EXCEPT ![c] = op]
    /\ Publish(Message(c, "async", op))
    /\ Opened(c, "async", op)
    /\ Silent
    /\ UNCHANGED <<store, serving, clients_count, response, response_new,
                   id, constructed, sync, status>>

(* Mutant: the answer may be to an aborted operation on another index.      *)
AnswersAnyIndex(c) ==
    /\ response_new[c] /\ response.id = id[c]
    /\ response.op.type = active[c].type /\ response.op.item = active[c].item

(* update() takes answers to the active request only.                       *)
Answers(c) == response_new[c] /\ response.id = id[c] /\ response.op = [active[c] EXCEPT !.value = Empty]

AsyncResult(c) ==
    IF ~response.ok THEN "failed" ELSE IF active[c].type = "read" THEN response.value ELSE "ok"

(* The asynchronous operation is over.                                      *)
Leave(c, next, r) ==
    /\ state' = [state EXCEPT ![c] = next]
    /\ active' = [active EXCEPT ![c] = NoOp]
    /\ status' = [status EXCEPT ![c] = next = "ResponseReceived" /\ response.ok]
    /\ request' = Retired(request, c, "async")
    /\ serving' = Retired(serving, c, "async")
    /\ IF state[c] = "RequestSent" THEN Closed(c, "async", r) ELSE UNCHANGED outcome /\ Silent

(* update() on the client, from a caller that is not inside syncHandler():  *)
(* takes the answer, or else publishes again once the retry time is over.   *)
(* received is "Idle" when lastOperationCompleted() follows in the same     *)
(* call.                                                                    *)
Update(c, received) ==
    /\ sync[c] = NoOp /\ state[c] = "RequestSent"
    /\ Copy(c)
    /\ \/ /\ Answers(c)
          /\ Leave(c, received, AsyncResult(c))
       \/ /\ ~Answers(c)
          /\ \/ (Prompt => ServerIdle) /\ Publish(Message(c, "async", active[c]))
             \/ UNCHANGED request
          /\ Silent
          /\ UNCHANGED <<serving, state, active, status, outcome>>
    /\ UNCHANGED <<store, clients_count, id, constructed, sync>>

(* abortCurrentOperation().                                                 *)
Abort(c) ==
    /\ Leave(c, "Idle", "failed")
    /\ UNCHANGED <<store, clients_count, response, response_new, id, constructed, sync>>

(* lastOperationCompleted() returning true.                                 *)
Complete(c) ==
    /\ sync[c] = NoOp /\ state[c] = "ResponseReceived"
    /\ Leave(c, "Idle", "ok")
    /\ UNCHANGED <<store, clients_count, response, response_new, id, constructed, sync>>

----------------------------------------------------------------------------
(* No two clients that have finished their constructor have the same id, so *)
(* an answer is never taken by a client it was not meant for.               *)
UniqueIds ==
    \A c, d \in Clients : c # d /\ constructed[c] /\ constructed[d] => id[c] # id[d]
=============================================================================
