---------------------------- MODULE DatamanCache ----------------------------
(***************************************************************************)
(* DatamanCache (src/lib/dataman_client/DatamanClient.cpp): the ring of    *)
(* items in front of a client that the navigator's mission, geofence and   *)
(* rally point code reads from.  load() queues items, update() fetches     *)
(* them one at a time with the client's asynchronous read, loadWait() and  *)
(* writeWait() go to the client's synchronous operations.  The other       *)
(* clients of the data manager call operations of their own.               *)
(***************************************************************************)
EXTENDS Dataman

CONSTANTS
    Nav,            \* the client behind the cache
    Sizes,          \* sizes the cache is given
    NavWrites,      \* values the cache's owner writes
    NavKeys,        \* keys it reads and writes without loading them first
    OthersOps       \* operations the other clients call

ASSUME CacheAssumption ==
    /\ Nav \in Clients
    /\ Sizes \subseteq Nat \ {0} /\ \A n \in Sizes : 1 .. n \subseteq Indices
    /\ NavWrites \subseteq Contents /\ NavKeys \subseteq Keys /\ OthersOps \subseteq Op

VARIABLE cache      \* items, load_index, update_index, item_counter, buffer; history:
                    \* failed, that a load has failed since the last invalidate()

cacheVars == <<vars, cache>>
Others == Clients \ {Nav}
Slots == DOMAIN cache.items
NumItems == Cardinality(Slots)

(* since is history: the values the key had since the slot was loaded, or   *)
(* since the cache's owner last wrote it.                                   *)
CacheStates == {"Idle", "RequestPrepared", "RequestSent", "ResponseReceived", "Error"}
Slot == [state : CacheStates,
         key : Keys \cup {<<"none", "none">>}, data : Contents, since : SUBSET Contents]
FreshSlot == [state |-> "Idle", key |-> <<"none", "none">>, data |-> Empty, since |-> {}]
At(i) == cache.items[i]
Matching(key) == {i \in Slots : At(i).key = key}

CacheInit ==
    /\ Init
    /\ \E n \in Sizes : cache = [items |-> [i \in 0 .. n - 1 |-> FreshSlot], load_index |-> 0,
                                 update_index |-> 0, item_counter |-> 0, buffer |-> 0,
                                 failed |-> FALSE]

(* Indices of the ring stay inside it, whatever is loaded, read or resized. *)
CacheTypeOK ==
    /\ TypeOK
    /\ \E n \in Sizes :
        cache \in [items : [0 .. n - 1 -> Slot], load_index : 0 .. n - 1, update_index : 0 .. n - 1,
                   item_counter : 0 .. n, buffer : Nat, failed : BOOLEAN]

NavMayCall == constructed[Nav] /\ sync[Nav] = NoOp

----------------------------------------------------------------------------
(* Operators on the ring.                                                   *)

(* Mutant: the item is not counted.                                         *)
InsertUncounted(ch, slot) ==
    [ch EXCEPT !.items[ch.load_index] = slot,
               !.load_index = (@ + 1) % Cardinality(DOMAIN ch.items)]

(* Puts a slot at the load index.                                           *)
Insert(ch, slot) ==
    [ch EXCEPT !.items[ch.load_index] = slot,
               !.load_index = (@ + 1) % Cardinality(DOMAIN ch.items),
               !.item_counter = @ + 1]

(* load(): nothing for a duplicate, or when the ring is full.               *)
Loaded(ch, key) ==
    IF (\E i \in DOMAIN ch.items :
            ch.items[i].key = key /\ ch.items[i].state \notin {"Idle", "Error"})
        \/ ch.item_counter >= Cardinality(DOMAIN ch.items)
    THEN ch
    ELSE Insert(ch, [ch.items[ch.load_index] EXCEPT !.state = "RequestPrepared", !.key = key,
                                                   !.since = {store[key]}])

(* changeUpdateIndex().                                                     *)
ChangeUpdateIndex(ch) ==
    [ch EXCEPT !.update_index = (@ + 1) % Cardinality(DOMAIN ch.items),
               !.item_counter = IF @ > 0 THEN @ - 1 ELSE @]

(* The end of update(): an Error at the update index is skipped.            *)
SkipError(ch) ==
    IF ch.items[ch.update_index].state = "Error" THEN ChangeUpdateIndex(ch) ELSE ch

(* Mutant: the indices stay where they are.                                 *)
InvalidatedInPlace(ch) ==
    [ch EXCEPT !.items = [i \in DOMAIN ch.items |-> [FreshSlot EXCEPT !.key = ch.items[i].key]],
               !.item_counter = 0, !.failed = FALSE]

(* invalidate(), without the abort of the client's operation.  The data of  *)
(* an idle slot, which is never read, is dropped; its key is compared.      *)
Invalidated(ch) ==
    [ch EXCEPT !.items = [i \in DOMAIN ch.items |-> [FreshSlot EXCEPT !.key = ch.items[i].key]],
               !.update_index = 0, !.load_index = 0, !.item_counter = 0, !.failed = FALSE]

(* resize(): slots are kept by position, the indices as they are.           *)
Resized(ch, n) ==
    [ch EXCEPT !.items = [i \in 0 .. n - 1 |-> IF i \in DOMAIN ch.items THEN ch.items[i] ELSE FreshSlot]]

(* load() of the indices 1 to n of an item, into an empty ring of n slots.  *)
Filled(ch, item, n) ==
    [ch EXCEPT !.items = [i \in 0 .. n - 1 |->
                    [@[i] EXCEPT !.state = "RequestPrepared", !.key = <<item, i + 1>>,
                                 !.since = {store[<<item, i + 1>>]}]],
               !.item_counter = n]

----------------------------------------------------------------------------
(* The owner of the cache.                                                  *)

(* load(), called for the items that are about to be needed.                *)
Load(key) ==
    /\ NavMayCall
    /\ Loaded(cache, key) # cache
    /\ cache' = Loaded(cache, key)
    /\ Silent
    /\ UNCHANGED <<store, topics, clientVars, outcome>>

(* MissionBase::onMissionUpdate(): invalidate().                            *)
Invalidate ==
    /\ NavMayCall
    /\ Abort(Nav)
    /\ cache' = Invalidated(cache)

(* Geofence::run() with new statistics: invalidate(), resize() and load().  *)
Renew(item, n) ==
    /\ NavMayCall
    /\ Abort(Nav)
    /\ cache' = Filled(Resized(Invalidated(cache), n), item, n)

(* update(): the client's update(), then the slot at the update index.      *)
Fetch ==
    /\ NavMayCall /\ cache.item_counter > 0
    /\ At(cache.update_index).state = "RequestPrepared" /\ state[Nav] = "Idle"
    /\ LET key == At(cache.update_index).key
       IN CallAsync(Nav, OpOf("read", key[1], key[2], Empty))
    /\ cache' = [cache EXCEPT !.items[cache.update_index].state = "RequestSent",
                              !.buffer = cache.update_index]

(* The slot's step once the client's update() is done.                      *)
Advanced(ch, completed, ok) ==
    LET slot == ch.items[ch.update_index].state
        moved(s) == [ch EXCEPT !.items[ch.update_index].state = s,
                               !.failed = @ \/ s = "Error"]
    IN SkipError(
         CASE slot = "ResponseReceived" -> ChangeUpdateIndex(ch)
           [] slot = "RequestPrepared" -> moved("Error")
           [] slot = "RequestSent" /\ completed /\ ok -> ChangeUpdateIndex(moved("ResponseReceived"))
           [] slot = "RequestSent" /\ completed /\ ~ok -> moved("Error")
           [] OTHER -> ch)

UpdateCache ==
    /\ NavMayCall /\ cache.item_counter > 0
    /\ ~(At(cache.update_index).state = "RequestPrepared" /\ state[Nav] = "Idle")
    /\ LET waiting == At(cache.update_index).state = "RequestSent"
           answered == state[Nav] = "RequestSent" /\ Answers(Nav)
           filled == IF answered /\ cache.buffer \in Slots
                     THEN [cache EXCEPT !.items[cache.buffer].data = response.value] ELSE cache
       IN /\ IF state[Nav] = "RequestSent" THEN Update(Nav, IF waiting THEN "Idle" ELSE "ResponseReceived")
             ELSE IF waiting /\ state[Nav] = "ResponseReceived" THEN Complete(Nav)
             ELSE Silent /\ UNCHANGED <<store, topics, clientVars, outcome>>
          /\ cache' = Advanced(filled, answered \/ state[Nav] = "ResponseReceived",
                               IF answered THEN response.ok ELSE status[Nav])

(* loadWait(), when the item is not cached.                                 *)
LoadWait(key) ==
    /\ \A i \in Matching(key) : At(i).state # "ResponseReceived"
    /\ CallSyncOp(Nav, OpOf("read", key[1], key[2], Empty))
    /\ UNCHANGED cache

(* writeWait().                                                             *)
WriteWait(key, value) ==
    /\ CallSyncOp(Nav, OpOf("write", key[1], key[2], value))
    /\ UNCHANGED cache

(* The rest of loadWait(): the item read is cached unless its key is there. *)
Remembered(key, value) ==
    IF Matching(key) # {} \/ cache.item_counter >= NumItems THEN cache
    ELSE Insert(cache, [state |-> "ResponseReceived", key |-> key, data |-> value,
                        since |-> outcome[Nav]["sync"]])

(* Mutant: the slot keeps what it had.                                      *)
OverwrittenNot(key, value) ==
    [cache EXCEPT !.items = [i \in Slots |->
        IF i \in Matching(key) THEN [@[i] EXCEPT !.since = {value, store[key]}] ELSE @[i]]]

(* The rest of writeWait(): the first slot of the key that is loaded, or    *)
(* has not been requested yet, takes the value.                             *)
Overwritten(key, value) ==
    LET hits == {i \in Matching(key) : At(i).state \in {"ResponseReceived", "RequestPrepared"}}
        first == CHOOSE i \in hits : \A j \in hits : i <= j
    IN [cache EXCEPT !.items = [i \in Slots |->
            IF i \notin Matching(key) THEN @[i]
            ELSE IF hits # {} /\ i = first
            THEN [@[i] EXCEPT !.state = "ResponseReceived", !.data = value, !.since = {value, store[key]}]
            ELSE [@[i] EXCEPT !.since = {value, store[key]}]]]

NavReceive ==
    /\ ReceiveSync(Nav)
    /\ LET op == sync[Nav]
           success == Accepts(Nav) /\ response.ok
       IN cache' = CASE success /\ op.type = "read" -> Remembered(Key(op), response.value)
                     [] success /\ op.type = "write" -> Overwritten(Key(op), op.value)
                     [] OTHER -> cache

----------------------------------------------------------------------------
Server ==
    \/ TakeRequest /\ UNCHANGED cache
    \/ /\ AnswerRequest
       /\ cache' = [cache EXCEPT !.items = [i \in Slots |->
                IF At(i).key \in Keys THEN [At(i) EXCEPT !.since = @ \cup {store'[At(i).key]}] ELSE At(i)]]

Other(c) ==
    /\ \/ \E op \in OthersOps : CallSyncOp(c, op)
       \/ ReceiveSync(c)
    /\ UNCHANGED cache

Start == \E c \in Clients : (Construct(c) \/ RetrySync(c)) /\ UNCHANGED cache

CacheNext ==
    \/ Server
    \/ Start
    \/ \E c \in Others : Other(c)
    \/ NavReceive
    \/ \E key \in Keys : Load(key)
    \/ \E key \in NavKeys : LoadWait(key)
    \/ \E key \in NavKeys, value \in NavWrites : WriteWait(key, value)
    \/ Invalidate
    \/ \E item \in Items, n \in Sizes : Renew(item, n)
    \/ Fetch
    \/ UpdateCache

CacheSpec == CacheInit /\ [][CacheNext]_cacheVars

----------------------------------------------------------------------------
(* The clients, the topics and the server implement the store that the      *)
(* documentation of DatamanClient describes: no lost or ghost write, no     *)
(* success without effect, no stale read.                                   *)
Callers == Clients \X Ports
Store == INSTANCE DatamanStore WITH
    pending <- [c \in Callers |-> IF Pending(c[1], c[2]) = GetId THEN NoOp ELSE Pending(c[1], c[2])],
    outcome <- [c \in Callers |-> outcome[c[1]][c[2]]]
ImplementsStore == Store!Spec

(* loadWait() "loads for a specific item from the cache", writeWait()       *)
(* updates "it in the cache if stored" (DatamanClient.hpp:223, 238): data   *)
(* the cache hands out is a value the item had since it was loaded, or      *)
(* since the cache's owner last wrote it.                                   *)
CachedIsCurrent == \A i \in Slots : At(i).state = "ResponseReceived" => At(i).data \in At(i).since

(* This holds as long as no load has failed since invalidate(), for any     *)
(* interleaving of fills, writes, aborted fills and operations of other     *)
(* clients.                                                                 *)
CurrentUntilFailure == ~cache.failed => CachedIsCurrent

(* isLoading(), "true if there are items to be processed"                   *)
(* (DatamanClient.hpp:265): update() goes on as long as an item waits to be *)
(* requested or answered, and no load has failed.                           *)
LoadingIsCounted ==
    ~cache.failed /\ cache.item_counter = 0 =>
        \A i \in Slots : At(i).state \notin {"RequestPrepared", "RequestSent"}
=============================================================================
