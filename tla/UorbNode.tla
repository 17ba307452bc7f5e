------------------------------ MODULE UorbNode ------------------------------
(***************************************************************************)
(* One uORB node (platforms/common/uORB/uORBDeviceNode.cpp and .hpp), its  *)
(* publishers (Publication.hpp, Manager::orb_advertise_multi()) and its    *)
(* subscribers (Subscription.hpp, SubscriptionCallback.hpp,                *)
(* SubscriptionBlocking.hpp), each in a thread of its own.                 *)
(*                                                                         *)
(* A message is the number of its publication.  A section between          *)
(* ATOMIC_ENTER and ATOMIC_LEAVE, or between lock() and unlock(), is a     *)
(* step.  Generations are unsigned integers modulo GenMod.                 *)
(***************************************************************************)
EXTENDS Integers, QueueSize

CONSTANTS
    Publishers,
    Pollers,        \* subscriptions that are read at any time
    WorkItems,      \* SubscriptionCallbackWorkItem, read until empty when scheduled
    Blockers,       \* SubscriptionBlocking
    QueueSizeOf,    \* [publisher -> queue size it advertises with]
    Required,       \* set_required_updates()
    Withdrawals,    \* how publishers withdraw: "unadvertise", "destroy"
    TimedWait,      \* updatedBlocking() is called with a timeout
    GenMod,         \* 2^32
    MaxPublished    \* bound on the number of publications

Subscribers == Pollers \cup WorkItems \cup Blockers

ASSUME SubscribersAssumption ==
    Pollers \cap WorkItems = {} /\ Pollers \cap Blockers = {} /\ WorkItems \cap Blockers = {}
ASSUME QueueSizeAssumption == QueueSizeOf \in [Publishers -> 0 .. 255]
ASSUME GenModAssumption ==
    GenMod \in Nat \ {0, 1} /\ \A p \in Publishers : GenMod % RoundPowOfTwo8(QueueSizeOf[p]) = 0
ASSUME RequiredAssumption == Required \in Nat /\ MaxPublished \in Nat

VARIABLES
    data,        \* _data: [slot -> message], without slots when it is not allocated
    data_valid,  \* _data_valid
    generation,  \* _generation
    advertised,  \* _advertised
    queue_size,  \* _queue_size
    callbacks,   \* _callbacks
    pub,         \* [publisher -> where it is]
    valid,       \* subscriptions whose _node is not nullptr
    last,        \* [subscriber -> _last_generation]
    sub,         \* [subscriber -> where it is]
    scheduled,   \* work items that ScheduleNow() has queued
    \* History, read by properties and bounds only.
    published,   \* number of publications
    seen,        \* [subscriber -> last message copied to it]
    since        \* [subscriber -> publications that were not to schedule it]

node == <<data, data_valid, generation, advertised, queue_size>>
history == <<published, seen, since>>
vars == <<node, callbacks, pub, valid, last, sub, scheduled, history>>

NoData == [slot \in {} |-> 0]
Allocated == data # NoData

Init ==
    /\ data = NoData /\ data_valid = FALSE
    /\ generation = 0
    /\ advertised = FALSE
    /\ queue_size = RoundPowOfTwo8(1)
    /\ callbacks = {}
    /\ pub = [p \in Publishers |-> "none"]
    /\ valid = {}
    /\ last = [s \in Subscribers |-> 0]
    /\ sub = [s \in Subscribers |-> "idle"]
    /\ scheduled = {}
    /\ published = 0
    /\ seen = [s \in Subscribers |-> 0]
    /\ since = [s \in Subscribers |-> 0]

-----------------------------------------------------------------------------
(* Publishers. *)

(* node_open() of orb_advertise_multi(): the node is marked. *)
Advertise(p) ==
    /\ pub[p] = "none"
    /\ advertised' = TRUE
    /\ pub' = [pub EXCEPT ![p] = "opened"]
    /\ UNCHANGED <<data, data_valid, generation, queue_size, callbacks, valid, last, sub,
                   scheduled, history>>

(* Mutant: the size is changed although the buffer is allocated. *)
NewQueueSizeAnyTime(size) ==
    IF queue_size = size \/ queue_size > size \/ size > 255
    THEN queue_size ELSE RoundPowOfTwo8(size)

(* update_queue_size() *)
NewQueueSize(size) ==
    IF queue_size = size \/ Allocated \/ queue_size > size \/ size > 255
    THEN queue_size ELSE RoundPowOfTwo8(size)

SetQueueSize(p) ==
    /\ pub[p] = "opened"
    /\ queue_size' = NewQueueSize(QueueSizeOf[p])
    /\ pub' = [pub EXCEPT ![p] = "idle"]
    /\ UNCHANGED <<data, data_valid, generation, advertised, callbacks, valid, last, sub,
                   scheduled, history>>

(* write(): the buffer is allocated and zeroed under the lock if there is   *)
(* none.                                                                    *)
Allocate(p) ==
    /\ pub[p] = "idle"
    /\ published < MaxPublished
    /\ data' = IF Allocated THEN data ELSE [slot \in 0 .. queue_size - 1 |-> 0]
    /\ pub' = [pub EXCEPT ![p] = "write"]
    /\ UNCHANGED <<data_valid, generation, advertised, queue_size, callbacks, valid, last, sub,
                   scheduled, history>>

Available(gen, s) == (gen - last[s]) % GenMod

(* Mutant: the callback asks for more than the required updates. *)
CalledAboveRequired(gen) ==
    {s \in callbacks \cap WorkItems :
        advertised /\ Available(gen, s) > Required /\ Available(gen, s) # 0}

(* SubscriptionCallbackWorkItem::call() schedules these. *)
Called(gen) ==
    {s \in callbacks \cap WorkItems :
        advertised /\ Available(gen, s) >= Required /\ Available(gen, s) # 0}

(* Nobody is a full turn of the generation behind: "wrap-around happens     *)
(* after ~49 days".                                                         *)
NoFullTurn == \A s \in valid : published + 1 - seen[s] < GenMod

(* History: publications up to n came without a callback to rely on.        *)
Forgotten(n) == [s \in Subscribers |-> IF s \in callbacks \cap WorkItems THEN n ELSE 0]

(* write(): the atomic section with its callbacks.  A SubscriptionBlocking  *)
(* that waits is woken.                                                     *)
Write(p) ==
    /\ pub[p] = "write"
    /\ NoFullTurn
    /\ generation' = (generation + 1) % GenMod
    /\ published' = published + 1
    /\ data' = [data EXCEPT ![generation % queue_size] = published + 1]
    /\ scheduled' = scheduled \cup Called(generation')
    /\ sub' = [s \in Subscribers |->
                  IF s \in callbacks \cap Blockers /\ sub[s] = "blocked" THEN "woken" ELSE sub[s]]
    /\ data_valid' = TRUE
    /\ pub' = [pub EXCEPT ![p] = "idle"]
    /\ since' = IF advertised THEN since ELSE Forgotten(published + 1)
    /\ UNCHANGED <<advertised, queue_size, callbacks, valid, last, seen>>

(* PublicationBase::unadvertise(): the handle stays. *)
Unadvertise(p) ==
    /\ "unadvertise" \in Withdrawals
    /\ pub[p] = "idle"
    /\ advertised' = FALSE
    /\ since' = Forgotten(published)
    /\ UNCHANGED <<data, data_valid, generation, queue_size, callbacks, pub, valid, last, sub,
                   scheduled, published, seen>>

(* ~PublicationBase(): "don't automatically unadvertise queued publications" *)
DestroyPublication(p) ==
    /\ "destroy" \in Withdrawals
    /\ pub[p] = "idle"
    /\ advertised' = (advertised /\ queue_size # 1)
    /\ pub' = [pub EXCEPT ![p] = "none"]
    /\ since' = IF queue_size = 1 THEN Forgotten(published) ELSE since
    /\ UNCHANGED <<data, data_valid, generation, queue_size, callbacks, valid, last, sub,
                   scheduled, published, seen>>

-----------------------------------------------------------------------------
(* Subscriptions. *)

(* Mutant: a subscriber is told of a publication when there is none. *)
InitialGenerationAlways == (generation - 1) % GenMod

(* get_initial_generation() *)
InitialGeneration == (generation - (IF data_valid THEN 1 ELSE 0)) % GenMod

(* subscribe(), from the constructor or from updated(), update() or copy(). *)
Subscribe(s) ==
    /\ s \notin valid
    /\ valid' = valid \cup {s}
    /\ last' = [last EXCEPT ![s] = InitialGeneration]
    /\ seen' = [seen EXCEPT ![s] = IF published = 0 THEN 0 ELSE published - 1]
    /\ UNCHANGED <<node, callbacks, pub, sub, scheduled, published, since>>

(* Mutant: the callback of a subscription that goes away stays registered. *)
UnsubscribeRegistered(s) ==
    /\ s \in valid /\ sub[s] = "idle"
    /\ valid' = valid \ {s}
    /\ last' = [last EXCEPT ![s] = 0]
    /\ UNCHANGED <<node, callbacks, pub, sub, scheduled, history>>

Unsubscribe(s) ==
    /\ s \in valid \ callbacks /\ sub[s] = "idle"
    /\ valid' = valid \ {s}
    /\ last' = [last EXCEPT ![s] = 0]
    /\ seen' = [seen EXCEPT ![s] = 0]
    /\ UNCHANGED <<node, callbacks, pub, sub, scheduled, published, since>>

RegisterCallback(s) ==
    /\ s \in (WorkItems \cup Blockers) \cap valid /\ s \notin callbacks
    /\ callbacks' = callbacks \cup {s}
    /\ since' = [since EXCEPT ![s] = IF s \in WorkItems THEN published ELSE 0]
    /\ UNCHANGED <<node, pub, valid, last, sub, scheduled, published, seen>>

UnregisterCallback(s) ==
    /\ s \in callbacks /\ sub[s] = "idle"
    /\ callbacks' = callbacks \ {s}
    /\ since' = [since EXCEPT ![s] = 0]
    /\ UNCHANGED <<node, pub, valid, last, sub, scheduled, published, seen>>

(* Manager::updates_available() *)
Updated(s) == advertised /\ Available(generation, s) # 0

Goto(s, place) == sub' = [sub EXCEPT ![s] = place]

Local == UNCHANGED <<node, callbacks, pub, valid, last, history>>

(* update() and copy(): the tests of orb_data_copy() and of copy().  A      *)
(* SubscriptionBlocking has them too.                                       *)
Update(s) ==
    /\ s \in (Pollers \cup Blockers) \cap valid /\ sub[s] = "idle"
    /\ Updated(s) /\ Allocated
    /\ Goto(s, "copy")
    /\ Local /\ UNCHANGED scheduled

Copy(s) ==
    /\ s \in (Pollers \cup Blockers) \cap valid /\ sub[s] = "idle"
    /\ advertised /\ Allocated
    /\ Goto(s, "copy")
    /\ Local /\ UNCHANGED scheduled

(* The worker takes the item and reads until update() returns false. *)
Run(s) ==
    /\ s \in scheduled /\ sub[s] = "idle"
    /\ scheduled' = scheduled \ {s}
    /\ Goto(s, "run")
    /\ Local

RunUpdate(s) ==
    /\ s \in valid /\ sub[s] = "run"
    /\ Goto(s, IF Updated(s) /\ Allocated THEN "copy" ELSE "idle")
    /\ Local /\ UNCHANGED scheduled

(* updateBlocking(): tests, and waits if there is nothing. *)
UpdateBlocking(s) ==
    /\ s \in Blockers \cap callbacks /\ sub[s] = "idle"
    /\ Goto(s, IF Updated(s) THEN "try" ELSE "wait")
    /\ Local /\ UNCHANGED scheduled

CondWait(s) ==
    /\ sub[s] = "wait"
    /\ Goto(s, "blocked")
    /\ Local /\ UNCHANGED scheduled

Timeout(s) ==
    /\ TimedWait /\ sub[s] = "blocked"
    /\ Goto(s, "idle")
    /\ Local /\ UNCHANGED scheduled

Woken(s) ==
    /\ sub[s] = "woken"
    /\ Goto(s, IF Updated(s) THEN "try" ELSE "idle")
    /\ Local /\ UNCHANGED scheduled

TryCopy(s) ==
    /\ sub[s] = "try"
    /\ Goto(s, IF advertised /\ Allocated THEN "copy" ELSE "idle")
    /\ Local /\ UNCHANGED scheduled

Return(s) == IF s \in WorkItems THEN "run" ELSE "idle"

(* is_in_range() *)
IsInRange(left, value, right) ==
    IF right > left THEN left <= value /\ value <= right ELSE left <= value \/ value <= right

(* Mutant: a reader that was overtaken goes on where it was. *)
ReadGenerationOvertaken(s) == (last[s] - (IF last[s] = generation THEN 1 ELSE 0)) % GenMod

(* The generation that copy() reads from a queue. *)
ReadGeneration(s) ==
    LET gen == (last[s] - (IF last[s] = generation THEN 1 ELSE 0)) % GenMod
        oldest == (generation - queue_size) % GenMod
    IN  IF IsInRange(oldest, gen, (generation - 1) % GenMod) THEN gen ELSE oldest

(* copy() of the node: the atomic section; then, for a queue, ++generation. *)
CopyLatest(s) ==
    /\ sub[s] = "copy" /\ queue_size = 1
    /\ seen' = [seen EXCEPT ![s] = data[0]]
    /\ last' = [last EXCEPT ![s] = generation]
    /\ Goto(s, Return(s))
    /\ UNCHANGED <<node, callbacks, pub, valid, scheduled, published, since>>

CopyQueued(s) ==
    /\ sub[s] = "copy" /\ queue_size # 1
    /\ seen' = [seen EXCEPT ![s] = data[ReadGeneration(s) % queue_size]]
    /\ last' = [last EXCEPT ![s] = ReadGeneration(s)]
    /\ Goto(s, "increment")
    /\ UNCHANGED <<node, callbacks, pub, valid, scheduled, published, since>>

Increment(s) ==
    /\ sub[s] = "increment"
    /\ last' = [last EXCEPT ![s] = (last[s] + 1) % GenMod]
    /\ Goto(s, Return(s))
    /\ UNCHANGED <<node, callbacks, pub, valid, scheduled, history>>

-----------------------------------------------------------------------------
PublisherStep(p) ==
    \/ Advertise(p) \/ SetQueueSize(p) \/ Allocate(p) \/ Write(p)
    \/ Unadvertise(p) \/ DestroyPublication(p)

Management(s) ==
    Subscribe(s) \/ Unsubscribe(s) \/ RegisterCallback(s) \/ UnregisterCallback(s)

SubscriberStep(s) ==
    \/ Update(s) \/ Copy(s) \/ Run(s) \/ RunUpdate(s)
    \/ UpdateBlocking(s) \/ CondWait(s) \/ Timeout(s) \/ Woken(s) \/ TryCopy(s)
    \/ CopyLatest(s) \/ CopyQueued(s) \/ Increment(s)

Next ==
    \/ \E p \in Publishers : PublisherStep(p)
    \/ \E s \in Subscribers : Management(s) \/ SubscriberStep(s)

Spec == Init /\ [][Next]_vars

-----------------------------------------------------------------------------
(* Properties. *)

(* Types of the variables. *)
TypeOK ==
    /\ data \in [DOMAIN data -> Nat]
    /\ data_valid \in BOOLEAN /\ advertised \in BOOLEAN
    /\ generation \in 0 .. GenMod - 1
    /\ queue_size \in QueueSizes
    /\ callbacks \subseteq valid /\ valid \subseteq Subscribers
    /\ pub \in [Publishers -> {"none", "opened", "idle", "write"}]
    /\ last \in [Subscribers -> 0 .. GenMod - 1]
    /\ sub \in [Subscribers -> {"idle", "run", "try", "wait", "blocked", "woken", "copy",
                                "increment"}]
    /\ scheduled \subseteq WorkItems
    /\ published \in Nat /\ seen \in [Subscribers -> Nat] /\ since \in [Subscribers -> Nat]

(* The buffer always has the slots that publishers and subscribers index:   *)
(* two publishers that advertise different sizes, one of them after the     *)
(* first publication, do not change it (uORBDeviceNode.cpp:185-195,         *)
(* 486-499).                                                                *)
BufferHasQueueSize == Allocated => DOMAIN data = 0 .. queue_size - 1

(* A subscriber's counter stands for the message it has seen, also when     *)
(* the generation has wrapped around.                                       *)
GenerationsCountMessages ==
    /\ generation = published % GenMod
    /\ \A s \in valid : sub[s] # "increment" => last[s] = seen[s] % GenMod

(* The node implements the topic: whatever the interleaving and across the  *)
(* wrap-around of generations, copy() gives a subscriber the oldest message *)
(* it has not seen of those that are kept, or the latest one again          *)
(* (uORBDeviceNode.hpp:234-272).                                            *)
AbstractTopic == INSTANCE Topic WITH capacity <- queue_size, subscribed <- valid

ImplementsTopic == AbstractTopic!Spec

(* A work item with enough unread messages, of which one was published when *)
(* its callback was registered and the topic, since then, advertised, is    *)
(* scheduled or running (SubscriptionCallback.hpp:163-172).                 *)
WakeupNotLost ==
    \A s \in callbacks \cap WorkItems :
        /\ sub[s] = "idle"
        /\ published > since[s] /\ published > seen[s]
        /\ published - seen[s] >= Required
        => s \in scheduled

(* "Block until updated": a subscriber does not sleep, with nothing to wake *)
(* it, on a message it has not read (SubscriptionBlocking.hpp:101).         *)
BlockedIsNotUpdated == \A s \in Blockers : sub[s] = "blocked" => ~Updated(s)

(* Several publishers of instance 0: _advertised "has no effect at all", so *)
(* the ones that remain are heard when one unadvertises                     *)
(* (uORBDeviceNode.cpp:337-340).                                            *)
RemainingPublishersAreHeard ==
    (\E p \in Publishers : pub[p] # "none") => advertised
=============================================================================
