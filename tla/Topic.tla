------------------------------- MODULE Topic -------------------------------
(***************************************************************************)
(* What a uORB topic promises its subscribers: a broadcast of numbered     *)
(* messages from which every subscriber takes the oldest one it has not    *)
(* seen, as long as it is among the last "capacity" that were published.   *)
(***************************************************************************)
EXTENDS Integers

CONSTANT Subscribers

VARIABLES
    published,  \* number of messages published; the n-th is message n
    capacity,   \* how many of the latest messages are kept
    subscribed, \* the subscribers that have not left
    seen        \* [subscriber -> the last message it was given]

vars == <<published, capacity, subscribed, seen>>

(* The message a subscriber gets next. *)
Oldest(s) ==
    IF seen[s] + 1 > published - capacity THEN seen[s] + 1 ELSE published - capacity + 1

Init ==
    /\ published = 0
    /\ capacity \in Nat \ {0}
    /\ subscribed = {}
    /\ seen = [s \in Subscribers |-> 0]

Publish == published' = published + 1 /\ UNCHANGED <<capacity, subscribed, seen>>

(* Before the first message the capacity may grow. *)
Grow ==
    /\ published = 0
    /\ capacity' \in Nat /\ capacity' > capacity
    /\ UNCHANGED <<published, subscribed, seen>>

(* A new subscriber is given the latest message, if there is one. *)
Subscribe(s) ==
    /\ s \notin subscribed
    /\ subscribed' = subscribed \cup {s}
    /\ seen' = [seen EXCEPT ![s] = IF published = 0 THEN 0 ELSE published - 1]
    /\ UNCHANGED <<published, capacity>>

Unsubscribe(s) ==
    /\ subscribed' = subscribed \ {s}
    /\ seen' = [seen EXCEPT ![s] = 0]
    /\ UNCHANGED <<published, capacity>>

Receive(s) ==
    /\ s \in subscribed
    /\ seen[s] < published
    /\ seen' = [seen EXCEPT ![s] = Oldest(s)]
    /\ UNCHANGED <<published, capacity, subscribed>>

Next ==
    \/ Publish \/ Grow
    \/ \E s \in Subscribers : Subscribe(s) \/ Unsubscribe(s) \/ Receive(s)

Spec == Init /\ [][Next]_vars
=============================================================================
