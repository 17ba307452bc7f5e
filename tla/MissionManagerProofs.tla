------------------------- MODULE MissionManagerProofs -------------------------
(* Theorems about the mission manager, for any links, plans, limit on their  *)
(* length, capacity of the links and failures of the storage, unless a      *)
(* theorem says otherwise.                                                  *)
EXTENDS MissionManager, TLAPS

(* The provers a step is tried with unless it names one, and their time.    *)
USE ZenonT(30), SMTT(30)

-----------------------------------------------------------------------------
(* Types, stronger than TypeOK: what a message of each kind carries, what a *)
(* transfer in progress and an upload of the ground station have in common. *)

Elems(q) == {q[i] : i \in 1 .. Len(q)}
Queue(S) == {q \in Seq(S) : Len(q) <= Capacity}
Lengths(t) == {Plans[t][p] : p \in DOMAIN Plans[t]}
Contents == PlanItems \cup {NoItem} \cup {<<c, 0>> : c \in Codes}

Uplink == {m \in Messages : /\ m.kind # "clear_all" => m.type \in Types
                            /\ m.kind = "item" => m.content \in PlanItems
                            /\ m.kind = "count" => m.n \in Lengths(m.type)}
Downlink == {m \in Messages : m.kind = "request" => m.n < MaxCount}

Fields == [state : {"IDLE", "SENDLIST", "GETLIST"}, type : TypesOrAll, seq : 0 .. MaxCount,
           count : 0 .. MaxCount, bank : {"wp0", "wp1"}]
Manager == {m \in Fields : /\ m.state # "IDLE" => m.type \in Types /\ m.seq <= m.count
                           /\ m.state = "GETLIST" => m.seq < m.count /\ m.count \in Lengths(m.type)}

Phases == {"idle", "offering", "accepted", "listing", "fetching", "downloaded"}
Transfer == [phase : Phases, type : Types, plan : PlanNames \cup {"none"}, next : Nat, got : Seq(Contents),
             total : Nat, mixed : BOOLEAN]
Station == {g \in Transfer : g.phase \in {"offering", "accepted"} =>
                                /\ g.plan \in DOMAIN Plans[g.type]
                                /\ g.next <= Length(g) /\ g.next <= MaxCount}

CountsTyped ==
    /\ stored \in [mission : [bank : {"wp0", "wp1"}, count : 0 .. MaxCount], fence : 0 .. MaxCount]
    /\ active \in {"wp0", "wp1"} /\ count \in [Types -> 0 .. MaxCount]
TypeInv ==
    /\ items \in [Banks -> [0 .. MaxCount - 1 -> PlanItems \cup {NoItem}]]
    /\ CountsTyped /\ in_progress \in BOOLEAN
    /\ wpm \in [Links -> Manager]
    /\ up \in [Links -> Queue(Uplink)] /\ down \in [Links -> Queue(Downlink)]
    /\ gcs \in [Links -> Station]

-----------------------------------------------------------------------------
(* Queues.                                                                  *)

LEMMA SendQueue ==
    ASSUME NEW S, NEW q \in [Links -> Queue(S)], NEW l \in Links, NEW m \in S
    PROVE  /\ Send(q, l, m) \in [Links -> Queue(S)]
           /\ \A k \in Links : k # l => Send(q, l, m)[k] = q[k]
           /\ Elems(Send(q, l, m)[l]) \subseteq Elems(q[l]) \cup {m}
<1>1. q[l] \in Seq(S) /\ Len(q[l]) <= Capacity /\ Len(q[l]) \in Nat
  BY SMTT(30) DEF Queue
<1>2. CASE Len(q[l]) < Capacity
  <2>1. Send(q, l, m) = [q EXCEPT ![l] = Append(q[l], m)]
    BY <1>2 DEF Send
  <2>2. /\ Append(q[l], m) \in Seq(S) /\ Len(Append(q[l], m)) = Len(q[l]) + 1
        /\ \A i \in 1 .. Len(q[l]) + 1 : Append(q[l], m)[i] = IF i <= Len(q[l]) THEN q[l][i] ELSE m
    BY <1>1, SMTT(30)
  <2>3. Append(q[l], m) \in Queue(S)
    BY <1>1, <1>2, <2>2, PlansAssumption, SMTT(30) DEF Queue
  <2>4. Elems(Append(q[l], m)) \subseteq Elems(q[l]) \cup {m}
    BY <1>1, <2>2, SMTT(30) DEF Elems
  <2> QED  BY <2>1, <2>3, <2>4
<1>3. CASE ~(Len(q[l]) < Capacity)
  BY <1>3 DEF Send
<1> QED  BY <1>2, <1>3

LEMMA TailQueue ==
    ASSUME NEW S, NEW q \in [Links -> Queue(S)], NEW l \in Links, q[l] # <<>>
    PROVE  /\ [q EXCEPT ![l] = Tail(@)] \in [Links -> Queue(S)]
           /\ Head(q[l]) \in S /\ Head(q[l]) \in Elems(q[l])
           /\ Elems(Tail(q[l])) \subseteq Elems(q[l])
<1>1. q[l] \in Seq(S) /\ Len(q[l]) <= Capacity /\ Len(q[l]) \in Nat \ {0}
  BY SMTT(30) DEF Queue
<1>2. /\ Tail(q[l]) \in Seq(S) /\ Len(Tail(q[l])) = Len(q[l]) - 1
      /\ \A i \in 1 .. Len(q[l]) - 1 : Tail(q[l])[i] = q[l][i + 1]
      /\ Head(q[l]) = q[l][1] /\ Head(q[l]) \in S
  BY <1>1, SMTT(30)
<1>3. Tail(q[l]) \in Queue(S)
  BY <1>1, <1>2, PlansAssumption, SMTT(30) DEF Queue
<1>4. Elems(Tail(q[l])) \subseteq Elems(q[l]) /\ Head(q[l]) \in Elems(q[l])
  BY <1>1, <1>2, SMTT(30) DEF Elems
<1> QED  BY <1>2, <1>3, <1>4

-----------------------------------------------------------------------------
(* Types are preserved.                                                     *)

LEMMA Consumed ==
    ASSUME up \in [Links -> Queue(Uplink)], NEW l \in Links, NEW kind, Head1(l, kind), Consume(l)
    PROVE  /\ up' \in [Links -> Queue(Uplink)]
           /\ Head(up[l]) \in Uplink /\ Head(up[l]) \in Elems(up[l]) /\ Head(up[l]).kind = kind
           /\ \A k \in Links : Elems(up'[k]) \subseteq Elems(up[k])
<1>1. up[l] # <<>> /\ Head(up[l]).kind = kind /\ up' = [up EXCEPT ![l] = Tail(@)]
  BY DEF Head1, Consume
<1>2. /\ up' \in [Links -> Queue(Uplink)] /\ Head(up[l]) \in Uplink /\ Head(up[l]) \in Elems(up[l])
      /\ Elems(Tail(up[l])) \subseteq Elems(up[l])
  BY <1>1, TailQueue
<1> QED  BY <1>1, <1>2

LEMMA Replied ==
    ASSUME down \in [Links -> Queue(Downlink)], NEW l \in Links, NEW m \in Downlink, Reply(l, m)
    PROVE  /\ down' \in [Links -> Queue(Downlink)]
           /\ \A k \in Links : k # l => down'[k] = down[k]
           /\ Elems(down'[l]) \subseteq Elems(down[l]) \cup {m}
BY SendQueue, SMTT(30) DEF Reply

LEMMA AckTyped ==
    ASSUME NEW type \in TypesOrAll, NEW code \in Codes
    PROVE  Msg("ack", type, 0, <<code, 0>>) \in Downlink
BY DEF Msg, Downlink, Messages

LEMMA RequestTyped ==
    ASSUME NEW m \in Manager, m.state = "GETLIST"
    PROVE  Msg("request", m.type, m.seq, NoItem) \in Downlink
BY PlansAssumption, SMTT(30) DEF Msg, Downlink, Messages, Manager, Fields, TypesOrAll

LEMMA UpdateTyped ==
    ASSUME CountsTyped, NEW type, NEW bank \in {"wp0", "wp1"}, NEW n \in 0 .. MaxCount, NEW ok,
           UpdateCount(type, bank, n, ok)
    PROVE  CountsTyped'
BY SMTT(30) DEF CountsTyped, UpdateCount, UpdateActiveMission, UpdateGeofenceCount

LEMMA InactiveTyped == Inactive \in {"wp0", "wp1"} /\ Inactive # active
BY DEF Inactive

LEMMA EmptyTyped ==
    ASSUME CountsTyped, NEW type, NEW ok, UpdateCount(type, Inactive, 0, ok)
    PROVE  CountsTyped'
<1>1. PICK bank \in {"wp0", "wp1"} : bank = Inactive
  BY InactiveTyped
<1>2. UpdateCount(type, bank, 0, ok)
  BY <1>1
<1> QED  BY <1>2, UpdateTyped, PlansAssumption, SMTT(30)

LEMMA HandleCountTyped ==
    ASSUME TypeInv, NEW l \in Links, HandleCount(l)
    PROVE  TypeInv'
<1> DEFINE msg == Head(up[l])
           m == wpm[l]
           opened == [state |-> "GETLIST", type |-> msg.type, seq |-> 0, count |-> msg.n, bank |-> TransferBank]
<1>1. /\ up' \in [Links -> Queue(Uplink)] /\ msg \in Uplink /\ msg.kind = "count"
      /\ items' = items /\ gcs' = gcs
  BY Consumed DEF HandleCount, TypeInv
<1>2. msg.type \in Types /\ msg.n \in Lengths(msg.type) /\ msg.n \in Nat /\ m \in Manager
  BY <1>1 DEF Uplink, Messages, TypeInv
<1>3. msg.type \in TypesOrAll /\ m.type \in TypesOrAll
  BY <1>2 DEF TypesOrAll, Manager, Fields
<1>4. \A code \in Codes : \A t \in {msg.type, m.type} : Ack(l, t, code) => down' \in [Links -> Queue(Downlink)]
  BY <1>3, AckTyped, Replied DEF Ack, TypeInv
<1>5. CASE /\ m.state = "IDLE" /\ ~in_progress /\ Acceptable(msg.n)
           /\ in_progress' = TRUE
           /\ wpm' = [wpm EXCEPT ![l] = opened]
           /\ Request(l, opened)
           /\ UNCHANGED <<stored, active, count>>
  <2>1. opened \in Manager /\ opened.state = "GETLIST"
    BY <1>2, <1>3, <1>5, InactiveTyped, PlansAssumption, SMTT(30) DEF Manager, Fields, Acceptable, TransferBank
  <2>2. wpm' \in [Links -> Manager]
    BY <1>5, <2>1 DEF TypeInv
  <2>3. down' \in [Links -> Queue(Downlink)]
    BY <1>5, <2>1, RequestTyped, Replied DEF Request, TypeInv
  <2> QED  BY <1>1, <1>5, <2>2, <2>3 DEF TypeInv, CountsTyped
<1>6. CASE /\ m.state = "IDLE" /\ ~in_progress /\ msg.n = 0
           /\ wpm' = [wpm EXCEPT ![l].type = msg.type]
           /\ \E ok \in WriteOk("state") : UpdateCount(msg.type, Inactive, 0, ok)
           /\ Ack(l, msg.type, "accepted")
           /\ UNCHANGED in_progress
  <2>1. wpm' \in [Links -> Manager]
    BY <1>2, <1>3, <1>6 DEF TypeInv, Manager, Fields
  <2>2. CountsTyped'
    BY <1>6, EmptyTyped DEF TypeInv
  <2> QED  BY <1>1, <1>4, <1>6, <2>1, <2>2 DEF TypeInv, Codes
<1>7. CASE /\ m.state = "IDLE" /\ ~in_progress /\ msg.n > MaxCount
           /\ wpm' = [wpm EXCEPT ![l].type = msg.type]
           /\ Ack(l, msg.type, "no_space")
           /\ UNCHANGED <<stored, active, count, in_progress>>
  <2>1. wpm' \in [Links -> Manager]
    BY <1>2, <1>3, <1>7 DEF TypeInv, Manager, Fields
  <2> QED  BY <1>1, <1>4, <1>7, <2>1 DEF TypeInv, CountsTyped, Codes
<1>8. CASE Ack(l, m.type, "error") /\ UNCHANGED <<stored, active, count, in_progress, wpm>>
  BY <1>1, <1>4, <1>8 DEF TypeInv, CountsTyped, Codes
<1>9. CASE m.state = "GETLIST" /\ Request(l, m) /\ UNCHANGED <<stored, active, count, in_progress, wpm>>
  <2>1. down' \in [Links -> Queue(Downlink)]
    BY <1>2, <1>9, RequestTyped, Replied DEF Request, TypeInv
  <2> QED  BY <1>1, <1>9, <2>1 DEF TypeInv, CountsTyped
<1> QED  BY <1>5, <1>6, <1>7, <1>8, <1>9 DEF HandleCount

LEMMA TakeTyped ==
    ASSUME TypeInv, NEW l \in Links, NEW msg \in Uplink, msg.kind = "item",
           wpm[l].state = "GETLIST", Expected(wpm[l], msg), Take(l, msg)
    PROVE  /\ items' \in [Banks -> [0 .. MaxCount - 1 -> PlanItems \cup {NoItem}]]
           /\ CountsTyped' /\ in_progress' \in BOOLEAN /\ wpm' \in [Links -> Manager]
           /\ down' \in [Links -> Queue(Downlink)] /\ gcs' \in [Links -> Station]
<1> DEFINE m == wpm[l]
           next == [m EXCEPT !.seq = @ + 1]
<1>1. m \in Manager /\ m.type \in TypesOrAll /\ m.seq \in Nat /\ m.count \in Nat /\ m.seq < m.count
      /\ m.count <= MaxCount /\ m.bank \in {"wp0", "wp1"} /\ m.type \in Types
  BY PlansAssumption, SMTT(30) DEF TypeInv, Manager, Fields
<1>2. msg.n = m.seq /\ msg.content \in PlanItems
  BY DEF Expected, Uplink
<1>3. \A code \in Codes : Ack(l, m.type, code) => down' \in [Links -> Queue(Downlink)]
  BY <1>1, AckTyped, Replied DEF Ack, TypeInv
<1>4. \A ok : AckOf(m.type, ok) \in Codes
  BY DEF AckOf, Codes
<1>5. [m EXCEPT !.state = "IDLE"] \in Manager
  BY <1>1 DEF Manager, Fields
<1>6. CASE /\ items' = [items EXCEPT ![Bank(m.type, m.bank)][msg.n] = msg.content]
           /\ gcs' = [gcs EXCEPT ![l].mixed = @ \/ Plans[m.type][msg.content[1]] # m.count]
           /\ IF Last(m) THEN Complete(l, m)
              ELSE /\ wpm' = [wpm EXCEPT ![l] = next]
                   /\ Request(l, next)
                   /\ UNCHANGED <<stored, active, count, in_progress>>
  <2>1. items' \in [Banks -> [0 .. MaxCount - 1 -> PlanItems \cup {NoItem}]]
    BY <1>1, <1>2, <1>6, PlansAssumption DEF TypeInv, Bank, Banks
  <2>2. gcs' \in [Links -> Station]
    <3>1. gcs[l] \in Station
      BY DEF TypeInv
    <3>2. \A b \in BOOLEAN : [gcs[l] EXCEPT !.mixed = b] \in Station
      BY <3>1 DEF Station, Transfer, Length
    <3>3. PICK b \in BOOLEAN : b = (gcs[l].mixed \/ Plans[m.type][msg.content[1]] # m.count)
      OBVIOUS
    <3>4. gcs' = [gcs EXCEPT ![l] = [gcs[l] EXCEPT !.mixed = b]]
      BY <1>6, <3>3
    <3> QED  BY <3>2, <3>4 DEF TypeInv
  <2>3. CASE Last(m)
    <3>1. PICK ok \in WriteOk("state") : UpdateCount(m.type, m.bank, m.count, ok) /\ Ack(l, m.type, AckOf(m.type, ok))
      BY <1>6, <2>3 DEF Complete
    <3>2. CountsTyped'
      BY <1>1, <3>1, UpdateTyped, SMTT(30) DEF TypeInv
    <3>3. down' \in [Links -> Queue(Downlink)]
      BY <1>3, <1>4, <3>1
    <3>4. [Idle(m) EXCEPT !.seq = m.count] \in Manager
      BY <1>1 DEF Manager, Fields, Idle
    <3>5. wpm' \in [Links -> Manager] /\ in_progress' \in BOOLEAN
      BY <1>6, <2>3, <3>4 DEF Complete, TypeInv
    <3> QED  BY <2>1, <2>2, <3>2, <3>3, <3>5
  <2>4. CASE ~Last(m)
    <3>1. next \in Manager /\ next.state = "GETLIST"
      BY <1>1, <2>4, PlansAssumption, SMTT(30) DEF Manager, Fields, Last
    <3>2. wpm' \in [Links -> Manager] /\ CountsTyped' /\ in_progress' \in BOOLEAN
      BY <1>6, <2>4, <3>1 DEF TypeInv, CountsTyped
    <3>3. down' \in [Links -> Queue(Downlink)]
      BY <1>6, <2>4, <3>1, RequestTyped, Replied DEF Request, TypeInv
    <3> QED  BY <2>1, <2>2, <3>2, <3>3
  <2> QED  BY <2>3, <2>4
<1>7. CASE /\ wpm' = [wpm EXCEPT ![l] = Idle(@)]
           /\ in_progress' = FALSE
           /\ Ack(l, m.type, "error")
           /\ \/ UNCHANGED <<stored, active, count>>
              \/ m.type = "fence" /\ \E ok \in WriteOk("state") : UpdateGeofenceCount(0, ok)
           /\ UNCHANGED <<items, gcs>>
  <2>1. wpm' \in [Links -> Manager]
    BY <1>5, <1>7 DEF Idle, TypeInv
  <2>2. CountsTyped'
    <3>1. CASE UNCHANGED <<stored, active, count>>
      BY <3>1 DEF TypeInv, CountsTyped
    <3>2. CASE \E ok \in WriteOk("state") : UpdateGeofenceCount(0, ok)
      BY <3>2, PlansAssumption, SMTT(30) DEF TypeInv, CountsTyped, UpdateGeofenceCount
    <3> QED  BY <1>7, <3>1, <3>2
  <2> QED  BY <1>3, <1>7, <2>1, <2>2 DEF TypeInv, Codes
<1> QED  BY <1>6, <1>7 DEF Take

LEMMA HandleItemTyped ==
    ASSUME TypeInv, NEW l \in Links, HandleItem(l)
    PROVE  TypeInv'
<1> DEFINE msg == Head(up[l])
           m == wpm[l]
<1>1. up' \in [Links -> Queue(Uplink)] /\ msg \in Uplink /\ msg.kind = "item"
  BY Consumed DEF HandleItem, TypeInv
<1>2. m.type \in TypesOrAll
  BY DEF TypeInv, Manager, Fields
<1>3. \A code \in Codes : Ack(l, m.type, code) => down' \in [Links -> Queue(Downlink)]
  BY <1>2, AckTyped, Replied DEF Ack, TypeInv
<1>4. CASE UNCHANGED <<storage, statics, wpm, gcs>> /\ (UNCHANGED down \/ \E code \in Codes : Ack(l, m.type, code))
  BY <1>1, <1>3, <1>4 DEF TypeInv, CountsTyped, storage, statics
<1>5. CASE m.state = "GETLIST" /\ Expected(m, msg) /\ Take(l, msg)
  <2>1. PICK x \in Uplink : x = msg
    BY <1>1
  <2>2. x.kind = "item" /\ wpm[l].state = "GETLIST" /\ Expected(wpm[l], x) /\ Take(l, x)
    BY <1>1, <1>5, <2>1
  <2> QED  BY <1>1, <2>2, TakeTyped DEF TypeInv
<1> QED  BY <1>4, <1>5 DEF HandleItem, Codes

LEMMA HandleClearAllTyped ==
    ASSUME TypeInv, NEW l \in Links, HandleClearAll(l)
    PROVE  TypeInv'
<1> DEFINE type == Head(up[l]).type
<1>1. /\ up' \in [Links -> Queue(Uplink)] /\ type \in TypesOrAll
      /\ UNCHANGED <<items, in_progress, gcs>>
  BY Consumed DEF HandleClearAll, TypeInv, Uplink, Messages
<1>2. CASE wpm[l].state = "IDLE"
  <2>1. PICK ok \in WriteOk("state") :
            /\ IF type = "all" THEN ClearCounts(ok) ELSE UpdateCount(type, Inactive, 0, ok)
            /\ Ack(l, type, AckOf(type, ok))
    BY <1>2 DEF HandleClearAll
  <2>2. wpm' \in [Links -> Manager]
    <3>1. wpm[l] \in Manager
      BY DEF TypeInv
    <3>2. [wpm[l] EXCEPT !.type = type] \in Manager
      BY <1>1, <1>2, <3>1 DEF Manager, Fields
    <3> QED  BY <1>2, <3>2 DEF HandleClearAll, TypeInv
  <2>3. CountsTyped'
    <3>1. CASE type = "all"
      BY <2>1, <3>1, InactiveTyped, PlansAssumption, SMTT(30) DEF ClearCounts, TypeInv, CountsTyped
    <3>2. CASE type # "all"
      BY <2>1, <3>2, EmptyTyped DEF TypeInv
    <3> QED  BY <3>1, <3>2
  <2>4. down' \in [Links -> Queue(Downlink)]
    <3>1. AckOf(type, ok) \in Codes
      BY DEF AckOf, Codes
    <3> QED  BY <1>1, <2>1, <3>1, AckTyped, Replied DEF Ack, TypeInv
  <2> QED  BY <1>1, <2>2, <2>3, <2>4 DEF TypeInv
<1>3. CASE wpm[l].state # "IDLE"
  BY <1>1, <1>3 DEF HandleClearAll, TypeInv, CountsTyped
<1> QED  BY <1>2, <1>3

LEMMA HandleRequestListTyped ==
    ASSUME TypeInv, NEW l \in Links, HandleRequestList(l)
    PROVE  TypeInv'
<1> DEFINE type == Head(up[l]).type
           m == wpm[l]
           state == IF m.seq = CurrentItemCount(m.type) THEN "IDLE" ELSE m.state
           n == IF type = "fence" THEN stored.fence ELSE count["mission"]
           listed == [state |-> "SENDLIST", type |-> type, seq |-> 0, count |-> n, bank |-> m.bank]
<1>1. /\ up' \in [Links -> Queue(Uplink)] /\ type \in Types
      /\ UNCHANGED <<storage, active, in_progress, gcs>>
  BY Consumed, SMTT(30) DEF HandleRequestList, TypeInv, Uplink
<1>2. n \in 0 .. MaxCount /\ m \in Manager
  BY PlansAssumption DEF TypeInv, CountsTyped
<1>3. CASE /\ wpm' = [wpm EXCEPT ![l] = listed]
           /\ count' = [count EXCEPT ![type] = n]
           /\ Reply(l, Msg("count", type, n, NoItem))
  <2>1. listed \in Manager
    BY <1>1, <1>2, PlansAssumption, SMTT(30) DEF Manager, Fields, TypesOrAll
  <2>2. Msg("count", type, n, NoItem) \in Downlink
    BY <1>1, <1>2, PlansAssumption, SMTT(30) DEF Msg, Downlink, Messages, TypesOrAll
  <2>3. wpm' \in [Links -> Manager]
    BY <1>3, <2>1 DEF TypeInv
  <2>4. down' \in [Links -> Queue(Downlink)]
    <3>1. PICK reply \in Downlink : reply = Msg("count", type, n, NoItem)
      BY <2>2
    <3>2. Reply(l, reply)
      BY <1>3, <3>1
    <3> QED  BY <3>2, Replied DEF TypeInv
  <2>5. CountsTyped'
    BY <1>1, <1>2, <1>3 DEF storage, TypeInv, CountsTyped
  <2> QED  BY <1>1, <2>3, <2>4, <2>5 DEF storage, TypeInv
<1>4. CASE wpm' = [wpm EXCEPT ![l].state = state] /\ UNCHANGED <<count, down>>
  <2>1. [m EXCEPT !.state = state] \in Manager
    BY <1>2 DEF Manager, Fields
  <2> QED  BY <1>1, <1>4, <2>1 DEF storage, TypeInv, CountsTyped
<1> QED  BY <1>3, <1>4 DEF HandleRequestList

LEMMA HandleRequestTyped ==
    ASSUME TypeInv, NEW l \in Links, HandleRequest(l)
    PROVE  TypeInv'
<1> DEFINE msg == Head(up[l])
           m == wpm[l]
           next == msg.n = m.seq /\ m.seq < m.count
           again == msg.n = m.seq - 1
<1>1. /\ up' \in [Links -> Queue(Uplink)] /\ msg.n \in Nat /\ m \in Manager
      /\ UNCHANGED <<storage, statics, gcs>>
  BY Consumed DEF HandleRequest, TypeInv, Uplink, Messages
<1>2. SUFFICES wpm' \in [Links -> Manager] /\ down' \in [Links -> Queue(Downlink)]
  BY <1>1 DEF storage, statics, TypeInv, CountsTyped
<1>3. m.type \in TypesOrAll /\ m.seq \in 0 .. MaxCount /\ m.count \in 0 .. MaxCount
  BY <1>1 DEF Manager, Fields
<1>4. Ack(l, m.type, "error") => down' \in [Links -> Queue(Downlink)]
  BY <1>3, AckTyped, Replied DEF Ack, TypeInv, Codes
<1>5. CASE m.state # "SENDLIST" \/ m.type # msg.type
  BY <1>5 DEF HandleRequest, TypeInv
<1>6. CASE m.state = "SENDLIST" /\ m.type = msg.type /\ (next \/ again) /\ msg.n < count[m.type]
  <2>1. [m EXCEPT !.seq = msg.n + 1] \in Manager
    BY <1>1, <1>3, <1>6, PlansAssumption, SMTT(30) DEF Manager, Fields
  <2>2. m.type \in Types /\ count[m.type] \in 0 .. MaxCount
    BY <1>1, <1>6 DEF Manager, TypeInv, CountsTyped
  <2>3. SentBank(m) \in Banks
    BY DEF SentBank, Bank, Banks, TypeInv, CountsTyped
  <2>4. items[SentBank(m)][msg.n] \in PlanItems \cup {NoItem}
    BY <1>1, <1>6, <2>2, <2>3, PlansAssumption, SMTT(30) DEF TypeInv
  <2>5. Msg("item", m.type, msg.n, items[SentBank(m)][msg.n]) \in Downlink
    BY <1>1, <1>3, <2>4 DEF Msg, Downlink, Messages
  <2>6. /\ wpm' = [wpm EXCEPT ![l].seq = msg.n + 1]
        /\ \/ Reply(l, Msg("item", m.type, msg.n, items[SentBank(m)][msg.n]))
           \/ Ack(l, m.type, "error")
    BY <1>6 DEF HandleRequest
  <2>7. down' \in [Links -> Queue(Downlink)]
    BY <1>4, <2>5, <2>6, Replied DEF TypeInv
  <2> QED  BY <2>1, <2>6, <2>7 DEF TypeInv
<1>7. CASE m.state = "SENDLIST" /\ m.type = msg.type /\ ~((next \/ again) /\ msg.n < count[m.type])
  <2> DEFINE seq == IF next THEN m.seq + 1 ELSE m.seq
  <2>1. PICK n \in 0 .. MaxCount : n = seq
    BY <1>3, PlansAssumption, SMTT(30)
  <2>2. wpm' = [wpm EXCEPT ![l] = [Idle(m) EXCEPT !.seq = n]] /\ Ack(l, m.type, "error")
    BY <1>7, <2>1 DEF HandleRequest
  <2>3. [Idle(m) EXCEPT !.seq = n] \in Manager
    BY <1>1 DEF Manager, Fields, Idle
  <2> QED  BY <1>4, <2>2, <2>3 DEF TypeInv
<1> QED  BY <1>5, <1>6, <1>7

LEMMA HandleAckTyped ==
    ASSUME TypeInv, NEW l \in Links, HandleAck(l)
    PROVE  TypeInv'
<1>1. up' \in [Links -> Queue(Uplink)] /\ UNCHANGED <<storage, active, count, down, gcs>>
  BY Consumed DEF HandleAck, TypeInv
<1>2. Idle(wpm[l]) \in Manager /\ wpm' \in {wpm, [wpm EXCEPT ![l] = Idle(@)]} /\ in_progress' \in BOOLEAN
  BY DEF HandleAck, TypeInv, Manager, Fields, Idle
<1> QED  BY <1>1, <1>2 DEF storage, TypeInv, CountsTyped

LEMMA OtherVehicleTyped ==
    ASSUME TypeInv, NEW l \in Links,
           \/ \E n \in 0 .. MaxCount - 1 : SendChangedItem(l, n)
           \/ RetryRequest(l) \/ Timeout(l)
    PROVE  TypeInv'
<1>0. wpm[l] \in Manager
  BY DEF TypeInv
<1>1. ASSUME NEW n \in 0 .. MaxCount - 1, SendChangedItem(l, n) PROVE TypeInv'
  <2>1. [wpm[l] EXCEPT !.type = "mission"] \in Manager
    BY <1>0, <1>1, PlansAssumption DEF SendChangedItem, Manager, Fields, TypesOrAll
  <2>2. items[active][n] \in PlanItems \cup {NoItem}
    BY DEF TypeInv, CountsTyped, Banks
  <2>3. Msg("item", "mission", n, items[active][n]) \in Downlink
    BY <2>2, PlansAssumption, SMTT(30) DEF Msg, Downlink, Messages, TypesOrAll
  <2>4. down' \in [Links -> Queue(Downlink)]
    BY <1>1, <2>3, Replied DEF SendChangedItem, TypeInv
  <2>5. wpm' \in [Links -> Manager]
    BY <1>1, <2>1 DEF SendChangedItem, TypeInv
  <2> QED  BY <1>1, <2>4, <2>5 DEF SendChangedItem, TypeInv, CountsTyped, storage, statics
<1>2. CASE RetryRequest(l)
  <2>1. down' \in [Links -> Queue(Downlink)]
    BY <1>0, <1>2, RequestTyped, Replied DEF RetryRequest, Request, TypeInv
  <2> QED  BY <1>2, <2>1 DEF RetryRequest, TypeInv, CountsTyped, storage, statics
<1>3. CASE Timeout(l)
  <2>1. Idle(wpm[l]) \in Manager
    BY <1>0 DEF Idle, Manager, Fields
  <2> QED  BY <1>3, <2>1 DEF Timeout, TypeInv, CountsTyped, storage
<1> QED  BY <1>1, <1>2, <1>3

LEMMA FreshTyped == FreshManager \in Manager /\ FreshGcs \in Station
BY PlansAssumption, SMTT(30) DEF FreshManager, Manager, Fields, TypesOrAll, FreshGcs, Begun, Station, Transfer, Phases

(* A restart in the middle of a write may leave the item behind.            *)
LEMMA RestartItems ==
    ASSUME TypeInv, Restart
    PROVE  \/ items' = items
           \/ \E l \in Links :
                /\ wpm[l].state = "GETLIST" /\ Head1(l, "item")
                /\ Head(up[l]).n = wpm[l].seq /\ Head(up[l]).type = wpm[l].type
                /\ items' = [items EXCEPT ![Bank(wpm[l].type, wpm[l].bank)][wpm[l].seq] = Head(up[l]).content]
BY DEF Restart

LEMMA RestartTyped ==
    ASSUME TypeInv, Restart
    PROVE  TypeInv'
<1>1. items' \in [Banks -> [0 .. MaxCount - 1 -> PlanItems \cup {NoItem}]]
  <2>1. ASSUME NEW l \in Links, wpm[l].state = "GETLIST", Head1(l, "item"),
               items' = [items EXCEPT ![Bank(wpm[l].type, wpm[l].bank)][wpm[l].seq] = Head(up[l]).content]
        PROVE  items' \in [Banks -> [0 .. MaxCount - 1 -> PlanItems \cup {NoItem}]]
    <3>1. Head(up[l]) \in Uplink /\ Head(up[l]).kind = "item"
      BY <2>1, TailQueue DEF Head1, TypeInv
    <3>2. Head(up[l]).content \in PlanItems
      BY <3>1 DEF Uplink
    <3>3. wpm[l].seq \in 0 .. MaxCount - 1 /\ Bank(wpm[l].type, wpm[l].bank) \in Banks
      BY <2>1, PlansAssumption, SMTT(30) DEF TypeInv, Manager, Fields, Bank, Banks
    <3> QED  BY <2>1, <3>2, <3>3 DEF TypeInv
  <2> QED  BY <2>1, RestartItems DEF TypeInv
<1>2. CountsTyped' /\ in_progress' \in BOOLEAN
  BY PlansAssumption DEF Restart, TypeInv, CountsTyped
<1>3. wpm' \in [Links -> Manager]
  BY FreshTyped DEF Restart
<1> QED  BY <1>1, <1>2, <1>3 DEF Restart, TypeInv

LEMMA Said ==
    ASSUME up \in [Links -> Queue(Uplink)], NEW l \in Links, NEW m \in Uplink, Say(l, m)
    PROVE  /\ up' \in [Links -> Queue(Uplink)]
           /\ \A k \in Links : k # l => up'[k] = up[k]
           /\ Elems(up'[l]) \subseteq Elems(up[l]) \cup {m}
BY SendQueue, SMTT(30) DEF Say

LEMMA GcsMessages ==
    ASSUME NEW t \in Types
    PROVE  /\ \A p \in DOMAIN Plans[t] : Msg("count", t, Plans[t][p], NoItem) \in Uplink
           /\ Msg("request_list", t, 0, NoItem) \in Uplink
           /\ \A n \in Nat : Msg("request", t, n, NoItem) \in Uplink
           /\ \A code \in Codes : Msg("ack", t, 0, <<code, 0>>) \in Uplink
           /\ \A u \in TypesOrAll : Msg("clear_all", u, 0, NoItem) \in Uplink
<1>1. t \in TypesOrAll
  BY DEF TypesOrAll
<1>2. \A p \in DOMAIN Plans[t] : Msg("count", t, Plans[t][p], NoItem) \in Uplink
  BY <1>1, PlansAssumption DEF Msg, Uplink, Messages, Lengths
<1> QED  BY <1>1, <1>2 DEF Msg, Uplink, Messages

LEMMA ItemOfTyped ==
    ASSUME NEW g \in Station, g.phase = "offering", NEW n \in 0 .. MaxCount - 1
    PROVE  ItemOf(g, n) \in Uplink
<1>1. g.type \in Types /\ g.plan \in PlanNames
  BY DEF Station, Transfer, PlanNames
<1>2. <<g.plan, n>> \in PlanItems
  BY <1>1 DEF PlanItems
<1> QED  BY <1>1, <1>2, PlansAssumption, SMTT(30) DEF ItemOf, Msg, Uplink, Messages, TypesOrAll

(* What the ground station may do on a message, given its transfer g.       *)
Answers(l, g, msg) ==
    /\ g.phase = "offering" /\ msg.type = g.type /\ msg.kind = "request"
    /\ msg.n \in {g.next, g.next - 1} /\ msg.n < Length(g)
    /\ gcs' = [gcs EXCEPT ![l] = [g EXCEPT !.next = msg.n + 1]]
    /\ Say(l, ItemOf(g, msg.n))
Concludes(l, g, msg) ==
    /\ g.phase = "offering" /\ msg.type = g.type /\ msg.kind = "ack" /\ up' = up
    /\ \E phase \in {"accepted", "idle"} :
        /\ phase = "accepted" => msg.content[1] = "accepted" /\ g.next = Length(g)
        /\ gcs' = [gcs EXCEPT ![l] = [g EXCEPT !.phase = phase]]
Lists(l, g, msg) ==
    /\ g.phase = "listing" /\ msg.type = g.type /\ msg.kind = "count"
    /\ \/ /\ msg.n = 0
          /\ gcs' = [gcs EXCEPT ![l] = [g EXCEPT !.phase = "downloaded", !.total = msg.n]]
          /\ Say(l, Msg("ack", g.type, 0, <<"accepted", 0>>))
       \/ /\ msg.n # 0
          /\ gcs' = [gcs EXCEPT ![l] = [g EXCEPT !.phase = "fetching", !.total = msg.n]]
          /\ Say(l, Msg("request", g.type, g.next, NoItem))
Fetches(l, g, msg) ==
    /\ g.phase = "fetching" /\ msg.type = g.type /\ msg.kind = "item" /\ msg.n = g.next
    /\ \E phase \in {"downloaded", "fetching"} :
        /\ phase = "downloaded" <=> g.next + 1 = g.total
        /\ gcs' = [gcs EXCEPT ![l] = [g EXCEPT !.next = g.next + 1, !.got = Append(g.got, msg.content),
                                               !.phase = phase]]
        /\ \/ Say(l, Msg("ack", g.type, 0, <<"accepted", 0>>))
           \/ Say(l, Msg("request", g.type, g.next + 1, NoItem))
GivesUp(l, g, msg) ==
    /\ g.phase \in {"listing", "fetching"} /\ up' = up
    /\ gcs' = [gcs EXCEPT ![l] = [g EXCEPT !.phase = "idle"]]

LEMMA ReceiveCases ==
    ASSUME TypeInv, NEW l \in Links, GcsReceive(l), NEW g, g = gcs[l], NEW msg, msg = Head(down[l])
    PROVE  /\ down[l] # <<>> /\ down' = [down EXCEPT ![l] = Tail(@)]
           /\ UNCHANGED <<storage, statics, wpm>>
           /\ \/ gcs' = gcs /\ up' = up
              \/ Answers(l, g, msg) \/ Concludes(l, g, msg) \/ Lists(l, g, msg)
              \/ Fetches(l, g, msg) \/ GivesUp(l, g, msg)
<1> DEFINE new == Heard(g, msg)
<1>1. /\ down[l] # <<>> /\ down' = [down EXCEPT ![l] = Tail(@)] /\ UNCHANGED <<storage, statics, wpm>>
      /\ gcs' = [gcs EXCEPT ![l] = new]
      /\ CASE g.phase = "offering" /\ msg.kind = "request" /\ new.next = msg.n + 1 /\ msg.type = g.type ->
                    Say(l, ItemOf(g, msg.n))
           [] new.phase = "fetching" /\ new # g -> Say(l, Msg("request", g.type, new.next, NoItem))
           [] new.phase = "downloaded" /\ new # g -> Say(l, Msg("ack", g.type, 0, <<"accepted", 0>>))
           [] OTHER -> UNCHANGED up
  BY DEF GcsReceive
<1>2. g \in Transfer /\ g.next \in Nat /\ msg.n \in Nat
  <2>1. Head(down[l]) \in Downlink
    BY <1>1, TailQueue DEF TypeInv
  <2> QED  BY <2>1 DEF TypeInv, Station, Transfer, Downlink, Messages
<1>3. ASSUME new = g, ~(g.phase = "offering" /\ msg.kind = "request" /\ g.next = msg.n + 1 /\ msg.type = g.type)
      PROVE  gcs' = gcs /\ up' = up
  <2>1. gcs' = gcs
    BY <1>1, <1>3 DEF TypeInv
  <2> HIDE DEF new
  <2> QED  BY <1>1, <1>3, <2>1
<1>4. CASE msg.type # g.type \/ g.phase \notin {"offering", "listing", "fetching"}
  <2>1. new = g
    BY <1>4 DEF Heard
  <2> QED  BY <1>1, <1>3, <1>4, <2>1
<1>5. CASE msg.type = g.type /\ g.phase = "offering"
  <2>1. new = Offered(g, msg) /\ g.next <= Length(g) /\ Length(g) \in Nat
    BY <1>5, PlansAssumption DEF Heard, TypeInv, Station, Transfer, Length
  <2> HIDE DEF new
  <2>2. CASE msg.kind = "request" /\ msg.n \in {g.next, g.next - 1} /\ msg.n < Length(g)
    <3>1. new = [g EXCEPT !.next = msg.n + 1] /\ new.next = msg.n + 1
      BY <1>2, <2>1, <2>2 DEF Offered, Transfer
    <3>2. Say(l, ItemOf(g, msg.n))
      BY <1>1, <1>5, <2>2, <3>1, SMTT(30)
    <3> QED  BY <1>1, <1>5, <2>2, <3>1, <3>2 DEF Answers
  <2>3. CASE msg.kind = "ack"
    <3>1. PICK phase \in {"accepted", "idle"} :
            /\ phase = "accepted" => msg.content[1] = "accepted" /\ g.next = Length(g)
            /\ new = [g EXCEPT !.phase = phase]
      BY <2>1, <2>3 DEF Offered
    <3>2. new.phase \in {"accepted", "idle"}
      BY <1>2, <3>1 DEF Transfer
    <3>3. up' = up
      BY <1>1, <2>3, <3>2
    <3> QED  BY <1>1, <1>5, <2>3, <3>1, <3>3 DEF Concludes
  <2>4. CASE /\ ~(msg.kind = "request" /\ msg.n \in {g.next, g.next - 1} /\ msg.n < Length(g))
             /\ msg.kind # "ack"
    <3>1. new = g
      BY <2>1, <2>4 DEF Offered
    <3>2. ~(msg.kind = "request" /\ g.next = msg.n + 1)
      BY <1>2, <2>1, <2>4, SMTT(30)
    <3> QED  BY <1>1, <1>3, <3>1, <3>2
  <2> QED  BY <2>2, <2>3, <2>4
<1>6. CASE msg.type = g.type /\ g.phase \in {"listing", "fetching"}
  <2>1. new = Fetched(g, msg)
    BY <1>6 DEF Heard
  <2> HIDE DEF new
  <2>2. CASE g.phase = "listing" /\ msg.kind = "count"
    <3>1. new = [g EXCEPT !.phase = IF msg.n = 0 THEN "downloaded" ELSE "fetching", !.total = msg.n]
      BY <2>1, <2>2 DEF Fetched
    <3>2. new.phase = (IF msg.n = 0 THEN "downloaded" ELSE "fetching") /\ new # g /\ new.next = g.next
      BY <1>2, <2>2, <3>1 DEF Transfer
    <3>3. IF msg.n = 0 THEN Say(l, Msg("ack", g.type, 0, <<"accepted", 0>>))
          ELSE Say(l, Msg("request", g.type, g.next, NoItem))
      BY <1>1, <2>2, <3>2
    <3> QED  BY <1>1, <1>6, <2>2, <3>1, <3>3 DEF Lists
  <2>3. CASE g.phase = "fetching" /\ msg.kind = "item" /\ msg.n = g.next
    <3>0. PICK got : got = Append(g.got, msg.content)
      OBVIOUS
    <3>1. PICK phase \in {"downloaded", "fetching"} :
            /\ phase = "downloaded" <=> g.next + 1 = g.total
            /\ new = [g EXCEPT !.next = g.next + 1, !.got = got, !.phase = phase]
      BY <2>1, <2>3, <3>0 DEF Fetched
    <3>2. new.phase = phase /\ new.next = g.next + 1 /\ new # g
      <4>1. \A x, y, z : LET h == [g EXCEPT !.next = x, !.got = y, !.phase = z]
                         IN  h.phase = z /\ h.next = x
        BY <1>2 DEF Transfer
      <4>2. new.phase = phase /\ new.next = g.next + 1
        BY <3>1, <4>1, SMTT(30)
      <4> QED  BY <1>2, <4>2, SMTT(30)
    <3>3. \/ Say(l, Msg("ack", g.type, 0, <<"accepted", 0>>))
          \/ Say(l, Msg("request", g.type, g.next + 1, NoItem))
      BY <1>1, <2>3, <3>2
    <3> QED  BY <1>1, <1>6, <2>3, <3>0, <3>1, <3>3 DEF Fetches
  <2>4. CASE msg.kind = "ack"
    <3>1. new = [g EXCEPT !.phase = "idle"]
      BY <2>1, <2>4 DEF Fetched
    <3>2. new.phase = "idle"
      BY <1>2, <3>1 DEF Transfer
    <3> QED  BY <1>1, <1>6, <2>4, <3>1, <3>2 DEF GivesUp
  <2>5. CASE /\ ~(g.phase = "listing" /\ msg.kind = "count") /\ msg.kind # "ack"
             /\ ~(g.phase = "fetching" /\ msg.kind = "item" /\ msg.n = g.next)
    <3>1. new = g
      BY <2>1, <2>5 DEF Fetched
    <3> QED  BY <1>1, <1>3, <1>6, <3>1
  <2> QED  BY <2>2, <2>3, <2>4, <2>5
<1> QED  BY <1>4, <1>5, <1>6

LEMMA GcsReceiveTyped ==
    ASSUME TypeInv, NEW l \in Links, GcsReceive(l)
    PROVE  TypeInv'
<1>1. PICK g \in Station, msg \in Downlink : g = gcs[l] /\ msg = Head(down[l])
  <2>1. down[l] # <<>>
    BY DEF GcsReceive
  <2> QED  BY <2>1, TailQueue DEF TypeInv
<1>2. /\ down[l] # <<>> /\ down' = [down EXCEPT ![l] = Tail(@)] /\ UNCHANGED <<storage, statics, wpm>>
      /\ \/ gcs' = gcs /\ up' = up
         \/ Answers(l, g, msg) \/ Concludes(l, g, msg) \/ Lists(l, g, msg)
         \/ Fetches(l, g, msg) \/ GivesUp(l, g, msg)
  BY <1>1, ReceiveCases
<1>3. down' \in [Links -> Queue(Downlink)]
  BY <1>2, TailQueue DEF TypeInv
<1>4. SUFFICES gcs' \in [Links -> Station] /\ up' \in [Links -> Queue(Uplink)]
  BY <1>2, <1>3 DEF TypeInv, CountsTyped, storage, statics
<1>5. /\ g \in Transfer /\ g.type \in Types /\ g.next \in Nat /\ g.got \in Seq(Contents)
      /\ msg.n \in Nat /\ msg.content \in Contents
      /\ msg.kind = "request" => msg.n < MaxCount
  BY <1>1 DEF Station, Transfer, Downlink, Messages, Contents
<1>6. \A m \in Uplink : Say(l, m) => up' \in [Links -> Queue(Uplink)]
  BY Said DEF TypeInv
<1>7. \A new \in Station : gcs' = [gcs EXCEPT ![l] = new] => gcs' \in [Links -> Station]
  BY DEF TypeInv
<1>8. CASE Answers(l, g, msg)
  <2>1. ItemOf(g, msg.n) \in Uplink
    <3>1. msg.n \in 0 .. MaxCount - 1 /\ g.phase = "offering"
      BY <1>5, <1>8, PlansAssumption, SMTT(30) DEF Answers
    <3> QED  BY <3>1, ItemOfTyped
  <2>2. [g EXCEPT !.next = msg.n + 1] \in Station
    <3>1. PICK x \in Nat : x = msg.n + 1 /\ x <= Length(g) /\ x <= MaxCount
      <4>1. g.plan \in DOMAIN Plans[g.type]
        BY <1>8 DEF Answers, Station
      <4>2. Length(g) \in Nat
        BY <1>5, <4>1, PlansAssumption DEF Length
      <4> QED  BY <1>5, <1>8, <4>2, PlansAssumption, SMTT(30) DEF Answers
    <3>2. LET h == [g EXCEPT !.next = x]
          IN  h \in Transfer /\ h.next = x /\ h.type = g.type /\ h.plan = g.plan
      BY <1>5 DEF Transfer
    <3> QED  BY <1>8, <3>1, <3>2 DEF Answers, Station, Length
  <2> QED  BY <1>6, <1>7, <1>8, <2>1, <2>2 DEF Answers
<1>9. CASE Concludes(l, g, msg)
  <2>1. \A phase \in {"accepted", "idle"} : [g EXCEPT !.phase = phase] \in Station
    BY <1>1, <1>9 DEF Concludes, Station, Transfer, Length, Phases
  <2> QED  BY <1>7, <1>9, <2>1 DEF Concludes, TypeInv
<1>10. CASE Lists(l, g, msg)
  <2>1. \A phase \in {"downloaded", "fetching"} : [g EXCEPT !.phase = phase, !.total = msg.n] \in Station
    <3>1. \A phase \in {"downloaded", "fetching"} : \A x \in Nat :
            LET h == [g EXCEPT !.phase = phase, !.total = x] IN h \in Transfer /\ h.phase = phase
      BY <1>5 DEF Transfer, Phases
    <3> QED  BY <1>5, <3>1 DEF Station
  <2>2. gcs' \in [Links -> Station]
    BY <1>7, <1>10, <2>1 DEF Lists
  <2>3. up' \in [Links -> Queue(Uplink)]
    BY <1>5, <1>6, <1>10, GcsMessages DEF Lists, Codes
  <2> QED  BY <2>2, <2>3
<1>11. CASE Fetches(l, g, msg)
  <2>1. PICK got \in Seq(Contents) : got = Append(g.got, msg.content)
    <3>1. \A S : \A s \in Seq(S) : \A e \in S : Append(s, e) \in Seq(S)
      BY SMTT(30)
    <3> QED  BY <1>5, <3>1
  <2>2. \A phase \in {"downloaded", "fetching"} :
            [g EXCEPT !.next = g.next + 1, !.got = got, !.phase = phase] \in Station
    <3>1. \A phase \in {"downloaded", "fetching"} : \A x \in Nat :
            LET h == [g EXCEPT !.next = x, !.got = got, !.phase = phase] IN h \in Transfer /\ h.phase = phase
      BY <1>5 DEF Transfer, Phases
    <3>2. g.next + 1 \in Nat
      BY <1>5, SMTT(30)
    <3> QED  BY <3>1, <3>2 DEF Station
  <2>3. gcs' \in [Links -> Station]
    BY <1>7, <1>11, <2>1, <2>2 DEF Fetches
  <2>4. up' \in [Links -> Queue(Uplink)]
    <3>1. g.next + 1 \in Nat
      BY <1>5, SMTT(30)
    <3> QED  BY <1>5, <1>6, <1>11, <3>1, GcsMessages DEF Fetches, Codes
  <2> QED  BY <2>3, <2>4
<1>12. CASE GivesUp(l, g, msg)
  <2>1. [g EXCEPT !.phase = "idle"] \in Station
    BY <1>5 DEF Station, Transfer, Phases
  <2> QED  BY <1>7, <1>12, <2>1 DEF GivesUp, TypeInv
<1> QED  BY <1>2, <1>8, <1>9, <1>10, <1>11, <1>12 DEF TypeInv

LEMMA GcsTyped ==
    ASSUME TypeInv, NEW l \in Links, Gcs(l) \/ Lose(l)
    PROVE  TypeInv'
<1>1. \A m \in Uplink : Say(l, m) => up' \in [Links -> Queue(Uplink)]
  BY Said DEF TypeInv
<1>2. gcs[l] \in Station /\ gcs[l].type \in Types
  BY DEF TypeInv, Station, Transfer
<1>3. ASSUME NEW new \in Station, NEW m \in Uplink, gcs' = [gcs EXCEPT ![l] = new], Say(l, m),
             UNCHANGED <<storage, statics, wpm, down>>
      PROVE  TypeInv'
  BY <1>1, <1>3 DEF TypeInv, CountsTyped, storage, statics
<1>4. ASSUME NEW t \in Types, NEW p \in DOMAIN Plans[t], GcsUpload(l, t, p) PROVE TypeInv'
  <2>1. PICK g \in Transfer : g = Begun("offering", t, p)
    <3>1. p \in PlanNames
      BY DEF PlanNames
    <3>2. Begun("offering", t, p) \in Transfer
      BY <3>1, SMTT(30) DEF Begun, Transfer, Phases
    <3> QED  BY <3>2
  <2>2. Plans[t][p] \in Nat /\ 0 <= MaxCount
    BY PlansAssumption, SMTT(30)
  <2>3. g \in Station
    BY <2>1, <2>2, SMTT(30) DEF Begun, Station, Length
  <2> QED  BY <1>3, <1>4, <2>1, <2>3, GcsMessages DEF GcsUpload
<1>5. ASSUME NEW t \in Types, GcsDownload(l, t) PROVE TypeInv'
  <2>1. Begun("listing", t, "none") \in Station
    BY SMTT(30) DEF Begun, Station, Transfer, Phases
  <2> QED  BY <1>3, <1>5, <2>1, GcsMessages DEF GcsDownload
<1>6. ASSUME NEW t \in TypesOrAll, GcsClear(l, t) PROVE TypeInv'
  BY <1>2, <1>3, <1>6, FreshTyped, GcsMessages DEF GcsClear
<1>7. CASE GcsCancel(l)
  BY <1>2, <1>3, <1>7, FreshTyped, GcsMessages DEF GcsCancel, Codes
<1>8. CASE GcsResend(l)
  <2>1. \E m \in Uplink : Say(l, m)
    <3>1. /\ gcs[l].next \in Nat
          /\ gcs[l].phase = "offering" => gcs[l].plan \in DOMAIN Plans[gcs[l].type] /\ gcs[l].next <= MaxCount
      BY <1>2 DEF Station, Transfer
    <3>2. gcs[l].phase = "offering" /\ gcs[l].next > 0 => ItemOf(gcs[l], gcs[l].next - 1) \in Uplink
      BY <1>2, <3>1, ItemOfTyped, PlansAssumption, SMTT(30)
    <3> QED  BY <1>2, <1>8, <3>1, <3>2, GcsMessages DEF GcsResend, Length
  <2> QED  BY <1>1, <1>8, <2>1 DEF GcsResend, TypeInv, CountsTyped, storage, statics
<1>9. CASE Lose(l)
  <2>1. up' \in [Links -> Queue(Uplink)] /\ down' \in [Links -> Queue(Downlink)]
    <3>1. CASE up[l] # <<>> /\ up' = [up EXCEPT ![l] = Tail(@)] /\ UNCHANGED down
      BY <3>1, TailQueue DEF TypeInv
    <3>2. CASE down[l] # <<>> /\ down' = [down EXCEPT ![l] = Tail(@)] /\ UNCHANGED up
      BY <3>2, TailQueue DEF TypeInv
    <3> QED  BY <1>9, <3>1, <3>2 DEF Lose
  <2> QED  BY <1>9, <2>1 DEF Lose, TypeInv, CountsTyped, storage, statics
<1> QED  BY <1>4, <1>5, <1>6, <1>7, <1>8, <1>9, GcsReceiveTyped DEF Gcs

LEMMA InitTyped == Init => TypeInv
<1> SUFFICES ASSUME Init PROVE TypeInv
  OBVIOUS
<1>1. \A S : <<>> \in Queue(S)
  BY PlansAssumption, SMTT(30) DEF Queue
<1>2. CountsTyped /\ in_progress \in BOOLEAN
  <2>1. 0 \in 0 .. MaxCount
    BY PlansAssumption, SMTT(30)
  <2> QED  BY <2>1 DEF Init, CountsTyped
<1> QED  BY <1>1, <1>2, FreshTyped DEF Init, TypeInv

LEMMA StepTyped ==
    ASSUME TypeInv, [Next]_vars
    PROVE  TypeInv'
<1>1. CASE UNCHANGED vars
  BY <1>1 DEF vars, storage, statics, TypeInv, CountsTyped
<1> QED  BY <1>1, HandleCountTyped, HandleItemTyped, HandleClearAllTyped, HandleRequestListTyped,
            HandleRequestTyped, HandleAckTyped, OtherVehicleTyped, RestartTyped, GcsTyped DEF Next, Handle

LEMMA Typed == Spec => []TypeInv
BY InitTyped, StepTyped, PTL DEF Spec

(* Every variable keeps its type, in particular the counts stay within      *)
(* MAX_COUNT, the sequence number of a transfer within the count it was     *)
(* opened with, and a queue within its capacity.                            *)
THEOREM MissionTypes == Spec => []TypeOK
<1>1. ASSUME TypeInv PROVE TypeOK
  <2>1. /\ wpm \in [Links -> Fields]
        /\ \A l \in Links : wpm[l].state # "IDLE" => wpm[l].seq <= wpm[l].count
    BY <1>1 DEF TypeInv, Manager
  <2>2. \A l \in Links : \A q \in {up[l], down[l]} :
            Len(q) <= Capacity /\ \A i \in DOMAIN q : q[i] \in Messages
    <3>1. \A S : Queue(S) \subseteq {q \in Seq(S) : Len(q) <= Capacity /\ \A i \in DOMAIN q : q[i] \in S}
      BY SMTT(30) DEF Queue
    <3>2. Uplink \subseteq Messages /\ Downlink \subseteq Messages
      BY DEF Uplink, Downlink
    <3>3. TAKE l \in Links
    <3>4. up[l] \in Queue(Uplink) /\ down[l] \in Queue(Downlink)
      BY <1>1 DEF TypeInv
    <3> QED  BY <3>1, <3>2, <3>4
  <2> QED  BY <1>1, <2>1, <2>2 DEF TypeInv, CountsTyped, TypeOK, Fields
<1> QED  BY <1>1, Typed, PTL

-----------------------------------------------------------------------------
(* What a step may do, link by link; the flag of a transfer in progress     *)
(* decides only whether an upload is opened.                                *)

memory == <<items, stored, active, count>>
Takes(l, kind) == Head1(l, kind) /\ Consume(l)
Uptake(l) == up' = up \/ (up[l] # <<>> /\ Consume(l))

Passes(l) ==
    /\ UNCHANGED <<memory, wpm, gcs>> /\ Uptake(l)
    /\ down' = down \/ (down[l] # <<>> /\ down' = [down EXCEPT ![l] = Tail(@)])
Asks(l) ==
    /\ UNCHANGED <<memory, wpm, gcs>>
    /\ wpm[l].state = "GETLIST" /\ Request(l, wpm[l])
    /\ up' = up \/ (Takes(l, "count") /\ wpm[l].seq = 0)
Refuses(l) == UNCHANGED <<memory, wpm, gcs>> /\ Uptake(l) /\ Ack(l, wpm[l].type, "error")
Confirms(l) ==
    /\ UNCHANGED <<memory, wpm, gcs>> /\ Takes(l, "item")
    /\ wpm[l].state = "IDLE" /\ Head(up[l]).type = wpm[l].type /\ wpm[l].seq = Head(up[l]).n + 1
    /\ Ack(l, wpm[l].type, "accepted")
Notes(l) ==
    /\ UNCHANGED <<memory, gcs>> /\ wpm[l].state = "IDLE"
    /\ \/ /\ up' = up /\ wpm' = [wpm EXCEPT ![l].type = "mission"]
          /\ \E n \in 0 .. MaxCount - 1 :
                n < count["mission"] /\ Reply(l, Msg("item", "mission", n, items[active][n]))
       \/ /\ Takes(l, "count") /\ wpm' = [wpm EXCEPT ![l].type = Head(up[l]).type]
          /\ Ack(l, Head(up[l]).type, "no_space")
Opens(l) ==
    /\ UNCHANGED <<memory, gcs>> /\ wpm[l].state = "IDLE" /\ Takes(l, "count") /\ Acceptable(Head(up[l]).n)
    /\ \E opened : /\ opened = [state |-> "GETLIST", type |-> Head(up[l]).type, seq |-> 0,
                                count |-> Head(up[l]).n, bank |-> Inactive]
                   /\ wpm' = [wpm EXCEPT ![l] = opened] /\ Request(l, opened)
Empties(l) ==
    /\ UNCHANGED <<items, gcs>> /\ wpm[l].state = "IDLE"
    /\ Takes(l, "clear_all") \/ (Takes(l, "count") /\ Head(up[l]).n = 0)
    /\ wpm' = [wpm EXCEPT ![l].type = Head(up[l]).type]
    /\ \E ok \in WriteOk("state") :
        \/ Head(up[l]).type = "all" /\ ClearCounts(ok)
        \/ Head(up[l]).type # "all" /\ UpdateCount(Head(up[l]).type, Inactive, 0, ok)
    /\ \E code \in Codes : Ack(l, Head(up[l]).type, code)
Accepts(l) ==
    /\ Takes(l, "item") /\ wpm[l].state = "GETLIST"
    /\ Head(up[l]).type = wpm[l].type /\ Head(up[l]).n = wpm[l].seq
    /\ items' = [items EXCEPT ![Bank(wpm[l].type, wpm[l].bank)][wpm[l].seq] = Head(up[l]).content]
    /\ \E b \in BOOLEAN : /\ b = (gcs[l].mixed \/ Plans[wpm[l].type][Head(up[l]).content[1]] # wpm[l].count)
                          /\ gcs' = [gcs EXCEPT ![l] = [gcs[l] EXCEPT !.mixed = b]]
Stores(l) ==
    /\ Accepts(l) /\ UNCHANGED <<stored, active, count>>
    /\ \E next : /\ next = [wpm[l] EXCEPT !.seq = wpm[l].seq + 1] /\ next \in Manager
                 /\ wpm' = [wpm EXCEPT ![l] = next] /\ Request(l, next)
Completes(l) ==
    /\ Accepts(l) /\ wpm[l].seq + 1 = wpm[l].count
    /\ \E ok \in WriteOk("state") :
        /\ UpdateCount(wpm[l].type, wpm[l].bank, wpm[l].count, ok)
        /\ Ack(l, wpm[l].type, AckOf(wpm[l].type, ok))
    /\ wpm' = [wpm EXCEPT ![l] = [Idle(wpm[l]) EXCEPT !.seq = wpm[l].count]]
Fails(l) ==
    /\ Takes(l, "item") /\ wpm[l].state = "GETLIST"
    /\ Head(up[l]).type = wpm[l].type /\ Head(up[l]).n = wpm[l].seq
    /\ UNCHANGED <<items, gcs>> /\ wpm' = [wpm EXCEPT ![l] = Idle(wpm[l])] /\ Ack(l, wpm[l].type, "error")
    /\ \/ UNCHANGED <<stored, active, count>>
       \/ wpm[l].type = "fence" /\ \E ok \in WriteOk("state") : UpdateGeofenceCount(0, ok)
Announces(l) ==
    /\ Takes(l, "request_list") /\ UNCHANGED <<items, stored, active, gcs>>
    /\ \E n : /\ n = (IF Head(up[l]).type = "fence" THEN stored.fence ELSE count["mission"])
              /\ wpm' = [wpm EXCEPT ![l] = [state |-> "SENDLIST", type |-> Head(up[l]).type, seq |-> 0,
                                            count |-> n, bank |-> wpm[l].bank]]
              /\ count' = [count EXCEPT ![Head(up[l]).type] = n]
              /\ Reply(l, Msg("count", Head(up[l]).type, n, NoItem))
Gives(l) ==
    /\ Takes(l, "request") /\ UNCHANGED <<memory, gcs>>
    /\ wpm[l].state = "SENDLIST" /\ wpm[l].type = Head(up[l]).type /\ Head(up[l]).n < count[wpm[l].type]
    /\ wpm' = [wpm EXCEPT ![l].seq = Head(up[l]).n + 1]
    /\ \/ Ack(l, wpm[l].type, "error")
       \/ Reply(l, Msg("item", wpm[l].type, Head(up[l]).n,
                       items[Bank(wpm[l].type, active)][Head(up[l]).n]))
Stops(l) ==
    /\ UNCHANGED <<memory, gcs>> /\ wpm[l].state # "IDLE"
    /\ \/ /\ Takes(l, "request")
          /\ \E n \in Nat : wpm' = [wpm EXCEPT ![l] = [Idle(wpm[l]) EXCEPT !.seq = n]]
          /\ Ack(l, wpm[l].type, "error")
       \/ /\ Takes(l, "ack") \/ (Quiet(l) /\ up' = up)
          /\ wpm' = [wpm EXCEPT ![l] = Idle(wpm[l])] /\ down' = down

Vehicle(l) ==
    \/ Passes(l) \/ Asks(l) \/ Refuses(l) \/ Confirms(l) \/ Notes(l) \/ Opens(l) \/ Empties(l)
    \/ Stores(l) \/ Completes(l) \/ Fails(l) \/ Announces(l) \/ Gives(l) \/ Stops(l)
Hears(l) ==
    /\ down[l] # <<>> /\ down' = [down EXCEPT ![l] = Tail(@)] /\ UNCHANGED <<memory, wpm>>
    /\ \E g \in Station : \E msg \in Downlink :
        /\ g = gcs[l] /\ msg = Head(down[l])
        /\ \/ Answers(l, g, msg) \/ Concludes(l, g, msg) \/ Lists(l, g, msg)
           \/ Fetches(l, g, msg) \/ GivesUp(l, g, msg)
Begins(l) ==
    \/ \E t \in Types : \E p \in DOMAIN Plans[t] : GcsUpload(l, t, p)
    \/ \E t \in Types : GcsDownload(l, t)
    \/ \E t \in TypesOrAll : GcsClear(l, t)
    \/ GcsCancel(l)

LEMMA CountSteps ==
    ASSUME TypeInv, NEW l \in Links, HandleCount(l)
    PROVE  Vehicle(l)
<1> DEFINE msg == Head(up[l])
           m == wpm[l]
           opened == [state |-> "GETLIST", type |-> msg.type, seq |-> 0, count |-> msg.n, bank |-> TransferBank]
<1>1. Takes(l, "count") /\ Uptake(l) /\ UNCHANGED <<items, gcs>>
  BY DEF HandleCount, Takes, Uptake, Head1
<1>2. CASE /\ m.state = "IDLE" /\ ~in_progress /\ Acceptable(msg.n)
           /\ in_progress' = TRUE
           /\ wpm' = [wpm EXCEPT ![l] = opened]
           /\ Request(l, opened)
           /\ UNCHANGED <<stored, active, count>>
  BY <1>1, <1>2 DEF Vehicle, Opens, memory, TransferBank
<1>3. CASE /\ m.state = "IDLE" /\ ~in_progress /\ msg.n = 0
           /\ wpm' = [wpm EXCEPT ![l].type = msg.type]
           /\ \E ok \in WriteOk("state") : UpdateCount(msg.type, Inactive, 0, ok)
           /\ Ack(l, msg.type, "accepted")
           /\ UNCHANGED in_progress
  <2>1. msg.type # "all"
    <3>1. msg \in Uplink /\ msg.kind = "count"
      BY Consumed DEF HandleCount, TypeInv
    <3> QED  BY <3>1, PlansAssumption DEF Uplink
  <2> QED  BY <1>1, <1>3, <2>1 DEF Vehicle, Empties, Codes
<1>4. CASE /\ m.state = "IDLE" /\ ~in_progress /\ msg.n > MaxCount
           /\ wpm' = [wpm EXCEPT ![l].type = msg.type]
           /\ Ack(l, msg.type, "no_space")
           /\ UNCHANGED <<stored, active, count, in_progress>>
  BY <1>1, <1>4 DEF Vehicle, Notes, memory
<1>5. CASE Ack(l, m.type, "error") /\ UNCHANGED <<stored, active, count, in_progress, wpm>>
  BY <1>1, <1>5 DEF Vehicle, Refuses, memory
<1>6. CASE m.state = "GETLIST" /\ m.seq = 0 /\ Request(l, m) /\ UNCHANGED <<stored, active, count, in_progress, wpm>>
  BY <1>1, <1>6 DEF Vehicle, Asks, memory
<1> QED  BY <1>2, <1>3, <1>4, <1>5, <1>6 DEF HandleCount

LEMMA ItemSteps ==
    ASSUME TypeInv, NEW l \in Links, HandleItem(l)
    PROVE  Vehicle(l)
<1> DEFINE msg == Head(up[l])
           m == wpm[l]
           next == [m EXCEPT !.seq = @ + 1]
<1>1. Takes(l, "item") /\ Uptake(l)
  BY DEF HandleItem, Takes, Uptake, Head1
<1>2. CASE UNCHANGED <<storage, statics, wpm, gcs>> /\ (UNCHANGED down \/ Ack(l, m.type, "error"))
  BY <1>1, <1>2 DEF Vehicle, Passes, Refuses, memory, storage, statics
<1>3. CASE /\ msg.type = m.type /\ m.state = "IDLE" /\ m.seq = msg.n + 1 /\ Ack(l, m.type, "accepted")
           /\ UNCHANGED <<storage, statics, wpm, gcs>>
  BY <1>1, <1>3 DEF Vehicle, Confirms, memory, storage, statics
<1>4. CASE msg.type = m.type /\ m.state = "GETLIST" /\ msg.n = m.seq /\ Take(l, msg)
  <2>1. m \in Manager
    BY DEF TypeInv
  <2>2. CASE /\ items' = [items EXCEPT ![Bank(m.type, m.bank)][msg.n] = msg.content]
             /\ gcs' = [gcs EXCEPT ![l].mixed = @ \/ Plans[m.type][msg.content[1]] # m.count]
             /\ IF Last(m) THEN Complete(l, m)
                ELSE /\ wpm' = [wpm EXCEPT ![l] = next]
                     /\ Request(l, next)
                     /\ UNCHANGED <<stored, active, count, in_progress>>
    <3>1. PICK b \in BOOLEAN : b = (gcs[l].mixed \/ Plans[m.type][msg.content[1]] # m.count)
      OBVIOUS
    <3>2. gcs' = [gcs EXCEPT ![l] = [gcs[l] EXCEPT !.mixed = b]]
      BY <2>2, <3>1
    <3>3. Accepts(l)
      BY <1>1, <1>4, <2>2, <3>1, <3>2 DEF Accepts
    <3>4. CASE Last(m)
      BY <2>2, <3>3, <3>4 DEF Vehicle, Completes, Complete, Last
    <3>5. CASE ~Last(m)
      <4>1. next \in Manager
        BY <1>4, <2>1, <3>5, PlansAssumption, SMTT(30) DEF Manager, Fields, Last
      <4> QED  BY <2>2, <3>3, <3>5, <4>1 DEF Vehicle, Stores
    <3> QED  BY <3>4, <3>5
  <2>3. CASE /\ wpm' = [wpm EXCEPT ![l] = Idle(@)]
             /\ in_progress' = FALSE
             /\ Ack(l, m.type, "error")
             /\ \/ UNCHANGED <<stored, active, count>>
                \/ m.type = "fence" /\ \E ok \in WriteOk("state") : UpdateGeofenceCount(0, ok)
             /\ UNCHANGED <<items, gcs>>
    BY <1>1, <1>4, <2>3 DEF Vehicle, Fails
  <2> QED  BY <1>4, <2>2, <2>3 DEF Take
<1> QED  BY <1>2, <1>3, <1>4 DEF HandleItem, Expected

LEMMA OtherSteps ==
    ASSUME TypeInv, NEW l \in Links, Handle(l) \/ RetryRequest(l) \/ Timeout(l) \/ Lose(l)
    PROVE  Vehicle(l)
<1> DEFINE msg == Head(up[l])
           m == wpm[l]
<1>1. \A kind : Takes(l, kind) => Uptake(l)
  BY DEF Takes, Uptake, Head1
<1>2. CASE HandleClearAll(l)
  <2>1. Takes(l, "clear_all") /\ UNCHANGED <<items, gcs>>
    BY <1>2 DEF HandleClearAll, Takes
  <2>2. CASE m.state = "IDLE"
    <3>1. PICK ok \in WriteOk("state") :
            /\ IF msg.type = "all" THEN ClearCounts(ok) ELSE UpdateCount(msg.type, Inactive, 0, ok)
            /\ Ack(l, msg.type, AckOf(msg.type, ok))
      BY <1>2, <2>2 DEF HandleClearAll
    <3>2. AckOf(msg.type, ok) \in Codes
      BY DEF AckOf, Codes
    <3>3. wpm' = [wpm EXCEPT ![l].type = msg.type]
      BY <1>2, <2>2 DEF HandleClearAll
    <3>4. \E o \in WriteOk("state") :
            \/ msg.type = "all" /\ ClearCounts(o)
            \/ msg.type # "all" /\ UpdateCount(msg.type, Inactive, 0, o)
      BY <3>1
    <3> QED  BY <2>1, <2>2, <3>1, <3>2, <3>3, <3>4 DEF Vehicle, Empties
  <2>3. CASE m.state # "IDLE"
    BY <1>1, <1>2, <2>1, <2>3 DEF HandleClearAll, Vehicle, Passes, memory
  <2> QED  BY <2>2, <2>3
<1>3. CASE HandleRequestList(l)
  <2> DEFINE state == IF m.seq = CurrentItemCount(m.type) THEN "IDLE" ELSE m.state
             n == IF msg.type = "fence" THEN stored.fence ELSE count["mission"]
  <2>1. Takes(l, "request_list") /\ UNCHANGED <<storage, active, in_progress, gcs>>
    BY <1>3 DEF HandleRequestList, Takes
  <2>2. CASE /\ wpm' = [wpm EXCEPT ![l] = [state |-> "SENDLIST", type |-> msg.type, seq |-> 0, count |-> n,
                                           bank |-> m.bank]]
             /\ count' = [count EXCEPT ![msg.type] = n]
             /\ Reply(l, Msg("count", msg.type, n, NoItem))
    BY <2>1, <2>2 DEF Vehicle, Announces, storage
  <2>3. CASE state # "IDLE" /\ wpm' = [wpm EXCEPT ![l].state = state] /\ UNCHANGED <<count, down>>
    <3>1. wpm' = wpm
      BY <2>3 DEF TypeInv, Manager, Fields
    <3> QED  BY <1>1, <2>1, <2>3, <3>1 DEF Vehicle, Passes, memory, storage
  <2> QED  BY <1>3, <2>2, <2>3 DEF HandleRequestList
<1>4. CASE HandleRequest(l)
  <2> DEFINE next == msg.n = m.seq /\ m.seq < m.count
             again == msg.n = m.seq - 1
  <2>1. Takes(l, "request") /\ UNCHANGED <<storage, statics, gcs>>
    BY <1>4 DEF HandleRequest, Takes
  <2>2. CASE m.state # "SENDLIST" \/ m.type # msg.type
    BY <1>1, <1>4, <2>1, <2>2 DEF HandleRequest, Vehicle, Passes, memory, storage, statics
  <2>3. CASE m.state = "SENDLIST" /\ m.type = msg.type /\ (next \/ again) /\ msg.n < count[m.type]
    <3>1. /\ wpm' = [wpm EXCEPT ![l].seq = msg.n + 1]
          /\ \/ Reply(l, Msg("item", m.type, msg.n, items[SentBank(m)][msg.n]))
             \/ Ack(l, m.type, "error")
      BY <1>4, <2>3 DEF HandleRequest
    <3> QED  BY <2>1, <2>3, <3>1 DEF Vehicle, Gives, SentBank, memory, storage, statics
  <2>4. CASE m.state = "SENDLIST" /\ m.type = msg.type /\ ~((next \/ again) /\ msg.n < count[m.type])
    <3> DEFINE seq == IF next THEN m.seq + 1 ELSE m.seq
    <3>1. PICK n \in Nat : n = seq
      BY PlansAssumption, SMTT(30) DEF TypeInv, Manager, Fields
    <3>2. wpm' = [wpm EXCEPT ![l] = [Idle(m) EXCEPT !.seq = n]] /\ Ack(l, m.type, "error")
      BY <1>4, <2>4, <3>1 DEF HandleRequest
    <3> QED  BY <2>1, <2>4, <3>2 DEF Vehicle, Stops, memory, storage, statics
  <2> QED  BY <2>2, <2>3, <2>4
<1>5. CASE HandleAck(l)
  <2>1. Takes(l, "ack") /\ UNCHANGED <<storage, active, count, down, gcs>>
    BY <1>5 DEF HandleAck, Takes
  <2>2. \/ wpm' = wpm
        \/ m.state # "IDLE" /\ wpm' = [wpm EXCEPT ![l] = Idle(m)]
    BY <1>5 DEF HandleAck
  <2> QED  BY <1>1, <2>1, <2>2 DEF Vehicle, Passes, Stops, memory, storage
<1>6. CASE RetryRequest(l)
  BY <1>6 DEF RetryRequest, Vehicle, Asks, memory, storage, statics
<1>7. CASE Timeout(l)
  BY <1>7 DEF Timeout, Vehicle, Stops, memory, storage
<1>8. CASE Lose(l)
  BY <1>8 DEF Lose, Vehicle, Passes, Uptake, Consume, memory, storage, statics
<1> QED  BY <1>2, <1>3, <1>4, <1>5, <1>6, <1>7, <1>8, CountSteps, ItemSteps DEF Handle

LEMMA Steps ==
    ASSUME TypeInv, [Next]_vars
    PROVE  \/ UNCHANGED vars
           \/ Restart
           \/ \E l \in Links : Vehicle(l) \/ Begins(l) \/ GcsResend(l) \/ Hears(l)
<1>1. ASSUME NEW l \in Links, NEW n \in 0 .. MaxCount - 1, SendChangedItem(l, n) PROVE Vehicle(l)
  BY <1>1 DEF SendChangedItem, Vehicle, Notes, memory, storage, statics
<1>2. ASSUME NEW l \in Links, GcsReceive(l) PROVE Vehicle(l) \/ Hears(l)
  <2>1. PICK g \in Station, msg \in Downlink : g = gcs[l] /\ msg = Head(down[l])
    <3>1. down[l] # <<>>
      BY <1>2 DEF GcsReceive
    <3> QED  BY <3>1, TailQueue DEF TypeInv
  <2>2. /\ down[l] # <<>> /\ down' = [down EXCEPT ![l] = Tail(@)] /\ UNCHANGED <<storage, statics, wpm>>
        /\ \/ gcs' = gcs /\ up' = up
           \/ Answers(l, g, msg) \/ Concludes(l, g, msg) \/ Lists(l, g, msg)
           \/ Fetches(l, g, msg) \/ GivesUp(l, g, msg)
    BY <1>2, <2>1, ReceiveCases
  <2>3. UNCHANGED memory
    BY <2>2 DEF memory, storage, statics
  <2>4. CASE gcs' = gcs /\ up' = up
    BY <2>2, <2>3, <2>4 DEF Vehicle, Passes, Uptake
  <2> QED  BY <2>1, <2>2, <2>3, <2>4 DEF Hears
<1> QED  BY <1>1, <1>2, OtherSteps DEF Next, Gcs, Begins

-----------------------------------------------------------------------------
(* The bank of the active mission.  With several links this fails: an       *)
(* exhausted timeout of a download on one link clears the shared flag of a  *)
(* transfer in progress, so that a second upload may become active while    *)
(* the first still writes.                                                  *)

OneLink == \A k, l \in Links : k = l
BankInv == \A l \in Links : wpm[l].state = "GETLIST" /\ wpm[l].type = "mission" => wpm[l].bank # active

LEMMA BankStep ==
    ASSUME OneLink, TypeInv, BankInv, [Next]_vars
    PROVE  BankInv'
<1>0. wpm \in [Links -> Manager] /\ wpm \in [Links -> Fields]
  BY DEF TypeInv, Manager
<1>1. CASE UNCHANGED vars
  BY <1>1 DEF vars, statics, BankInv
<1>2. CASE Restart
  BY <1>2 DEF Restart, FreshManager, BankInv
<1>3. ASSUME NEW l \in Links, UNCHANGED memory \/ wpm[l].state = "IDLE",
             wpm'[l].state # "GETLIST" \/ (wpm'[l] = wpm[l] /\ UNCHANGED memory)
      PROVE  BankInv'
  BY <1>3 DEF OneLink, BankInv, memory
<1>4. ASSUME NEW l \in Links, Vehicle(l) PROVE BankInv'
  <2>1. CASE Passes(l) \/ Asks(l) \/ Refuses(l) \/ Confirms(l)
    BY <1>3, <2>1 DEF Passes, Asks, Refuses, Confirms
  <2>2. CASE Notes(l)
    <3>1. wpm'[l].state = "IDLE"
      BY <1>0, <2>2 DEF Notes, Fields
    <3> QED  BY <1>3, <2>2, <3>1 DEF Notes
  <2>3. CASE Opens(l)
    <3>1. wpm'[l].bank = Inactive /\ active' = active
      BY <1>0, <2>3, SMTT(30) DEF Opens, memory
    <3> QED  BY <3>1, InactiveTyped DEF OneLink, BankInv
  <2>4. CASE Empties(l)
    <3>1. wpm'[l].state = "IDLE"
      BY <1>0, <2>4 DEF Empties, Fields
    <3> QED  BY <3>1 DEF OneLink, BankInv
  <2>5. CASE Stores(l)
    <3>1. /\ wpm'[l].state = wpm[l].state /\ wpm'[l].type = wpm[l].type /\ wpm'[l].bank = wpm[l].bank
          /\ active' = active
      BY <1>0, <2>5 DEF Stores, Fields
    <3> QED  BY <3>1 DEF OneLink, BankInv
  <2>6. CASE Completes(l) \/ Fails(l)
    <3>1. wpm'[l].state = "IDLE"
      BY <1>0, <2>6 DEF Completes, Fails, Idle, Fields
    <3> QED  BY <3>1 DEF OneLink, BankInv
  <2>7. CASE Announces(l)
    <3>1. wpm'[l].state = "SENDLIST"
      BY <1>0, <2>7, SMTT(30) DEF Announces
    <3> QED  BY <3>1 DEF OneLink, BankInv
  <2>8. CASE Gives(l)
    <3>1. wpm'[l].state = "SENDLIST"
      BY <1>0, <2>8 DEF Gives, Fields
    <3> QED  BY <3>1 DEF OneLink, BankInv
  <2>9. CASE Stops(l)
    <3>1. wpm'[l].state = "IDLE"
      <4>1. PICK m : (m = Idle(wpm[l]) \/ \E n \in Nat : m = [Idle(wpm[l]) EXCEPT !.seq = n])
                     /\ wpm' = [wpm EXCEPT ![l] = m]
        BY <2>9 DEF Stops
      <4>2. wpm'[l] = m
        BY <1>0, <4>1
      <4>3. Idle(wpm[l]) \in Fields /\ Idle(wpm[l]).state = "IDLE"
        BY <1>0 DEF Idle, Fields
      <4> QED  BY <4>1, <4>2, <4>3 DEF Fields
    <3> QED  BY <3>1 DEF OneLink, BankInv
  <2> QED  BY <1>4, <2>1, <2>2, <2>3, <2>4, <2>5, <2>6, <2>7, <2>8, <2>9 DEF Vehicle
<1>5. ASSUME NEW l \in Links, Begins(l) \/ GcsResend(l) \/ Hears(l) PROVE BankInv'
  <2>1. UNCHANGED <<active, wpm>>
    BY <1>5 DEF Begins, GcsUpload, GcsDownload, GcsClear, GcsCancel, GcsResend, Hears, memory, statics
  <2> QED  BY <2>1 DEF BankInv
<1> QED  BY <1>1, <1>2, <1>4, <1>5, Steps

(* Only an item an upload waits for is ever written.                        *)
LEMMA Written ==
    ASSUME TypeInv, [Next]_vars
    PROVE  \/ items' = items
           \/ \E l \in Links :
                /\ wpm[l].state = "GETLIST" /\ Head1(l, "item")
                /\ Head(up[l]).n = wpm[l].seq /\ Head(up[l]).type = wpm[l].type
                /\ items' = [items EXCEPT ![Bank(wpm[l].type, wpm[l].bank)][wpm[l].seq] = Head(up[l]).content]
<1>1. ASSUME NEW l \in Links, Vehicle(l) PROVE items' = items \/ Accepts(l)
  BY <1>1 DEF Vehicle, Passes, Asks, Refuses, Confirms, Notes, Opens, Empties, Stores, Completes, Fails, Announces,
              Gives, Stops, memory
<1>2. ASSUME NEW l \in Links, Begins(l) \/ GcsResend(l) \/ Hears(l) PROVE items' = items
  BY <1>2 DEF Begins, GcsUpload, GcsDownload, GcsClear, GcsCancel, GcsResend, Hears, memory, storage
<1>3. CASE UNCHANGED vars
  BY <1>3 DEF vars, storage
<1> QED  BY <1>1, <1>2, <1>3, Steps, RestartItems DEF Accepts, Takes

(* The items of the active mission, and only a mission upload writes to a   *)
(* bank of missions.                                                        *)
LEMMA ActiveKept ==
    ASSUME TypeInv, BankInv, [Next]_vars
    PROVE  items'[active] = items[active]
<1>1. ASSUME NEW l \in Links, wpm[l].state = "GETLIST",
             items' = [items EXCEPT ![Bank(wpm[l].type, wpm[l].bank)][wpm[l].seq] = Head(up[l]).content]
      PROVE  items'[active] = items[active]
  <2>1. Bank(wpm[l].type, wpm[l].bank) # active /\ active \in Banks
    BY <1>1 DEF Bank, Banks, BankInv, TypeInv, CountsTyped
  <2> QED  BY <1>1, <2>1 DEF TypeInv
<1> QED  BY <1>1, Written

(* With one link, whatever accesses of the storage fail: no upload changes  *)
(* an item of the mission the vehicle flies.                                *)
THEOREM ActiveMissionIsStable ==
    ASSUME OneLink PROVE Spec => ActiveMissionStable
<1>1. Init => BankInv
  BY SMTT(30) DEF Init, BankInv, FreshManager
<1>2. TypeInv /\ BankInv /\ [Next]_vars => TypeInv' /\ BankInv'
  BY StepTyped, BankStep
<1>3. TypeInv /\ BankInv /\ [Next]_vars =>
        [active' = active => \A i \in 0 .. count["mission"] - 1 : items'[active][i] = items[active][i]]_vars
  BY ActiveKept
<1> QED  BY <1>1, <1>2, <1>3, InitTyped, PTL DEF Spec, ActiveMissionStable

-----------------------------------------------------------------------------
(* What is on its way to the vehicle, by what the ground station is at.     *)

ItemsOf(l) == \A m \in Elems(up[l]) : m.kind = "item" =>
    /\ gcs[l].plan \in DOMAIN Plans[gcs[l].type]
    /\ m.type = gcs[l].type /\ m.content = <<gcs[l].plan, m.n>>
    /\ m.n < gcs[l].next /\ gcs[l].next <= Length(gcs[l])
Kinds(l) ==
    /\ gcs[l].phase \in {"offering", "accepted"} => \A m \in Elems(up[l]) :
            /\ m.kind \in {"count", "item"}
            /\ m.kind = "count" => m.type = gcs[l].type /\ m.n = Length(gcs[l])
    /\ gcs[l].phase \in {"listing", "fetching", "downloaded"} =>
            \A m \in Elems(up[l]) : m.kind \in {"request_list", "request", "ack"}
UpInv == \A l \in Links : ItemsOf(l) /\ Kinds(l)

LEMMA Lined ==
    ASSUME NEW S, NEW q \in [Links -> Queue(S)], NEW l \in Links, NEW m
    PROVE  Elems(Send(q, l, m)[l]) \subseteq Elems(q[l]) \cup {m}
<1>1. q \in [Links -> Queue(S \cup {m})]
  BY SMTT(30) DEF Queue
<1> QED  BY <1>1, SendQueue, SMTT(30)

LEMMA ElemsTyped ==
    ASSUME TypeInv, NEW l \in Links
    PROVE  /\ \A m \in Elems(up[l]) : m \in Uplink /\ m.n \in Nat
           /\ \A m \in Elems(down[l]) : m \in Downlink /\ m.n \in Nat
<1>1. up[l] \in Seq(Uplink) /\ down[l] \in Seq(Downlink)
  BY DEF TypeInv, Queue
<1>2. \A m \in Uplink \cup Downlink : m.n \in Nat
  BY DEF Uplink, Downlink, Messages
<1>3. Elems(up[l]) \subseteq Uplink /\ Elems(down[l]) \subseteq Downlink
  BY <1>1, SMTT(30) DEF Elems
<1> QED  BY <1>2, <1>3

LEMMA UptakeElems ==
    ASSUME TypeInv, NEW l \in Links, Uptake(l)
    PROVE  Elems(up'[l]) \subseteq Elems(up[l])
<1>1. CASE up[l] # <<>> /\ Consume(l)
  BY <1>1, TailQueue DEF Consume, TypeInv
<1> QED  BY <1>1 DEF Uptake

(* A step of the vehicle: the ground station keeps its transfer, up to the  *)
(* history variable, and nothing more is on its way to the vehicle.         *)
LEMMA VehicleKeeps ==
    ASSUME TypeInv, NEW l \in Links, Vehicle(l)
    PROVE  /\ Uptake(l)
           /\ gcs'[l] \in Station
           /\ gcs'[l].phase = gcs[l].phase /\ gcs'[l].type = gcs[l].type /\ gcs'[l].plan = gcs[l].plan
           /\ gcs'[l].next = gcs[l].next /\ gcs'[l].got = gcs[l].got /\ gcs'[l].total = gcs[l].total
           /\ gcs'[l].mixed = gcs[l].mixed \/ Accepts(l)
<1>1. \A kind : Takes(l, kind) => Uptake(l)
  BY DEF Takes, Uptake, Head1
<1>2. Uptake(l)
  BY <1>1 DEF Vehicle, Passes, Asks, Refuses, Confirms, Notes, Opens, Empties, Stores, Completes, Fails, Announces,
              Gives, Stops, Accepts, Uptake
<1>3. gcs' = gcs \/ Accepts(l)
  BY DEF Vehicle, Passes, Asks, Refuses, Confirms, Notes, Opens, Empties, Stores, Completes, Fails, Announces,
         Gives, Stops
<1>4. CASE gcs' = gcs
  BY <1>2, <1>4 DEF TypeInv
<1>5. CASE Accepts(l)
  <2>1. PICK b \in BOOLEAN : gcs' = [gcs EXCEPT ![l] = [gcs[l] EXCEPT !.mixed = b]]
    BY <1>5 DEF Accepts
  <2>2. gcs[l] \in Station /\ gcs \in [Links -> Station]
    BY DEF TypeInv
  <2>3. [gcs[l] EXCEPT !.mixed = b] \in Station
    BY <2>2 DEF Station, Transfer, Length
  <2> QED  BY <1>2, <1>5, <2>1, <2>2, <2>3 DEF Station, Transfer
<1> QED  BY <1>3, <1>4, <1>5

LEMMA ResendCases ==
    ASSUME TypeInv, NEW l \in Links, GcsResend(l)
    PROVE  /\ UNCHANGED <<memory, wpm, down, gcs>>
           /\ \E m \in Uplink :
                /\ Say(l, m) /\ Elems(up'[l]) \subseteq Elems(up[l]) \cup {m}
                /\ \/ /\ gcs[l].phase = "offering" /\ gcs[l].next = 0
                      /\ m = Msg("count", gcs[l].type, Length(gcs[l]), NoItem)
                   \/ gcs[l].phase = "offering" /\ gcs[l].next > 0 /\ m = ItemOf(gcs[l], gcs[l].next - 1)
                   \/ gcs[l].phase = "listing" /\ m = Msg("request_list", gcs[l].type, 0, NoItem)
                   \/ gcs[l].phase = "fetching" /\ m = Msg("request", gcs[l].type, gcs[l].next, NoItem)
<1>1. UNCHANGED <<memory, wpm, down, gcs>>
  BY DEF GcsResend, memory, storage, statics
<1>2. \A m : Say(l, m) => Elems(up'[l]) \subseteq Elems(up[l]) \cup {m}
  BY Lined DEF Say, TypeInv
<1>3. /\ gcs[l] \in Station /\ gcs[l].next \in Nat /\ gcs[l].type \in Types
      /\ gcs[l].phase = "offering" => gcs[l].plan \in DOMAIN Plans[gcs[l].type] /\ gcs[l].next <= MaxCount
  BY DEF TypeInv, Station, Transfer
<1>4. gcs[l].phase = "offering" /\ gcs[l].next > 0 => ItemOf(gcs[l], gcs[l].next - 1) \in Uplink
  BY <1>3, ItemOfTyped, PlansAssumption, SMTT(30)
<1>5. gcs[l].phase = "offering" => Msg("count", gcs[l].type, Length(gcs[l]), NoItem) \in Uplink
  BY <1>3, GcsMessages DEF Length
<1>6. /\ Msg("request_list", gcs[l].type, 0, NoItem) \in Uplink
      /\ Msg("request", gcs[l].type, gcs[l].next, NoItem) \in Uplink
  BY <1>3, GcsMessages
<1> QED  BY <1>1, <1>2, <1>4, <1>5, <1>6 DEF GcsResend

LEMMA BeginCases ==
    ASSUME TypeInv, NEW l \in Links, Begins(l)
    PROVE  /\ UNCHANGED <<memory, wpm, down>> /\ Quiet(l)
           /\ \E m, g : /\ Elems(up'[l]) \subseteq {m} /\ gcs' = [gcs EXCEPT ![l] = g]
                        /\ \/ \E t \in Types : \E p \in DOMAIN Plans[t] :
                                g = Begun("offering", t, p) /\ m = Msg("count", t, Plans[t][p], NoItem)
                           \/ \E t \in Types :
                                g = Begun("listing", t, "none") /\ m = Msg("request_list", t, 0, NoItem)
                           \/ g = FreshGcs /\ m.kind \in {"clear_all", "ack"}
<1>1. UNCHANGED <<memory, wpm, down>> /\ Quiet(l)
  BY DEF Begins, GcsUpload, GcsDownload, GcsClear, GcsCancel, memory, storage, statics
<1>2. \A m : Say(l, m) => Elems(up'[l]) \subseteq {m}
  <2>1. Elems(up[l]) = {}
    BY <1>1, SMTT(30) DEF Quiet, Elems
  <2> QED  BY <2>1, Lined DEF Say, TypeInv
<1>3. \A t, n, c : Msg("clear_all", t, n, c).kind = "clear_all" /\ Msg("ack", t, n, c).kind = "ack"
  BY DEF Msg
<1>4. ASSUME NEW t \in Types, NEW p \in DOMAIN Plans[t], GcsUpload(l, t, p)
      PROVE  /\ Elems(up'[l]) \subseteq {Msg("count", t, Plans[t][p], NoItem)}
             /\ gcs' = [gcs EXCEPT ![l] = Begun("offering", t, p)]
  BY <1>2, <1>4 DEF GcsUpload
<1>5. ASSUME NEW t \in Types, GcsDownload(l, t)
      PROVE  /\ Elems(up'[l]) \subseteq {Msg("request_list", t, 0, NoItem)}
             /\ gcs' = [gcs EXCEPT ![l] = Begun("listing", t, "none")]
  BY <1>2, <1>5 DEF GcsDownload
<1>6. ASSUME (\E t \in TypesOrAll : GcsClear(l, t)) \/ GcsCancel(l)
      PROVE  \E m : /\ Elems(up'[l]) \subseteq {m} /\ m.kind \in {"clear_all", "ack"}
                    /\ gcs' = [gcs EXCEPT ![l] = FreshGcs]
  BY <1>2, <1>3, <1>6, SMTT(30) DEF GcsClear, GcsCancel
<1> QED  BY <1>1, <1>4, <1>5, <1>6 DEF Begins

LEMMA ListsFields ==
    ASSUME TypeInv, NEW l \in Links, NEW g \in Station, g = gcs[l], NEW msg, Lists(l, g, msg)
    PROVE  /\ gcs'[l].phase = (IF msg.n = 0 THEN "downloaded" ELSE "fetching") /\ gcs'[l].total = msg.n
           /\ gcs'[l].type = g.type /\ gcs'[l].plan = g.plan /\ gcs'[l].next = g.next /\ gcs'[l].got = g.got
<1>1. PICK z : z = (IF msg.n = 0 THEN "downloaded" ELSE "fetching")
  OBVIOUS
<1>2. PICK new : new = [g EXCEPT !.phase = z, !.total = msg.n]
  OBVIOUS
<1>3. gcs'[l] = new
  BY <1>1, <1>2 DEF Lists, TypeInv
<1>4. /\ new.phase = z /\ new.total = msg.n /\ new.type = g.type /\ new.plan = g.plan
      /\ new.next = g.next /\ new.got = g.got
  BY <1>2 DEF Station, Transfer
<1> QED  BY <1>1, <1>3, <1>4

LEMMA FetchesFields ==
    ASSUME TypeInv, NEW l \in Links, NEW g \in Station, g = gcs[l], NEW msg, Fetches(l, g, msg)
    PROVE  /\ gcs'[l].phase = (IF g.next + 1 = g.total THEN "downloaded" ELSE "fetching")
           /\ gcs'[l].type = g.type /\ gcs'[l].plan = g.plan /\ gcs'[l].total = g.total
           /\ gcs'[l].next = g.next + 1 /\ gcs'[l].got = Append(g.got, msg.content)
<1>1. PICK z \in {"downloaded", "fetching"} :
        /\ z = "downloaded" <=> g.next + 1 = g.total
        /\ gcs' = [gcs EXCEPT ![l] = [g EXCEPT !.next = g.next + 1, !.got = Append(g.got, msg.content),
                                               !.phase = z]]
  BY DEF Fetches
<1>2. PICK x, y : x = g.next + 1 /\ y = Append(g.got, msg.content)
  OBVIOUS
<1>3. PICK new : new = [g EXCEPT !.next = x, !.got = y, !.phase = z]
  OBVIOUS
<1>4. gcs'[l] = new
  BY <1>1, <1>2, <1>3 DEF TypeInv
<1>5. /\ new.phase = z /\ new.total = g.total /\ new.type = g.type /\ new.plan = g.plan
      /\ new.next = x /\ new.got = y
  BY <1>3 DEF Station, Transfer
<1> QED  BY <1>1, <1>2, <1>4, <1>5

LEMMA UpStep ==
    ASSUME OneLink, TypeInv, UpInv, [Next]_vars
    PROVE  UpInv'
<1>1. CASE UNCHANGED vars \/ Restart
  BY <1>1, SMTT(30) DEF vars, Restart, UpInv, ItemsOf, Kinds, Length
<1>2. ASSUME NEW l \in Links, Vehicle(l) PROVE UpInv'
  <2>1. /\ Elems(up'[l]) \subseteq Elems(up[l])
        /\ gcs'[l].phase = gcs[l].phase /\ gcs'[l].type = gcs[l].type /\ gcs'[l].plan = gcs[l].plan
        /\ gcs'[l].next = gcs[l].next
    BY <1>2, VehicleKeeps, UptakeElems
  <2>2. Length(gcs'[l]) = Length(gcs[l])
    BY <2>1 DEF Length
  <2>3. ItemsOf(l)' /\ Kinds(l)'
    BY <2>1, <2>2, SMTT(30) DEF UpInv, ItemsOf, Kinds
  <2> QED  BY <2>3 DEF OneLink, UpInv
<1>3. ASSUME NEW l \in Links, Begins(l) PROVE UpInv'
  <2>1. PICK m, g : /\ Elems(up'[l]) \subseteq {m} /\ gcs'[l] = g
                    /\ \/ \E t \in Types : \E p \in DOMAIN Plans[t] :
                            g = Begun("offering", t, p) /\ m = Msg("count", t, Plans[t][p], NoItem)
                       \/ \E t \in Types :
                            g = Begun("listing", t, "none") /\ m = Msg("request_list", t, 0, NoItem)
                       \/ g = FreshGcs /\ m.kind \in {"clear_all", "ack"}
    BY <1>3, BeginCases DEF TypeInv
  <2>2. m.kind # "item"
    BY <2>1, SMTT(30) DEF Msg
  <2>3. /\ g.phase \in {"offering", "accepted"} => m.kind = "count" /\ m.type = g.type /\ m.n = Length(g)
        /\ g.phase \in {"listing", "fetching", "downloaded"} => m.kind = "request_list"
    BY <2>1, SMTT(30) DEF Msg, Begun, FreshGcs, Length
  <2>4. ItemsOf(l)' /\ Kinds(l)'
    BY <2>1, <2>2, <2>3 DEF ItemsOf, Kinds
  <2> QED  BY <2>4 DEF OneLink, UpInv
<1>4. ASSUME NEW l \in Links, GcsResend(l) PROVE UpInv'
  <2>1. PICK m : /\ Elems(up'[l]) \subseteq Elems(up[l]) \cup {m} /\ gcs' = gcs
                 /\ \/ /\ gcs[l].phase = "offering" /\ gcs[l].next = 0
                       /\ m = Msg("count", gcs[l].type, Length(gcs[l]), NoItem)
                    \/ gcs[l].phase = "offering" /\ gcs[l].next > 0 /\ m = ItemOf(gcs[l], gcs[l].next - 1)
                    \/ gcs[l].phase = "listing" /\ m = Msg("request_list", gcs[l].type, 0, NoItem)
                    \/ gcs[l].phase = "fetching" /\ m = Msg("request", gcs[l].type, gcs[l].next, NoItem)
    BY <1>4, ResendCases
  <2>2. gcs[l] \in Station /\ gcs[l].next \in Nat
    BY DEF TypeInv, Station, Transfer
  <2>3. m.kind = "item" => /\ gcs[l].plan \in DOMAIN Plans[gcs[l].type]
                           /\ m.type = gcs[l].type /\ m.content = <<gcs[l].plan, m.n>>
                           /\ m.n < gcs[l].next /\ gcs[l].next <= Length(gcs[l])
    BY <2>1, <2>2, SMTT(30) DEF Msg, ItemOf, Station
  <2>4. ItemsOf(l)'
    BY <2>1, <2>3 DEF UpInv, ItemsOf
  <2>5. Kinds(l)'
    BY <2>1, SMTT(30) DEF UpInv, Kinds, Msg, ItemOf
  <2> QED  BY <2>4, <2>5 DEF OneLink, UpInv
<1>5. ASSUME NEW l \in Links, Hears(l) PROVE UpInv'
  <2>1. PICK g \in Station, msg \in Downlink :
            /\ g = gcs[l] /\ msg = Head(down[l])
            /\ \/ Answers(l, g, msg) \/ Concludes(l, g, msg) \/ Lists(l, g, msg)
               \/ Fetches(l, g, msg) \/ GivesUp(l, g, msg)
    BY <1>5 DEF Hears
  <2>2. g \in Transfer /\ g.next \in Nat /\ msg.n \in Nat
    BY <2>1 DEF Station, Transfer, Downlink, Messages
  <2>3. \A m : Say(l, m) => Elems(up'[l]) \subseteq Elems(up[l]) \cup {m}
    BY Lined DEF Say, TypeInv
  <2>4. \A new : gcs' = [gcs EXCEPT ![l] = new] => gcs'[l] = new
    BY DEF TypeInv
  <2>5. CASE Answers(l, g, msg)
    <3>1. PICK new : new = [g EXCEPT !.next = msg.n + 1] /\ gcs'[l] = new
      BY <2>4, <2>5 DEF Answers
    <3>2. /\ new.phase = "offering" /\ new.type = g.type /\ new.plan = g.plan /\ new.next = msg.n + 1
          /\ Length(new) = Length(g)
      BY <2>2, <2>5, <3>1 DEF Answers, Transfer, Length
    <3>3. /\ g.plan \in DOMAIN Plans[g.type] /\ Length(g) \in Nat /\ new.next <= Length(new)
          /\ g.next <= new.next /\ msg.n < new.next
      <4>1. g.plan \in DOMAIN Plans[g.type] /\ g.type \in Types
        BY <2>1, <2>5 DEF Answers, Station, Transfer
      <4>2. Length(g) \in Nat
        BY <4>1, PlansAssumption DEF Length
      <4> QED  BY <2>2, <2>5, <3>2, <4>1, <4>2, SMTT(30) DEF Answers
    <3>4. Elems(up'[l]) \subseteq Elems(up[l]) \cup {ItemOf(g, msg.n)}
      BY <2>3, <2>5 DEF Answers
    <3>5. ItemsOf(l)'
      <4>1. \A m \in Elems(up[l]) : m \in Uplink /\ m.n \in Nat
        BY ElemsTyped
      <4> QED  BY <2>1, <2>2, <3>1, <3>2, <3>3, <3>4, <4>1, SMTT(30) DEF UpInv, ItemsOf, ItemOf, Msg
    <3>6. Kinds(l)'
      BY <2>1, <2>5, <3>1, <3>2, <3>4, SMTT(30) DEF Answers, UpInv, Kinds, ItemOf, Msg
    <3> QED  BY <3>5, <3>6 DEF OneLink, UpInv
  <2>6. CASE Concludes(l, g, msg) \/ GivesUp(l, g, msg)
    <3>1. PICK phase \in {"accepted", "idle"} :
            /\ phase = "accepted" => g.phase = "offering"
            /\ gcs' = [gcs EXCEPT ![l] = [g EXCEPT !.phase = phase]] /\ up' = up
      BY <2>6 DEF Concludes, GivesUp
    <3>2. PICK new : new = [g EXCEPT !.phase = phase] /\ gcs'[l] = new
      BY <2>4, <3>1
    <3>3. new.phase = phase /\ new.type = g.type /\ new.plan = g.plan /\ new.next = g.next /\ Length(new) = Length(g)
      BY <2>2, <3>2 DEF Transfer, Length
    <3>4. ItemsOf(l)' /\ Kinds(l)'
      BY <2>1, <3>1, <3>2, <3>3, SMTT(30) DEF UpInv, ItemsOf, Kinds
    <3> QED  BY <3>4 DEF OneLink, UpInv
  <2>7. CASE Lists(l, g, msg) \/ Fetches(l, g, msg)
    <3>1. gcs'[l].phase \in {"downloaded", "fetching"}
      BY <2>1, <2>7, ListsFields, FetchesFields
    <3>2. PICK m : Say(l, m) /\ m.kind \in {"request", "ack"}
      BY <2>7, SMTT(30) DEF Lists, Fetches, Msg
    <3>3. \A x \in Elems(up'[l]) : x.kind \in {"request_list", "request", "ack"}
      BY <2>1, <2>3, <2>7, <3>2, SMTT(30) DEF Lists, Fetches, UpInv, Kinds
    <3>4. ItemsOf(l)' /\ Kinds(l)'
      BY <3>1, <3>3 DEF ItemsOf, Kinds
    <3> QED  BY <3>4 DEF OneLink, UpInv
  <2> QED  BY <2>1, <2>5, <2>6, <2>7
<1> QED  BY <1>1, <1>2, <1>3, <1>4, <1>5, Steps

-----------------------------------------------------------------------------
(* The states in memory and in the data manager agree, provided the writes  *)
(* of the latter succeed.                                                   *)

Reliable == "state" \notin Fallible
StoredInv == /\ stored.mission = [bank |-> active, count |-> count["mission"]]
             /\ stored.fence = count["fence"]

LEMMA Updated ==
    ASSUME CountsTyped, StoredInv, NEW type \in Types, NEW bank, NEW n, UpdateCount(type, bank, n, TRUE)
    PROVE  /\ StoredInv' /\ count' = [count EXCEPT ![type] = n]
           /\ active' = IF type = "mission" THEN bank ELSE active
BY PlansAssumption, SMTT(30) DEF UpdateCount, UpdateActiveMission, UpdateGeofenceCount, CountsTyped, StoredInv

LEMMA Emptied ==
    ASSUME Reliable, TypeInv, StoredInv, NEW l \in Links, Empties(l)
    PROVE  /\ StoredInv'
           /\ \A t \in Types : count'[t] = IF Head(up[l]).type \in {t, "all"} THEN 0 ELSE count[t]
           /\ active' = IF Head(up[l]).type \in {"mission", "all"} THEN Inactive ELSE active
<1>1. PICK type \in TypesOrAll : type = Head(up[l]).type
  <2>1. Head(up[l]) \in Uplink
    BY TailQueue DEF Empties, Takes, Head1, TypeInv
  <2> QED  BY <2>1 DEF Uplink, Messages
<1>2. \/ type = "all" /\ ClearCounts(TRUE)
      \/ type # "all" /\ UpdateCount(type, Inactive, 0, TRUE)
  BY <1>1 DEF Empties, WriteOk, Reliable
<1>3. CountsTyped
  BY DEF TypeInv
<1>4. CASE type = "all"
  <2>1. \E mission_ok \in {TRUE} :
        /\ active' = Inactive
        /\ count' = [count EXCEPT !["mission"] = 0, !["fence"] = IF TRUE THEN 0 ELSE @]
        /\ stored' = [mission |-> IF mission_ok THEN [bank |-> Inactive, count |-> 0] ELSE stored.mission,
                      fence |-> IF TRUE THEN 0 ELSE stored.fence]
    BY <1>2, <1>4 DEF ClearCounts, WriteOk, Reliable
  <2>2. count'["mission"] = 0 /\ count'["fence"] = 0
    BY <1>3, <2>1, PlansAssumption DEF CountsTyped
  <2>3. StoredInv' /\ active' = Inactive
    BY <2>1, <2>2, SMTT(30) DEF StoredInv
  <2> QED  BY <1>1, <1>4, <2>2, <2>3, PlansAssumption
<1>5. CASE type # "all"
  <2>1. type \in Types /\ UpdateCount(type, Inactive, 0, TRUE)
    BY <1>2, <1>5 DEF TypesOrAll
  <2>2. PICK bank : bank = Inactive
    OBVIOUS
  <2>3. /\ StoredInv' /\ count' = [count EXCEPT ![type] = 0]
        /\ active' = IF type = "mission" THEN bank ELSE active
    BY <1>3, <2>1, <2>2, Updated
  <2> QED  BY <1>1, <1>3, <1>5, <2>1, <2>2, <2>3 DEF CountsTyped
<1> QED  BY <1>4, <1>5

LEMMA Completed ==
    ASSUME Reliable, TypeInv, StoredInv, NEW l \in Links, Completes(l)
    PROVE  /\ StoredInv' /\ wpm[l].type \in Types
           /\ count' = [count EXCEPT ![wpm[l].type] = wpm[l].count]
           /\ active' = IF wpm[l].type = "mission" THEN wpm[l].bank ELSE active
           /\ Ack(l, wpm[l].type, "accepted")
<1>1. PICK type \in Types : type = wpm[l].type
  BY DEF Completes, Accepts, TypeInv, Manager
<1>2. UpdateCount(type, wpm[l].bank, wpm[l].count, TRUE) /\ Ack(l, type, AckOf(type, TRUE))
  BY <1>1 DEF Completes, WriteOk, Reliable
<1>3. PICK bank, n : bank = wpm[l].bank /\ n = wpm[l].count
  OBVIOUS
<1>4. /\ StoredInv' /\ count' = [count EXCEPT ![type] = n]
      /\ active' = IF type = "mission" THEN bank ELSE active
  BY <1>2, <1>3, Updated DEF TypeInv
<1> QED  BY <1>1, <1>2, <1>3, <1>4 DEF AckOf

(* The count a download announces is the one there is.                      *)
LEMMA Announced ==
    ASSUME TypeInv, StoredInv, NEW l \in Links, Announces(l)
    PROVE  /\ Head(up[l]).type \in Types /\ UNCHANGED memory
           /\ Reply(l, Msg("count", Head(up[l]).type, count[Head(up[l]).type], NoItem))
           /\ wpm' = [wpm EXCEPT ![l] = [state |-> "SENDLIST", type |-> Head(up[l]).type, seq |-> 0,
                                         count |-> count[Head(up[l]).type], bank |-> wpm[l].bank]]
<1>1. PICK type \in Types : type = Head(up[l]).type
  <2>1. Head(up[l]) \in Uplink /\ Head(up[l]).kind = "request_list"
    BY TailQueue DEF Announces, Takes, Head1, TypeInv
  <2> QED  BY <2>1 DEF Uplink
<1>2. PICK n : /\ n = (IF type = "fence" THEN stored.fence ELSE count["mission"])
               /\ wpm' = [wpm EXCEPT ![l] = [state |-> "SENDLIST", type |-> type, seq |-> 0,
                                             count |-> n, bank |-> wpm[l].bank]]
               /\ count' = [count EXCEPT ![type] = n]
               /\ Reply(l, Msg("count", type, n, NoItem))
  BY <1>1 DEF Announces
<1>3. n = count[type]
  BY <1>1, <1>2, PlansAssumption DEF StoredInv
<1>4. count' = count
  BY <1>1, <1>2, <1>3 DEF TypeInv, CountsTyped
<1> QED  BY <1>1, <1>2, <1>3, <1>4 DEF Announces, memory

LEMMA Failed ==
    ASSUME Reliable, TypeInv, StoredInv, NEW l \in Links, Fails(l)
    PROVE  /\ StoredInv' /\ active' = active /\ count'["mission"] = count["mission"]
           /\ UNCHANGED memory \/ (wpm[l].type = "fence" /\ count'["fence"] = 0)
<1>1. CASE UNCHANGED <<stored, active, count>>
  BY <1>1 DEF StoredInv, Fails, memory
<1>2. CASE wpm[l].type = "fence" /\ \E ok \in WriteOk("state") : UpdateGeofenceCount(0, ok)
  <2>1. UpdateGeofenceCount(0, TRUE)
    BY <1>2 DEF WriteOk, Reliable
  <2> QED  BY <1>2, <2>1, PlansAssumption DEF UpdateGeofenceCount, StoredInv, TypeInv, CountsTyped
<1> QED  BY <1>1, <1>2 DEF Fails

LEMMA RestartCounts ==
    ASSUME TypeInv, StoredInv, Restart
    PROVE  StoredInv' /\ active' = active /\ count' = count
<1>1. count'["mission"] = count["mission"] /\ count'["fence"] = count["fence"] /\ active' = active
  BY PlansAssumption, SMTT(30) DEF Restart, StoredInv
<1>2. count' = count
  BY <1>1, PlansAssumption DEF Restart, TypeInv, CountsTyped
<1> QED  BY <1>1, <1>2 DEF StoredInv, Restart

(* Whatever else the vehicle or the ground station does leaves them alone.  *)
LEMMA CountsKept ==
    ASSUME TypeInv, StoredInv, NEW l \in Links,
           \/ Passes(l) \/ Asks(l) \/ Refuses(l) \/ Confirms(l) \/ Notes(l) \/ Opens(l) \/ Stores(l)
           \/ Announces(l) \/ Gives(l) \/ Stops(l) \/ Begins(l) \/ GcsResend(l) \/ Hears(l)
    PROVE  UNCHANGED <<stored, active, count>>
BY Announced, BeginCases, ResendCases
   DEF Passes, Asks, Refuses, Confirms, Notes, Opens, Stores, Gives, Stops, Hears, memory

LEMMA StoredStep ==
    ASSUME Reliable, TypeInv, StoredInv, [Next]_vars
    PROVE  StoredInv'
<1>1. CASE UNCHANGED <<stored, active, count>>
  BY <1>1 DEF StoredInv
<1>2. CASE UNCHANGED vars
  BY <1>1, <1>2 DEF vars, storage, statics
<1> QED  BY <1>1, <1>2, Steps, CountsKept, Emptied, Completed, Failed, RestartCounts DEF Vehicle

-----------------------------------------------------------------------------
(* An upload in progress: the items stored so far are the first of one      *)
(* plan, either the one the ground station is offering or one it has given  *)
(* up, in which case no item the manager would take can arrive any more.    *)

RequestsOf(l, t) == {m \in Elems(down[l]) : m.kind = "request" /\ m.type = t}
Stale(l) ==
    /\ \A m \in Elems(up[l]) : m.kind = "item" => m.type # wpm[l].type
    /\ gcs[l].phase = "offering" /\ gcs[l].type = wpm[l].type =>
            gcs[l].next = 0 /\ \A m \in RequestsOf(l, wpm[l].type) : m.n > 0
Holds(bank, p, n) == \A i \in 0 .. n - 1 : items[bank][i] = <<p, i>>
Collected(l, p) ==
    /\ wpm[l].seq <= Plans[wpm[l].type][p]
    /\ Holds(Bank(wpm[l].type, wpm[l].bank), p, wpm[l].seq)
    /\ Stale(l) \/ (gcs[l].type = wpm[l].type /\ gcs[l].plan = p)
UploadInv == \A l \in Links :
    wpm[l].state = "GETLIST" /\ wpm[l].seq > 0 => \E p \in DOMAIN Plans[wpm[l].type] : Collected(l, p)

LEMMA ReplyElems ==
    ASSUME TypeInv, NEW l \in Links, NEW m, Reply(l, m)
    PROVE  Elems(down'[l]) \subseteq Elems(down[l]) \cup {m}
BY Lined DEF Reply, TypeInv

LEMMA AckElems ==
    ASSUME TypeInv, NEW l \in Links, NEW type, NEW code, Ack(l, type, code)
    PROVE  \A r \in Elems(down'[l]) :
            r \in Elems(down[l]) \/ (r.kind = "ack" /\ r.type = type /\ r.content[1] = code)
<1>1. PICK m : m = Msg("ack", type, 0, <<code, 0>>)
  OBVIOUS
<1>2. Elems(down'[l]) \subseteq Elems(down[l]) \cup {m}
  BY <1>1, ReplyElems, SMTT(30) DEF Ack
<1> QED  BY <1>1, <1>2, SMTT(30) DEF Msg

LEMMA RequestElems ==
    ASSUME TypeInv, NEW l \in Links, NEW x, Request(l, x)
    PROVE  \A r \in Elems(down'[l]) :
            r \in Elems(down[l]) \/ (r.kind = "request" /\ r.type = x.type /\ r.n = x.seq)
<1>1. PICK m : m = Msg("request", x.type, x.seq, NoItem)
  OBVIOUS
<1>2. Elems(down'[l]) \subseteq Elems(down[l]) \cup {m}
  BY <1>1, ReplyElems, SMTT(30) DEF Request
<1> QED  BY <1>1, <1>2, SMTT(30) DEF Msg

(* The manager sends a request only for the item it waits for.              *)
LEMMA VehicleReplies ==
    ASSUME TypeInv, NEW l \in Links, Vehicle(l)
    PROVE  \/ down' = down
           \/ down[l] # <<>> /\ down' = [down EXCEPT ![l] = Tail(@)]
           \/ \E m : /\ Reply(l, m)
                     /\ m.kind = "request" =>
                            wpm'[l].state = "GETLIST" /\ m.type = wpm'[l].type /\ m.n = wpm'[l].seq
<1> DEFINE Goal == \E m : /\ Reply(l, m)
                          /\ m.kind = "request" =>
                                wpm'[l].state = "GETLIST" /\ m.type = wpm'[l].type /\ m.n = wpm'[l].seq
<1>1. CASE Passes(l)
  BY <1>1 DEF Passes
<1>2. ASSUME NEW type, NEW code, Ack(l, type, code) PROVE Goal
  <2>1. PICK m : m = Msg("ack", type, 0, <<code, 0>>) /\ Reply(l, m)
    BY <1>2 DEF Ack
  <2> QED  BY <2>1, SMTT(30) DEF Msg
<1>3. ASSUME NEW kind, NEW type, NEW n, NEW c, kind # "request", Reply(l, Msg(kind, type, n, c)) PROVE Goal
  <2>1. PICK m : m = Msg(kind, type, n, c) /\ Reply(l, m)
    BY <1>3
  <2> QED  BY <1>3, <2>1, SMTT(30) DEF Msg
<1>4. ASSUME NEW x, Request(l, x), wpm'[l] = x, x.state = "GETLIST" PROVE Goal
  <2>1. PICK m : m = Msg("request", x.type, x.seq, NoItem) /\ Reply(l, m)
    BY <1>4 DEF Request
  <2> QED  BY <1>4, <2>1, SMTT(30) DEF Msg
<1> HIDE DEF Goal
<1>5. ASSUME Asks(l) PROVE Goal
  BY <1>4, <1>5 DEF Asks
<1>6. ASSUME Refuses(l) \/ Confirms(l) \/ Empties(l) \/ Completes(l) \/ Fails(l) PROVE Goal
  <2>1. PICK type, code : Ack(l, type, code)
    BY <1>6 DEF Refuses, Confirms, Empties, Completes, Fails
  <2> QED  BY <1>2, <2>1
<1>7. ASSUME Notes(l) \/ Announces(l) \/ Gives(l) PROVE Goal
  <2>1. \/ \E type, code : Ack(l, type, code)
        \/ \E kind, type, n, c : kind # "request" /\ Reply(l, Msg(kind, type, n, c))
    <3>1. "item" # "request" /\ "count" # "request"
      OBVIOUS
    <3> QED  BY <1>7, <3>1 DEF Notes, Announces, Gives
  <2> QED  BY <1>2, <1>3, <2>1
<1>8. ASSUME Opens(l) PROVE Goal
  BY <1>4, <1>8 DEF Opens, TypeInv
<1>9. ASSUME Stores(l) PROVE Goal
  <2>1. PICK next : /\ next = [wpm[l] EXCEPT !.seq = wpm[l].seq + 1] /\ next \in Manager
                    /\ wpm' = [wpm EXCEPT ![l] = next] /\ Request(l, next)
    BY <1>9 DEF Stores
  <2>2. next.state = "GETLIST" /\ wpm'[l] = next
    BY <1>9, <2>1 DEF Stores, Accepts, TypeInv, Manager, Fields
  <2> QED  BY <1>4, <2>1, <2>2
<1>10. ASSUME Stops(l) PROVE Goal \/ down' = down
  BY <1>2, <1>10 DEF Stops
<1> QED  BY <1>1, <1>5, <1>6, <1>7, <1>8, <1>9, <1>10 DEF Vehicle, Goal

LEMMA VehicleRequests ==
    ASSUME TypeInv, NEW l \in Links, Vehicle(l)
    PROVE  \A r \in Elems(down'[l]) :
            \/ r \in Elems(down[l]) \/ r.kind # "request"
            \/ wpm'[l].state = "GETLIST" /\ r.type = wpm'[l].type /\ r.n = wpm'[l].seq
<1>1. CASE down[l] # <<>> /\ down' = [down EXCEPT ![l] = Tail(@)]
  BY <1>1, TailQueue DEF TypeInv
<1>2. ASSUME NEW m, Reply(l, m),
             m.kind = "request" => wpm'[l].state = "GETLIST" /\ m.type = wpm'[l].type /\ m.n = wpm'[l].seq
      PROVE  \A r \in Elems(down'[l]) :
                \/ r \in Elems(down[l]) \/ r.kind # "request"
                \/ wpm'[l].state = "GETLIST" /\ r.type = wpm'[l].type /\ r.n = wpm'[l].seq
  BY <1>2, ReplyElems, SMTT(30)
<1> QED  BY <1>1, <1>2, VehicleReplies

(* How a manager comes to be waiting for an item.                           *)
LEMMA Collecting ==
    ASSUME TypeInv, NEW l \in Links, Vehicle(l), wpm'[l].state = "GETLIST"
    PROVE  \/ UNCHANGED <<memory, wpm, gcs>>
           \/ Opens(l) /\ wpm'[l].seq = 0
           \/ Stores(l)
<1>0. wpm \in [Links -> Fields]
  BY DEF TypeInv, Manager
<1>1. CASE Passes(l) \/ Asks(l) \/ Refuses(l) \/ Confirms(l)
  BY <1>1 DEF Passes, Asks, Refuses, Confirms
<1>2. Notes(l) \/ Empties(l) => wpm'[l].state = "IDLE"
  BY <1>0 DEF Notes, Empties, Fields
<1>3. CASE Opens(l)
  <2>1. PICK opened : /\ opened = [state |-> "GETLIST", type |-> Head(up[l]).type, seq |-> 0,
                                   count |-> Head(up[l]).n, bank |-> Inactive]
                      /\ wpm' = [wpm EXCEPT ![l] = opened]
    BY <1>3 DEF Opens
  <2>2. wpm'[l].seq = 0
    BY <1>0, <2>1
  <2> QED  BY <1>3, <2>2
<1>4. Completes(l) \/ Fails(l) \/ Stops(l) => wpm'[l].state = "IDLE"
  <2>1. \A n : [Idle(wpm[l]) EXCEPT !.seq = n].state = "IDLE" /\ Idle(wpm[l]).state = "IDLE"
    BY <1>0 DEF Idle, Fields
  <2>2. \A new : wpm' = [wpm EXCEPT ![l] = new] => wpm'[l] = new
    BY <1>0
  <2> QED  BY <2>1, <2>2 DEF Completes, Fails, Stops
<1>5. Announces(l) \/ Gives(l) => wpm'[l].state = "SENDLIST"
  BY <1>0, SMTT(30) DEF Announces, Gives, Fields
<1> QED  BY <1>1, <1>2, <1>3, <1>4, <1>5 DEF Vehicle

(* The item a manager takes, of the plan the ground station offers.         *)
LEMMA Taken ==
    ASSUME TypeInv, UpInv, NEW l \in Links, Accepts(l)
    PROVE  /\ wpm[l] \in Manager /\ wpm[l].seq \in Nat /\ wpm[l].seq < MaxCount
           /\ gcs[l].type = wpm[l].type /\ gcs[l].plan \in DOMAIN Plans[wpm[l].type]
           /\ wpm[l].seq < gcs[l].next /\ gcs[l].next <= Length(gcs[l])
           /\ Bank(wpm[l].type, wpm[l].bank) \in Banks
           /\ items' = [items EXCEPT ![Bank(wpm[l].type, wpm[l].bank)][wpm[l].seq] = <<gcs[l].plan, wpm[l].seq>>]
           /\ \E m \in Elems(up[l]) : m.kind = "item" /\ m.type = wpm[l].type /\ m.n = wpm[l].seq
<1>1. PICK m : m = Head(up[l])
  OBVIOUS
<1>2. m \in Elems(up[l]) /\ m.kind = "item" /\ m.n = wpm[l].seq /\ m.type = wpm[l].type
  BY <1>1, TailQueue DEF Accepts, Takes, Head1, TypeInv
<1>3. /\ gcs[l].plan \in DOMAIN Plans[gcs[l].type] /\ m.type = gcs[l].type /\ m.content = <<gcs[l].plan, m.n>>
      /\ m.n < gcs[l].next /\ gcs[l].next <= Length(gcs[l])
  BY <1>2 DEF UpInv, ItemsOf
<1>4. wpm[l] \in Manager /\ wpm[l].seq \in Nat /\ wpm[l].seq < MaxCount /\ Bank(wpm[l].type, wpm[l].bank) \in Banks
  <2>1. wpm[l].state = "GETLIST" /\ wpm[l] \in Manager
    BY DEF Accepts, TypeInv
  <2> QED  BY <2>1, PlansAssumption, SMTT(30) DEF Manager, Fields, Bank, Banks
<1> QED  BY <1>1, <1>2, <1>3, <1>4 DEF Accepts

LEMMA TakenHolds ==
    ASSUME TypeInv, UpInv, UploadInv, NEW l \in Links, Accepts(l)
    PROVE  /\ wpm[l].seq + 1 <= Length(gcs[l])
           /\ \A i \in 0 .. wpm[l].seq : items'[Bank(wpm[l].type, wpm[l].bank)][i] = <<gcs[l].plan, i>>
<1> DEFINE bank == Bank(wpm[l].type, wpm[l].bank)
           n == wpm[l].seq
           p == gcs[l].plan
<1>1. /\ n \in Nat /\ n < MaxCount /\ gcs[l].type = wpm[l].type /\ p \in DOMAIN Plans[wpm[l].type]
      /\ n < gcs[l].next /\ gcs[l].next <= Length(gcs[l]) /\ bank \in Banks
      /\ items' = [items EXCEPT ![bank][n] = <<p, n>>]
      /\ \E m \in Elems(up[l]) : m.kind = "item" /\ m.type = wpm[l].type /\ m.n = n
  BY Taken
<1>2. wpm[l].seq + 1 <= Length(gcs[l])
  <2>1. gcs[l].next \in Nat /\ gcs[l].type \in Types
    BY DEF TypeInv, Station, Transfer
  <2>2. Length(gcs[l]) \in Nat
    BY <1>1, <2>1, PlansAssumption DEF Length
  <2> QED  BY <1>1, <2>1, <2>2, SMTT(30)
<1>3. n > 0 => Holds(bank, p, n)
  <2>1. SUFFICES ASSUME n > 0 PROVE Holds(bank, p, n)
    OBVIOUS
  <2>2. PICK q \in DOMAIN Plans[wpm[l].type] : Collected(l, q)
    BY <2>1 DEF UploadInv, Accepts
  <2>3. ~Stale(l)
    BY <1>1 DEF Stale
  <2> QED  BY <2>2, <2>3 DEF Collected
<1>4. items[bank] \in [0 .. MaxCount - 1 -> PlanItems \cup {NoItem}]
  BY <1>1 DEF TypeInv
<1> HIDE DEF bank, n, p
<1>5. items'[bank] = [items[bank] EXCEPT ![n] = <<p, n>>]
  BY <1>1 DEF TypeInv
<1>6. ASSUME NEW i \in 0 .. n PROVE items'[bank][i] = <<p, i>>
  <2>1. CASE i = n
    BY <1>1, <1>4, <1>5, <2>1, PlansAssumption, SMTT(30)
  <2>2. CASE i # n
    <3>1. items[bank][i] = <<p, i>>
      BY <1>1, <1>3, <2>2, SMTT(30) DEF Holds
    <3> QED  BY <1>1, <1>4, <1>5, <2>2, <3>1, PlansAssumption, SMTT(30)
  <2> QED  BY <2>1, <2>2
<1> QED  BY <1>2, <1>6 DEF bank, n, p

(* What the ground station makes of a message.                              *)
LEMMA HearsCases ==
    ASSUME TypeInv, NEW l \in Links, Hears(l)
    PROVE  /\ UNCHANGED <<memory, wpm>> /\ Elems(down'[l]) \subseteq Elems(down[l])
           /\ Head(down[l]) \in Elems(down[l]) /\ Head(down[l]) \in Downlink /\ Head(down[l]).n \in Nat
           /\ gcs[l] \in Station /\ gcs[l].next \in Nat
           /\ gcs'[l].type = gcs[l].type /\ gcs'[l].plan = gcs[l].plan
           /\ \/ /\ gcs'[l].phase # "offering" /\ \E m : Elems(up'[l]) \subseteq Elems(up[l]) \cup {m} /\ m.kind # "item"
              \/ /\ gcs[l].phase = "offering" /\ gcs'[l].phase = "offering"
                 /\ Head(down[l]) \in RequestsOf(l, gcs[l].type)
                 /\ Head(down[l]).n \in {gcs[l].next, gcs[l].next - 1} /\ Head(down[l]).n < Length(gcs[l])
                 /\ gcs'[l].next = Head(down[l]).n + 1 /\ Say(l, ItemOf(gcs[l], Head(down[l]).n))
                 /\ gcs' = [gcs EXCEPT ![l] = [gcs[l] EXCEPT !.next = Head(down[l]).n + 1]]
<1>1. PICK g \in Station, msg \in Downlink :
            /\ g = gcs[l] /\ msg = Head(down[l])
            /\ \/ Answers(l, g, msg) \/ Concludes(l, g, msg) \/ Lists(l, g, msg)
               \/ Fetches(l, g, msg) \/ GivesUp(l, g, msg)
  BY DEF Hears
<1>2. /\ UNCHANGED <<memory, wpm>> /\ Elems(down'[l]) \subseteq Elems(down[l])
      /\ msg \in Elems(down[l]) /\ msg.n \in Nat /\ g.next \in Nat /\ g \in Transfer
  <2>1. UNCHANGED <<memory, wpm>> /\ down[l] # <<>> /\ down' = [down EXCEPT ![l] = Tail(@)]
    BY DEF Hears
  <2>2. Elems(down'[l]) \subseteq Elems(down[l]) /\ msg \in Elems(down[l])
    BY <1>1, <2>1, TailQueue DEF TypeInv
  <2> QED  BY <1>1, <2>1, <2>2 DEF Station, Transfer, Downlink, Messages
<1>3. CASE Answers(l, g, msg)
  <2>1. PICK new : new = [g EXCEPT !.next = msg.n + 1] /\ gcs'[l] = new
    BY <1>3 DEF Answers, TypeInv
  <2>2. new.phase = "offering" /\ new.type = g.type /\ new.plan = g.plan /\ new.next = msg.n + 1
    BY <1>2, <1>3, <2>1 DEF Answers, Transfer
  <2>3. msg \in RequestsOf(l, g.type)
    BY <1>2, <1>3 DEF Answers, RequestsOf
  <2> QED  BY <1>1, <1>2, <1>3, <2>1, <2>2, <2>3 DEF Answers
<1>4. CASE Concludes(l, g, msg) \/ GivesUp(l, g, msg)
  <2>1. PICK phase \in {"accepted", "idle"} :
            gcs' = [gcs EXCEPT ![l] = [g EXCEPT !.phase = phase]] /\ up' = up
    BY <1>4 DEF Concludes, GivesUp
  <2>2. PICK new : new = [g EXCEPT !.phase = phase] /\ gcs'[l] = new
    BY <2>1 DEF TypeInv
  <2>3. new.phase = phase /\ new.type = g.type /\ new.plan = g.plan
    BY <1>2, <2>2 DEF Transfer
  <2>4. \E m : Elems(up'[l]) \subseteq Elems(up[l]) \cup {m} /\ m.kind # "item"
    <3>1. PICK m : m = [kind |-> "none"]
      OBVIOUS
    <3> QED  BY <2>1, <3>1, SMTT(30)
  <2> QED  BY <1>1, <1>2, <2>1, <2>2, <2>3, <2>4
<1>5. CASE Lists(l, g, msg) \/ Fetches(l, g, msg)
  <2>1. gcs'[l].phase \in {"downloaded", "fetching"} /\ gcs'[l].type = g.type /\ gcs'[l].plan = g.plan
    BY <1>1, <1>5, ListsFields, FetchesFields
  <2>2. PICK m : Say(l, m) /\ m.kind \in {"request", "ack"}
    BY <1>5, SMTT(30) DEF Lists, Fetches, Msg
  <2>3. Elems(up'[l]) \subseteq Elems(up[l]) \cup {m}
    BY <2>2, Lined DEF Say, TypeInv
  <2> QED  BY <1>1, <1>2, <2>1, <2>2, <2>3
<1> QED  BY <1>1, <1>3, <1>4, <1>5

LEMMA UploadStep ==
    ASSUME OneLink, TypeInv, UpInv, UploadInv, [Next]_vars
    PROVE  UploadInv'
<1>1. CASE UNCHANGED vars
  BY <1>1 DEF vars, storage, statics, UploadInv, Collected, Stale, Holds, RequestsOf
<1>2. CASE Restart
  BY <1>2 DEF Restart, FreshManager, UploadInv
<1>3. SUFFICES ASSUME NEW l \in Links, Vehicle(l) \/ Begins(l) \/ GcsResend(l) \/ Hears(l),
                      wpm'[l].state = "GETLIST", wpm'[l].seq > 0
               PROVE  \E p \in DOMAIN Plans[wpm'[l].type] : Collected(l, p)'
  BY <1>1, <1>2, Steps DEF OneLink, UploadInv
<1>4. ASSUME NEW p \in DOMAIN Plans[wpm[l].type], Collected(l, p), UNCHANGED <<memory, wpm>>,
             \/ Stale(l)'
             \/ ~Stale(l) /\ gcs'[l].type = gcs[l].type /\ gcs'[l].plan = gcs[l].plan
      PROVE  \E q \in DOMAIN Plans[wpm'[l].type] : Collected(l, q)'
  BY <1>4 DEF Collected, Holds, memory
<1>5. ASSUME UNCHANGED <<memory, wpm>>
      PROVE  \E p \in DOMAIN Plans[wpm[l].type] : Collected(l, p)
  BY <1>3, <1>5 DEF UploadInv
<1>6. CASE Vehicle(l)
  <2>1. CASE UNCHANGED <<memory, wpm, gcs>>
    <3>1. Elems(up'[l]) \subseteq Elems(up[l])
      BY <1>6, VehicleKeeps, UptakeElems
    <3>2. \A r \in RequestsOf(l, wpm[l].type)' : r \in RequestsOf(l, wpm[l].type) \/ r.n > 0
      BY <1>3, <1>6, <2>1, VehicleRequests DEF RequestsOf
    <3>3. Stale(l) => Stale(l)'
      BY <2>1, <3>1, <3>2 DEF Stale
    <3> QED  BY <1>4, <1>5, <2>1, <3>3
  <2>2. CASE Stores(l)
    <3>1. PICK next : next = [wpm[l] EXCEPT !.seq = wpm[l].seq + 1] /\ wpm' = [wpm EXCEPT ![l] = next] /\ Accepts(l)
      BY <2>2 DEF Stores
    <3>2. /\ wpm'[l] = next /\ next.seq = wpm[l].seq + 1 /\ next.type = wpm[l].type /\ next.bank = wpm[l].bank
          /\ wpm[l].seq \in Nat
      BY <3>1, SMTT(30) DEF TypeInv, Manager, Fields
    <3>3. /\ wpm[l].seq + 1 <= Length(gcs[l])
          /\ \A i \in 0 .. wpm[l].seq : items'[Bank(wpm[l].type, wpm[l].bank)][i] = <<gcs[l].plan, i>>
      BY <3>1, TakenHolds
    <3>4. gcs[l].type = wpm[l].type /\ gcs[l].plan \in DOMAIN Plans[wpm[l].type]
      BY <3>1, Taken
    <3>5. gcs'[l].type = gcs[l].type /\ gcs'[l].plan = gcs[l].plan
      BY <1>6, VehicleKeeps
    <3>6. Holds(Bank(wpm[l].type, wpm[l].bank), gcs[l].plan, wpm[l].seq)'
      <4>1. wpm'[l].type = wpm[l].type /\ wpm'[l].bank = wpm[l].bank /\ wpm'[l].seq - 1 = wpm[l].seq
        BY <3>2, SMTT(30)
      <4> QED  BY <3>3, <3>5, <4>1 DEF Holds
    <3> QED  BY <3>2, <3>3, <3>4, <3>5, <3>6 DEF Collected, Length
  <2> QED  BY <1>3, <1>6, <2>1, <2>2, Collecting, SMTT(30)
<1>7. CASE Begins(l)
  <2>1. UNCHANGED <<memory, wpm, down>> /\ Quiet(l)
    BY <1>7, BeginCases
  <2>2. PICK m, g : /\ Elems(up'[l]) \subseteq {m} /\ gcs'[l] = g /\ m.kind # "item" /\ g.next = 0
    <3>1. PICK m, g : /\ Elems(up'[l]) \subseteq {m} /\ gcs' = [gcs EXCEPT ![l] = g]
                      /\ \/ \E t \in Types : \E p \in DOMAIN Plans[t] :
                              g = Begun("offering", t, p) /\ m = Msg("count", t, Plans[t][p], NoItem)
                         \/ \E t \in Types :
                              g = Begun("listing", t, "none") /\ m = Msg("request_list", t, 0, NoItem)
                         \/ g = FreshGcs /\ m.kind \in {"clear_all", "ack"}
      BY <1>7, BeginCases
    <3>2. m.kind # "item" /\ g.next = 0
      BY <3>1, SMTT(30) DEF Msg, Begun, FreshGcs
    <3>3. gcs'[l] = g
      BY <3>1 DEF TypeInv
    <3> QED  BY <3>1, <3>2, <3>3
  <2>3. Elems(down'[l]) = {}
    BY <2>1, SMTT(30) DEF Quiet, Elems
  <2>4. Stale(l)'
    BY <2>2, <2>3 DEF Stale, RequestsOf
  <2> QED  BY <1>4, <1>5, <2>1, <2>4
<1>8. CASE GcsResend(l)
  <2>1. PICK m : /\ UNCHANGED <<memory, wpm, down, gcs>> /\ Elems(up'[l]) \subseteq Elems(up[l]) \cup {m}
                 /\ m.kind = "item" => gcs[l].phase = "offering" /\ gcs[l].next > 0 /\ m.type = gcs[l].type
    BY <1>8, ResendCases, SMTT(30) DEF Msg, ItemOf
  <2>2. Stale(l) => Stale(l)'
    BY <2>1, SMTT(30) DEF Stale, RequestsOf
  <2> QED  BY <1>4, <1>5, <2>1, <2>2
<1>9. CASE Hears(l)
  <2>1. /\ UNCHANGED <<memory, wpm>> /\ Elems(down'[l]) \subseteq Elems(down[l])
        /\ gcs'[l].type = gcs[l].type /\ gcs'[l].plan = gcs[l].plan
    BY <1>9, HearsCases
  <2>2. ASSUME Stale(l) PROVE Stale(l)'
    <3>1. CASE gcs'[l].phase # "offering" /\ \E m : Elems(up'[l]) \subseteq Elems(up[l]) \cup {m} /\ m.kind # "item"
      BY <2>1, <2>2, <3>1 DEF Stale
    <3>2. CASE /\ gcs[l].phase = "offering" /\ Head(down[l]) \in RequestsOf(l, gcs[l].type)
               /\ Head(down[l]).n \in {gcs[l].next, gcs[l].next - 1}
               /\ Say(l, ItemOf(gcs[l], Head(down[l]).n))
      <4>1. gcs[l].type # wpm[l].type
        BY <2>2, <3>2, SMTT(30) DEF Stale
      <4>2. PICK m : m = ItemOf(gcs[l], Head(down[l]).n)
        OBVIOUS
      <4>3. Elems(up'[l]) \subseteq Elems(up[l]) \cup {m} /\ m.type = gcs[l].type
        <5>1. up' = Send(up, l, m)
          BY <3>2, <4>2 DEF Say
        <5>2. m.type = gcs[l].type
          BY <4>2 DEF ItemOf, Msg
        <5> QED  BY <5>1, <5>2, Lined DEF TypeInv
      <4> QED  BY <2>1, <2>2, <4>1, <4>3 DEF Stale
    <3> QED  BY <1>9, <3>1, <3>2, HearsCases
  <2> QED  BY <1>4, <1>5, <2>1, <2>2
<1> QED  BY <1>3, <1>6, <1>7, <1>8, <1>9

-----------------------------------------------------------------------------
(* The active mission.                                                      *)

MissionInv == count["mission"] = 0 \/ \E p \in DOMAIN Plans["mission"] :
    /\ count["mission"] \in Lengths("mission") /\ count["mission"] <= Plans["mission"][p]
    /\ Holds(active, p, count["mission"])

LEMMA MissionStep ==
    ASSUME OneLink, Reliable, TypeInv, BankInv, UpInv, StoredInv, UploadInv, MissionInv, [Next]_vars
    PROVE  MissionInv'
<1>1. ASSUME active' = active, count'["mission"] = count["mission"] PROVE MissionInv'
  BY <1>1, ActiveKept DEF MissionInv, Holds
<1>2. CASE UNCHANGED vars \/ Restart
  BY <1>1, <1>2, RestartCounts DEF vars, statics
<1>3. ASSUME NEW l \in Links, Completes(l) PROVE MissionInv'
  <2>1. /\ wpm[l].type \in Types /\ count' = [count EXCEPT ![wpm[l].type] = wpm[l].count]
        /\ active' = IF wpm[l].type = "mission" THEN wpm[l].bank ELSE active
    BY <1>3, Completed
  <2>2. CASE wpm[l].type # "mission"
    BY <1>1, <2>1, <2>2, SMTT(30) DEF TypeInv, CountsTyped
  <2>3. CASE wpm[l].type = "mission"
    <3>1. Accepts(l) /\ wpm[l].seq + 1 = wpm[l].count /\ wpm[l].state = "GETLIST"
      BY <1>3 DEF Completes, Accepts
    <3>2. count'["mission"] = wpm[l].count /\ active' = wpm[l].bank /\ wpm[l].count \in Lengths("mission")
      BY <2>1, <2>3, <3>1, PlansAssumption DEF TypeInv, CountsTyped, Manager
    <3>3. /\ wpm[l].seq + 1 <= Length(gcs[l])
          /\ \A i \in 0 .. wpm[l].seq : items'[wpm[l].bank][i] = <<gcs[l].plan, i>>
      BY <2>3, <3>1, TakenHolds DEF Bank
    <3>4. /\ gcs[l].type = "mission" /\ gcs[l].plan \in DOMAIN Plans["mission"] /\ wpm[l].seq \in Nat
          /\ wpm[l].count - 1 = wpm[l].seq
      <4>1. gcs[l].type = "mission" /\ gcs[l].plan \in DOMAIN Plans["mission"] /\ wpm[l].seq \in Nat
        BY <2>3, <3>1, Taken
      <4> QED  BY <3>1, <4>1, SMTT(30)
    <3>5. PICK p \in DOMAIN Plans["mission"] : p = gcs[l].plan
      BY <3>4
    <3>6. Holds(active, p, count["mission"])'
      BY <3>2, <3>3, <3>4, <3>5 DEF Holds
    <3> QED  BY <3>1, <3>2, <3>3, <3>4, <3>5, <3>6 DEF MissionInv, Length
  <2> QED  BY <2>2, <2>3
<1>4. ASSUME NEW l \in Links, Empties(l) PROVE MissionInv'
  <2>1. \/ count'["mission"] = 0
        \/ count'["mission"] = count["mission"] /\ active' = active
    BY <1>4, Emptied, PlansAssumption
  <2> QED  BY <1>1, <2>1 DEF MissionInv
<1>5. ASSUME UNCHANGED <<stored, active, count>> PROVE MissionInv'
  BY <1>1, <1>5
<1> QED  BY <1>1, <1>2, <1>3, <1>4, <1>5, Steps, CountsKept, Failed DEF Vehicle

MissionAll == TypeInv /\ BankInv /\ UpInv /\ StoredInv /\ UploadInv /\ MissionInv

LEMMA MissionAllInductive ==
    ASSUME OneLink, Reliable
    PROVE  Spec => []MissionAll
<1>1. Init => MissionAll
  <2>1. SUFFICES ASSUME Init PROVE MissionAll
    OBVIOUS
  <2>2. TypeInv
    BY <2>1, InitTyped
  <2>3. \A l \in Links : Elems(up[l]) = {}
    BY <2>1, SMTT(30) DEF Init, Elems
  <2>4. BankInv /\ UploadInv
    BY <2>1 DEF Init, BankInv, UploadInv, FreshManager
  <2>5. UpInv
    BY <2>3 DEF UpInv, ItemsOf, Kinds
  <2>6. StoredInv /\ MissionInv
    BY <2>1, PlansAssumption DEF Init, StoredInv, MissionInv
  <2> QED  BY <2>2, <2>4, <2>5, <2>6 DEF MissionAll
<1>2. MissionAll /\ [Next]_vars => MissionAll'
  BY StepTyped, BankStep, UpStep, StoredStep, UploadStep, MissionStep DEF MissionAll
<1> QED  BY <1>1, <1>2, PTL DEF Spec

(* With one link, when the writes of the states do not fail (those of items *)
(* may): the active mission, and the one a restart finds, is a prefix of    *)
(* one plan, whatever messages are lost or sent again, whichever uploads    *)
(* are given up, and wherever the vehicle restarts.                         *)
THEOREM ActiveMissionIsOfOnePlan ==
    ASSUME OneLink, Reliable
    PROVE  Spec => []MissionIsOfOnePlan
<1>1. ASSUME MissionAll PROVE MissionIsOfOnePlan
  <2>1. stored.mission = [bank |-> active, count |-> count["mission"]]
    BY <1>1 DEF MissionAll, StoredInv
  <2>2. SUFFICES ASSUME count["mission"] # 0
                 PROVE  \E p, announced \in DOMAIN Plans["mission"] :
                            /\ Plans["mission"][announced] <= Plans["mission"][p]
                            /\ Plan("mission") = SubSeq(Whole("mission", p), 1, Plans["mission"][announced])
    BY <2>1 DEF MissionIsOfOnePlan
  <2>3. PICK p \in DOMAIN Plans["mission"] :
            /\ count["mission"] \in Lengths("mission") /\ count["mission"] <= Plans["mission"][p]
            /\ Holds(active, p, count["mission"])
    BY <1>1, <2>2 DEF MissionAll, MissionInv
  <2>4. PICK announced \in DOMAIN Plans["mission"] : Plans["mission"][announced] = count["mission"]
    BY <2>3 DEF Lengths
  <2>5. PICK n \in Nat, k \in Nat : n = count["mission"] /\ k = Plans["mission"][p]
    BY <1>1, PlansAssumption, SMTT(30) DEF MissionAll, TypeInv, CountsTyped
  <2>6. Plan("mission") = [i \in 1 .. n |-> <<p, i - 1>>]
    <3>1. \A i \in 1 .. n : items[active][i - 1] = <<p, i - 1>>
      BY <2>3, <2>5, SMTT(30) DEF Holds
    <3> QED  BY <2>5, <3>1 DEF Plan, Bank
  <2>7. SubSeq(Whole("mission", p), 1, n) = [i \in 1 .. n |-> <<p, i - 1>>]
    <3>1. PICK s : s = Whole("mission", p)
      OBVIOUS
    <3>2. s = [i \in 1 .. k |-> <<p, i - 1>>]
      BY <2>5, <3>1 DEF Whole
    <3>3. s \in Seq({<<p, i>> : i \in 0 .. k}) /\ Len(s) = k
      BY <3>2, SMTT(30)
    <3>4. SubSeq(s, 1, n) = [i \in 1 .. n |-> s[i]]
      BY <2>3, <2>5, <3>3, SMTT(30)
    <3>5. n <= k
      BY <2>3, <2>5
    <3>6. \A i \in 1 .. n : i \in 1 .. k /\ s[i] = <<p, i - 1>>
      BY <3>2, <3>5, SMTT(30)
    <3> QED  BY <3>1, <3>4, <3>6
  <2> QED  BY <2>3, <2>4, <2>5, <2>6, <2>7
<1> QED  BY <1>1, MissionAllInductive, PTL
=============================================================================
