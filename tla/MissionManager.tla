--------------------------- MODULE MissionManager ---------------------------
(***************************************************************************)
(* MavlinkMissionManager (src/modules/mavlink/mavlink_mission.cpp): uploads *)
(* and downloads of mission plans and geofences.  There is one manager per  *)
(* MAVLink link; the active mission and the transfer flag are static, that *)
(* is, shared by all of them.  A mission is received into the bank of       *)
(* waypoints that is not active, and becomes active by the write of the     *)
(* mission state; fence points are written in place.  The ground station at *)
(* the other end of each link and the links, which lose messages, are the   *)
(* environment.  The vehicle may lose power at any time.                    *)
(***************************************************************************)
EXTENDS Integers, Sequences, FiniteSets

CONSTANTS
    Links,
    Types,          \* "mission", "fence"
    Plans,          \* [type -> [plan -> number of its items]]
    MaxCount,       \* MAX_COUNT: most items of a plan
    Capacity,       \* messages in flight in one direction of a link
    Fallible        \* storage accesses that may fail: "item", "state"

ASSUME PlansAssumption ==
    /\ Types = {"mission", "fence"}
    /\ \A t \in Types : \A p \in DOMAIN Plans[t] : Plans[t][p] \in Nat
    /\ MaxCount \in Nat \ {0} /\ Capacity \in Nat

VARIABLES
    items,          \* [bank -> [index -> item]]: what the data manager holds
    stored,         \* [mission |-> [bank, count], fence |-> count]: states in the data manager
    active,         \* _dataman_id
    count,          \* [type -> _count]
    in_progress,    \* _transfer_in_progress
    wpm,            \* [link -> the manager's own fields]
    up, down,       \* [link -> messages in flight to and from the vehicle]
    gcs             \* [link -> the ground station's transfer; history: mixed, that its
                    \*  items were taken for those of an upload of another length]

storage == <<items, stored>>
statics == <<active, count, in_progress>>
vars == <<storage, statics, wpm, up, down, gcs>>

Banks == {"wp0", "wp1", "fence"}
NoItem == <<"none", 0>>
PlanNames == UNION {DOMAIN Plans[t] : t \in Types}
PlanItems == PlanNames \X (0 .. MaxCount - 1)
Codes == {"accepted", "error", "cancelled", "no_space"}

(* A message: its kind, the type of plan, a count or sequence number, and   *)
(* an item or the code of an acknowledgement.                               *)
Msg(kind, type, n, content) == [kind |-> kind, type |-> type, n |-> n, content |-> content]
Send(queue, l, m) == [queue EXCEPT ![l] = IF Len(@) < Capacity THEN Append(@, m) ELSE @]

(* "all" is MAV_MISSION_TYPE_ALL, of MISSION_CLEAR_ALL only.                *)
TypesOrAll == Types \cup {"all"}
CurrentItemCount(type) == IF type \in Types THEN count[type] ELSE 0

Bank(type, mission) == IF type = "mission" THEN mission ELSE "fence"
Inactive == IF active = "wp0" THEN "wp1" ELSE "wp0"

FreshManager == [state |-> "IDLE", type |-> "mission", seq |-> 0, count |-> 0, bank |-> "wp1"]
Begun(phase, type, plan) == [phase |-> phase, type |-> type, plan |-> plan, next |-> 0, got |-> <<>>,
                             total |-> 0, mixed |-> FALSE]
FreshGcs == Begun("idle", "mission", "none")

Messages == [kind : {"count", "item", "request", "request_list", "clear_all", "ack"},
             type : TypesOrAll, n : Nat, content : PlanItems \cup {NoItem} \cup {<<c, 0>> : c \in Codes}]

(* One type per variable; transfers stay within the plan they transfer.     *)
TypeOK ==
    /\ items \in [Banks -> [0 .. MaxCount - 1 -> PlanItems \cup {NoItem}]]
    /\ stored \in [mission : [bank : {"wp0", "wp1"}, count : 0 .. MaxCount], fence : 0 .. MaxCount]
    /\ active \in {"wp0", "wp1"} /\ count \in [Types -> 0 .. MaxCount] /\ in_progress \in BOOLEAN
    /\ wpm \in [Links -> [state : {"IDLE", "SENDLIST", "GETLIST"}, type : TypesOrAll, seq : 0 .. MaxCount,
                          count : 0 .. MaxCount, bank : {"wp0", "wp1"}]]
    /\ \A l \in Links : wpm[l].state # "IDLE" => wpm[l].seq <= wpm[l].count
    /\ \A l \in Links : \A q \in {up[l], down[l]} :
        Len(q) <= Capacity /\ \A i \in DOMAIN q : q[i] \in Messages

Init ==
    /\ items = [b \in Banks |-> [i \in 0 .. MaxCount - 1 |-> NoItem]]
    /\ stored = [mission |-> [bank |-> "wp0", count |-> 0], fence |-> 0]
    /\ active = "wp0" /\ count = [t \in Types |-> 0] /\ in_progress = FALSE
    /\ wpm = [l \in Links |-> FreshManager]
    /\ up = [l \in Links |-> <<>>] /\ down = [l \in Links |-> <<>>]
    /\ gcs = [l \in Links |-> FreshGcs]

----------------------------------------------------------------------------
(* Helpers of the handlers.                                                 *)

Head1(l, kind) == up[l] # <<>> /\ Head(up[l]).kind = kind
Consume(l) == up' = [up EXCEPT ![l] = Tail(@)]
Reply(l, m) == down' = Send(down, l, m)
Ack(l, type, code) == Reply(l, Msg("ack", type, 0, <<code, 0>>))
Request(l, m) == Reply(l, Msg("request", m.type, m.seq, NoItem))
Quiet(l) == up[l] = <<>> /\ down[l] = <<>>
Idle(m) == [m EXCEPT !.state = "IDLE"]

WriteOk(what) == IF what \in Fallible THEN BOOLEAN ELSE {TRUE}

(* update_active_mission(): the state in memory always changes, the stored  *)
(* one if its write succeeds, which is only logged.                         *)
UpdateActiveMission(bank, n, ok) ==
    /\ active' = bank
    /\ count' = [count EXCEPT !["mission"] = n]
    /\ stored' = IF ok THEN [stored EXCEPT !.mission = [bank |-> bank, count |-> n]] ELSE stored

(* update_geofence_count(), whose result decides the acknowledgement.       *)
UpdateGeofenceCount(n, ok) ==
    /\ count' = IF ok THEN [count EXCEPT !["fence"] = n] ELSE count
    /\ stored' = IF ok THEN [stored EXCEPT !.fence = n] ELSE stored
    /\ UNCHANGED active

UpdateCount(type, bank, n, ok) ==
    IF type = "mission" THEN UpdateActiveMission(bank, n, ok) ELSE UpdateGeofenceCount(n, ok)

(* Both, for a clear of all types; ok is the result of the second.          *)
ClearCounts(ok) ==
    \E mission_ok \in WriteOk("state") :
        /\ active' = Inactive
        /\ count' = [count EXCEPT !["mission"] = 0, !["fence"] = IF ok THEN 0 ELSE @]
        /\ stored' = [mission |-> IF mission_ok THEN [bank |-> Inactive, count |-> 0] ELSE stored.mission,
                      fence |-> IF ok THEN 0 ELSE stored.fence]

AckOf(type, ok) == IF ok \/ type = "mission" THEN "accepted" ELSE "error"

----------------------------------------------------------------------------
(* Handlers of the messages a manager receives.                             *)

(* Mutant: the limit is not tested.                                         *)
AcceptableAny(n) == n > 0

(* A count that opens an upload, against current_max_item_count().          *)
Acceptable(n) == n > 0 /\ n <= MaxCount

(* Mutant: the bank of the active mission is used for the transmission.     *)
TransferBankActive == active

(* "use inactive storage for transmission"                                  *)
TransferBank == Inactive

(* handle_mission_count().                                                  *)
HandleCount(l) ==
    /\ Head1(l, "count")
    /\ Consume(l)
    /\ LET msg == Head(up[l])
           m == wpm[l]
           busy == (m.state = "GETLIST" /\ m.seq > 0) \/ m.state = "SENDLIST"
           opened == [state |-> "GETLIST", type |-> msg.type, seq |-> 0, count |-> msg.n, bank |-> TransferBank]
       IN \/ /\ m.state = "IDLE" /\ ~in_progress /\ Acceptable(msg.n)
             /\ in_progress' = TRUE
             /\ wpm' = [wpm EXCEPT ![l] = opened]
             /\ Request(l, opened)
             /\ UNCHANGED <<stored, active, count>>
          \/ /\ m.state = "IDLE" /\ ~in_progress /\ msg.n = 0
             /\ wpm' = [wpm EXCEPT ![l].type = msg.type]
             /\ \E ok \in WriteOk("state") : UpdateCount(msg.type, Inactive, 0, ok)
             /\ Ack(l, msg.type, "accepted")
             /\ UNCHANGED in_progress
          \/ /\ m.state = "IDLE" /\ ~in_progress /\ msg.n > MaxCount
             /\ wpm' = [wpm EXCEPT ![l].type = msg.type]
             /\ Ack(l, msg.type, "no_space")
             /\ UNCHANGED <<stored, active, count, in_progress>>
          \/ /\ (m.state = "IDLE" /\ in_progress) \/ busy
             /\ Ack(l, m.type, "error")
             /\ UNCHANGED <<stored, active, count, in_progress, wpm>>
          \/ /\ m.state = "GETLIST" /\ m.seq = 0
             /\ Request(l, m)
             /\ UNCHANGED <<stored, active, count, in_progress, wpm>>
    /\ UNCHANGED <<items, gcs>>

(* The end of handle_mission_item_both() for the last item of a plan.       *)
Complete(l, m) ==
    /\ \E ok \in WriteOk("state") :
        /\ UpdateCount(m.type, m.bank, m.count, ok)
        /\ Ack(l, m.type, AckOf(m.type, ok))
    /\ wpm' = [wpm EXCEPT ![l] = [Idle(m) EXCEPT !.seq = m.count]]
    /\ in_progress' = FALSE

(* Mutant: the upload is over one item early.                               *)
LastEarly(m) == m.seq + 2 >= m.count

(* "got all new mission items successfully"                                 *)
Last(m) == m.seq + 1 = m.count

(* The item is the one expected: stored, and the next one is requested.  An *)
(* item that is invalid or cannot be stored ends the upload; one of a fence *)
(* with too few vertices leaves the vehicle without fence.                  *)
Take(l, msg) ==
    LET m == wpm[l]
        next == [m EXCEPT !.seq = @ + 1]
    IN \/ /\ items' = [items EXCEPT ![Bank(m.type, m.bank)][msg.n] = msg.content]
          /\ gcs' = [gcs EXCEPT ![l].mixed = @ \/ Plans[m.type][msg.content[1]] # m.count]
          /\ IF Last(m) THEN Complete(l, m)
             ELSE /\ wpm' = [wpm EXCEPT ![l] = next]
                  /\ Request(l, next)
                  /\ UNCHANGED <<stored, active, count, in_progress>>
       \/ /\ "item" \in Fallible
          /\ wpm' = [wpm EXCEPT ![l] = Idle(@)]
          /\ in_progress' = FALSE
          /\ Ack(l, m.type, "error")
          /\ \/ UNCHANGED <<stored, active, count>>
             \/ m.type = "fence" /\ \E ok \in WriteOk("state") : UpdateGeofenceCount(0, ok)
          /\ UNCHANGED <<items, gcs>>

(* Mutant: an item that is sent again is taken for the next one.            *)
ExpectedAgain(m, msg) == msg.n <= m.seq

(* "Item sequence not expected, ignore item"                                *)
Expected(m, msg) == msg.n = m.seq

(* handle_mission_item_both().                                              *)
HandleItem(l) ==
    /\ Head1(l, "item")
    /\ Consume(l)
    /\ LET msg == Head(up[l])
           m == wpm[l]
           ignored == UNCHANGED <<storage, statics, wpm, gcs>>
       IN \/ msg.type # m.type /\ Ack(l, m.type, "error") /\ ignored
          \/ /\ msg.type = m.type /\ m.state = "GETLIST"
             /\ IF Expected(m, msg) THEN Take(l, msg) ELSE ignored /\ UNCHANGED down
          \/ /\ msg.type = m.type /\ m.state = "IDLE"
             /\ Ack(l, m.type, IF m.seq = msg.n + 1 THEN "accepted" ELSE "error")
             /\ ignored
          \/ msg.type = m.type /\ m.state = "SENDLIST" /\ Ack(l, m.type, "error") /\ ignored

(* handle_mission_clear_all().                                              *)
HandleClearAll(l) ==
    /\ Head1(l, "clear_all")
    /\ Consume(l)
    /\ LET type == Head(up[l]).type
       IN IF wpm[l].state = "IDLE"
          THEN /\ wpm' = [wpm EXCEPT ![l].type = type]
               /\ \E ok \in WriteOk("state") :
                    /\ IF type = "all" THEN ClearCounts(ok) ELSE UpdateCount(type, Inactive, 0, ok)
                    /\ Ack(l, type, AckOf(type, ok))
          ELSE UNCHANGED <<wpm, stored, active, count, down>>
    /\ UNCHANGED <<items, in_progress, gcs>>

(* handle_mission_request_list(), with load_geofence_stats().               *)
HandleRequestList(l) ==
    /\ Head1(l, "request_list")
    /\ Consume(l)
    /\ LET type == Head(up[l]).type
           m == wpm[l]
           state == IF m.seq = CurrentItemCount(m.type) THEN "IDLE" ELSE m.state
           n == IF type = "fence" THEN stored.fence ELSE count["mission"]
       IN IF state = "IDLE" \/ (state = "SENDLIST" /\ m.type = type)
          THEN /\ wpm' = [wpm EXCEPT ![l] = [state |-> "SENDLIST", type |-> type, seq |-> 0, count |-> n,
                                              bank |-> m.bank]]
               /\ count' = [count EXCEPT ![type] = n]
               /\ Reply(l, Msg("count", type, n, NoItem))
          ELSE wpm' = [wpm EXCEPT ![l].state = state] /\ UNCHANGED <<count, down>>
    /\ UNCHANGED <<storage, active, in_progress, gcs>>

(* Mutant: the bank of the last transfer is sent.                           *)
SentBankTransfer(m) == Bank(m.type, m.bank)

(* send_mission_item(): the active mission, or the fence.                   *)
SentBank(m) == Bank(m.type, active)

(* handle_mission_request_both(), with send_mission_item().                 *)
HandleRequest(l) ==
    /\ Head1(l, "request")
    /\ Consume(l)
    /\ LET msg == Head(up[l])
           m == wpm[l]
           next == msg.n = m.seq /\ m.seq < m.count
           again == msg.n = m.seq - 1
       IN IF m.state # "SENDLIST" \/ m.type # msg.type THEN UNCHANGED <<wpm, down>>
          ELSE IF (next \/ again) /\ msg.n < count[m.type]
          THEN /\ wpm' = [wpm EXCEPT ![l].seq = msg.n + 1]
               /\ \/ Reply(l, Msg("item", m.type, msg.n, items[SentBank(m)][msg.n]))
                  \/ "item" \in Fallible /\ Ack(l, m.type, "error")
          ELSE /\ wpm' = [wpm EXCEPT ![l] = [Idle(m) EXCEPT !.seq = IF next THEN m.seq + 1 ELSE m.seq]]
               /\ Ack(l, m.type, "error")
    /\ UNCHANGED <<storage, statics, gcs>>

(* handle_mission_ack().                                                    *)
HandleAck(l) ==
    /\ Head1(l, "ack")
    /\ Consume(l)
    /\ LET msg == Head(up[l])
           m == wpm[l]
           cancelled == msg.content[1] = "cancelled"
           finished == m.state = "SENDLIST" /\ m.type = msg.type
           aborted == m.state = "GETLIST" /\ cancelled
       IN /\ wpm' = IF finished \/ aborted THEN [wpm EXCEPT ![l] = Idle(@)] ELSE wpm
          /\ in_progress' = (in_progress /\ ~aborted)
    /\ UNCHANGED <<storage, active, count, down, gcs>>

(* send(): sends an item again when its remaining DO_JUMPs have changed,    *)
(* "but don't interfere if there are ongoing transfers"; ...                *)
SendChangedItem(l, n) ==
    /\ wpm[l].state = "IDLE" /\ n < count["mission"]
    /\ Len(down[l]) < Capacity
    /\ wpm' = [wpm EXCEPT ![l].type = "mission"]
    /\ Reply(l, Msg("item", "mission", n, items[active][n]))
    /\ UNCHANGED <<storage, statics, up, gcs>>

(* ... asks again for the item it waits for, ...                            *)
RetryRequest(l) ==
    /\ wpm[l].state = "GETLIST"
    /\ Len(down[l]) < Capacity
    /\ Request(l, wpm[l])
    /\ UNCHANGED <<storage, statics, wpm, up, gcs>>

(* ... or gives the transfer up, after 5 s without a message: by then none  *)
(* is in flight.                                                            *)
Timeout(l) ==
    /\ wpm[l].state # "IDLE" /\ Quiet(l)
    /\ wpm' = [wpm EXCEPT ![l] = Idle(@)]
    /\ in_progress' = FALSE
    /\ UNCHANGED <<storage, active, count, up, down, gcs>>

(* The vehicle restarts; the first manager constructed reads the stored     *)
(* states.  A handler cut short may have stored the item it had received.   *)
Restart ==
    /\ items' \in {items} \cup
            {[items EXCEPT ![Bank(wpm[l].type, wpm[l].bank)][wpm[l].seq] = Head(up[l]).content] :
                l \in {k \in Links : wpm[k].state = "GETLIST" /\ Head1(k, "item")
                                      /\ Head(up[k]).n = wpm[k].seq /\ Head(up[k]).type = wpm[k].type}}
    /\ active' = stored.mission.bank
    /\ count' = [t \in Types |-> IF t = "mission" THEN stored.mission.count ELSE stored.fence]
    /\ in_progress' = FALSE
    /\ wpm' = [l \in Links |-> FreshManager]
    /\ UNCHANGED <<stored, up, down, gcs>>

----------------------------------------------------------------------------
(* The ground station.  It gives a transfer up only when nothing is in      *)
(* flight, sends the items in order, each for the first request of it or    *)
(* again, and takes a plan for accepted once it has sent all of it.         *)

Say(l, m) == up' = Send(up, l, m)
Length(g) == Plans[g.type][g.plan]
ItemOf(g, seq) == Msg("item", g.type, seq, <<g.plan, seq>>)

GcsUpload(l, type, plan) ==
    /\ Quiet(l)
    /\ gcs' = [gcs EXCEPT ![l] = Begun("offering", type, plan)]
    /\ Say(l, Msg("count", type, Plans[type][plan], NoItem))
    /\ UNCHANGED <<storage, statics, wpm, down>>

GcsDownload(l, type) ==
    /\ Quiet(l)
    /\ gcs' = [gcs EXCEPT ![l] = Begun("listing", type, "none")]
    /\ Say(l, Msg("request_list", type, 0, NoItem))
    /\ UNCHANGED <<storage, statics, wpm, down>>

GcsClear(l, type) ==
    /\ Quiet(l)
    /\ gcs' = [gcs EXCEPT ![l] = FreshGcs]
    /\ Say(l, Msg("clear_all", type, 0, NoItem))
    /\ UNCHANGED <<storage, statics, wpm, down>>

GcsCancel(l) ==
    /\ Quiet(l) /\ gcs[l].phase \in {"offering", "listing", "fetching"}
    /\ gcs' = [gcs EXCEPT ![l] = FreshGcs]
    /\ Say(l, Msg("ack", gcs[l].type, 0, <<"cancelled", 0>>))
    /\ UNCHANGED <<storage, statics, wpm, down>>

(* The last message again, after a timeout.                                 *)
GcsResend(l) ==
    /\ Len(up[l]) < Capacity
    /\ LET g == gcs[l]
       IN \/ /\ g.phase = "offering" /\ g.next = 0
             /\ Say(l, Msg("count", g.type, Length(g), NoItem))
          \/ g.phase = "offering" /\ g.next > 0 /\ Say(l, ItemOf(g, g.next - 1))
          \/ g.phase = "listing" /\ Say(l, Msg("request_list", g.type, 0, NoItem))
          \/ g.phase = "fetching" /\ Say(l, Msg("request", g.type, g.next, NoItem))
    /\ UNCHANGED <<storage, statics, wpm, down, gcs>>

(* What the ground station makes of a message from the vehicle.             *)
Offered(g, msg) ==
    IF msg.kind = "request" /\ msg.n \in {g.next, g.next - 1} /\ msg.n < Length(g)
    THEN [g EXCEPT !.next = msg.n + 1]
    ELSE IF msg.kind = "ack"
    THEN [g EXCEPT !.phase = IF msg.content[1] = "accepted" /\ g.next = Length(g) THEN "accepted" ELSE "idle"]
    ELSE g

Fetched(g, msg) ==
    IF g.phase = "listing" /\ msg.kind = "count"
    THEN [g EXCEPT !.phase = IF msg.n = 0 THEN "downloaded" ELSE "fetching", !.total = msg.n]
    ELSE IF g.phase = "fetching" /\ msg.kind = "item" /\ msg.n = g.next
    THEN [g EXCEPT !.next = @ + 1, !.got = Append(@, msg.content),
                   !.phase = IF g.next + 1 = g.total THEN "downloaded" ELSE "fetching"]
    ELSE IF msg.kind = "ack" THEN [g EXCEPT !.phase = "idle"]
    ELSE g

Heard(g, msg) ==
    CASE msg.type # g.type -> g
      [] msg.type = g.type /\ g.phase = "offering" -> Offered(g, msg)
      [] msg.type = g.type /\ g.phase \in {"listing", "fetching"} -> Fetched(g, msg)
      [] OTHER -> g

GcsReceive(l) ==
    /\ down[l] # <<>>
    /\ down' = [down EXCEPT ![l] = Tail(@)]
    /\ LET g == gcs[l]
           msg == Head(down[l])
           new == Heard(g, msg)
       IN /\ gcs' = [gcs EXCEPT ![l] = new]
          /\ CASE g.phase = "offering" /\ msg.kind = "request" /\ new.next = msg.n + 1 /\ msg.type = g.type ->
                    Say(l, ItemOf(g, msg.n))
               [] new.phase = "fetching" /\ new # g -> Say(l, Msg("request", g.type, new.next, NoItem))
               [] new.phase = "downloaded" /\ new # g -> Say(l, Msg("ack", g.type, 0, <<"accepted", 0>>))
               [] OTHER -> UNCHANGED up
    /\ UNCHANGED <<storage, statics, wpm>>

Lose(l) ==
    /\ \/ up[l] # <<>> /\ up' = [up EXCEPT ![l] = Tail(@)] /\ UNCHANGED down
       \/ down[l] # <<>> /\ down' = [down EXCEPT ![l] = Tail(@)] /\ UNCHANGED up
    /\ UNCHANGED <<storage, statics, wpm, gcs>>

----------------------------------------------------------------------------
Handle(l) ==
    \/ HandleCount(l) \/ HandleItem(l) \/ HandleClearAll(l)
    \/ HandleRequestList(l) \/ HandleRequest(l) \/ HandleAck(l)

Gcs(l) ==
    \/ \E t \in Types : \E p \in DOMAIN Plans[t] : GcsUpload(l, t, p)
    \/ \E t \in Types : GcsDownload(l, t)
    \/ \E t \in TypesOrAll : GcsClear(l, t)
    \/ GcsCancel(l) \/ GcsResend(l) \/ GcsReceive(l)

Next ==
    \/ \E l \in Links, n \in 0 .. MaxCount - 1 : SendChangedItem(l, n)
    \/ \E l \in Links : Handle(l) \/ RetryRequest(l) \/ Timeout(l) \/ Gcs(l) \/ Lose(l)
    \/ Restart

Spec == Init /\ [][Next]_vars

----------------------------------------------------------------------------
(* The plan a type's count and bank designate.                              *)
Plan(type) == [i \in 1 .. count[type] |-> items[Bank(type, active)][i - 1]]
Whole(type, plan) == [i \in 1 .. Plans[type][plan] |-> <<plan, i - 1>>]

(* A plan the ground station holds for accepted is the one the vehicle has, *)
(* also after a restart, unless its items were taken for those of an upload *)
(* of another length that the manager was still waiting for.                *)
AcceptedIsActive ==
    \A l \in Links : gcs[l].phase = "accepted" /\ ~gcs[l].mixed =>
        Plan(gcs[l].type) = Whole(gcs[l].type, gcs[l].plan)

(* A plan downloaded to its end is the one the vehicle has.                 *)
DownloadIsActive ==
    \A l \in Links : gcs[l].phase = "downloaded" => gcs[l].got = Plan(gcs[l].type)

(* The active mission, and the one a restart would find, holds the items of *)
(* one plan in order, never a mix of two or of old and new items.  It is as *)
(* long as a plan that was announced, of which it need not be the same: a   *)
(* count received while the manager still waits for the first item of       *)
(* another upload is answered without being read.                           *)
MissionIsOfOnePlan ==
    /\ count["mission"] = 0 \/ \E p, announced \in DOMAIN Plans["mission"] :
            /\ Plans["mission"][announced] <= Plans["mission"][p]
            /\ Plan("mission") = SubSeq(Whole("mission", p), 1, Plans["mission"][announced])
    /\ stored.mission = [bank |-> active, count |-> count["mission"]]

(* "use inactive storage for transmission": items of the active mission     *)
(* never change.                                                            *)
ActiveMissionStable ==
    [][active' = active => \A i \in 0 .. count["mission"] - 1 : items'[active][i] = items[active][i]]_vars
=============================================================================
