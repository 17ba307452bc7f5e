------------------------ MODULE MissionTransferProofs ------------------------
(* What the two sides of a transfer of a plan may conclude when it is over, *)
(* for any plans, limit on their length, capacity of the links and failures *)
(* of the storage, unless a theorem says otherwise.                         *)
EXTENDS MissionManagerProofs

(* The provers a step is tried with unless it names one, and their time.    *)
USE ZenonT(30), SMTT(30)

-----------------------------------------------------------------------------
(* Downloads.  While the ground station downloads, nothing on its way to    *)
(* the vehicle changes a plan, so that what the vehicle has sent stays true. *)

Downloading(g) == g.phase \in {"listing", "fetching", "downloaded"}
True(r) ==
    /\ r.kind = "count" => r.n = count[r.type]
    /\ r.kind = "item" => r.n < count[r.type] /\ r.content = items[Bank(r.type, active)][r.n]
Received(g) ==
    LET n == count[g.type]
    IN /\ Len(g.got) = g.next /\ \A i \in 1 .. g.next : g.got[i] = items[Bank(g.type, active)][i - 1]
       /\ g.phase = "listing" => g.next = 0
       /\ g.phase = "fetching" => g.total = n /\ g.next < n
       /\ g.phase = "downloaded" => g.next = n
DownloadInv == \A l \in Links : Downloading(gcs[l]) =>
    /\ \A r \in Elems(down[l]) : r.type = gcs[l].type => True(r)
    /\ Received(gcs[l])

LEMMA WhileDownloading ==
    ASSUME TypeInv, UpInv, StoredInv, NEW l \in Links, Downloading(gcs[l]), Vehicle(l)
    PROVE  /\ UNCHANGED memory /\ gcs' = gcs
           /\ \A r \in Elems(down'[l]) : r \in Elems(down[l]) \/ True(r)
<1>1. \A kind : Takes(l, kind) => kind \in {"request_list", "request", "ack"}
  <2>1. SUFFICES ASSUME NEW kind, Takes(l, kind) PROVE kind \in {"request_list", "request", "ack"}
    OBVIOUS
  <2>2. Head(up[l]) \in Elems(up[l]) /\ Head(up[l]).kind = kind
    BY <2>1, TailQueue DEF Takes, Head1, TypeInv
  <2> QED  BY <2>2 DEF UpInv, Kinds, Downloading
<1>2. ~Takes(l, "item") /\ ~Takes(l, "count") /\ ~Takes(l, "clear_all")
  BY <1>1, SMTT(30)
<1>3. ASSUME NEW type, NEW code, Ack(l, type, code)
      PROVE  \A r \in Elems(down'[l]) : r \in Elems(down[l]) \/ True(r)
  BY <1>3, AckElems DEF True
<1>4. ASSUME NEW m, True(m), Reply(l, m)
      PROVE  \A r \in Elems(down'[l]) : r \in Elems(down[l]) \/ True(r)
  BY <1>4, ReplyElems
<1>5. CASE Passes(l)
  <2>1. CASE down[l] # <<>> /\ down' = [down EXCEPT ![l] = Tail(@)]
    BY <1>5, <2>1, TailQueue DEF TypeInv, Passes
  <2> QED  BY <1>5, <2>1 DEF Passes
<1>6. CASE Asks(l)
  <2>1. \A r \in Elems(down'[l]) : r \in Elems(down[l]) \/ r.kind = "request"
    BY <1>6, RequestElems DEF Asks
  <2> QED  BY <1>6, <2>1 DEF Asks, True
<1>7. CASE Refuses(l)
  BY <1>3, <1>7 DEF Refuses
<1>8. CASE Notes(l)
  <2>1. PICK n \in 0 .. MaxCount - 1 : n < count["mission"] /\ Reply(l, Msg("item", "mission", n, items[active][n]))
    BY <1>2, <1>8 DEF Notes
  <2>2. PICK m : m = Msg("item", "mission", n, items[active][n])
    OBVIOUS
  <2>3. True(m)
    BY <2>1, <2>2 DEF True, Msg, Bank
  <2> QED  BY <1>4, <1>8, <2>1, <2>2, <2>3 DEF Notes
<1>9. CASE Announces(l)
  <2>1. UNCHANGED memory /\ gcs' = gcs /\ Reply(l, Msg("count", Head(up[l]).type, count[Head(up[l]).type], NoItem))
    BY <1>9, Announced DEF Announces
  <2>2. PICK m : m = Msg("count", Head(up[l]).type, count[Head(up[l]).type], NoItem)
    OBVIOUS
  <2>3. True(m)
    BY <2>2 DEF True, Msg
  <2> QED  BY <1>4, <2>1, <2>2, <2>3
<1>10. CASE Gives(l)
  <2>1. PICK m : m = Msg("item", wpm[l].type, Head(up[l]).n, items[Bank(wpm[l].type, active)][Head(up[l]).n])
    OBVIOUS
  <2>2. True(m)
    BY <1>10, <2>1 DEF Gives, True, Msg
  <2> QED  BY <1>3, <1>4, <1>10, <2>1, <2>2 DEF Gives
<1>11. CASE Stops(l)
  BY <1>3, <1>11 DEF Stops
<1> QED  BY <1>2, <1>5, <1>6, <1>7, <1>8, <1>9, <1>10, <1>11
         DEF Vehicle, Confirms, Opens, Empties, Stores, Completes, Accepts, Fails

LEMMA DownloadStep ==
    ASSUME OneLink, TypeInv, UpInv, StoredInv, DownloadInv, [Next]_vars
    PROVE  DownloadInv'
<1>1. ASSUME NEW l \in Links, UNCHANGED memory, gcs' = gcs,
             \A r \in Elems(down'[l]) : r \in Elems(down[l]) \/ True(r)
      PROVE  Downloading(gcs[l])' => /\ \A r \in Elems(down[l])' : r.type = gcs'[l].type => True(r)'
                                     /\ Received(gcs[l])'
  <2>1. \A r : True(r)' <=> True(r)
    BY <1>1 DEF True, memory
  <2>2. Received(gcs[l])' <=> Received(gcs[l])
    BY <1>1 DEF Received, memory
  <2> QED  BY <1>1, <2>1, <2>2 DEF DownloadInv, Downloading
<1>2. CASE UNCHANGED vars
  <2>1. UNCHANGED <<memory, gcs, down>>
    BY <1>2 DEF vars, memory, storage, statics
  <2> QED  BY <1>1, <2>1 DEF DownloadInv
<1>3. CASE Restart
  <2>1. SUFFICES ASSUME NEW l \in Links, Downloading(gcs'[l])
                 PROVE  /\ \A r \in Elems(down[l])' : r.type = gcs'[l].type => True(r)'
                        /\ Received(gcs[l])'
    BY DEF DownloadInv
  <2>2. gcs' = gcs /\ down' = down /\ active' = active /\ count' = count /\ stored' = stored
    BY <1>3, RestartCounts DEF Restart
  <2>3. ~Head1(l, "item")
    <3>1. SUFFICES ASSUME Head1(l, "item") PROVE FALSE
      OBVIOUS
    <3>2. Head(up[l]) \in Elems(up[l]) /\ Head(up[l]).kind = "item"
      BY <3>1, TailQueue DEF Head1, TypeInv
    <3> QED  BY <2>1, <2>2, <3>2 DEF UpInv, Kinds, Downloading
  <2>4. items' = items
    BY <1>3, <2>3, RestartItems DEF OneLink
  <2> QED  BY <1>1, <2>1, <2>2, <2>4 DEF memory
<1>4. SUFFICES ASSUME NEW l \in Links, Vehicle(l) \/ Begins(l) \/ GcsResend(l) \/ Hears(l), Downloading(gcs'[l])
               PROVE  /\ \A r \in Elems(down[l])' : r.type = gcs'[l].type => True(r)'
                      /\ Received(gcs[l])'
  BY <1>2, <1>3, Steps DEF OneLink, DownloadInv
<1>5. CASE Vehicle(l)
  <2>1. Downloading(gcs[l])
    BY <1>4, <1>5, VehicleKeeps DEF Downloading
  <2> QED  BY <1>1, <1>4, <1>5, <2>1, WhileDownloading
<1>6. CASE Begins(l)
  <2>1. UNCHANGED <<memory, down>> /\ Quiet(l)
    BY <1>6, BeginCases
  <2>2. PICK t \in Types : gcs'[l] = Begun("listing", t, "none")
    <3>1. PICK m, g : /\ gcs' = [gcs EXCEPT ![l] = g]
                      /\ \/ \E t \in Types : \E p \in DOMAIN Plans[t] : g = Begun("offering", t, p)
                         \/ \E t \in Types : g = Begun("listing", t, "none")
                         \/ g = FreshGcs
      BY <1>6, BeginCases
    <3>2. gcs'[l] = g
      BY <3>1 DEF TypeInv
    <3>3. g.phase \in {"listing", "fetching", "downloaded"}
      BY <1>4, <3>2 DEF Downloading
    <3>4. \A t, p : Begun("offering", t, p).phase = "offering" /\ FreshGcs.phase = "idle"
      BY DEF Begun, FreshGcs
    <3>5. \E t \in Types : g = Begun("listing", t, "none")
      BY <3>1, <3>3, <3>4
    <3> QED  BY <3>2, <3>5
  <2>3. Elems(down[l])' = {}
    BY <2>1, SMTT(30) DEF Quiet, Elems
  <2>4. gcs'[l].got = <<>> /\ gcs'[l].next = 0 /\ gcs'[l].phase = "listing"
    BY <2>2, SMTT(30) DEF Begun
  <2>5. Received(gcs[l])'
    BY <2>4, SMTT(30) DEF Received
  <2> QED  BY <2>3, <2>5
<1>7. CASE GcsResend(l)
  BY <1>1, <1>4, <1>7, ResendCases
<1>8. CASE Hears(l)
  <2>1. PICK g \in Station, msg \in Downlink :
            /\ g = gcs[l] /\ msg = Head(down[l])
            /\ \/ Answers(l, g, msg) \/ Concludes(l, g, msg) \/ Lists(l, g, msg)
               \/ Fetches(l, g, msg) \/ GivesUp(l, g, msg)
    BY <1>8 DEF Hears
  <2>2. /\ UNCHANGED memory /\ Elems(down'[l]) \subseteq Elems(down[l]) /\ msg \in Elems(down[l])
        /\ msg.n \in Nat /\ gcs'[l].type = g.type
    BY <1>8, <2>1, HearsCases
  <2>3. Lists(l, g, msg) \/ Fetches(l, g, msg)
    <3>1. ASSUME NEW phase, phase \in {"accepted", "idle"}, gcs' = [gcs EXCEPT ![l] = [g EXCEPT !.phase = phase]]
          PROVE  FALSE
      <4>1. gcs'[l].phase = phase
        BY <2>1, <3>1 DEF TypeInv, Station, Transfer
      <4> QED  BY <1>4, <3>1, <4>1 DEF Downloading
    <3>2. ~Answers(l, g, msg)
      <4>1. SUFFICES ASSUME Answers(l, g, msg) PROVE FALSE
        OBVIOUS
      <4>2. gcs'[l].phase = "offering"
        BY <2>1, <4>1 DEF Answers, TypeInv, Station, Transfer
      <4> QED  BY <1>4, <4>2 DEF Downloading
    <3> QED  BY <2>1, <3>1, <3>2 DEF Concludes, GivesUp
  <2>4. Downloading(g) /\ msg.type = g.type
    BY <2>3 DEF Lists, Fetches, Downloading
  <2>5. True(msg) /\ Received(g)
    BY <2>1, <2>2, <2>4 DEF DownloadInv
  <2>6. \A r : True(r)' <=> True(r)
    BY <2>2 DEF True, memory
  <2>7. \A r \in Elems(down[l])' : r.type = gcs'[l].type => True(r)'
    BY <2>1, <2>2, <2>4, <2>6 DEF DownloadInv
  <2>8. count' = count /\ items' = items /\ active' = active
    BY <2>2 DEF memory
  <2>9. g.next \in Nat /\ g.got \in Seq(Contents) /\ g.type \in Types /\ count[g.type] \in Nat /\ msg.content \in Contents
    BY <2>1, PlansAssumption, SMTT(30) DEF Station, Transfer, TypeInv, CountsTyped, Downlink, Messages, Contents
  <2>10. CASE Lists(l, g, msg)
    <3>1. /\ gcs'[l].phase = (IF msg.n = 0 THEN "downloaded" ELSE "fetching") /\ gcs'[l].total = msg.n
          /\ gcs'[l].next = g.next /\ gcs'[l].got = g.got /\ gcs'[l].type = g.type
      BY <2>1, <2>10, ListsFields
    <3>2. g.next = 0 /\ msg.n = count[g.type]
      BY <2>4, <2>5, <2>10 DEF Lists, Received, True
    <3>3. Received(gcs[l])'
      BY <2>2, <2>5, <2>8, <3>1, <3>2, SMTT(30) DEF Received
    <3> QED  BY <2>7, <3>3
  <2>11. CASE Fetches(l, g, msg)
    <3>1. /\ gcs'[l].phase = (IF g.next + 1 = g.total THEN "downloaded" ELSE "fetching") /\ gcs'[l].total = g.total
          /\ gcs'[l].next = g.next + 1 /\ gcs'[l].got = Append(g.got, msg.content) /\ gcs'[l].type = g.type
      BY <2>1, <2>11, FetchesFields
    <3>2. /\ msg.n = g.next /\ msg.content = items[Bank(g.type, active)][g.next]
          /\ g.total = count[g.type] /\ g.next < count[g.type]
          /\ Len(g.got) = g.next /\ \A i \in 1 .. g.next : g.got[i] = items[Bank(g.type, active)][i - 1]
      BY <2>4, <2>5, <2>11 DEF Fetches, Received, True
    <3>3. PICK got : got = Append(g.got, msg.content)
      OBVIOUS
    <3>4. Len(got) = g.next + 1 /\ \A i \in 1 .. g.next + 1 : got[i] = items[Bank(g.type, active)][i - 1]
      <4>1. /\ Len(got) = Len(g.got) + 1
            /\ \A i \in 1 .. Len(g.got) + 1 : got[i] = IF i <= Len(g.got) THEN g.got[i] ELSE msg.content
        BY <2>9, <3>3, SMTT(30)
      <4> QED  BY <2>9, <3>2, <4>1, SMTT(30)
    <3>5. Received(gcs[l])'
      BY <2>8, <2>9, <3>1, <3>2, <3>3, <3>4, SMTT(30) DEF Received
    <3> QED  BY <2>7, <3>5
  <2> QED  BY <2>3, <2>10, <2>11
<1> QED  BY <1>4, <1>5, <1>6, <1>7, <1>8

(* With one link, when the writes of the states do not fail: a plan that    *)
(* was downloaded to its end is the one the vehicle has, whatever messages  *)
(* were lost, sent again or sent unasked on the way.                        *)
THEOREM DownloadedPlanIsActive ==
    ASSUME OneLink, Reliable
    PROVE  Spec => []DownloadIsActive
<1>1. Init => DownloadInv
  BY SMTT(30) DEF Init, FreshGcs, Begun, DownloadInv, Downloading
<1>2. MissionAll /\ DownloadInv /\ [Next]_vars => DownloadInv'
  BY DownloadStep DEF MissionAll
<1>3. MissionAll /\ DownloadInv => DownloadIsActive
  <2>1. SUFFICES ASSUME MissionAll, DownloadInv, NEW l \in Links, gcs[l].phase = "downloaded"
                 PROVE  gcs[l].got = Plan(gcs[l].type)
    BY DEF DownloadIsActive
  <2>2. Received(gcs[l])
    BY <2>1 DEF DownloadInv, Downloading
  <2>3. PICK n \in Nat : n = count[gcs[l].type]
    <3>1. gcs[l].type \in Types /\ count \in [Types -> 0 .. MaxCount]
      BY <2>1 DEF MissionAll, TypeInv, CountsTyped, Station, Transfer
    <3> QED  BY <3>1, SMTT(30)
  <2>4. /\ gcs[l].got \in Seq(Contents) /\ Len(gcs[l].got) = n
        /\ \A i \in 1 .. n : gcs[l].got[i] = items[Bank(gcs[l].type, active)][i - 1]
    <3>1. gcs[l].got \in Seq(Contents)
      BY <2>1 DEF MissionAll, TypeInv, Station, Transfer
    <3> QED  BY <2>1, <2>2, <2>3, <3>1 DEF Received
  <2>5. gcs[l].got = [i \in 1 .. n |-> gcs[l].got[i]]
    <3>1. \A s \in Seq(Contents) : s = [i \in 1 .. Len(s) |-> s[i]]
      BY SMTT(30)
    <3> QED  BY <2>4, <3>1
  <2> QED  BY <2>3, <2>4, <2>5 DEF Plan
<1> QED  BY <1>1, <1>2, <1>3, MissionAllInductive, PTL DEF Spec

-----------------------------------------------------------------------------
(* The order of messages in flight.                                         *)

Chain(q, R) == \A i, j \in 1 .. Len(q) : i < j => <<q[i], q[j]>> \in R

LEMMA ChainTail ==
    ASSUME NEW S, NEW q \in Seq(S), q # <<>>, NEW R, Chain(q, R)
    PROVE  Chain(Tail(q), R) /\ \A x \in Elems(Tail(q)) : <<Head(q), x>> \in R
<1> DEFINE t == Tail(q)
           n == Len(q) - 1
<1>1. /\ n \in Nat /\ n = Len(t) /\ Len(q) = n + 1 /\ Head(q) = q[1]
      /\ \A i \in 1 .. n : t[i] = q[i + 1]
  <2>1. Len(q) \in Nat /\ Len(q) > 0
    BY SMTT(30)
  <2> QED  BY <2>1, SMTT(30)
<1> HIDE DEF t, n
<1>2. ASSUME NEW i \in 1 .. n, NEW j \in 1 .. n, i < j PROVE <<t[i], t[j]>> \in R
  <2>1. i + 1 \in 1 .. Len(q) /\ j + 1 \in 1 .. Len(q) /\ i + 1 < j + 1
    BY <1>1, <1>2, SMTT(30)
  <2> QED  BY <1>1, <2>1 DEF Chain
<1>3. ASSUME NEW i \in 1 .. n PROVE <<q[1], t[i]>> \in R
  <2>1. i + 1 \in 1 .. Len(q) /\ 1 \in 1 .. Len(q) /\ 1 < i + 1
    BY <1>1, SMTT(30)
  <2> QED  BY <1>1, <2>1 DEF Chain
<1>4. Chain(t, R) /\ \A x \in Elems(t) : <<Head(q), x>> \in R
  BY <1>1, <1>2, <1>3 DEF Chain, Elems
<1> QED  BY <1>4 DEF t

LEMMA ChainSend ==
    ASSUME NEW S, NEW q \in [Links -> Queue(S)], NEW l \in Links, NEW m, NEW R, Chain(q[l], R),
           \A x \in Elems(q[l]) : <<x, m>> \in R
    PROVE  Chain(Send(q, l, m)[l], R)
<1>1. CASE Len(q[l]) < Capacity
  <2> DEFINE s == q[l]
             t == Append(s, m)
             n == Len(s)
  <2>1. n \in Nat /\ Len(t) = n + 1 /\ t[n + 1] = m /\ \A i \in 1 .. n : t[i] = s[i]
    <3>1. \A x \in Seq(S) : /\ Len(x) \in Nat /\ Len(Append(x, m)) = Len(x) + 1 /\ Append(x, m)[Len(x) + 1] = m
                            /\ \A i \in 1 .. Len(x) : Append(x, m)[i] = x[i]
      BY SMTT(30)
    <3>2. q[l] \in Seq(S)
      BY DEF Queue
    <3> QED  BY <3>1, <3>2
  <2>2. Send(q, l, m)[l] = t
    BY <1>1 DEF Send
  <2>3. Chain(s, R) /\ \A x \in Elems(s) : <<x, m>> \in R
    OBVIOUS
  <2> HIDE DEF s, t, n
  <2>4. ASSUME NEW i \in 1 .. n + 1, NEW j \in 1 .. n + 1, i < j PROVE <<t[i], t[j]>> \in R
    <3>1. i \in 1 .. n /\ t[i] = s[i]
      BY <2>1, <2>4, SMTT(30)
    <3>2. CASE j = n + 1
      <4>1. s[i] \in Elems(s)
        BY <3>1 DEF Elems, n
      <4> QED  BY <2>1, <2>3, <3>1, <3>2, <4>1
    <3>3. CASE j # n + 1
      <4>1. j \in 1 .. n /\ t[j] = s[j]
        BY <2>1, <3>3, SMTT(30)
      <4> QED  BY <2>3, <2>4, <3>1, <4>1 DEF Chain, n
    <3> QED  BY <3>2, <3>3
  <2> QED  BY <2>1, <2>2, <2>4 DEF Chain
<1>2. CASE ~(Len(q[l]) < Capacity)
  BY <1>2 DEF Send
<1> QED  BY <1>1, <1>2

(* Items are sent in order, and no count after an item.                     *)
UpPairs == {x \in Uplink \X Uplink : x[1].kind = "item" =>
                x[2].kind # "count" /\ (x[2].kind = "item" => x[1].n <= x[2].n)}
UpOrder == \A l \in Links : Chain(up[l], UpPairs)

LEMMA UptakeChain ==
    ASSUME TypeInv, UpOrder, NEW l \in Links, Uptake(l)
    PROVE  /\ Chain(up'[l], UpPairs)
           /\ up[l] # <<>> /\ Consume(l) => \A x \in Elems(up'[l]) : <<Head(up[l]), x>> \in UpPairs
<1>1. up[l] \in Seq(Uplink)
  BY DEF TypeInv, Queue
<1>2. CASE up[l] # <<>> /\ Consume(l)
  <2>1. up'[l] = Tail(up[l])
    BY <1>2 DEF Consume, TypeInv
  <2>2. Chain(Tail(up[l]), UpPairs) /\ \A x \in Elems(Tail(up[l])) : <<Head(up[l]), x>> \in UpPairs
    BY <1>1, <1>2, ChainTail DEF UpOrder
  <2> QED  BY <2>1, <2>2
<1>3. CASE up' = up /\ ~(up[l] # <<>> /\ Consume(l))
  BY <1>3 DEF UpOrder
<1> QED  BY <1>2, <1>3 DEF Uptake

LEMMA SayChain ==
    ASSUME TypeInv, UpInv, UpOrder, NEW l \in Links, NEW m \in Uplink, Say(l, m),
           \/ m.kind \notin {"count", "item"}
           \/ m.kind = "count" /\ gcs[l].next = 0
           \/ m.kind = "item" /\ m.n >= gcs[l].next - 1
    PROVE  Chain(up'[l], UpPairs)
<1>1. \A x \in Elems(up[l]) : x \in Uplink /\ x.n \in Nat
  BY ElemsTyped
<1>2. m.n \in Nat /\ gcs[l].next \in Nat
  BY DEF Uplink, Messages, TypeInv, Station, Transfer
<1>3. \A x \in Elems(up[l]) : x.kind = "item" => x.n < gcs[l].next
  BY DEF UpInv, ItemsOf
<1>4. \A x \in Elems(up[l]) : <<x, m>> \in UpPairs
  BY <1>1, <1>2, <1>3, SMTT(30) DEF UpPairs
<1> QED  BY <1>4, ChainSend DEF UpOrder, Say, TypeInv

LEMMA UpOrderStep ==
    ASSUME OneLink, TypeInv, UpInv, UpOrder, [Next]_vars
    PROVE  UpOrder'
<1>1. CASE UNCHANGED vars \/ Restart
  BY <1>1 DEF vars, Restart, UpOrder
<1>2. SUFFICES ASSUME NEW l \in Links, Vehicle(l) \/ Begins(l) \/ GcsResend(l) \/ Hears(l)
               PROVE  Chain(up'[l], UpPairs)
  BY <1>1, Steps DEF OneLink, UpOrder
<1>3. CASE Vehicle(l)
  BY <1>3, VehicleKeeps, UptakeChain
<1>4. CASE Begins(l)
  <2>1. PICK m : Say(l, m)
    BY <1>4 DEF Begins, GcsUpload, GcsDownload, GcsClear, GcsCancel
  <2>2. Elems(up[l]) = {}
    BY <1>4, BeginCases, SMTT(30) DEF Quiet, Elems
  <2> QED  BY <2>1, <2>2, ChainSend DEF Say, TypeInv, UpOrder
<1>5. CASE GcsResend(l)
  <2>1. PICK m \in Uplink :
            /\ Say(l, m)
            /\ \/ gcs[l].next = 0 /\ m = Msg("count", gcs[l].type, Length(gcs[l]), NoItem)
               \/ m = ItemOf(gcs[l], gcs[l].next - 1)
               \/ m = Msg("request_list", gcs[l].type, 0, NoItem)
               \/ m = Msg("request", gcs[l].type, gcs[l].next, NoItem)
    BY <1>5, ResendCases
  <2>2. gcs[l].next \in Nat
    BY DEF TypeInv, Station, Transfer
  <2>3. \/ m.kind \notin {"count", "item"}
        \/ m.kind = "count" /\ gcs[l].next = 0
        \/ m.kind = "item" /\ m.n >= gcs[l].next - 1
    BY <2>1, <2>2, SMTT(30) DEF Msg, ItemOf
  <2> QED  BY <2>1, <2>3, SayChain
<1>6. CASE Hears(l)
  <2>1. PICK g \in Station, msg \in Downlink :
            /\ g = gcs[l] /\ msg = Head(down[l])
            /\ \/ Answers(l, g, msg) \/ Concludes(l, g, msg) \/ Lists(l, g, msg)
               \/ Fetches(l, g, msg) \/ GivesUp(l, g, msg)
    BY <1>6 DEF Hears
  <2>2. g.next \in Nat /\ msg.n \in Nat /\ (msg.kind = "request" => msg.n < MaxCount) /\ g.type \in Types
    BY DEF Station, Transfer, Downlink, Messages
  <2>3. CASE Answers(l, g, msg)
    <3>1. msg.n \in 0 .. MaxCount - 1 /\ g.phase = "offering"
      BY <2>2, <2>3, PlansAssumption, SMTT(30) DEF Answers
    <3>2. PICK m \in Uplink : m = ItemOf(g, msg.n)
      BY <3>1, ItemOfTyped
    <3>3. m.kind = "item" /\ m.n >= gcs[l].next - 1
      BY <2>1, <2>2, <2>3, <3>2, SMTT(30) DEF Answers, ItemOf, Msg
    <3> QED  BY <2>3, <3>2, <3>3, SayChain DEF Answers
  <2>4. CASE up' = up
    BY <2>4 DEF UpOrder
  <2>5. CASE Lists(l, g, msg) \/ Fetches(l, g, msg)
    <3>1. g.next + 1 \in Nat
      BY <2>2, SMTT(30)
    <3>2. PICK m \in Uplink : Say(l, m) /\ m.kind \in {"request", "ack"}
      <4>1. \A n \in Nat : /\ Msg("request", g.type, n, NoItem) \in Uplink
                           /\ Msg("request", g.type, n, NoItem).kind = "request"
        BY <2>2, GcsMessages DEF Msg
      <4>2. /\ Msg("ack", g.type, 0, <<"accepted", 0>>) \in Uplink
            /\ Msg("ack", g.type, 0, <<"accepted", 0>>).kind = "ack"
        BY <2>2, GcsMessages DEF Msg, Codes
      <4> QED  BY <2>2, <2>5, <3>1, <4>1, <4>2 DEF Lists, Fetches
    <3> QED  BY <3>2, SayChain
  <2> QED  BY <2>1, <2>3, <2>4, <2>5 DEF Concludes, GivesUp
<1> QED  BY <1>2, <1>3, <1>4, <1>5, <1>6

-----------------------------------------------------------------------------
(* An upload from the side of the ground station: its position, the length  *)
(* of its plan, what is in flight of it in either direction, the manager's  *)
(* fields, and whether the vehicle's plan is the one offered (whole).       *)

Views == [next : Nat, length : Nat, requests : SUBSET Nat, acked : BOOLEAN, items : SUBSET Nat,
          counted : BOOLEAN, state : {"IDLE", "SENDLIST", "GETLIST"}, own : BOOLEAN, seq : Nat, count : Nat,
          mixed : BOOLEAN, whole : BOOLEAN]

Asking(v) == v.state = "GETLIST" /\ v.own
NoNext(v) == v.next \notin v.requests
Settled(v) == v.state # "GETLIST" /\ v.whole /\ (v.counted => v.length = 0)

(* Requests in flight are of the item sent last or of a later one, and the  *)
(* manager that asks is at most one item behind.                            *)
RequestedInv(v) == /\ v.next > 0 => \A r \in v.requests : r >= v.next - 1
                   /\ v.next > 0 /\ v.counted => v.next = 1 /\ \A r \in v.requests : r = 0
AskingInv(v) == Asking(v) =>
    /\ v.next > 0 => /\ \A r \in v.requests : r <= v.seq
                     /\ v.seq <= v.next /\ v.next <= v.seq + 1
                     /\ v.seq > 0 => ~v.counted /\ (v.mixed \/ v.count = v.length)
    /\ v.next = 0 /\ v.seq > 0 => 0 \notin v.requests
ElsewhereInv(v) ==
    /\ v.state # "IDLE" /\ ~Asking(v) => v.next = 0 /\ v.requests = {}
    /\ v.state = "IDLE" /\ v.seq > 0 /\ v.next = 0 => v.requests = {}
OverInv(v) == v.state = "IDLE" /\ v.seq > 0 /\ v.next > 0 /\ ~v.mixed =>
    /\ ~v.counted
    /\ \/ Settled(v) /\ v.seq = v.length /\ v.next = v.length
       \/ v.seq < v.next /\ \A i \in v.items : i >= v.seq
       \/ v.seq = v.next /\ v.next < v.length /\ NoNext(v)
AckInv(v) == v.acked /\ ~v.mixed =>
    \/ Settled(v) /\ v.next = v.length
    \/ 0 < v.next /\ v.next < v.length /\ NoNext(v) /\ v.state # "GETLIST" /\ ~v.counted
Offer(v) == RequestedInv(v) /\ AskingInv(v) /\ ElsewhereInv(v) /\ OverInv(v) /\ AckInv(v)
Accepted(v) == v.mixed \/ Settled(v)

(* The same plan, and nothing new in flight, of which some may be lost.     *)
Same(v, w) == w.next = v.next /\ w.length = v.length
Quieter(v, w) == /\ w.requests \subseteq v.requests /\ (w.acked => v.acked)
                 /\ w.items \subseteq v.items /\ (w.counted => v.counted)

LEMMA ShrinksOffer ==
    ASSUME NEW v \in Views, NEW w \in Views, Same(v, w), Quieter(v, w),
           w.state = v.state, v.state # "IDLE" => w.own = v.own, w.seq = v.seq, w.count = v.count,
           w.mixed = v.mixed, w.whole = v.whole
    PROVE  (Offer(v) => Offer(w)) /\ (Accepted(v) => Accepted(w))
BY DEF Views, Same, Quieter, Offer, Accepted, Settled, Asking, NoNext, RequestedInv, AskingInv,
       ElsewhereInv, OverInv, AckInv

LEMMA AsksOffer ==
    ASSUME NEW v \in Views, NEW w \in Views, Same(v, w),
           w.requests \subseteq v.requests \cup {v.seq}, w.acked => v.acked,
           w.items \subseteq v.items, w.counted => v.counted,
           Asking(v), w.state = v.state, w.own = v.own, w.seq = v.seq, w.count = v.count,
           w.mixed = v.mixed, w.whole = v.whole
    PROVE  (Offer(v) => Offer(w)) /\ (Accepted(v) => Accepted(w))
BY SMTT(30) DEF Views, Same, Offer, Accepted, Settled, Asking, NoNext, RequestedInv, AskingInv,
       ElsewhereInv, OverInv, AckInv

LEMMA ConfirmsOffer ==
    ASSUME NEW v \in Views, NEW w \in Views, Same(v, w),
           w.requests \subseteq v.requests, w.items \subseteq v.items, w.counted => v.counted,
           v.state = "IDLE", w.state = v.state, w.seq = v.seq, w.count = v.count,
           w.mixed = v.mixed, w.whole = v.whole,
           NEW i \in v.items, v.seq = i + 1, v.next > 0
    PROVE  (Offer(v) => Offer(w)) /\ (Accepted(v) => Accepted(w))
<1>1. i \in Nat
  BY DEF Views
<1> QED  BY <1>1, SMTT(30) DEF Views, Same, Offer, Accepted, Settled, Asking, NoNext, RequestedInv, AskingInv,
       ElsewhereInv, OverInv, AckInv

LEMMA OpensOffer ==
    ASSUME NEW v \in Views, NEW w \in Views, Same(v, w),
           w.requests \subseteq v.requests \cup {0}, w.acked => v.acked,
           w.items \subseteq v.items,
           v.state = "IDLE", v.counted, v.length > 0, Asking(w), w.seq = 0,
           w.mixed = v.mixed
    PROVE  (Offer(v) => Offer(w)) /\ (Accepted(v) => Accepted(w))
BY SMTT(30) DEF Views, Same, Offer, Accepted, Settled, Asking, NoNext, RequestedInv, AskingInv,
       ElsewhereInv, OverInv, AckInv

LEMMA EmptiesOffer ==
    ASSUME NEW v \in Views, NEW w \in Views, Same(v, w),
           w.requests \subseteq v.requests, w.items \subseteq v.items,
           v.state = "IDLE", w.state = "IDLE", v.length = 0, v.next = 0, w.seq = v.seq,
           w.mixed = v.mixed, w.whole
    PROVE  (Offer(v) => Offer(w)) /\ (Accepted(v) => Accepted(w))
BY SMTT(30) DEF Views, Same, Offer, Accepted, Settled, Asking, NoNext, RequestedInv, AskingInv,
       ElsewhereInv, OverInv, AckInv

LEMMA StoresOffer ==
    ASSUME NEW v \in Views, NEW w \in Views, Same(v, w),
           w.requests \subseteq v.requests \cup {w.seq}, w.acked => v.acked,
           w.items \subseteq v.items, ~w.counted,
           Asking(v), v.seq < v.next, Asking(w), w.seq = v.seq + 1, w.count = v.count,
           ~w.mixed => ~v.mixed /\ v.count = v.length
    PROVE  (Offer(v) => Offer(w)) /\ (Accepted(v) => Accepted(w))
BY SMTT(30) DEF Views, Same, Offer, Accepted, Settled, Asking, NoNext, RequestedInv, AskingInv,
       ElsewhereInv, OverInv, AckInv

LEMMA CompletesOffer ==
    ASSUME NEW v \in Views, NEW w \in Views, Same(v, w),
           w.requests \subseteq v.requests, w.items \subseteq v.items, ~w.counted,
           Asking(v), v.seq < v.next, v.seq + 1 = v.count, v.next <= v.length,
           w.state = "IDLE", w.seq = v.count,
           ~w.mixed => ~v.mixed /\ v.count = v.length /\ w.whole
    PROVE  (Offer(v) => Offer(w)) /\ (Accepted(v) => Accepted(w))
BY SMTT(30) DEF Views, Same, Offer, Accepted, Settled, Asking, NoNext, RequestedInv, AskingInv,
       ElsewhereInv, OverInv, AckInv

LEMMA FailsOffer ==
    ASSUME NEW v \in Views, NEW w \in Views, Same(v, w),
           w.requests \subseteq v.requests, w.acked => v.acked, ~w.counted,
           Asking(v), v.seq < v.next, w.state = "IDLE", w.seq = v.seq, w.mixed = v.mixed,
           \A i \in w.items : i >= w.seq
    PROVE  (Offer(v) => Offer(w)) /\ (Accepted(v) => Accepted(w))
BY SMTT(30) DEF Views, Same, Offer, Accepted, Settled, Asking, NoNext, RequestedInv, AskingInv,
       ElsewhereInv, OverInv, AckInv

LEMMA StopsOffer ==
    ASSUME NEW v \in Views, NEW w \in Views, Same(v, w),
           w.requests = {}, ~w.acked, w.items = {}, ~w.counted,
           v.state = "GETLIST" => v.seq < v.count, v.next <= v.length, v.state # "IDLE",
           w.state = "IDLE", w.seq = v.seq, w.mixed = v.mixed, w.whole = v.whole
    PROVE  (Offer(v) => Offer(w)) /\ (Accepted(v) => Accepted(w))
BY SMTT(30) DEF Views, Same, Offer, Accepted, Settled, Asking, NoNext, RequestedInv, AskingInv,
       ElsewhereInv, OverInv, AckInv

LEMMA RestartOffer ==
    ASSUME NEW v \in Views, NEW w \in Views, Same(v, w), Quieter(v, w),
           w.state = "IDLE", w.seq = 0, w.mixed = v.mixed, v.state # "GETLIST" => w.whole = v.whole
    PROVE  (Offer(v) => Offer(w)) /\ (Accepted(v) => Accepted(w))
BY SMTT(30) DEF Views, Same, Quieter, Offer, Accepted, Settled, Asking, NoNext, RequestedInv, AskingInv,
       ElsewhereInv, OverInv, AckInv

LEMMA BeginsOffer ==
    ASSUME NEW w \in Views, w.next = 0, w.requests = {}, ~w.acked
    PROVE  Offer(w)
BY SMTT(30) DEF Views, Offer, Settled, Asking, NoNext, RequestedInv, AskingInv,
       ElsewhereInv, OverInv, AckInv

LEMMA ResendsOffer ==
    ASSUME NEW v \in Views, NEW w \in Views, Same(v, w),
           w.requests \subseteq v.requests, w.acked => v.acked,
           \/ v.next = 0 /\ w.items \subseteq v.items
           \/ v.next > 0 /\ w.items \subseteq v.items \cup {v.next - 1} /\ (w.counted => v.counted),
           w.state = v.state, w.own = v.own, w.seq = v.seq, w.count = v.count,
           w.mixed = v.mixed, w.whole = v.whole, Offer(v)
    PROVE  Offer(w)
BY SMTT(30) DEF Views, Same, Offer, Settled, Asking, NoNext, RequestedInv, AskingInv,
       ElsewhereInv, OverInv, AckInv

LEMMA AnswersOffer ==
    ASSUME NEW v \in Views, NEW w \in Views, w.length = v.length,
           v.next \in v.requests, v.next < v.length, w.next = v.next + 1,
           w.requests \subseteq v.requests, \A r \in w.requests : r >= v.next /\ (v.next = 0 => r = 0),
           w.acked => v.acked, w.items \subseteq v.items \cup {v.next}, w.counted => v.counted,
           w.state = v.state, w.own = v.own, w.seq = v.seq, w.count = v.count,
           w.mixed = v.mixed, w.whole = v.whole, Offer(v)
    PROVE  Offer(w)
BY SMTT(30) DEF Views, Offer, Settled, Asking, NoNext, RequestedInv, AskingInv,
       ElsewhereInv, OverInv, AckInv

(* The view of a link.                                                      *)
Numbers(q, kind, t) == {m.n : m \in {x \in Elems(q) : x.kind = kind /\ x.type = t}}
Acked(q, t) == \E x \in Elems(q) : x.kind = "ack" /\ x.type = t /\ x.content[1] = "accepted"
InPlace(g) == count[g.type] = Length(g) /\ Holds(Bank(g.type, active), g.plan, Length(g))
ViewOf(g, m, u, d, whole) ==
    [next |-> g.next, length |-> Length(g), requests |-> Numbers(d, "request", g.type),
     acked |-> Acked(d, g.type), items |-> Numbers(u, "item", g.type),
     counted |-> Numbers(u, "count", g.type) # {}, state |-> m.state, own |-> m.type = g.type,
     seq |-> m.seq, count |-> m.count, mixed |-> g.mixed, whole |-> whole]
View(l) == ViewOf(gcs[l], wpm[l], up[l], down[l], InPlace(gcs[l]))
Uploads(g) == g.phase \in {"offering", "accepted"}
Seen(v, g, m, u, d) ==
    /\ v \in Views
    /\ v.next = g.next /\ v.length = Length(g) /\ v.next <= v.length
    /\ v.requests = Numbers(d, "request", g.type) /\ (v.acked <=> Acked(d, g.type))
    /\ v.items = Numbers(u, "item", g.type) /\ (v.counted <=> Numbers(u, "count", g.type) # {})
    /\ v.state = m.state /\ (v.own <=> m.type = g.type) /\ v.seq = m.seq /\ v.count = m.count
    /\ v.state = "GETLIST" => v.seq < v.count
    /\ v.mixed = g.mixed

LEMMA NumbersTyped ==
    ASSUME NEW S, \A m \in S : m.n \in Nat, NEW q \in Queue(S), NEW kind, NEW t
    PROVE  Numbers(q, kind, t) \subseteq Nat
<1>1. \A i \in 1 .. Len(q) : q[i] \in S
  BY SMTT(30) DEF Queue
<1> QED  BY <1>1 DEF Numbers, Elems

LEMMA ViewFields ==
    ASSUME NEW g \in Station, Uploads(g), NEW m \in Manager, NEW u \in Queue(Uplink),
           NEW d \in Queue(Downlink), NEW b \in BOOLEAN, NEW v, v = ViewOf(g, m, u, d, b)
    PROVE  Seen(v, g, m, u, d) /\ v.whole = b
<1>1. /\ g.next \in Nat /\ g.type \in Types /\ g.mixed \in BOOLEAN /\ g.next <= Length(g)
      /\ g.plan \in DOMAIN Plans[g.type]
  BY DEF Station, Transfer, Uploads
<1>2. Length(g) \in Nat
  BY <1>1, PlansAssumption DEF Length
<1>3. /\ m.state \in {"IDLE", "SENDLIST", "GETLIST"} /\ m.seq \in Nat /\ m.count \in Nat
      /\ m.state = "GETLIST" => m.seq < m.count
  BY PlansAssumption, SMTT(30) DEF Manager, Fields
<1>4. PICK R, I, C : /\ R = Numbers(d, "request", g.type) /\ I = Numbers(u, "item", g.type)
                     /\ C = Numbers(u, "count", g.type)
  OBVIOUS
<1>5. R \in SUBSET Nat /\ I \in SUBSET Nat
  <2>1. (\A x \in Uplink : x.n \in Nat) /\ (\A x \in Downlink : x.n \in Nat)
    BY DEF Uplink, Downlink, Messages
  <2> QED  BY <1>4, <2>1, NumbersTyped
<1>6. PICK a \in BOOLEAN, c \in BOOLEAN, o \in BOOLEAN :
        a = Acked(d, g.type) /\ c = (C # {}) /\ o = (m.type = g.type)
  BY DEF Acked
<1>7. PICK n, len, x, st, s, k : /\ n = g.next /\ len = Length(g) /\ x = g.mixed /\ st = m.state /\ s = m.seq
                                 /\ k = m.count
  OBVIOUS
<1>8. v = [next |-> n, length |-> len, requests |-> R, acked |-> a, items |-> I, counted |-> c,
           state |-> st, own |-> o, seq |-> s, count |-> k, mixed |-> x, whole |-> b]
  BY <1>4, <1>6, <1>7 DEF ViewOf
<1>9. /\ n \in Nat /\ len \in Nat /\ st \in {"IDLE", "SENDLIST", "GETLIST"} /\ s \in Nat /\ k \in Nat
      /\ x \in BOOLEAN
  BY <1>1, <1>2, <1>3, <1>7
<1>10. v \in Views
  BY <1>5, <1>8, <1>9, SMTT(30) DEF Views
<1>11. /\ v.next = n /\ v.length = len /\ v.requests = R /\ v.acked = a /\ v.items = I /\ v.counted = c
       /\ v.state = st /\ v.own = o /\ v.seq = s /\ v.count = k /\ v.mixed = x /\ v.whole = b
  BY <1>8, SMTT(30)
<1>12. (v.acked <=> Acked(d, g.type)) /\ (v.counted <=> C # {}) /\ (v.own <=> m.type = g.type)
  BY <1>6, <1>11
<1> QED  BY <1>1, <1>2, <1>3, <1>4, <1>7, <1>10, <1>11, <1>12 DEF Seen

LEMMA LinkView ==
    ASSUME TypeInv, TypeInv', NEW l \in Links, Uploads(gcs[l]), Uploads(gcs[l])',
           gcs'[l].type = gcs[l].type, gcs'[l].plan = gcs[l].plan, NEW v, v = View(l), NEW w, w = View(l)'
    PROVE  /\ Seen(v, gcs[l], wpm[l], up[l], down[l])
           /\ Seen(w, gcs'[l], wpm'[l], up'[l], down'[l])
           /\ w.length = v.length /\ v.whole = InPlace(gcs[l]) /\ w.whole = InPlace(gcs[l])'
           /\ UNCHANGED memory => w.whole = v.whole
<1>1. /\ gcs[l] \in Station /\ wpm[l] \in Manager /\ up[l] \in Queue(Uplink) /\ down[l] \in Queue(Downlink)
      /\ gcs'[l] \in Station /\ wpm'[l] \in Manager /\ up'[l] \in Queue(Uplink) /\ down'[l] \in Queue(Downlink)
  BY DEF TypeInv
<1>2. Length(gcs[l])' = Length(gcs[l])
  BY DEF Length
<1>3. PICK a \in BOOLEAN : a = InPlace(gcs[l])
  BY DEF InPlace
<1>4. PICK b \in BOOLEAN : b = InPlace(gcs[l])'
  BY DEF InPlace
<1>5. PICK g, m, u, d : g = gcs'[l] /\ m = wpm'[l] /\ u = up'[l] /\ d = down'[l]
  OBVIOUS
<1>6. PICK g0, m0, u0, d0 : g0 = gcs[l] /\ m0 = wpm[l] /\ u0 = up[l] /\ d0 = down[l]
  OBVIOUS
<1>7. v = ViewOf(g0, m0, u0, d0, a)
  BY <1>3, <1>6 DEF View
<1>8. w = ViewOf(g, m, u, d, b)
  BY <1>4, <1>5 DEF View
<1>9. Seen(v, g0, m0, u0, d0) /\ v.whole = a
  <2>1. g0 \in Station /\ m0 \in Manager /\ u0 \in Queue(Uplink) /\ d0 \in Queue(Downlink) /\ Uploads(g0)
    BY <1>1, <1>6
  <2> QED  BY <1>3, <1>7, <2>1, ViewFields, SMTT(30)
<1>10. Seen(w, g, m, u, d) /\ w.whole = b
  <2>1. g \in Station /\ m \in Manager /\ u \in Queue(Uplink) /\ d \in Queue(Downlink) /\ Uploads(g)
    BY <1>1, <1>5
  <2> QED  BY <1>4, <1>8, <2>1, ViewFields, SMTT(30)
<1>11. w.length = v.length
  <2>1. w.length = Length(g) /\ v.length = Length(g0)
    BY <1>9, <1>10 DEF Seen
  <2> QED  BY <1>2, <1>5, <1>6, <2>1
<1>12. UNCHANGED memory => w.whole = v.whole
  <2>1. UNCHANGED memory => InPlace(gcs[l])' = InPlace(gcs[l])
    BY <1>2 DEF InPlace, Holds, memory
  <2> QED  BY <1>3, <1>4, <1>9, <1>10, <2>1
<1>13. w.whole = InPlace(gcs[l])' /\ v.whole = InPlace(gcs[l])
  BY <1>3, <1>4, <1>9, <1>10
<1> QED  BY <1>5, <1>6, <1>9, <1>10, <1>11, <1>12, <1>13

LEMMA VehicleView ==
    ASSUME TypeInv, TypeInv', NEW l \in Links, Uploads(gcs[l]), Vehicle(l),
           NEW v, v = View(l), NEW w, w = View(l)'
    PROVE  /\ Uploads(gcs[l])' /\ gcs'[l].phase = gcs[l].phase /\ gcs'[l].type = gcs[l].type
           /\ gcs'[l].plan = gcs[l].plan /\ gcs'[l].next = gcs[l].next
           /\ Seen(v, gcs[l], wpm[l], up[l], down[l]) /\ Seen(w, gcs'[l], wpm'[l], up'[l], down'[l])
           /\ Same(v, w) /\ w.items \subseteq v.items /\ (w.counted => v.counted)
           /\ w.whole = InPlace(gcs[l])'
           /\ UNCHANGED memory => w.whole = v.whole
<1>1. /\ Uptake(l) /\ gcs'[l].phase = gcs[l].phase /\ gcs'[l].type = gcs[l].type /\ gcs'[l].plan = gcs[l].plan
      /\ gcs'[l].next = gcs[l].next
  BY VehicleKeeps
<1>2. Uploads(gcs[l])'
  BY <1>1 DEF Uploads
<1>3. /\ Seen(v, gcs[l], wpm[l], up[l], down[l]) /\ Seen(w, gcs'[l], wpm'[l], up'[l], down'[l])
      /\ w.length = v.length /\ w.whole = InPlace(gcs[l])'
      /\ UNCHANGED memory => w.whole = v.whole
  BY <1>1, <1>2, LinkView
<1>4. Elems(up'[l]) \subseteq Elems(up[l])
  BY <1>1, UptakeElems
<1>5. \A kind : Numbers(up'[l], kind, gcs[l].type) \subseteq Numbers(up[l], kind, gcs[l].type)
  BY <1>4 DEF Numbers
<1>6. Same(v, w)
  BY <1>1, <1>3 DEF Seen, Same
<1>7. w.items \subseteq v.items /\ (w.counted => v.counted)
  BY <1>1, <1>3, <1>5 DEF Seen
<1> QED  BY <1>1, <1>2, <1>3, <1>6, <1>7

LEMMA AckNumbers ==
    ASSUME TypeInv, NEW l \in Links, NEW type, NEW code, Ack(l, type, code), NEW t
    PROVE  /\ Numbers(down'[l], "request", t) \subseteq Numbers(down[l], "request", t)
           /\ Acked(down'[l], t) => Acked(down[l], t) \/ (type = t /\ code = "accepted")
<1>1. \A r \in Elems(down'[l]) :
            r \in Elems(down[l]) \/ (r.kind = "ack" /\ r.type = type /\ r.content[1] = code)
  BY AckElems, SMTT(30)
<1>2. Numbers(down'[l], "request", t) \subseteq Numbers(down[l], "request", t)
  BY <1>1 DEF Numbers
<1> QED  BY <1>1, <1>2 DEF Acked

LEMMA RequestNumbers ==
    ASSUME TypeInv, NEW l \in Links, NEW x, Request(l, x), NEW t
    PROVE  /\ Numbers(down'[l], "request", t) \subseteq Numbers(down[l], "request", t) \cup {x.seq}
           /\ x.type # t => Numbers(down'[l], "request", t) \subseteq Numbers(down[l], "request", t)
           /\ Acked(down'[l], t) => Acked(down[l], t)
<1>1. \A r \in Elems(down'[l]) :
            r \in Elems(down[l]) \/ (r.kind = "request" /\ r.type = x.type /\ r.n = x.seq)
  BY RequestElems
<1>2. /\ Numbers(down'[l], "request", t) \subseteq Numbers(down[l], "request", t) \cup {x.seq}
      /\ x.type # t => Numbers(down'[l], "request", t) \subseteq Numbers(down[l], "request", t)
  BY <1>1 DEF Numbers
<1>3. Acked(down'[l], t) => Acked(down[l], t)
  BY <1>1 DEF Acked
<1> QED  BY <1>2, <1>3

LEMMA FewerNumbers ==
    ASSUME NEW q, NEW r, \A x \in Elems(r) : x \in Elems(q) \/ x.kind \notin {"request", "ack"}, NEW t
    PROVE  /\ Numbers(r, "request", t) \subseteq Numbers(q, "request", t)
           /\ Acked(r, t) => Acked(q, t)
<1>1. Numbers(r, "request", t) \subseteq Numbers(q, "request", t)
  BY DEF Numbers
<1>2. Acked(r, t) => Acked(q, t)
  BY DEF Acked
<1> QED  BY <1>1, <1>2

(* The message the vehicle handles while a plan is offered or accepted.     *)
LEMMA TakesHead ==
    ASSUME TypeInv, UpInv, UpOrder, NEW l \in Links, Uploads(gcs[l]),
           NEW kind, Takes(l, kind), NEW msg, msg = Head(up[l])
    PROVE  /\ kind \in {"count", "item"} /\ msg.type = gcs[l].type /\ msg.n \in Nat
           /\ kind = "count" => Numbers(up[l], "count", gcs[l].type) # {} /\ msg.n = Length(gcs[l])
           /\ kind = "item" => /\ msg.n \in Numbers(up[l], "item", gcs[l].type) /\ msg.n < gcs[l].next
                               /\ msg.content = <<gcs[l].plan, msg.n>>
                               /\ Numbers(up'[l], "count", gcs[l].type) = {}
                               /\ \A i \in Numbers(up'[l], "item", gcs[l].type) : i >= msg.n
<1> DEFINE T == gcs[l].type
<1>1. up[l] # <<>> /\ Consume(l) /\ msg.kind = kind
  BY DEF Takes, Head1
<1>2. msg \in Elems(up[l]) /\ msg \in Uplink /\ msg.n \in Nat
  <2>1. msg \in Elems(up[l])
    BY <1>1, TailQueue DEF TypeInv
  <2> QED  BY <2>1, ElemsTyped
<1>3. /\ msg.kind \in {"count", "item"}
      /\ msg.kind = "count" => msg.type = T /\ msg.n = Length(gcs[l])
  BY <1>2 DEF UpInv, Kinds, Uploads
<1>4. kind = "item" => msg.type = T /\ msg.n < gcs[l].next /\ msg.content = <<gcs[l].plan, msg.n>>
  BY <1>1, <1>2 DEF UpInv, ItemsOf
<1>5. kind = "count" => Numbers(up[l], "count", T) # {}
  BY <1>1, <1>2, <1>3 DEF Numbers
<1>6. kind = "item" => msg.n \in Numbers(up[l], "item", T)
  BY <1>1, <1>2, <1>4 DEF Numbers
<1>7. \A x \in Elems(up'[l]) : kind = "item" =>
            x.kind # "count" /\ (x.kind = "item" => msg.n <= x.n)
  <2>1. Uptake(l)
    BY <1>1 DEF Uptake
  <2>2. \A x \in Elems(up'[l]) : <<msg, x>> \in UpPairs
    BY <1>1, <2>1, UptakeChain
  <2> QED  BY <1>1, <2>2 DEF UpPairs
<1>8. kind = "item" => Numbers(up'[l], "count", T) = {}
  BY <1>7 DEF Numbers
<1>9. \A x \in Elems(up'[l]) : x.n \in Nat
  <2>1. Elems(up'[l]) \subseteq Elems(up[l])
    BY <1>1, UptakeElems DEF Uptake
  <2> QED  BY <2>1, ElemsTyped
<1>10. kind = "item" => \A i \in Numbers(up'[l], "item", T) : i >= msg.n
  BY <1>2, <1>7, <1>9 DEF Numbers
<1> QED  BY <1>1, <1>2, <1>3, <1>4, <1>5, <1>6, <1>8, <1>10

LEMMA ItemOffer ==
    ASSUME Reliable, TypeInv, TypeInv', UpInv, UpOrder, StoredInv, UploadInv,
           NEW l \in Links, Uploads(gcs[l]), Stores(l) \/ Completes(l) \/ Fails(l),
           NEW v, v = View(l), NEW w, w = View(l)'
    PROVE  (Offer(v) => Offer(w)) /\ (Accepted(v) => Accepted(w))
<1> DEFINE T == gcs[l].type
           V == /\ v \in Views /\ v.next = gcs[l].next /\ v.length = Length(gcs[l]) /\ v.next <= v.length
                /\ v.requests = Numbers(down[l], "request", T) /\ (v.acked <=> Acked(down[l], T))
                /\ v.state = wpm[l].state /\ (v.own <=> wpm[l].type = T) /\ v.seq = wpm[l].seq
                /\ v.count = wpm[l].count /\ v.mixed = gcs[l].mixed
           W == /\ w \in Views /\ Same(v, w)
                /\ w.requests = Numbers(down'[l], "request", T) /\ (w.acked <=> Acked(down'[l], T))
                /\ w.items = Numbers(up'[l], "item", T) /\ (w.counted <=> Numbers(up'[l], "count", T) # {})
                /\ w.state = wpm'[l].state /\ (w.own <=> wpm'[l].type = T) /\ w.seq = wpm'[l].seq
                /\ w.count = wpm'[l].count /\ w.mixed = gcs'[l].mixed /\ w.whole = InPlace(gcs[l])'
                /\ w.items \subseteq v.items
<1>1. V /\ W
  <2>1. Vehicle(l)
    BY DEF Vehicle
  <2>2. /\ gcs'[l].type = T
        /\ Seen(v, gcs[l], wpm[l], up[l], down[l]) /\ Seen(w, gcs'[l], wpm'[l], up'[l], down'[l])
        /\ Same(v, w) /\ w.items \subseteq v.items /\ w.whole = InPlace(gcs[l])'
    BY <2>1, VehicleView
  <2> QED  BY <2>2 DEF Seen
<1>2. PICK msg : msg = Head(up[l])
  OBVIOUS
<1>3. Takes(l, "item") /\ wpm[l].state = "GETLIST" /\ msg.type = wpm[l].type /\ msg.n = wpm[l].seq
  BY <1>2 DEF Stores, Completes, Fails, Accepts
<1>4. /\ wpm[l].type = T /\ wpm[l].seq < gcs[l].next
      /\ msg.content = <<gcs[l].plan, msg.n>>
      /\ Numbers(up'[l], "count", T) = {} /\ \A i \in Numbers(up'[l], "item", T) : i >= wpm[l].seq
  <2>1. /\ msg.type = T /\ msg.n < gcs[l].next /\ msg.content = <<gcs[l].plan, msg.n>>
        /\ Numbers(up'[l], "count", T) = {} /\ \A i \in Numbers(up'[l], "item", T) : i >= msg.n
    BY <1>2, <1>3, TakesHead, SMTT(30)
  <2> QED  BY <1>3, <2>1
<1>5. Asking(v) /\ v.seq < v.next /\ ~w.counted
  BY <1>1, <1>3, <1>4 DEF Asking
<1>6. wpm[l] \in Manager /\ wpm[l] \in Fields /\ wpm'[l] \in Manager
  BY DEF TypeInv, Manager
<1>7. Accepts(l) => (~w.mixed => ~v.mixed /\ v.count = v.length) /\ gcs'[l].type = T /\ gcs'[l].plan = gcs[l].plan
  <2>1. SUFFICES ASSUME Accepts(l)
                 PROVE  (~w.mixed => ~v.mixed /\ v.count = v.length) /\ gcs'[l].type = T /\ gcs'[l].plan = gcs[l].plan
    OBVIOUS
  <2>2. PICK b \in BOOLEAN :
            /\ b = (gcs[l].mixed \/ Plans[wpm[l].type][msg.content[1]] # wpm[l].count)
            /\ gcs' = [gcs EXCEPT ![l] = [gcs[l] EXCEPT !.mixed = b]]
    BY <1>2, <2>1 DEF Accepts
  <2>3. gcs[l] \in Transfer
    BY DEF TypeInv, Station
  <2>4. gcs'[l] = [gcs[l] EXCEPT !.mixed = b]
    BY <2>2 DEF TypeInv
  <2>5. gcs'[l].mixed = b /\ gcs'[l].type = T /\ gcs'[l].plan = gcs[l].plan
    BY <2>3, <2>4 DEF Transfer
  <2>6. ~b => ~gcs[l].mixed /\ Plans[wpm[l].type][msg.content[1]] = wpm[l].count
    BY <2>2
  <2>7. Plans[wpm[l].type][msg.content[1]] = Length(gcs[l])
    BY <1>4, SMTT(30) DEF Length
  <2>8. v.mixed = gcs[l].mixed /\ v.count = wpm[l].count /\ v.length = Length(gcs[l]) /\ w.mixed = gcs'[l].mixed
    BY <1>1
  <2> QED  BY <2>5, <2>6, <2>7, <2>8
<1>8. CASE Stores(l)
  <2>1. PICK next : /\ next = [wpm[l] EXCEPT !.seq = wpm[l].seq + 1] /\ next \in Manager
                    /\ wpm' = [wpm EXCEPT ![l] = next] /\ Request(l, next)
    BY <1>8 DEF Stores
  <2>2. wpm'[l] = next
    BY <2>1 DEF TypeInv
  <2>3. /\ next.seq = wpm[l].seq + 1 /\ next.state = "GETLIST" /\ next.type = wpm[l].type
        /\ next.count = wpm[l].count
    <3>1. PICK n : n = wpm[l].seq + 1 /\ next = [wpm[l] EXCEPT !.seq = n]
      BY <2>1
    <3> QED  BY <1>3, <1>6, <3>1 DEF Fields
  <2>4. w.requests \subseteq v.requests \cup {w.seq} /\ (w.acked => v.acked)
    <3>1. Request(l, next)
      BY <2>1
    <3>2. /\ Numbers(down'[l], "request", T) \subseteq Numbers(down[l], "request", T) \cup {next.seq}
          /\ Acked(down'[l], T) => Acked(down[l], T)
      BY <3>1, RequestNumbers
    <3> QED  BY <1>1, <2>2, <3>2
  <2>5. Asking(w) /\ w.seq = v.seq + 1 /\ w.count = v.count
    BY <1>1, <1>4, <2>2, <2>3 DEF Asking
  <2>6. ~w.mixed => ~v.mixed /\ v.count = v.length
    BY <1>7, <1>8 DEF Stores
  <2> HIDE DEF V, W
  <2>7. v \in Views /\ w \in Views /\ Same(v, w) /\ w.items \subseteq v.items
    BY <1>1 DEF V, W
  <2> QED  BY <1>5, <2>4, <2>5, <2>6, <2>7, StoresOffer
<1>9. CASE Completes(l)
  <2>1. /\ count' = [count EXCEPT ![wpm[l].type] = wpm[l].count] /\ wpm[l].type \in Types
        /\ active' = IF wpm[l].type = "mission" THEN wpm[l].bank ELSE active
        /\ Ack(l, wpm[l].type, "accepted")
    BY <1>9, Completed
  <2>2. wpm'[l] = [Idle(wpm[l]) EXCEPT !.seq = wpm[l].count]
    BY <1>9 DEF Completes, TypeInv
  <2>3. wpm'[l].state = "IDLE" /\ wpm'[l].seq = wpm[l].count
    BY <1>6, <2>2 DEF Idle, Fields
  <2>4. w.requests \subseteq v.requests
    <3>1. Numbers(down'[l], "request", T) \subseteq Numbers(down[l], "request", T)
      BY <2>1, AckNumbers
    <3> QED  BY <1>1, <3>1
  <2>5. v.seq + 1 = v.count
    BY <1>1, <1>9 DEF Completes
  <2>6. ~w.mixed => ~v.mixed /\ v.count = v.length
    BY <1>7, <1>9 DEF Completes
  <2>7. v.count = v.length => w.whole
    <3>1. SUFFICES ASSUME v.count = v.length PROVE InPlace(gcs[l])'
      BY <1>1
    <3>2. gcs'[l].type = T /\ gcs'[l].plan = gcs[l].plan
      BY <1>7, <1>9 DEF Completes
    <3>3. Length(gcs[l])' = Length(gcs[l])
      BY <3>2 DEF Length
    <3>4. Length(gcs[l]) = wpm[l].count /\ wpm[l].seq + 1 = Length(gcs[l])
      BY <1>1, <2>5, <3>1
    <3>5. count'[T] = wpm[l].count
      BY <1>4, <2>1 DEF TypeInv, CountsTyped
    <3>6. Bank(T, active') = Bank(wpm[l].type, wpm[l].bank)
      BY <1>4, <2>1 DEF Bank
    <3>7. \A i \in 0 .. wpm[l].seq : items'[Bank(wpm[l].type, wpm[l].bank)][i] = <<gcs[l].plan, i>>
      BY <1>9, TakenHolds DEF Completes
    <3>8. wpm[l].seq \in Nat
      BY <1>6, PlansAssumption, SMTT(30) DEF Fields
    <3> QED  BY <3>2, <3>3, <3>4, <3>5, <3>6, <3>7, <3>8, SMTT(30) DEF InPlace, Holds
  <2>8. w.state = "IDLE" /\ w.seq = v.count
    BY <1>1, <2>3
  <2> HIDE DEF V, W
  <2>9. v \in Views /\ w \in Views /\ Same(v, w) /\ w.items \subseteq v.items /\ v.next <= v.length
    BY <1>1 DEF V, W
  <2> QED  BY <1>5, <2>4, <2>5, <2>6, <2>7, <2>8, <2>9, CompletesOffer
<1>10. CASE Fails(l)
  <2>1. gcs' = gcs /\ wpm'[l] = Idle(wpm[l]) /\ Ack(l, wpm[l].type, "error")
    BY <1>10 DEF Fails, TypeInv
  <2>2. wpm'[l].state = "IDLE" /\ wpm'[l].seq = wpm[l].seq
    BY <1>6, <2>1 DEF Idle, Fields
  <2>3. w.requests \subseteq v.requests /\ (w.acked => v.acked)
    <3>1. "error" # "accepted"
      OBVIOUS
    <3>2. /\ Numbers(down'[l], "request", T) \subseteq Numbers(down[l], "request", T)
          /\ Acked(down'[l], T) => Acked(down[l], T)
      BY <2>1, <3>1, AckNumbers
    <3> QED  BY <1>1, <3>2
  <2>4. w.mixed = v.mixed /\ w.state = "IDLE" /\ w.seq = v.seq
    BY <1>1, <2>1, <2>2
  <2>5. \A i \in w.items : i >= w.seq
    BY <1>1, <1>4, <2>2
  <2> HIDE DEF V, W
  <2>6. v \in Views /\ w \in Views /\ Same(v, w)
    BY <1>1 DEF V, W
  <2> QED  BY <1>5, <2>3, <2>4, <2>5, <2>6, FailsOffer
<1> QED  BY <1>8, <1>9, <1>10

LEMMA VehicleOffer ==
    ASSUME Reliable, TypeInv, TypeInv', UpInv, UpOrder, StoredInv, UploadInv,
           NEW l \in Links, Uploads(gcs[l]), Vehicle(l), NEW v, v = View(l), NEW w, w = View(l)'
    PROVE  (Offer(v) => Offer(w)) /\ (Accepted(v) => Accepted(w))
<1> DEFINE T == gcs[l].type
           V == /\ v \in Views /\ v.next = gcs[l].next /\ v.length = Length(gcs[l]) /\ v.next <= v.length
                /\ v.requests = Numbers(down[l], "request", T) /\ (v.acked <=> Acked(down[l], T))
                /\ v.items = Numbers(up[l], "item", T) /\ (v.counted <=> Numbers(up[l], "count", T) # {})
                /\ v.state = wpm[l].state /\ (v.own <=> wpm[l].type = T) /\ v.seq = wpm[l].seq
                /\ v.count = wpm[l].count /\ v.mixed = gcs[l].mixed
                /\ v.state = "GETLIST" => v.seq < v.count
           W == /\ w \in Views /\ Same(v, w)
                /\ w.requests = Numbers(down'[l], "request", T) /\ (w.acked <=> Acked(down'[l], T))
                /\ w.items = Numbers(up'[l], "item", T) /\ (w.counted <=> Numbers(up'[l], "count", T) # {})
                /\ w.state = wpm'[l].state /\ (w.own <=> wpm'[l].type = T) /\ w.seq = wpm'[l].seq
                /\ w.count = wpm'[l].count /\ w.mixed = gcs'[l].mixed /\ w.whole = InPlace(gcs[l])'
                /\ w.items \subseteq v.items /\ (w.counted => v.counted)
                /\ UNCHANGED memory => w.whole = v.whole
<1>1. V /\ W
  <2>1. /\ gcs'[l].type = T
        /\ Seen(v, gcs[l], wpm[l], up[l], down[l]) /\ Seen(w, gcs'[l], wpm'[l], up'[l], down'[l])
        /\ Same(v, w) /\ w.items \subseteq v.items /\ (w.counted => v.counted) /\ w.whole = InPlace(gcs[l])'
        /\ UNCHANGED memory => w.whole = v.whole
    BY VehicleView
  <2> QED  BY <2>1 DEF Seen
<1>2. wpm[l] \in Manager /\ wpm[l] \in Fields
  BY DEF TypeInv, Manager
<1>3. \A kind : Takes(l, kind) =>
            /\ kind \in {"count", "item"} /\ Head(up[l]).type = T
            /\ kind = "count" => v.counted /\ Head(up[l]).n = v.length
            /\ kind = "item" => Head(up[l]).n \in v.items /\ Head(up[l]).n < v.next /\ Head(up[l]).n \in Nat
  <2>1. SUFFICES ASSUME NEW kind, Takes(l, kind)
                 PROVE  /\ kind \in {"count", "item"} /\ Head(up[l]).type = T
                        /\ kind = "count" => v.counted /\ Head(up[l]).n = v.length
                        /\ kind = "item" => Head(up[l]).n \in v.items /\ Head(up[l]).n < v.next /\ Head(up[l]).n \in Nat
    OBVIOUS
  <2>2. PICK msg : msg = Head(up[l])
    OBVIOUS
  <2>3. /\ kind \in {"count", "item"} /\ msg.type = T /\ msg.n \in Nat
        /\ kind = "count" => Numbers(up[l], "count", T) # {} /\ msg.n = Length(gcs[l])
        /\ kind = "item" => msg.n \in Numbers(up[l], "item", T) /\ msg.n < gcs[l].next
    BY <2>1, <2>2, TakesHead
  <2> QED  BY <1>1, <2>2, <2>3
<1>4. ASSUME UNCHANGED memory, gcs' = gcs, w.requests \subseteq v.requests, w.acked => v.acked,
             w.state = v.state, v.state # "IDLE" => w.own = v.own, w.seq = v.seq, w.count = v.count
      PROVE  (Offer(v) => Offer(w)) /\ (Accepted(v) => Accepted(w))
  <2>1. /\ v \in Views /\ w \in Views /\ Same(v, w) /\ w.mixed = v.mixed /\ w.whole = v.whole
        /\ w.items \subseteq v.items /\ (w.counted => v.counted)
    BY <1>1, <1>4
  <2>2. Quieter(v, w)
    BY <1>4, <2>1 DEF Quieter
  <2> QED  BY <1>4, <2>1, <2>2, ShrinksOffer
<1>5. wpm' = wpm => w.state = v.state /\ w.own = v.own /\ w.seq = v.seq /\ w.count = v.count
  <2>1. v.own \in BOOLEAN /\ w.own \in BOOLEAN
    BY <1>1 DEF Views
  <2> QED  BY <1>1, <2>1
<1>6. CASE Passes(l)
  <2>1. UNCHANGED <<memory, wpm, gcs>>
    BY <1>6 DEF Passes
  <2>2. Elems(down'[l]) \subseteq Elems(down[l])
    <3>1. CASE down[l] # <<>> /\ down' = [down EXCEPT ![l] = Tail(@)]
      <4>1. down \in [Links -> Queue(Downlink)] /\ down'[l] = Tail(down[l])
        BY <3>1 DEF TypeInv
      <4> QED  BY <3>1, <4>1, TailQueue
    <3> QED  BY <1>6, <3>1 DEF Passes
  <2>3. w.requests \subseteq v.requests /\ (w.acked => v.acked)
    <3>1. /\ Numbers(down'[l], "request", T) \subseteq Numbers(down[l], "request", T)
          /\ Acked(down'[l], T) => Acked(down[l], T)
      BY <2>2, FewerNumbers
    <3> QED  BY <1>1, <3>1
  <2> HIDE DEF V, W
  <2> QED  BY <1>4, <1>5, <2>1, <2>3
<1>7. CASE Refuses(l)
  <2>1. UNCHANGED <<memory, wpm, gcs>> /\ Ack(l, wpm[l].type, "error")
    BY <1>7 DEF Refuses
  <2>2. w.requests \subseteq v.requests /\ (w.acked => v.acked)
    <3>1. "error" # "accepted"
      OBVIOUS
    <3>2. /\ Numbers(down'[l], "request", T) \subseteq Numbers(down[l], "request", T)
          /\ Acked(down'[l], T) => Acked(down[l], T)
      <4>1. PICK type : Ack(l, type, "error")
        BY <2>1
      <4>2. PICK t : t = T
        OBVIOUS
      <4>3. /\ Numbers(down'[l], "request", t) \subseteq Numbers(down[l], "request", t)
            /\ Acked(down'[l], t) => Acked(down[l], t) \/ (type = t /\ "error" = "accepted")
        BY <4>1, AckNumbers
      <4> QED  BY <3>1, <4>2, <4>3
    <3> QED  BY <1>1, <3>2
  <2> HIDE DEF V, W
  <2> QED  BY <1>4, <1>5, <2>1, <2>2
<1>8. CASE Notes(l)
  <2>1. UNCHANGED <<memory, gcs>> /\ wpm[l].state = "IDLE"
    BY <1>8 DEF Notes
  <2>2. \E t : wpm' = [wpm EXCEPT ![l].type = t]
    BY <1>8 DEF Notes
  <2>3. w.state = v.state /\ w.seq = v.seq /\ w.count = v.count
    BY <1>1, <1>2, <2>2, SMTT(30) DEF Fields, TypeInv
  <2>4. w.requests \subseteq v.requests /\ (w.acked => v.acked)
    <3>1. CASE \E t : Ack(l, t, "no_space")
      <4>1. "no_space" # "accepted"
        OBVIOUS
      <4>2. /\ Numbers(down'[l], "request", T) \subseteq Numbers(down[l], "request", T)
            /\ Acked(down'[l], T) => Acked(down[l], T)
        <5>1. PICK type : Ack(l, type, "no_space")
          BY <3>1
        <5>2. PICK t : t = T
          OBVIOUS
        <5>3. /\ Numbers(down'[l], "request", t) \subseteq Numbers(down[l], "request", t)
              /\ Acked(down'[l], t) => Acked(down[l], t) \/ (type = t /\ "no_space" = "accepted")
          BY <5>1, AckNumbers
        <5> QED  BY <4>1, <5>2, <5>3
      <4> QED  BY <1>1, <4>2
    <3>2. CASE \E n, x : Reply(l, Msg("item", "mission", n, x))
      <4>1. PICK r : r.kind = "item" /\ Reply(l, r)
        BY <3>2 DEF Msg
      <4>2. \A x \in Elems(down'[l]) : x \in Elems(down[l]) \/ x.kind \notin {"request", "ack"}
        BY <4>1, ReplyElems
      <4>3. /\ Numbers(down'[l], "request", T) \subseteq Numbers(down[l], "request", T)
            /\ Acked(down'[l], T) => Acked(down[l], T)
        BY <4>2, FewerNumbers
      <4> QED  BY <1>1, <4>3
    <3> QED  BY <1>8, <3>1, <3>2 DEF Notes
  <2>5. v.state = "IDLE"
    BY <1>1, <2>1
  <2> HIDE DEF V, W
  <2> QED  BY <1>4, <2>1, <2>3, <2>4, <2>5
<1>9. CASE Asks(l)
  <2>1. UNCHANGED <<memory, wpm, gcs>> /\ wpm[l].state = "GETLIST" /\ Request(l, wpm[l])
    BY <1>9 DEF Asks
  <2>2. /\ w.requests \subseteq v.requests \cup {v.seq} /\ (w.acked => v.acked)
        /\ ~v.own => w.requests \subseteq v.requests
    <3>1. /\ Numbers(down'[l], "request", T) \subseteq Numbers(down[l], "request", T) \cup {wpm[l].seq}
          /\ wpm[l].type # T => Numbers(down'[l], "request", T) \subseteq Numbers(down[l], "request", T)
          /\ Acked(down'[l], T) => Acked(down[l], T)
      BY <2>1, RequestNumbers
    <3> QED  BY <1>1, <3>1
  <2>3. CASE v.own
    <3>1. Asking(v)
      BY <1>1, <2>1, <2>3 DEF Asking
    <3>2. /\ v \in Views /\ w \in Views /\ Same(v, w) /\ w.mixed = v.mixed /\ w.whole = v.whole
          /\ w.items \subseteq v.items /\ (w.counted => v.counted)
      BY <1>1, <2>1
    <3> HIDE DEF V, W
    <3> QED  BY <1>5, <2>1, <2>2, <3>1, <3>2, AsksOffer
  <2> HIDE DEF V, W
  <2> QED  BY <1>4, <1>5, <2>1, <2>2, <2>3
<1>10. CASE Confirms(l)
  <2>1. /\ UNCHANGED <<memory, wpm, gcs>> /\ Takes(l, "item") /\ wpm[l].state = "IDLE"
        /\ wpm[l].seq = Head(up[l]).n + 1 /\ Ack(l, wpm[l].type, "accepted")
    BY <1>10 DEF Confirms
  <2>2. w.requests \subseteq v.requests
    <3>1. Numbers(down'[l], "request", T) \subseteq Numbers(down[l], "request", T)
      BY <2>1, AckNumbers
    <3> QED  BY <1>1, <3>1
  <2>3. PICK i \in v.items : v.seq = i + 1 /\ v.next > 0
    <3>1. v.next \in Nat
      BY <1>1 DEF Views
    <3>2. PICK i : i = Head(up[l]).n
      OBVIOUS
    <3>3. i \in v.items /\ i < v.next /\ i \in Nat /\ wpm[l].seq = i + 1
      BY <1>3, <2>1, <3>2
    <3> QED  BY <1>1, <3>1, <3>3, SMTT(30)
  <2>4. /\ v \in Views /\ w \in Views /\ Same(v, w) /\ w.mixed = v.mixed /\ w.whole = v.whole
        /\ w.items \subseteq v.items /\ (w.counted => v.counted) /\ v.state = "IDLE"
    BY <1>1, <2>1
  <2> HIDE DEF V, W
  <2> QED  BY <1>5, <2>1, <2>2, <2>3, <2>4, ConfirmsOffer
<1>11. CASE Opens(l)
  <2>1. /\ gcs' = gcs /\ wpm[l].state = "IDLE" /\ Takes(l, "count") /\ Head(up[l]).n > 0
    BY <1>11 DEF Opens, Acceptable
  <2>2. PICK opened : /\ opened = [state |-> "GETLIST", type |-> Head(up[l]).type, seq |-> 0,
                                   count |-> Head(up[l]).n, bank |-> Inactive]
                      /\ wpm' = [wpm EXCEPT ![l] = opened] /\ Request(l, opened)
    BY <1>11 DEF Opens
  <2>3. wpm'[l] = opened /\ opened.state = "GETLIST" /\ opened.type = Head(up[l]).type /\ opened.seq = 0
    BY <2>2 DEF TypeInv
  <2>4. w.requests \subseteq v.requests \cup {0} /\ (w.acked => v.acked)
    <3>1. /\ Numbers(down'[l], "request", T) \subseteq Numbers(down[l], "request", T) \cup {opened.seq}
          /\ Acked(down'[l], T) => Acked(down[l], T)
      BY <2>2, RequestNumbers, SMTT(30)
    <3> QED  BY <1>1, <2>3, <3>1
  <2>5. v.counted /\ v.length > 0 /\ v.state = "IDLE" /\ Asking(w) /\ w.seq = 0 /\ w.mixed = v.mixed
    BY <1>1, <1>3, <2>1, <2>3 DEF Asking
  <2>6. v \in Views /\ w \in Views /\ Same(v, w) /\ w.items \subseteq v.items
    BY <1>1
  <2> HIDE DEF V, W
  <2> QED  BY <2>4, <2>5, <2>6, OpensOffer
<1>12. CASE Empties(l)
  <2>1. /\ gcs' = gcs /\ wpm[l].state = "IDLE" /\ wpm' = [wpm EXCEPT ![l].type = Head(up[l]).type]
        /\ Takes(l, "count") /\ Head(up[l]).n = 0
    BY <1>3, <1>12, SMTT(30) DEF Empties
  <2>2. w.state = "IDLE" /\ w.seq = v.seq /\ v.state = "IDLE"
    BY <1>1, <1>2, <2>1 DEF Fields, TypeInv
  <2>3. w.requests \subseteq v.requests
    <3>1. PICK code : Ack(l, Head(up[l]).type, code)
      BY <1>12 DEF Empties
    <3>2. Numbers(down'[l], "request", T) \subseteq Numbers(down[l], "request", T)
      BY <3>1, AckNumbers
    <3> QED  BY <1>1, <3>2
  <2>4. v.length = 0 /\ v.next = 0
    <3>1. v.next \in Nat /\ v.length \in Nat
      BY <1>1 DEF Views
    <3> QED  BY <1>1, <1>3, <2>1, <3>1, SMTT(30)
  <2>5. w.whole
    <3>1. T \in Types
      BY DEF TypeInv, Station, Transfer
    <3>2. count'[T] = 0
      BY <1>3, <1>12, <2>1, <3>1, Emptied
    <3>3. Length(gcs[l])' = 0 /\ Length(gcs[l]) = 0
      BY <1>1, <2>1, <2>4 DEF Length
    <3>4. InPlace(gcs[l])'
      BY <2>1, <3>2, <3>3, SMTT(30) DEF InPlace, Holds
    <3> QED  BY <1>1, <3>4
  <2>6. v \in Views /\ w \in Views /\ Same(v, w) /\ w.items \subseteq v.items /\ w.mixed = v.mixed
    BY <1>1, <2>1
  <2> HIDE DEF V, W
  <2> QED  BY <2>2, <2>3, <2>4, <2>5, <2>6, EmptiesOffer
<1>13. CASE Stops(l)
  <2>1. /\ UNCHANGED <<memory, gcs>> /\ wpm[l].state # "IDLE" /\ Quiet(l) /\ up' = up
        /\ wpm' = [wpm EXCEPT ![l] = Idle(wpm[l])] /\ down' = down
    BY <1>3, <1>13, SMTT(30) DEF Stops
  <2>2. w.state = "IDLE" /\ w.seq = v.seq /\ v.state # "IDLE"
    BY <1>1, <1>2, <2>1 DEF Fields, TypeInv, Idle
  <2>3. w.requests = {} /\ ~w.acked /\ w.items = {} /\ ~w.counted
    <3>1. Elems(up'[l]) = {} /\ Elems(down'[l]) = {}
      BY <2>1, SMTT(30) DEF Quiet, Elems
    <3>2. /\ Numbers(down'[l], "request", T) = {} /\ ~Acked(down'[l], T)
          /\ Numbers(up'[l], "item", T) = {} /\ Numbers(up'[l], "count", T) = {}
      BY <3>1 DEF Numbers, Acked
    <3> QED  BY <1>1, <3>2
  <2>4. /\ v \in Views /\ w \in Views /\ Same(v, w) /\ w.mixed = v.mixed /\ w.whole = v.whole
        /\ v.next <= v.length
        /\ v.state = "GETLIST" => v.seq < v.count
    BY <1>1, <2>1
  <2> HIDE DEF V, W
  <2> QED  BY <2>2, <2>3, <2>4, StopsOffer
<1>14. CASE Announces(l) \/ Gives(l)
  <2>1. ~Takes(l, "request_list") /\ ~Takes(l, "request")
    BY <1>3, SMTT(30)
  <2> QED  BY <1>14, <2>1 DEF Announces, Gives
<1>15. CASE Stores(l) \/ Completes(l) \/ Fails(l)
  BY <1>15, ItemOffer
<1> QED  BY <1>6, <1>7, <1>8, <1>9, <1>10, <1>11, <1>12, <1>13, <1>14, <1>15 DEF Vehicle

-----------------------------------------------------------------------------
(* Requests arrive in the order in which the manager came to wait for the   *)
(* items; those of an upload given up before may precede the first.         *)

DownPairs(t, n) == {x \in Downlink \X Downlink :
    x[1].kind = "request" /\ x[1].type = t /\ x[2].kind = "request" /\ x[2].type = t =>
        IF n = 0 THEN x[1].n = 0 => x[2].n = 0 ELSE x[1].n <= x[2].n}
DownOrder(l) == Chain(down[l], DownPairs(gcs[l].type, gcs[l].next))

LEMMA ReplyChain ==
    ASSUME TypeInv, TypeInv', NEW l \in Links, NEW m, Reply(l, m), NEW R, Chain(down[l], R),
           m \in Downlink => \A x \in Elems(down[l]) : m \in Elems(down'[l]) /\ x \in Elems(down'[l]) => <<x, m>> \in R
    PROVE  Chain(down'[l], R)
<1>1. down' = Send(down, l, m) /\ down \in [Links -> Queue(Downlink)] /\ down'[l] \in Queue(Downlink)
  BY DEF Reply, TypeInv
<1>2. down[l] \in Seq(Downlink) /\ Len(down[l]) \in Nat
  BY <1>1, SMTT(30) DEF Queue
<1>3. CASE Len(down[l]) < Capacity
  <2>1. down'[l] = Append(down[l], m)
    BY <1>1, <1>3 DEF Send
  <2>2. m \in Downlink
    BY <1>1, <1>2, <2>1, SMTT(30) DEF Queue
  <2>3. /\ Len(down'[l]) = Len(down[l]) + 1 /\ down'[l][Len(down[l]) + 1] = m
        /\ \A i \in 1 .. Len(down[l]) : down'[l][i] = down[l][i]
    BY <1>2, <2>1, <2>2, SMTT(30)
  <2>4. m \in Elems(down'[l]) /\ \A x \in Elems(down[l]) : x \in Elems(down'[l])
    BY <1>2, <2>3, SMTT(30) DEF Elems
  <2>5. \A x \in Elems(down[l]) : <<x, m>> \in R
    BY <2>2, <2>4
  <2> QED  BY <1>1, <2>5, ChainSend
<1>4. CASE ~(Len(down[l]) < Capacity)
  <2>1. down'[l] = down[l]
    BY <1>1, <1>4 DEF Send
  <2> QED  BY <2>1
<1> QED  BY <1>3, <1>4

LEMMA VehicleDownOrder ==
    ASSUME TypeInv, TypeInv', NEW l \in Links, Uploads(gcs[l]), Vehicle(l), DownOrder(l),
           NEW w, w = View(l)', Offer(w)
    PROVE  DownOrder(l)'
<1> DEFINE T == gcs[l].type
           R == DownPairs(T, gcs[l].next)
<1>1. PICK v : v = View(l)
  OBVIOUS
<1>2. /\ gcs'[l].type = T /\ gcs'[l].next = gcs[l].next
      /\ Seen(w, gcs'[l], wpm'[l], up'[l], down'[l])
  BY <1>1, VehicleView
<1>3. /\ w \in Views /\ w.next = gcs[l].next /\ w.requests = Numbers(down'[l], "request", T)
      /\ w.state = wpm'[l].state /\ (w.own <=> wpm'[l].type = T) /\ w.seq = wpm'[l].seq
  BY <1>2 DEF Seen
<1>4. SUFFICES Chain(down'[l], R)
  BY <1>2 DEF DownOrder
<1>5. Chain(down[l], R) /\ down[l] \in Seq(Downlink)
  BY DEF DownOrder, TypeInv, Queue
<1>6. CASE down[l] # <<>> /\ down' = [down EXCEPT ![l] = Tail(@)]
  <2>1. down'[l] = Tail(down[l])
    BY <1>6 DEF TypeInv
  <2> HIDE DEF R
  <2> QED  BY <1>5, <1>6, <2>1, ChainTail
<1>7. ASSUME NEW m, Reply(l, m),
             m.kind = "request" => wpm'[l].state = "GETLIST" /\ m.type = wpm'[l].type /\ m.n = wpm'[l].seq
      PROVE  Chain(down'[l], R)
  <2>1. ASSUME m \in Downlink, NEW x \in Elems(down[l]), x \in Elems(down'[l]) PROVE <<x, m>> \in R
    <3>1. x \in Downlink /\ x.n \in Nat /\ m.n \in Nat
      BY <2>1, ElemsTyped DEF Downlink, Messages
    <3>2. CASE x.kind = "request" /\ x.type = T /\ m.kind = "request" /\ m.type = T
      <4>1. x.n \in w.requests
        BY <1>3, <2>1, <3>2 DEF Numbers
      <4>2. Asking(w) /\ w.seq = m.n
        BY <1>3, <1>7, <3>2 DEF Asking
      <4>3. /\ w.next > 0 => x.n <= m.n
            /\ w.next = 0 /\ m.n > 0 => x.n # 0
        BY <4>1, <4>2 DEF Offer, AskingInv
      <4>4. IF gcs[l].next = 0 THEN x.n = 0 => m.n = 0 ELSE x.n <= m.n
        BY <1>3, <3>1, <4>3, SMTT(30) DEF Views
      <4> QED  BY <2>1, <3>1, <4>4 DEF DownPairs
    <3>3. CASE ~(x.kind = "request" /\ x.type = T /\ m.kind = "request" /\ m.type = T)
      BY <2>1, <3>1, <3>3 DEF DownPairs
    <3> QED  BY <3>2, <3>3
  <2> HIDE DEF R
  <2> QED  BY <1>5, <1>7, <2>1, ReplyChain
<1>8. CASE down' = down
  BY <1>5, <1>8
<1> QED  BY <1>6, <1>7, <1>8, VehicleReplies

-----------------------------------------------------------------------------
(* The steps of the ground station and a restart.                           *)

LEMMA SaidNumbers ==
    ASSUME NEW q, NEW r, NEW m, Elems(r) \subseteq Elems(q) \cup {m}, NEW kind, NEW t
    PROVE  /\ Numbers(r, kind, t) \subseteq Numbers(q, kind, t) \cup {m.n}
           /\ m.kind # kind => Numbers(r, kind, t) \subseteq Numbers(q, kind, t)
BY DEF Numbers

LEMMA ResendOffer ==
    ASSUME TypeInv, TypeInv', NEW l \in Links, GcsResend(l), gcs[l].phase = "offering",
           NEW v, v = View(l), NEW w, w = View(l)', Offer(v)
    PROVE  Offer(w)
<1> DEFINE T == gcs[l].type
           N == gcs[l].next
<1>1. UNCHANGED <<memory, wpm, down, gcs>>
  BY ResendCases
<1>2. PICK m \in Uplink :
        /\ Elems(up'[l]) \subseteq Elems(up[l]) \cup {m}
        /\ \/ N = 0 /\ m = Msg("count", T, Length(gcs[l]), NoItem)
           \/ N > 0 /\ m = ItemOf(gcs[l], N - 1)
  BY ResendCases
<1>3. /\ Seen(v, gcs[l], wpm[l], up[l], down[l]) /\ Seen(w, gcs'[l], wpm'[l], up'[l], down'[l])
      /\ w.length = v.length /\ w.whole = v.whole
  <2>1. Uploads(gcs[l]) /\ Uploads(gcs[l])' /\ gcs'[l].type = gcs[l].type /\ gcs'[l].plan = gcs[l].plan
    BY <1>1 DEF Uploads
  <2> QED  BY <1>1, <2>1, LinkView
<1>4. /\ v \in Views /\ w \in Views /\ v.next = N /\ Same(v, w)
      /\ w.requests = v.requests /\ (w.acked => v.acked)
      /\ w.state = v.state /\ w.own = v.own /\ w.seq = v.seq /\ w.count = v.count /\ w.mixed = v.mixed
  <2>1. /\ v \in Views /\ w \in Views /\ v.next = N /\ Same(v, w)
        /\ w.requests = v.requests /\ (w.acked <=> v.acked)
        /\ w.state = v.state /\ (w.own <=> v.own) /\ w.seq = v.seq /\ w.count = v.count /\ w.mixed = v.mixed
    BY <1>1, <1>3 DEF Seen, Same
  <2> QED  BY <2>1 DEF Views
<1>5. /\ v.items = Numbers(up[l], "item", T) /\ w.items = Numbers(up'[l], "item", T)
      /\ (v.counted <=> Numbers(up[l], "count", T) # {}) /\ (w.counted <=> Numbers(up'[l], "count", T) # {})
  BY <1>1, <1>3 DEF Seen
<1>6. /\ Numbers(up'[l], "item", T) \subseteq Numbers(up[l], "item", T) \cup {m.n}
      /\ m.kind # "item" => Numbers(up'[l], "item", T) \subseteq Numbers(up[l], "item", T)
      /\ m.kind # "count" => Numbers(up'[l], "count", T) \subseteq Numbers(up[l], "count", T)
  <2>1. Elems(up'[l]) \subseteq Elems(up[l]) \cup {m}
    BY <1>2
  <2>2. /\ Numbers(up'[l], "item", T) \subseteq Numbers(up[l], "item", T) \cup {m.n}
        /\ m.kind # "item" => Numbers(up'[l], "item", T) \subseteq Numbers(up[l], "item", T)
    BY <2>1, SaidNumbers
  <2>3. m.kind # "count" => Numbers(up'[l], "count", T) \subseteq Numbers(up[l], "count", T)
    BY <2>1, SaidNumbers
  <2> QED  BY <2>2, <2>3
<1>7. \/ v.next = 0 /\ w.items \subseteq v.items
      \/ v.next > 0 /\ w.items \subseteq v.items \cup {v.next - 1} /\ (w.counted => v.counted)
  <2>1. \/ N = 0 /\ m.kind # "item"
        \/ N > 0 /\ m.kind # "count" /\ m.n = N - 1
    BY <1>2, SMTT(30) DEF Msg, ItemOf
  <2> HIDE DEF T, N
  <2> QED  BY <1>4, <1>5, <1>6, <2>1
<1> QED  BY <1>3, <1>4, <1>7, ResendsOffer

LEMMA TailOrder ==
    ASSUME TypeInv, NEW l \in Links, DownOrder(l), down[l] # <<>>, down' = [down EXCEPT ![l] = Tail(@)]
    PROVE  /\ Chain(down'[l], DownPairs(gcs[l].type, gcs[l].next))
           /\ \A x \in Elems(down'[l]) : <<Head(down[l]), x>> \in DownPairs(gcs[l].type, gcs[l].next)
<1>1. down'[l] = Tail(down[l]) /\ down[l] \in Seq(Downlink)
  BY DEF TypeInv, Queue
<1>2. PICK R : R = DownPairs(gcs[l].type, gcs[l].next)
  OBVIOUS
<1>3. Chain(down[l], R)
  BY <1>2 DEF DownOrder
<1> QED  BY <1>1, <1>2, <1>3, ChainTail

(* The answer to a request: the requests behind it are of the same item or  *)
(* of later ones.                                                           *)
LEMMA AnswerOrder ==
    ASSUME TypeInv, NEW l \in Links, DownOrder(l), down[l] # <<>>, down' = [down EXCEPT ![l] = Tail(@)],
           NEW msg \in Downlink, msg = Head(down[l]), msg.kind = "request", msg.type = gcs[l].type,
           msg.n \in {gcs[l].next, gcs[l].next - 1}
    PROVE  /\ \A r \in Numbers(down'[l], "request", gcs[l].type) :
                    r >= msg.n /\ (gcs[l].next = 0 => r = 0)
           /\ Chain(down'[l], DownPairs(gcs[l].type, msg.n + 1))
<1> DEFINE T == gcs[l].type
           N == gcs[l].next
<1>1. N \in Nat /\ msg.n \in Nat
  BY DEF TypeInv, Station, Transfer, Downlink, Messages
<1>2. /\ Chain(down'[l], DownPairs(T, N))
      /\ \A x \in Elems(down'[l]) : <<msg, x>> \in DownPairs(T, N)
  BY TailOrder
<1>3. N = 0 => msg.n = 0
  BY <1>1, SMTT(30)
<1>4. \A x \in Elems(down'[l]) : x \in Downlink /\ x.n \in Nat
  BY <1>2 DEF DownPairs, Downlink, Messages
<1>5. \A x \in Elems(down'[l]) : x.kind = "request" /\ x.type = T => x.n >= msg.n /\ (N = 0 => x.n = 0)
  <2>1. ASSUME NEW x \in Elems(down'[l]), x.kind = "request", x.type = T
        PROVE  IF N = 0 THEN msg.n = 0 => x.n = 0 ELSE msg.n <= x.n
    BY <1>2, <2>1 DEF DownPairs
  <2> HIDE DEF T, N
  <2> QED  BY <1>1, <1>3, <1>4, <2>1, SMTT(30)
<1>6. \A r \in Numbers(down'[l], "request", T) : r >= msg.n /\ (N = 0 => r = 0)
  BY <1>5 DEF Numbers
<1>7. Chain(down'[l], DownPairs(T, msg.n + 1))
  <2>1. SUFFICES ASSUME NEW i \in 1 .. Len(down'[l]), NEW j \in 1 .. Len(down'[l]), i < j
                 PROVE  <<down'[l][i], down'[l][j]>> \in DownPairs(T, msg.n + 1)
    BY DEF Chain
  <2>2. PICK x \in Elems(down'[l]), y \in Elems(down'[l]) : x = down'[l][i] /\ y = down'[l][j]
    BY DEF Elems
  <2>3. <<x, y>> \in DownPairs(T, N)
    BY <1>2, <2>1, <2>2 DEF Chain
  <2>4. ASSUME x.kind = "request", x.type = T, y.kind = "request", y.type = T PROVE x.n <= y.n
    <3>1. IF N = 0 THEN x.n = 0 => y.n = 0 ELSE x.n <= y.n
      BY <2>3, <2>4 DEF DownPairs
    <3> HIDE DEF T, N
    <3> QED  BY <1>4, <1>5, <2>4, <3>1, SMTT(30)
  <2>5. <<x, y>> \in DownPairs(T, msg.n + 1)
    BY <1>1, <1>4, <2>4, SMTT(30) DEF DownPairs
  <2> QED  BY <2>2, <2>5
<1> QED  BY <1>6, <1>7

LEMMA AnswerOffer ==
    ASSUME TypeInv, TypeInv', NEW l \in Links, UNCHANGED <<memory, wpm>>, DownOrder(l),
           down[l] # <<>>, down' = [down EXCEPT ![l] = Tail(@)],
           NEW g \in Station, g = gcs[l], NEW msg \in Downlink, msg = Head(down[l]), Answers(l, g, msg),
           NEW v, v = View(l), NEW w, w = View(l)', Offer(v)
    PROVE  gcs'[l].phase = "offering" /\ Offer(w) /\ DownOrder(l)'
<1> DEFINE T == gcs[l].type
           N == gcs[l].next
<1>1. g.next \in Nat /\ msg.n \in Nat
  BY DEF Station, Transfer, Downlink, Messages
<1>2. /\ gcs'[l].phase = "offering" /\ gcs'[l].type = T /\ gcs'[l].plan = gcs[l].plan
      /\ gcs'[l].next = msg.n + 1 /\ gcs'[l].mixed = gcs[l].mixed
  <2>1. PICK new : new = [g EXCEPT !.next = msg.n + 1] /\ gcs'[l] = new
    BY DEF Answers, TypeInv
  <2>2. /\ new.phase = "offering" /\ new.type = g.type /\ new.plan = g.plan /\ new.next = msg.n + 1
        /\ new.mixed = g.mixed
    BY <2>1 DEF Answers, Station, Transfer
  <2> QED  BY <2>1, <2>2
<1>3. /\ msg.type = T /\ msg.kind = "request" /\ msg.n \in {N, N - 1} /\ msg.n < Length(gcs[l])
      /\ gcs[l].phase = "offering" /\ Say(l, ItemOf(g, msg.n))
  BY DEF Answers
<1>4. /\ \A r \in Numbers(down'[l], "request", T) : r >= msg.n /\ (N = 0 => r = 0)
      /\ Chain(down'[l], DownPairs(T, msg.n + 1))
  BY <1>3, AnswerOrder
<1>5. DownOrder(l)'
  BY <1>2, <1>4 DEF DownOrder
<1>6. PICK m : m = ItemOf(g, msg.n)
  OBVIOUS
<1>7. m.kind = "item" /\ m.n = msg.n /\ Elems(up'[l]) \subseteq Elems(up[l]) \cup {m}
  <2>1. up' = Send(up, l, m)
    BY <1>3, <1>6 DEF Say
  <2>2. m.kind = "item" /\ m.n = msg.n
    BY <1>6 DEF ItemOf, Msg
  <2> QED  BY <2>1, <2>2, Lined DEF TypeInv
<1>8. /\ Seen(v, gcs[l], wpm[l], up[l], down[l]) /\ Seen(w, gcs'[l], wpm'[l], up'[l], down'[l])
      /\ w.length = v.length /\ w.whole = v.whole
  <2>1. Uploads(gcs[l]) /\ Uploads(gcs[l])'
    BY <1>2, <1>3 DEF Uploads
  <2> QED  BY <1>2, <2>1, LinkView
<1>9. /\ v \in Views /\ w \in Views /\ v.next = N /\ w.next = msg.n + 1 /\ v.length = Length(gcs[l])
      /\ w.state = v.state /\ w.own = v.own /\ w.seq = v.seq /\ w.count = v.count /\ w.mixed = v.mixed
  <2>1. /\ v \in Views /\ w \in Views /\ v.next = N /\ w.next = msg.n + 1 /\ v.length = Length(gcs[l])
        /\ w.state = v.state /\ (w.own <=> v.own) /\ w.seq = v.seq /\ w.count = v.count /\ w.mixed = v.mixed
    BY <1>2, <1>8 DEF Seen
  <2> QED  BY <2>1 DEF Views
<1>10. /\ v.requests = Numbers(down[l], "request", T) /\ w.requests = Numbers(down'[l], "request", T)
       /\ (v.acked <=> Acked(down[l], T)) /\ (w.acked <=> Acked(down'[l], T))
       /\ v.items = Numbers(up[l], "item", T) /\ w.items = Numbers(up'[l], "item", T)
       /\ (v.counted <=> Numbers(up[l], "count", T) # {}) /\ (w.counted <=> Numbers(up'[l], "count", T) # {})
  BY <1>2, <1>8 DEF Seen
<1>11. w.requests \subseteq v.requests /\ (w.acked => v.acked) /\ msg.n \in v.requests
  <2>1. Elems(down'[l]) \subseteq Elems(down[l]) /\ msg \in Elems(down[l])
    BY TailQueue DEF TypeInv
  <2>2. /\ Numbers(down'[l], "request", T) \subseteq Numbers(down[l], "request", T)
        /\ Acked(down'[l], T) => Acked(down[l], T)
    BY <2>1, FewerNumbers
  <2>3. msg.n \in Numbers(down[l], "request", T)
    BY <1>3, <2>1 DEF Numbers
  <2> QED  BY <1>10, <2>2, <2>3
<1>12. w.items \subseteq v.items \cup {msg.n} /\ (w.counted => v.counted)
  <2>1. /\ Numbers(up'[l], "item", T) \subseteq Numbers(up[l], "item", T) \cup {m.n}
        /\ m.kind # "count" => Numbers(up'[l], "count", T) \subseteq Numbers(up[l], "count", T)
    BY <1>7, SaidNumbers
  <2> HIDE DEF T
  <2> QED  BY <1>7, <1>10, <2>1
<1>13. \A r \in w.requests : r >= msg.n /\ (N = 0 => r = 0)
  BY <1>4, <1>10
<1> HIDE DEF T, N
<1>14. CASE msg.n = N
  <2>1. /\ v.next \in v.requests /\ v.next < v.length /\ w.next = v.next + 1
        /\ \A r \in w.requests : r >= v.next /\ (v.next = 0 => r = 0)
        /\ w.items \subseteq v.items \cup {v.next}
    BY <1>3, <1>9, <1>11, <1>12, <1>13, <1>14
  <2> QED  BY <1>2, <1>5, <1>8, <1>9, <1>11, <1>12, <2>1, AnswersOffer
<1>15. CASE msg.n = N - 1
  <2>1. Same(v, w) /\ v.next > 0 /\ msg.n = v.next - 1
    <3>1. v.next \in Nat
      BY <1>9 DEF Views
    <3>2. w.next = v.next /\ v.next > 0 /\ msg.n = v.next - 1
      BY <1>1, <1>9, <1>15, <3>1, SMTT(30)
    <3> QED  BY <1>8, <3>2 DEF Same
  <2> QED  BY <1>2, <1>5, <1>8, <1>9, <1>11, <1>12, <2>1, ResendsOffer
<1> QED  BY <1>3, <1>14, <1>15

LEMMA ConcludeOffer ==
    ASSUME TypeInv, TypeInv', NEW l \in Links, UNCHANGED <<memory, wpm>>,
           down[l] # <<>>, down' = [down EXCEPT ![l] = Tail(@)],
           NEW g \in Station, g = gcs[l], NEW msg \in Downlink, msg = Head(down[l]), Concludes(l, g, msg),
           NEW v, v = View(l), NEW w, w = View(l)', Offer(v), gcs'[l].phase = "accepted"
    PROVE  Accepted(w)
<1> DEFINE T == gcs[l].type
<1>1. PICK phase \in {"accepted", "idle"} :
        /\ phase = "accepted" => msg.content[1] = "accepted" /\ g.next = Length(g)
        /\ gcs' = [gcs EXCEPT ![l] = [g EXCEPT !.phase = phase]]
  BY DEF Concludes
<1>2. PICK new : new = [g EXCEPT !.phase = phase] /\ gcs'[l] = new
  BY <1>1 DEF TypeInv
<1>3. new.phase = phase /\ new.type = g.type /\ new.plan = g.plan /\ new.next = g.next /\ new.mixed = g.mixed
  BY <1>2 DEF Station, Transfer
<1>4. msg.content[1] = "accepted" /\ gcs[l].next = Length(gcs[l])
  BY <1>1, <1>2, <1>3
<1>5. msg.type = T /\ msg.kind = "ack" /\ gcs[l].phase = "offering" /\ up' = up
  BY DEF Concludes
<1>6. Acked(down[l], T)
  <2>1. msg \in Elems(down[l])
    BY TailQueue DEF TypeInv
  <2> QED  BY <1>4, <1>5, <2>1 DEF Acked
<1>7. /\ Seen(v, gcs[l], wpm[l], up[l], down[l]) /\ Seen(w, gcs'[l], wpm'[l], up'[l], down'[l])
      /\ w.length = v.length /\ w.whole = v.whole
  <2>1. /\ Uploads(gcs[l]) /\ Uploads(gcs[l])' /\ gcs'[l].type = gcs[l].type /\ gcs'[l].plan = gcs[l].plan
    BY <1>2, <1>3, <1>5 DEF Uploads
  <2> QED  BY <2>1, LinkView
<1>8. /\ v \in Views /\ w \in Views /\ v.next = v.length /\ v.acked
      /\ w.state = v.state /\ w.mixed = v.mixed /\ (w.counted <=> v.counted)
  <2>1. gcs'[l].type = T /\ gcs'[l].mixed = gcs[l].mixed /\ up' = up /\ wpm' = wpm
    BY <1>2, <1>3, <1>5
  <2> QED  BY <1>4, <1>6, <1>7, <2>1 DEF Seen
<1> QED  BY <1>7, <1>8, SMTT(30) DEF Views, Offer, AckInv, Settled, Accepted

LEMMA BeginOffer ==
    ASSUME TypeInv, TypeInv', NEW l \in Links, Begins(l), Uploads(gcs[l])', NEW w, w = View(l)'
    PROVE  gcs'[l].phase = "offering" /\ Offer(w) /\ DownOrder(l)'
<1>1. Quiet(l) /\ down' = down
  BY BeginCases
<1>2. gcs'[l].next = 0 /\ gcs'[l].phase = "offering"
  <2>1. PICK m, g : /\ gcs' = [gcs EXCEPT ![l] = g]
                    /\ \/ \E t \in Types : \E p \in DOMAIN Plans[t] :
                            g = Begun("offering", t, p) /\ m = Msg("count", t, Plans[t][p], NoItem)
                       \/ \E t \in Types :
                            g = Begun("listing", t, "none") /\ m = Msg("request_list", t, 0, NoItem)
                       \/ g = FreshGcs /\ m.kind \in {"clear_all", "ack"}
    BY BeginCases
  <2>2. gcs'[l] = g
    BY <2>1 DEF TypeInv
  <2> QED  BY <2>1, <2>2, SMTT(30) DEF Begun, FreshGcs, Uploads
<1>3. down'[l] = <<>> /\ Elems(down'[l]) = {}
  BY <1>1, SMTT(30) DEF Quiet, Elems
<1>4. DownOrder(l)'
  BY <1>3, SMTT(30) DEF DownOrder, Chain
<1>5. PICK g, m, u, d : g = gcs'[l] /\ m = wpm'[l] /\ u = up'[l] /\ d = down'[l]
  OBVIOUS
<1>6. PICK b \in BOOLEAN : b = InPlace(gcs[l])'
  BY DEF InPlace
<1>7. w = ViewOf(g, m, u, d, b)
  BY <1>5, <1>6 DEF View
<1>8. Seen(w, g, m, u, d)
  <2>1. g \in Station /\ m \in Manager /\ u \in Queue(Uplink) /\ d \in Queue(Downlink) /\ Uploads(g)
    BY <1>5 DEF TypeInv
  <2> QED  BY <1>6, <1>7, <2>1, ViewFields
<1>9. w \in Views /\ w.next = 0 /\ w.requests = {} /\ ~w.acked
  BY <1>2, <1>3, <1>5, <1>8 DEF Seen, Numbers, Acked
<1> QED  BY <1>2, <1>4, <1>9, BeginsOffer

LEMMA RestartsOffer ==
    ASSUME OneLink, TypeInv, TypeInv', StoredInv, Restart, NEW l \in Links, Uploads(gcs[l]),
           NEW v, v = View(l), NEW w, w = View(l)'
    PROVE  (Offer(v) => Offer(w)) /\ (Accepted(v) => Accepted(w))
<1>1. UNCHANGED <<stored, up, down, gcs>> /\ wpm'[l] = FreshManager /\ UNCHANGED <<active, count>>
  BY RestartCounts DEF Restart
<1>2. wpm[l].state # "GETLIST" => UNCHANGED memory
  BY <1>1, RestartItems DEF OneLink, memory
<1>3. /\ Seen(v, gcs[l], wpm[l], up[l], down[l]) /\ Seen(w, gcs'[l], wpm'[l], up'[l], down'[l])
      /\ w.length = v.length /\ (UNCHANGED memory => w.whole = v.whole)
  <2>1. Uploads(gcs[l])' /\ gcs'[l].type = gcs[l].type /\ gcs'[l].plan = gcs[l].plan
    BY <1>1 DEF Uploads
  <2> QED  BY <2>1, LinkView
<1>4. FreshManager.state = "IDLE" /\ FreshManager.seq = 0
  BY DEF FreshManager
<1>5. /\ v \in Views /\ w \in Views /\ Same(v, w) /\ Quieter(v, w) /\ v.state = wpm[l].state
      /\ w.state = "IDLE" /\ w.seq = 0 /\ w.mixed = v.mixed
  BY <1>1, <1>3, <1>4 DEF Seen, Same, Quieter
<1> QED  BY <1>2, <1>3, <1>5, RestartOffer

-----------------------------------------------------------------------------
(* Every upload.                                                            *)

LinkInv(l) == /\ gcs[l].phase = "offering" => Offer(View(l)) /\ DownOrder(l)
              /\ gcs[l].phase = "accepted" => Accepted(View(l))
OfferInv == \A l \in Links : LinkInv(l)

LEMMA HearOffer ==
    ASSUME TypeInv, TypeInv', NEW l \in Links, Hears(l), LinkInv(l)
    PROVE  LinkInv(l)'
<1>1. PICK v, w : v = View(l) /\ w = View(l)'
  OBVIOUS
<1>2. SUFFICES /\ gcs'[l].phase = "offering" => Offer(w) /\ DownOrder(l)'
               /\ gcs'[l].phase = "accepted" => Accepted(w)
  BY <1>1 DEF LinkInv
<1>3. gcs[l].phase = "offering" => Offer(v) /\ DownOrder(l)
  BY <1>1 DEF LinkInv
<1>4. PICK g \in Station, msg \in Downlink :
            /\ g = gcs[l] /\ msg = Head(down[l])
            /\ \/ Answers(l, g, msg) \/ Concludes(l, g, msg) \/ Lists(l, g, msg)
               \/ Fetches(l, g, msg) \/ GivesUp(l, g, msg)
  BY DEF Hears
<1>5. UNCHANGED <<memory, wpm>> /\ down[l] # <<>> /\ down' = [down EXCEPT ![l] = Tail(@)]
  BY DEF Hears
<1>6. CASE Answers(l, g, msg)
  <2>1. Offer(v) /\ DownOrder(l)
    BY <1>3, <1>4, <1>6 DEF Answers
  <2>2. gcs'[l].phase = "offering" /\ Offer(w) /\ DownOrder(l)'
    BY <1>1, <1>4, <1>5, <1>6, <2>1, AnswerOffer
  <2> QED  BY <2>2
<1>7. CASE Concludes(l, g, msg)
  <2>1. Offer(v)
    BY <1>3, <1>4, <1>7 DEF Concludes
  <2>2. gcs'[l].phase \in {"accepted", "idle"}
    <3>1. PICK phase \in {"accepted", "idle"} : gcs' = [gcs EXCEPT ![l] = [g EXCEPT !.phase = phase]]
      BY <1>7 DEF Concludes
    <3>2. PICK new : new = [g EXCEPT !.phase = phase] /\ gcs'[l] = new
      BY <3>1 DEF TypeInv
    <3>3. new.phase = phase
      BY <3>2 DEF Station, Transfer
    <3> QED  BY <3>2, <3>3
  <2>3. ASSUME gcs'[l].phase = "accepted" PROVE Accepted(w)
    BY <1>1, <1>4, <1>5, <1>7, <2>1, <2>3, ConcludeOffer
  <2> QED  BY <2>2, <2>3
<1>8. CASE Lists(l, g, msg) \/ Fetches(l, g, msg)
  <2>1. gcs'[l].phase \in {"downloaded", "fetching"}
    BY <1>4, <1>8, ListsFields, FetchesFields
  <2> QED  BY <2>1
<1>9. CASE GivesUp(l, g, msg)
  <2>1. PICK new : new = [g EXCEPT !.phase = "idle"] /\ gcs'[l] = new
    BY <1>9 DEF GivesUp, TypeInv
  <2>2. new.phase = "idle"
    BY <2>1 DEF Station, Transfer
  <2> QED  BY <2>1, <2>2
<1> QED  BY <1>4, <1>6, <1>7, <1>8, <1>9

LEMMA OfferStep ==
    ASSUME OneLink, Reliable, TypeInv, TypeInv', UpInv, UpOrder, StoredInv, UploadInv, OfferInv, [Next]_vars
    PROVE  OfferInv'
<1>1. SUFFICES ASSUME NEW l \in Links PROVE LinkInv(l)'
  BY DEF OfferInv
<1>2. LinkInv(l)
  BY DEF OfferInv
<1>3. PICK v, w : v = View(l) /\ w = View(l)'
  OBVIOUS
<1>4. SUFFICES /\ gcs'[l].phase = "offering" => Offer(w) /\ DownOrder(l)'
               /\ gcs'[l].phase = "accepted" => Accepted(w)
  BY <1>3 DEF LinkInv
<1>5. /\ gcs[l].phase = "offering" => Offer(v) /\ DownOrder(l)
      /\ gcs[l].phase = "accepted" => Accepted(v)
  BY <1>2, <1>3 DEF LinkInv
<1>6. CASE Vehicle(l)
  <2>1. gcs'[l].phase = gcs[l].phase
    BY <1>6, VehicleKeeps
  <2>2. ASSUME Uploads(gcs[l]) PROVE (Offer(v) => Offer(w)) /\ (Accepted(v) => Accepted(w))
    BY <1>3, <1>6, <2>2, VehicleOffer
  <2>3. ASSUME Uploads(gcs[l]), DownOrder(l), Offer(w) PROVE DownOrder(l)'
    BY <1>3, <1>6, <2>3, VehicleDownOrder
  <2>4. gcs[l].phase \in {"offering", "accepted"} => Uploads(gcs[l])
    BY DEF Uploads
  <2> QED  BY <1>5, <2>1, <2>2, <2>3, <2>4
<1>7. CASE UNCHANGED vars
  <2>1. Vehicle(l)
    BY <1>7 DEF vars, storage, statics, memory, Vehicle, Passes, Uptake
  <2> QED  BY <1>6, <2>1
<1>8. CASE Restart
  <2>1. gcs' = gcs /\ down' = down
    BY <1>8 DEF Restart
  <2>2. ASSUME Uploads(gcs[l]) PROVE (Offer(v) => Offer(w)) /\ (Accepted(v) => Accepted(w))
    BY <1>3, <1>8, <2>2, RestartsOffer
  <2>3. DownOrder(l) => DownOrder(l)'
    BY <2>1 DEF DownOrder
  <2>4. gcs[l].phase \in {"offering", "accepted"} => Uploads(gcs[l])
    BY DEF Uploads
  <2> QED  BY <1>5, <2>1, <2>2, <2>3, <2>4
<1>9. CASE Begins(l)
  <2>1. ASSUME Uploads(gcs[l])' PROVE gcs'[l].phase = "offering" /\ Offer(w) /\ DownOrder(l)'
    BY <1>3, <1>9, <2>1, BeginOffer
  <2>2. gcs'[l].phase \in {"offering", "accepted"} => Uploads(gcs[l])'
    BY DEF Uploads
  <2> QED  BY <2>1, <2>2
<1>10. CASE GcsResend(l)
  <2>1. gcs' = gcs /\ down' = down /\ gcs[l].phase # "accepted"
    BY <1>10, ResendCases
  <2>2. ASSUME gcs[l].phase = "offering" PROVE Offer(w)
    BY <1>3, <1>5, <1>10, <2>2, ResendOffer
  <2>3. DownOrder(l) => DownOrder(l)'
    BY <2>1 DEF DownOrder
  <2> QED  BY <1>5, <2>1, <2>2, <2>3
<1>11. CASE Hears(l)
  <2>1. LinkInv(l)'
    BY <1>2, <1>11, HearOffer
  <2> QED  BY <1>3, <2>1 DEF LinkInv
<1>12. ASSUME NEW k \in Links PROVE k = l
  BY DEF OneLink
<1> QED  BY <1>6, <1>7, <1>8, <1>9, <1>10, <1>11, <1>12, Steps

(* With one link, when the writes of the states do not fail (those of items *)
(* may): a plan the ground station holds for accepted is the one the        *)
(* vehicle has, whatever messages are lost or sent again, whichever uploads *)
(* were given up before, and wherever the vehicle restarts, unless its      *)
(* items were taken for those of an upload of another length.               *)
THEOREM AcceptedPlanIsActive ==
    ASSUME OneLink, Reliable
    PROVE  Spec => []AcceptedIsActive
<1>1. Init => UpOrder /\ OfferInv
  <2>1. SUFFICES ASSUME Init PROVE UpOrder /\ OfferInv
    OBVIOUS
  <2>2. UpOrder
    BY <2>1, SMTT(30) DEF Init, UpOrder, Chain
  <2>3. \A l \in Links : gcs[l].phase = "idle"
    BY <2>1 DEF Init, FreshGcs, Begun
  <2>4. OfferInv
    BY <2>3 DEF OfferInv, LinkInv
  <2> QED  BY <2>2, <2>4
<1>2. MissionAll /\ MissionAll' /\ UpOrder /\ OfferInv /\ [Next]_vars => UpOrder' /\ OfferInv'
  <2>1. SUFFICES ASSUME MissionAll, MissionAll', UpOrder, OfferInv, [Next]_vars PROVE UpOrder' /\ OfferInv'
    OBVIOUS
  <2>2. TypeInv /\ TypeInv' /\ UpInv /\ StoredInv /\ UploadInv
    BY <2>1 DEF MissionAll
  <2>3. UpOrder'
    BY <2>1, <2>2, UpOrderStep
  <2>4. OfferInv'
    BY <2>1, <2>2, OfferStep
  <2> QED  BY <2>3, <2>4
<1>3. MissionAll /\ OfferInv => AcceptedIsActive
  <2>1. SUFFICES ASSUME MissionAll, OfferInv, NEW l \in Links, gcs[l].phase = "accepted", ~gcs[l].mixed
                 PROVE  Plan(gcs[l].type) = Whole(gcs[l].type, gcs[l].plan)
    BY DEF AcceptedIsActive
  <2>2. InPlace(gcs[l])
    <3>1. Accepted(View(l))
      BY <2>1 DEF OfferInv, LinkInv
    <3>2. View(l).mixed = gcs[l].mixed /\ View(l).whole = InPlace(gcs[l])
      BY DEF View, ViewOf
    <3> QED  BY <2>1, <3>1, <3>2 DEF Accepted, Settled
  <2>3. PICK n, p, b : n = Plans[gcs[l].type][gcs[l].plan] /\ p = gcs[l].plan /\ b = Bank(gcs[l].type, active)
    OBVIOUS
  <2>4. count[gcs[l].type] = n /\ \A i \in 0 .. n - 1 : items[b][i] = <<p, i>>
    BY <2>2, <2>3 DEF InPlace, Length, Holds
  <2>5. n \in Nat
    <3>1. gcs[l].type \in Types /\ gcs[l].plan \in DOMAIN Plans[gcs[l].type]
      BY <2>1 DEF MissionAll, TypeInv, Station, Transfer
    <3> QED  BY <2>3, <3>1, PlansAssumption
  <2>6. \A i \in 1 .. n : items[b][i - 1] = <<p, i - 1>>
    BY <2>4, <2>5, SMTT(30)
  <2> QED  BY <2>3, <2>4, <2>6 DEF Plan, Whole
<1> QED  BY <1>1, <1>2, <1>3, MissionAllInductive, PTL DEF Spec
=============================================================================
