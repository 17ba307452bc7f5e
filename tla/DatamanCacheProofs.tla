------------------------- MODULE DatamanCacheProofs -------------------------
(***************************************************************************)
(* Proofs about the cache in front of a client of the data manager, and    *)
(* the theorems about the data manager as a whole.                         *)
(***************************************************************************)
EXTENDS DatamanProofs

(* The provers a step is tried with unless it names one, and their time.    *)
USE ZenonT(30), SMTT(30)

(* The cache with n slots.                                                  *)
CacheOf(n) == [items : [0 .. n - 1 -> Slot], load_index : 0 .. n - 1, update_index : 0 .. n - 1,
               item_counter : 0 .. n, buffer : Nat, failed : BOOLEAN]

(* How far slot i is ahead of slot u in a ring of n slots.                  *)
Ahead(u, i, n) == IF i >= u THEN i - u ELSE i + n - u

(* A slot in use has a key, and knows what the item holds.                  *)
KeysInv(items, n, st) ==
    \A i \in 0 .. n - 1 : items[i].state # "Idle" =>
        items[i].key \in Keys /\ st[items[i].key] \in items[i].since

(* Each key is in use once.                                                 *)
Distinct(items, n) ==
    \A i, j \in 0 .. n - 1 :
        items[i].state # "Idle" /\ items[j].state # "Idle" /\ items[i].key = items[j].key => i = j
(* The load index l is c slots ahead of the update index u.                 *)
Aligned(u, l, c, n) == l = IF u + c < n THEN u + c ELSE u + c - n
(* The slots that wait are those in between, and none is an Error.          *)
Window(items, u, c, n) ==
    \A i \in 0 .. n - 1 :
        /\ items[i].state # "Error"
        /\ items[i].state \in {"RequestPrepared", "RequestSent"} => Ahead(u, i, n) < c
(* The slot that is requested is the one at the update index; the client's  *)
(* operation, in state nst, reads its item into it.                         *)
Requesting(items, u, b, n, nst, key) ==
    /\ \A i \in 0 .. n - 1 : items[i].state = "RequestSent" => i = u /\ nst = "RequestSent"
    /\ nst \in {"Idle", "RequestSent"}
    /\ nst = "RequestSent" => items[u].state = "RequestSent" /\ b = u /\ items[u].key = key
(* What has been received is current.                                       *)
Current(items, n) ==
    \A i \in 0 .. n - 1 : items[i].state = "ResponseReceived" => items[i].data \in items[i].since

RingInv(ch, n, nst, key) ==
    /\ Distinct(ch.items, n)
    /\ Aligned(ch.update_index, ch.load_index, ch.item_counter, n)
    /\ Window(ch.items, ch.update_index, ch.item_counter, n)
    /\ Requesting(ch.items, ch.update_index, ch.buffer, n, nst, key)
    /\ Current(ch.items, n)

(* The ring is in order as long as no load has failed.                      *)
Good(ch, n, st, nst, key) ==
    /\ ch \in CacheOf(n)
    /\ KeysInv(ch.items, n, st)
    /\ ~ch.failed => RingInv(ch, n, nst, key)
CacheInv == \E n \in Sizes : Good(cache, n, store, state[Nav], Key(active[Nav]))

-----------------------------------------------------------------------------
(* Rings.                                                                   *)

LEMMA RingUnique ==
    ASSUME NEW n \in Nat \ {0}, NEW k \in Int, NEW r \in 0 .. n - 1
    PROVE  (n * k + r) % n = r
  BY SMTT(30)

LEMMA NextIndex ==
    ASSUME NEW n \in Nat \ {0}, NEW i \in 0 .. n - 1
    PROVE  (i + 1) % n = IF i + 1 = n THEN 0 ELSE i + 1
<1>1. CASE i + 1 < n
  BY <1>1, RingUnique, i + 1 = n * 0 + (i + 1), SMTT(30)
<1>2. CASE i + 1 = n
  BY <1>2, RingUnique, i + 1 = n * 1 + 0, 0 \in 0 .. n - 1, SMTT(30)
<1> QED  BY <1>1, <1>2, SMTT(30)

LEMMA CacheSize ==
    ASSUME NEW n \in Sizes, NEW ch \in CacheOf(n)
    PROVE  /\ n \in Nat \ {0}
           /\ DOMAIN ch.items = 0 .. n - 1 /\ Cardinality(DOMAIN ch.items) = n
<1>1. n \in Nat \ {0}
  BY CacheAssumption
<1>2. DOMAIN ch.items = 0 .. n - 1
  BY DEF CacheOf
<1>3. Cardinality(0 .. n - 1) = n
  BY <1>1, FS_Interval, SMTT(30)
<1> QED  BY <1>1, <1>2, <1>3

LEMMA InsertFields ==
    ASSUME NEW n \in Sizes, NEW ch \in CacheOf(n), NEW slot \in Slot, ch.item_counter < n
    PROVE  /\ Insert(ch, slot) \in CacheOf(n)
           /\ Insert(ch, slot).items = [ch.items EXCEPT ![ch.load_index] = slot]
           /\ Insert(ch, slot).load_index = IF ch.load_index + 1 = n THEN 0 ELSE ch.load_index + 1
           /\ Insert(ch, slot).item_counter = ch.item_counter + 1
           /\ Insert(ch, slot).update_index = ch.update_index
           /\ Insert(ch, slot).buffer = ch.buffer /\ Insert(ch, slot).failed = ch.failed
<1>1. n \in Nat \ {0} /\ Cardinality(DOMAIN ch.items) = n
  BY CacheSize
<1>2. ch.load_index \in 0 .. n - 1 /\ ch.item_counter \in 0 .. n
  BY DEF CacheOf
<1>3. Insert(ch, slot) = [ch EXCEPT !.items[ch.load_index] = slot,
                          !.load_index = (@ + 1) % n, !.item_counter = @ + 1]
  BY <1>1 DEF Insert
<1>4. (ch.load_index + 1) % n = IF ch.load_index + 1 = n THEN 0 ELSE ch.load_index + 1
  BY <1>1, <1>2, NextIndex
<1>5. /\ Insert(ch, slot).items = [ch.items EXCEPT ![ch.load_index] = slot]
      /\ Insert(ch, slot).load_index = (ch.load_index + 1) % n
      /\ Insert(ch, slot).item_counter = ch.item_counter + 1
      /\ Insert(ch, slot).update_index = ch.update_index
      /\ Insert(ch, slot).buffer = ch.buffer /\ Insert(ch, slot).failed = ch.failed
  BY <1>3 DEF CacheOf
<1>6. Insert(ch, slot) \in CacheOf(n)
  <2>1. [ch.items EXCEPT ![ch.load_index] = slot] \in [0 .. n - 1 -> Slot]
    BY DEF CacheOf
  <2>2. (ch.load_index + 1) % n \in 0 .. n - 1 /\ ch.item_counter + 1 \in 0 .. n
    BY <1>1, <1>2, <1>4, SMTT(30)
  <2> QED  BY <1>3, <2>1, <2>2 DEF CacheOf
<1> QED  BY <1>4, <1>5, <1>6

LEMMA InsertGood ==
    ASSUME NEW n \in Sizes, NEW st, NEW nst, NEW key, NEW ch, Good(ch, n, st, nst, key),
           NEW slot \in Slot, ch.item_counter < n,
           slot.state \in {"RequestPrepared", "ResponseReceived"},
           slot.key \in Keys, st[slot.key] \in slot.since,
           slot.state = "ResponseReceived" => slot.data \in slot.since,
           ~ch.failed => \A i \in 0 .. n - 1 : ch.items[i].state # "Idle" => ch.items[i].key # slot.key
    PROVE  Good(Insert(ch, slot), n, st, nst, key)
<1> DEFINE items == [ch.items EXCEPT ![ch.load_index] = slot]
           u == ch.update_index
           l == ch.load_index
           c == ch.item_counter
           l1 == IF l + 1 = n THEN 0 ELSE l + 1
<1>0. ch \in CacheOf(n) /\ n \in Nat \ {0}
  BY CacheSize DEF Good
<1>1. /\ Insert(ch, slot) \in CacheOf(n) /\ Insert(ch, slot).items = items
      /\ Insert(ch, slot).load_index = l1 /\ Insert(ch, slot).item_counter = c + 1
      /\ Insert(ch, slot).update_index = u
      /\ Insert(ch, slot).buffer = ch.buffer /\ Insert(ch, slot).failed = ch.failed
  BY <1>0, InsertFields, SMTT(30)
<1>2. u \in 0 .. n - 1 /\ l \in 0 .. n - 1 /\ c \in 0 .. n - 1
  BY <1>0, SMTT(30) DEF CacheOf
<1>3. \A i \in 0 .. n - 1 : items[i] = IF i = l THEN slot ELSE ch.items[i]
  BY <1>0 DEF CacheOf
<1>4. KeysInv(ch.items, n, st) /\ (~ch.failed => RingInv(ch, n, nst, key))
  BY DEF Good
<1> HIDE DEF items, u, l, c, l1
<1>5. KeysInv(items, n, st)
  BY <1>3, <1>4 DEF KeysInv
<1>6. ASSUME ~ch.failed PROVE RingInv(Insert(ch, slot), n, nst, key)
  <2>0. /\ Distinct(ch.items, n) /\ Aligned(u, l, c, n) /\ Window(ch.items, u, c, n)
        /\ Requesting(ch.items, u, ch.buffer, n, nst, key) /\ Current(ch.items, n)
    BY <1>4, <1>6 DEF RingInv, u, l, c
  <2>1. Distinct(items, n)
    BY <1>2, <1>3, <1>6, <2>0 DEF Distinct
  <2>2. Aligned(u, l1, c + 1, n)
    BY <1>0, <1>2, <2>0, SMTT(30) DEF Aligned, l1
  <2>3. Ahead(u, l, n) = c
    BY <1>0, <1>2, <2>0, SMTT(30) DEF Aligned, Ahead
  <2>4. \A i \in 0 .. n - 1 : Ahead(u, i, n) \in 0 .. n - 1
    BY <1>0, <1>2, SMTT(30) DEF Ahead
  <2>5. Window(items, u, c + 1, n)
    <3> SUFFICES ASSUME NEW i \in 0 .. n - 1
                 PROVE  /\ items[i].state # "Error"
                        /\ items[i].state \in {"RequestPrepared", "RequestSent"} => Ahead(u, i, n) < c + 1
      BY DEF Window
    <3>1. CASE i = l
      BY <1>2, <1>3, <2>3, <3>1, SMTT(30)
    <3>2. CASE i # l
      BY <1>2, <1>3, <2>0, <2>4, <3>2, SMTT(30) DEF Window
    <3> QED  BY <3>1, <3>2
  <2>6. ch.items[u].state = "RequestSent" => l # u
    <3>1. Ahead(u, u, n) = 0
      BY <1>0, <1>2, SMTT(30) DEF Ahead
    <3> QED  BY <1>2, <2>0, <2>3, <3>1, SMTT(30) DEF Window
  <2>7. Requesting(items, u, ch.buffer, n, nst, key)
    BY <1>2, <1>3, <2>0, <2>6 DEF Requesting
  <2>8. Current(items, n)
    BY <1>3, <2>0 DEF Current
  <2> QED  BY <1>1, <2>1, <2>2, <2>5, <2>7, <2>8 DEF RingInv
<1> QED  BY <1>1, <1>5, <1>6 DEF Good

(* load().                                                                  *)
LEMMA LoadedGood ==
    ASSUME TypeOK, NEW n \in Sizes, NEW nst, NEW key, NEW ch, Good(ch, n, store, nst, key), NEW k \in Keys
    PROVE  Good(Loaded(ch, k), n, store, nst, key)
<1> DEFINE slot == [ch.items[ch.load_index] EXCEPT !.state = "RequestPrepared", !.key = k,
                                                   !.since = {store[k]}]
           full == \/ \E i \in DOMAIN ch.items : ch.items[i].key = k /\ ch.items[i].state \notin {"Idle", "Error"}
                   \/ ch.item_counter >= Cardinality(DOMAIN ch.items)
<1>0. /\ ch \in CacheOf(n) /\ n \in Nat \ {0}
      /\ DOMAIN ch.items = 0 .. n - 1 /\ Cardinality(DOMAIN ch.items) = n
  BY CacheSize DEF Good
<1>1. CASE full
  BY <1>1 DEF Loaded
<1>2. CASE ~full
  <2>1. Loaded(ch, k) = Insert(ch, slot)
    BY <1>2 DEF Loaded
  <2>2. ch.items[ch.load_index] \in Slot /\ ch.item_counter \in 0 .. n /\ store[k] \in Contents
    BY <1>0 DEF CacheOf, TypeOK
  <2>3. /\ slot \in Slot /\ slot.state = "RequestPrepared" /\ slot.key = k /\ slot.since = {store[k]}
    BY <2>2 DEF Slot, CacheStates
  <2>4. ch.item_counter < n
    BY <1>0, <1>2, <2>2, SMTT(30)
  <2>5. ~ch.failed => \A i \in 0 .. n - 1 : ch.items[i].state # "Idle" => ch.items[i].key # k
    BY <1>0, <1>2 DEF Good, RingInv, Window
  <2> HIDE DEF slot
  <2> QED  BY <2>1, <2>3, <2>4, <2>5, InsertGood, SMTT(30)
<1> QED  BY <1>1, <1>2

(* invalidate(): nothing is in use.                                         *)
LEMMA InvalidatedGood ==
    ASSUME NEW n \in Sizes, NEW st, NEW key, NEW ch \in CacheOf(n)
    PROVE  Good(Invalidated(ch), n, st, "Idle", key)
<1>0. n \in Nat \ {0} /\ DOMAIN ch.items = 0 .. n - 1 /\ ch.items \in [0 .. n - 1 -> Slot]
  BY CacheSize DEF CacheOf
<1> DEFINE items == [i \in 0 .. n - 1 |-> [FreshSlot EXCEPT !.key = ch.items[i].key]]
<1>1. /\ Invalidated(ch).items = items /\ Invalidated(ch).update_index = 0
      /\ Invalidated(ch).load_index = 0 /\ Invalidated(ch).item_counter = 0
      /\ Invalidated(ch).buffer = ch.buffer /\ Invalidated(ch).failed = FALSE
  BY <1>0 DEF Invalidated, CacheOf
<1>2. \A i \in 0 .. n - 1 : items[i] \in Slot /\ items[i].state = "Idle"
  BY <1>0 DEF FreshSlot, Slot, CacheStates, Contents
<1>3. Invalidated(ch) \in CacheOf(n)
  <2>1. items \in [0 .. n - 1 -> Slot]
    BY <1>2
  <2> HIDE DEF items
  <2>2. Invalidated(ch) = [ch EXCEPT !.items = items, !.update_index = 0, !.load_index = 0,
                                     !.item_counter = 0, !.failed = FALSE]
    BY <1>0 DEF Invalidated, items
  <2>3. 0 \in 0 .. n - 1 /\ 0 \in 0 .. n
    BY <1>0, SMTT(30)
  <2> QED  BY <2>1, <2>2, <2>3 DEF CacheOf
<1> HIDE DEF items
<1>4. KeysInv(items, n, st)
  BY <1>2 DEF KeysInv
<1>5. RingInv(Invalidated(ch), n, "Idle", key)
  <2>1. Distinct(items, n) /\ Window(items, 0, 0, n) /\ Requesting(items, 0, ch.buffer, n, "Idle", key)
        /\ Current(items, n)
    BY <1>2 DEF Distinct, Window, Requesting, Current
  <2>2. Aligned(0, 0, 0, n)
    BY <1>0, SMTT(30) DEF Aligned
  <2> QED  BY <1>1, <2>1, <2>2 DEF RingInv
<1> QED  BY <1>1, <1>3, <1>4, <1>5 DEF Good

(* invalidate(), resize() and load() of the items 1 to m.                   *)
LEMMA RenewedGood ==
    ASSUME TypeOK, NEW n \in Sizes, NEW key, NEW ch \in CacheOf(n), NEW item \in Items, NEW m \in Sizes
    PROVE  Good(Filled(Resized(Invalidated(ch), m), item, m), m, store, "Idle", key)
<1> DEFINE new == Filled(Resized(Invalidated(ch), m), item, m)
           inv == Invalidated(ch)
           slots == [i \in 0 .. m - 1 |-> IF i \in DOMAIN inv.items THEN inv.items[i] ELSE FreshSlot]
           items == [i \in 0 .. m - 1 |->
                        [slots[i] EXCEPT !.state = "RequestPrepared", !.key = <<item, i + 1>>,
                                         !.since = {store[<<item, i + 1>>]}]]
<1>0. m \in Nat \ {0} /\ 1 .. m \subseteq Indices
  BY CacheAssumption
<1>1. /\ inv \in CacheOf(n) /\ inv.update_index = 0 /\ inv.load_index = 0 /\ inv.failed = FALSE
      /\ inv.buffer \in Nat
  BY InvalidatedGood DEF Good, Invalidated, CacheOf
<1> HIDE DEF inv
<1>2. \A i \in 0 .. m - 1 : slots[i] \in Slot
  <2>1. FreshSlot \in Slot
    BY DEF FreshSlot, Slot, CacheStates, Contents
  <2> QED  BY <1>1, <2>1 DEF CacheOf
<1> HIDE DEF slots
<1>3. new = [inv EXCEPT !.items = items, !.item_counter = m]
  BY <1>1 DEF Filled, Resized, CacheOf, inv, slots
<1>4. ASSUME NEW i \in 0 .. m - 1
      PROVE  /\ items[i] \in Slot /\ items[i].state = "RequestPrepared"
             /\ items[i].key = <<item, i + 1>> /\ items[i].key \in Keys
             /\ items[i].since = {store[<<item, i + 1>>]}
  <2>1. i + 1 \in Indices /\ i + 1 \in 1 .. m
    BY <1>0, SMTT(30)
  <2>2. <<item, i + 1>> \in Keys
    BY <2>1 DEF Keys
  <2>3. store[<<item, i + 1>>] \in Contents
    BY <2>2 DEF TypeOK
  <2>4. slots[i] \in Slot
    BY <1>2
  <2>5. items[i] = [slots[i] EXCEPT !.state = "RequestPrepared", !.key = <<item, i + 1>>,
                                    !.since = {store[<<item, i + 1>>]}]
    OBVIOUS
  <2> QED  BY <2>2, <2>3, <2>4, <2>5 DEF Slot, CacheStates
<1>5. items \in [0 .. m - 1 -> Slot]
  BY <1>4
<1> HIDE DEF items
<1>6. /\ new.items = items /\ new.update_index = 0 /\ new.load_index = 0 /\ new.item_counter = m
      /\ new.failed = FALSE /\ new.buffer = inv.buffer
  BY <1>1, <1>3 DEF CacheOf
<1>7. new \in CacheOf(m)
  <2>1. 0 \in 0 .. m - 1 /\ m \in 0 .. m
    BY <1>0, SMTT(30)
  <2>2. new = [items |-> items, load_index |-> 0, update_index |-> 0, item_counter |-> m,
               buffer |-> inv.buffer, failed |-> FALSE]
    BY <1>1, <1>3 DEF CacheOf
  <2> QED  BY <1>1, <1>5, <2>1, <2>2, SMTT(30) DEF CacheOf
<1> HIDE DEF new
<1>8. KeysInv(items, m, store)
  BY <1>4 DEF KeysInv
<1>9. RingInv(new, m, "Idle", key)
  <2>1. Distinct(items, m)
    <3> SUFFICES ASSUME NEW i \in 0 .. m - 1, NEW j \in 0 .. m - 1, items[i].key = items[j].key
                 PROVE  i = j
      BY DEF Distinct
    <3>1. <<item, i + 1>> = <<item, j + 1>>
      BY <1>4
    <3>2. i + 1 = j + 1
      BY <3>1
    <3> QED  BY <1>0, <3>2, SMTT(30)
  <2>2. Window(items, 0, m, m)
    <3>1. \A i \in 0 .. m - 1 : items[i].state # "Error"
      BY <1>4
    <3>2. \A i \in 0 .. m - 1 : Ahead(0, i, m) < m
      BY <1>0, SMTT(30) DEF Ahead
    <3> QED  BY <3>1, <3>2 DEF Window
  <2>3. Requesting(items, 0, inv.buffer, m, "Idle", key) /\ Current(items, m)
    BY <1>4 DEF Requesting, Current
  <2>4. Aligned(0, 0, m, m)
    BY <1>0, SMTT(30) DEF Aligned
  <2> QED  BY <1>6, <2>1, <2>2, <2>3, <2>4 DEF RingInv
<1>10. Good(new, m, store, "Idle", key)
  BY <1>6, <1>7, <1>8, <1>9 DEF Good
<1> QED  BY <1>10 DEF new, inv

(* update() requests the item at the update index.                          *)
LEMMA FetchedGood ==
    ASSUME NEW n \in Sizes, NEW st, NEW nst, NEW key, NEW ch, Good(ch, n, st, nst, key),
           ch.items[ch.update_index].state = "RequestPrepared", nst = "Idle"
    PROVE  Good([ch EXCEPT !.items[ch.update_index].state = "RequestSent", !.buffer = ch.update_index],
                n, st, "RequestSent", ch.items[ch.update_index].key)
<1> DEFINE u == ch.update_index
           new == [ch EXCEPT !.items[u].state = "RequestSent", !.buffer = u]
           items == [ch.items EXCEPT ![u].state = "RequestSent"]
<1>0. ch \in CacheOf(n) /\ n \in Nat \ {0}
  BY CacheSize DEF Good
<1>1. u \in 0 .. n - 1 /\ ch.item_counter \in 0 .. n /\ ch.items \in [0 .. n - 1 -> Slot]
  BY <1>0 DEF CacheOf
<1>2. /\ new.items = items /\ new.update_index = u /\ new.load_index = ch.load_index
      /\ new.item_counter = ch.item_counter /\ new.failed = ch.failed /\ new.buffer = u
  BY <1>0 DEF CacheOf
<1>3. \A i \in 0 .. n - 1 : /\ items[i] \in Slot /\ items[i].key = ch.items[i].key
                            /\ items[i].data = ch.items[i].data /\ items[i].since = ch.items[i].since
                            /\ items[i].state = IF i = u THEN "RequestSent" ELSE ch.items[i].state
  BY <1>1 DEF Slot, CacheStates
<1>4. new \in CacheOf(n)
  <2>1. items \in [0 .. n - 1 -> Slot]
    BY <1>1, <1>3
  <2>2. new = [ch EXCEPT !.items = items, !.buffer = u] /\ u \in Nat
    BY <1>0, <1>1, SMTT(30) DEF CacheOf
  <2> QED  BY <1>0, <2>1, <2>2 DEF CacheOf
<1>5. KeysInv(ch.items, n, st) /\ (~ch.failed => RingInv(ch, n, nst, key))
  BY DEF Good
<1>6. ch.items[u].state = "RequestPrepared"
  OBVIOUS
<1> HIDE DEF u, items, new
<1>7. KeysInv(items, n, st)
  BY <1>1, <1>3, <1>5, <1>6 DEF KeysInv
<1>8. ASSUME ~ch.failed PROVE RingInv(new, n, "RequestSent", ch.items[u].key)
  <2>0. /\ Distinct(ch.items, n) /\ Aligned(u, ch.load_index, ch.item_counter, n)
        /\ Window(ch.items, u, ch.item_counter, n)
        /\ Requesting(ch.items, u, ch.buffer, n, nst, key) /\ Current(ch.items, n)
    BY <1>5, <1>8 DEF RingInv, u
  <2>1. Distinct(items, n)
    BY <1>3, <1>6, <2>0, SMTT(30) DEF Distinct
  <2>2. Window(items, u, ch.item_counter, n)
    BY <1>3, <1>6, <2>0 DEF Window
  <2>3. Requesting(items, u, u, n, "RequestSent", ch.items[u].key)
    BY <1>1, <1>3, <2>0 DEF Requesting
  <2>4. Current(items, n)
    BY <1>3, <2>0 DEF Current
  <2> QED  BY <1>2, <2>0, <2>1, <2>2, <2>3, <2>4 DEF RingInv
<1>9. Good(new, n, st, "RequestSent", ch.items[u].key)
  BY <1>2, <1>4, <1>7, <1>8 DEF Good
<1> QED  BY <1>9 DEF new, u

(* changeUpdateIndex().                                                     *)
LEMMA ChangeFields ==
    ASSUME NEW n \in Sizes, NEW ch \in CacheOf(n)
    PROVE  LET new == ChangeUpdateIndex(ch) IN
           /\ new \in CacheOf(n) /\ new.items = ch.items /\ new.load_index = ch.load_index
           /\ new.update_index = IF ch.update_index + 1 = n THEN 0 ELSE ch.update_index + 1
           /\ new.item_counter = IF ch.item_counter > 0 THEN ch.item_counter - 1 ELSE ch.item_counter
           /\ new.buffer = ch.buffer /\ new.failed = ch.failed
<1>0. n \in Nat \ {0} /\ Cardinality(DOMAIN ch.items) = n
  BY CacheSize
<1>1. ch.update_index \in 0 .. n - 1 /\ ch.item_counter \in 0 .. n
  BY DEF CacheOf
<1> DEFINE u1 == IF ch.update_index + 1 = n THEN 0 ELSE ch.update_index + 1
           c1 == IF ch.item_counter > 0 THEN ch.item_counter - 1 ELSE ch.item_counter
<1>2. (ch.update_index + 1) % n = u1
  BY <1>0, <1>1, NextIndex
<1>3. u1 \in 0 .. n - 1 /\ c1 \in 0 .. n
  BY <1>0, <1>1, SMTT(30)
<1>4. ChangeUpdateIndex(ch) = [ch EXCEPT !.update_index = u1, !.item_counter = c1]
  BY <1>0, <1>2 DEF ChangeUpdateIndex, CacheOf
<1> HIDE DEF u1, c1
<1>5. ChangeUpdateIndex(ch) \in CacheOf(n)
  BY <1>3, <1>4 DEF CacheOf
<1>6. LET new == ChangeUpdateIndex(ch) IN
      /\ new.items = ch.items /\ new.load_index = ch.load_index /\ new.update_index = u1
      /\ new.item_counter = c1 /\ new.buffer = ch.buffer /\ new.failed = ch.failed
  BY <1>4 DEF CacheOf
<1> QED  BY <1>5, <1>6 DEF u1, c1

(* A slot that does not wait leaves the window.                             *)
LEMMA ChangedGood ==
    ASSUME NEW n \in Sizes, NEW st, NEW key, NEW ch, Good(ch, n, st, "Idle", key),
           ch.item_counter > 0, ch.items[ch.update_index].state = "ResponseReceived"
    PROVE  Good(ChangeUpdateIndex(ch), n, st, "Idle", key)
<1> DEFINE new == ChangeUpdateIndex(ch)
           u == ch.update_index
           c == ch.item_counter
           u1 == IF u + 1 = n THEN 0 ELSE u + 1
<1>0. ch \in CacheOf(n) /\ n \in Nat \ {0}
  BY CacheSize DEF Good
<1>1. u \in 0 .. n - 1 /\ c \in 1 .. n
  BY <1>0, SMTT(30) DEF CacheOf
<1>2. /\ new \in CacheOf(n) /\ new.items = ch.items /\ new.load_index = ch.load_index
      /\ new.update_index = u1 /\ new.item_counter = c - 1
      /\ new.buffer = ch.buffer /\ new.failed = ch.failed
  BY <1>0, ChangeFields
<1>3. KeysInv(ch.items, n, st) /\ (~ch.failed => RingInv(ch, n, "Idle", key))
  BY DEF Good
<1>4. ch.items[u].state = "ResponseReceived"
  OBVIOUS
<1> HIDE DEF new, u, c, u1
<1>5. ASSUME ~ch.failed PROVE RingInv(new, n, "Idle", key)
  <2>0. /\ Distinct(ch.items, n) /\ Aligned(u, ch.load_index, c, n) /\ Window(ch.items, u, c, n)
        /\ Requesting(ch.items, u, ch.buffer, n, "Idle", key) /\ Current(ch.items, n)
    BY <1>3, <1>5 DEF RingInv, u, c
  <2>1. Aligned(u1, ch.load_index, c - 1, n)
    BY <1>0, <1>1, <2>0, SMTT(30) DEF Aligned, u1
  <2>2. \A i \in 0 .. n - 1 : i # u => Ahead(u1, i, n) = Ahead(u, i, n) - 1 /\ Ahead(u, i, n) \in Nat
    BY <1>0, <1>1, SMTT(30) DEF Ahead, u1
  <2>3. Window(ch.items, u1, c - 1, n)
    <3> SUFFICES ASSUME NEW i \in 0 .. n - 1
                 PROVE  /\ ch.items[i].state # "Error"
                        /\ ch.items[i].state \in {"RequestPrepared", "RequestSent"} => Ahead(u1, i, n) < c - 1
      BY DEF Window
    <3>1. /\ ch.items[i].state # "Error"
          /\ ch.items[i].state \in {"RequestPrepared", "RequestSent"} => i # u /\ Ahead(u, i, n) < c
      BY <1>4, <2>0 DEF Window
    <3> QED  BY <1>1, <2>2, <3>1, SMTT(30)
  <2>4. Requesting(ch.items, u1, ch.buffer, n, "Idle", key)
    BY <2>0 DEF Requesting
  <2> QED  BY <1>2, <2>0, <2>1, <2>3, <2>4 DEF RingInv
<1>6. Good(new, n, st, "Idle", key)
  BY <1>2, <1>3, <1>5 DEF Good
<1> QED  BY <1>6 DEF new

(* The slot at the update index takes another state.                        *)
Moved(ch, s) == [ch EXCEPT !.items[ch.update_index].state = s, !.failed = @ \/ s = "Error"]

LEMMA MovedFields ==
    ASSUME NEW n \in Sizes, NEW ch \in CacheOf(n), NEW s \in CacheStates
    PROVE  LET new == Moved(ch, s) IN
           /\ new \in CacheOf(n) /\ new.items = [ch.items EXCEPT ![ch.update_index].state = s]
           /\ new.load_index = ch.load_index /\ new.update_index = ch.update_index
           /\ new.item_counter = ch.item_counter /\ new.buffer = ch.buffer
           /\ s = "Error" => new.failed
           /\ s # "Error" => new.failed = ch.failed
<1> DEFINE items == [ch.items EXCEPT ![ch.update_index].state = s]
           failed == ch.failed \/ s = "Error"
<1>1. ch.update_index \in 0 .. n - 1 /\ ch.items \in [0 .. n - 1 -> Slot]
  BY DEF CacheOf
<1>2. items \in [0 .. n - 1 -> Slot] /\ failed \in BOOLEAN
  BY <1>1 DEF Slot
<1>3. Moved(ch, s) = [ch EXCEPT !.items = items, !.failed = failed]
  BY DEF Moved, CacheOf
<1> HIDE DEF items, failed
<1>4. Moved(ch, s) \in CacheOf(n)
  BY <1>2, <1>3 DEF CacheOf
<1>5. LET new == Moved(ch, s) IN
      /\ new.items = items /\ new.load_index = ch.load_index /\ new.update_index = ch.update_index
      /\ new.item_counter = ch.item_counter /\ new.buffer = ch.buffer
  BY <1>3 DEF CacheOf
<1>6. Moved(ch, s).failed = failed
  BY <1>3 DEF CacheOf
<1>7. (s = "Error" => Moved(ch, s).failed) /\ (s # "Error" => Moved(ch, s).failed = ch.failed)
  <2>1. ch.failed \in BOOLEAN
    BY DEF CacheOf
  <2> QED  BY <1>6, <2>1 DEF failed
<1> QED  BY <1>4, <1>5, <1>7 DEF items

LEMMA MovedKeys ==
    ASSUME NEW n \in Sizes, NEW ch \in CacheOf(n), NEW s \in CacheStates, NEW st,
           KeysInv(ch.items, n, st), ch.items[ch.update_index].state # "Idle"
    PROVE  KeysInv(Moved(ch, s).items, n, st)
<1>1. Moved(ch, s).items = [ch.items EXCEPT ![ch.update_index].state = s]
  BY MovedFields
<1>2. ch.update_index \in 0 .. n - 1 /\ ch.items \in [0 .. n - 1 -> Slot]
  BY DEF CacheOf
<1>3. \A i \in 0 .. n - 1 : /\ Moved(ch, s).items[i].key = ch.items[i].key
                            /\ Moved(ch, s).items[i].since = ch.items[i].since
                            /\ i # ch.update_index => Moved(ch, s).items[i].state = ch.items[i].state
  BY <1>1, <1>2, SMTT(30) DEF Slot
<1> QED  BY <1>2, <1>3 DEF KeysInv

(* What update() may make of the ring, before an Error is skipped.          *)
Stepped(ch, completed, ok) ==
    LET slot == ch.items[ch.update_index].state
    IN CASE slot = "ResponseReceived" -> ChangeUpdateIndex(ch)
         [] slot = "RequestPrepared" -> Moved(ch, "Error")
         [] slot = "RequestSent" /\ completed /\ ok -> ChangeUpdateIndex(Moved(ch, "ResponseReceived"))
         [] slot = "RequestSent" /\ completed /\ ~ok -> Moved(ch, "Error")
         [] OTHER -> ch

LEMMA AdvancedStepped ==
    ASSUME NEW ch, NEW completed, NEW ok
    PROVE  Advanced(ch, completed, ok) = SkipError(Stepped(ch, completed, ok))
BY DEF Advanced, Stepped, Moved

LEMMA SteppedCases ==
    ASSUME NEW ch, NEW completed \in BOOLEAN, NEW ok \in BOOLEAN
    PROVE  LET slot == ch.items[ch.update_index].state
               new == Stepped(ch, completed, ok)
           IN  /\ slot = "ResponseReceived" => new = ChangeUpdateIndex(ch)
               /\ slot = "RequestPrepared" => new = Moved(ch, "Error")
               /\ slot = "RequestSent" /\ completed /\ ok => new = ChangeUpdateIndex(Moved(ch, "ResponseReceived"))
               /\ slot = "RequestSent" /\ completed /\ ~ok => new = Moved(ch, "Error")
               /\ slot = "RequestSent" /\ ~completed => new = ch
               /\ slot \notin {"ResponseReceived", "RequestPrepared", "RequestSent"} => new = ch
<1> DEFINE slot == ch.items[ch.update_index].state
<1>1. CASE slot = "ResponseReceived"
  BY <1>1 DEF Stepped
<1>2. CASE slot = "RequestPrepared"
  BY <1>2 DEF Stepped
<1>3. CASE slot = "RequestSent" /\ completed /\ ok
  BY <1>3 DEF Stepped
<1>4. CASE slot = "RequestSent" /\ completed /\ ~ok
  BY <1>4 DEF Stepped
<1>5. CASE slot = "RequestSent" /\ ~completed
  BY <1>5 DEF Stepped
<1>6. CASE slot \notin {"ResponseReceived", "RequestPrepared", "RequestSent"}
  BY <1>6 DEF Stepped
<1> QED  BY <1>1, <1>2, <1>3, <1>4, <1>5, <1>6

(* Whatever has failed, the indices stay in the ring and the keys theirs.   *)
LEMMA AdvancedKeys ==
    ASSUME NEW n \in Sizes, NEW ch \in CacheOf(n), NEW completed \in BOOLEAN, NEW ok \in BOOLEAN, NEW st,
           KeysInv(ch.items, n, st)
    PROVE  LET new == Advanced(ch, completed, ok) IN
           /\ new \in CacheOf(n) /\ KeysInv(new.items, n, st) /\ (ch.failed => new.failed)
<1> DEFINE Fine(new) == new \in CacheOf(n) /\ KeysInv(new.items, n, st) /\ (ch.failed => new.failed)
           slot == ch.items[ch.update_index].state
<1>1. ASSUME NEW old, Fine(old) PROVE Fine(ChangeUpdateIndex(old))
  BY <1>1, ChangeFields
<1>2. ASSUME NEW s \in CacheStates, slot # "Idle" PROVE Fine(Moved(ch, s))
  BY <1>2, MovedFields, MovedKeys
<1>3. Fine(ch)
  OBVIOUS
<1>4. "Error" \in CacheStates /\ "ResponseReceived" \in CacheStates
  BY DEF CacheStates
<1> HIDE DEF Fine
<1>5. Fine(Stepped(ch, completed, ok))
  BY <1>1, <1>2, <1>3, <1>4, SteppedCases
<1>6. Fine(SkipError(Stepped(ch, completed, ok)))
  BY <1>1, <1>5 DEF SkipError
<1> QED  BY <1>6, AdvancedStepped DEF Fine

(* The answer is copied into a slot.                                        *)
WithData(ch, b, v) == [ch EXCEPT !.items[b].data = v]

LEMMA FilledFields ==
    ASSUME NEW n \in Sizes, NEW ch \in CacheOf(n), NEW v \in Contents, NEW b \in 0 .. n - 1,
           NEW new, new = WithData(ch, b, v)
    PROVE  /\ new \in CacheOf(n)
           /\ new.load_index = ch.load_index /\ new.update_index = ch.update_index
           /\ new.item_counter = ch.item_counter /\ new.buffer = ch.buffer /\ new.failed = ch.failed
           /\ \A i \in 0 .. n - 1 : /\ new.items[i].state = ch.items[i].state
                                    /\ new.items[i].key = ch.items[i].key
                                    /\ new.items[i].since = ch.items[i].since
                                    /\ new.items[i].data = IF i = b THEN v ELSE ch.items[i].data
<1> DEFINE items == [ch.items EXCEPT ![b].data = v]
<1>1. ch.items \in [0 .. n - 1 -> Slot]
  BY DEF CacheOf
<1>2. items \in [0 .. n - 1 -> Slot]
  BY <1>1 DEF Slot
<1>3. \A i \in 0 .. n - 1 : /\ items[i].state = ch.items[i].state /\ items[i].key = ch.items[i].key
                            /\ items[i].since = ch.items[i].since
                            /\ items[i].data = IF i = b THEN v ELSE ch.items[i].data
  BY <1>1 DEF Slot
<1>4. new = [ch EXCEPT !.items = items]
  BY DEF CacheOf, WithData
<1> HIDE DEF items
<1>5. /\ new \in CacheOf(n) /\ new.items = items
      /\ new.load_index = ch.load_index /\ new.update_index = ch.update_index
      /\ new.item_counter = ch.item_counter /\ new.buffer = ch.buffer /\ new.failed = ch.failed
  BY <1>2, <1>4 DEF CacheOf
<1> QED  BY <1>3, <1>5

LEMMA ReceivedGood ==
    ASSUME NEW n \in Sizes, NEW st, NEW key, NEW next, NEW ch, Good(ch, n, st, "RequestSent", key), ~ch.failed,
           NEW v \in Contents, v \in ch.items[ch.update_index].since,
           NEW fl, fl = WithData(ch, ch.update_index, v)
    PROVE  /\ Good(Moved(fl, "ResponseReceived"), n, st, "Idle", next)
           /\ Moved(fl, "ResponseReceived").update_index = ch.update_index
           /\ Moved(fl, "ResponseReceived").item_counter = ch.item_counter
           /\ Moved(fl, "ResponseReceived").items[ch.update_index].state = "ResponseReceived"
<1> DEFINE u == ch.update_index
           new == Moved(fl, "ResponseReceived")
           items == new.items
<1>0. ch \in CacheOf(n) /\ n \in Nat \ {0} /\ u \in 0 .. n - 1
  BY CacheSize DEF Good, CacheOf
<1>1. /\ fl \in CacheOf(n) /\ fl.load_index = ch.load_index /\ fl.update_index = u
      /\ fl.item_counter = ch.item_counter /\ fl.buffer = ch.buffer /\ fl.failed = ch.failed
      /\ \A i \in 0 .. n - 1 : /\ fl.items[i].state = ch.items[i].state
                               /\ fl.items[i].key = ch.items[i].key
                               /\ fl.items[i].since = ch.items[i].since
                               /\ fl.items[i].data = IF i = u THEN v ELSE ch.items[i].data
  <2>1. PICK b \in 0 .. n - 1 : b = u
    BY <1>0
  <2>2. fl = WithData(ch, b, v) /\ ch.update_index = b
    BY <2>1
  <2>3. ch \in CacheOf(n)
    BY <1>0
  <2>4. /\ fl \in CacheOf(n) /\ fl.load_index = ch.load_index /\ fl.update_index = ch.update_index
        /\ fl.item_counter = ch.item_counter /\ fl.buffer = ch.buffer /\ fl.failed = ch.failed
        /\ \A i \in 0 .. n - 1 : /\ fl.items[i].state = ch.items[i].state
                                 /\ fl.items[i].key = ch.items[i].key
                                 /\ fl.items[i].since = ch.items[i].since
                                 /\ fl.items[i].data = IF i = b THEN v ELSE ch.items[i].data
    BY <2>2, <2>3, FilledFields, SMTT(30)
  <2> QED  BY <2>1, <2>4
<1>2. /\ new \in CacheOf(n) /\ new.items = [fl.items EXCEPT ![u].state = "ResponseReceived"]
      /\ new.load_index = ch.load_index /\ new.update_index = u /\ new.item_counter = ch.item_counter
      /\ new.buffer = ch.buffer /\ new.failed = fl.failed
  <2>1. "ResponseReceived" \in CacheStates
    BY DEF CacheStates
  <2>2. /\ new \in CacheOf(n) /\ new.items = [fl.items EXCEPT ![fl.update_index].state = "ResponseReceived"]
        /\ new.load_index = fl.load_index /\ new.update_index = fl.update_index
        /\ new.item_counter = fl.item_counter /\ new.buffer = fl.buffer
        /\ new.failed = fl.failed
    BY <1>1, <2>1, MovedFields, SMTT(30)
  <2> QED  BY <1>1, <2>2
<1>3. fl.items \in [0 .. n - 1 -> Slot]
  BY <1>1 DEF CacheOf
<1>4. \A i \in 0 .. n - 1 : /\ items[i].state = IF i = u THEN "ResponseReceived" ELSE ch.items[i].state
                            /\ items[i].key = ch.items[i].key
                            /\ items[i].since = ch.items[i].since
                            /\ items[i].data = IF i = u THEN v ELSE ch.items[i].data
  BY <1>0, <1>1, <1>2, <1>3, SMTT(30) DEF Slot
<1>5. /\ KeysInv(ch.items, n, st) /\ Distinct(ch.items, n)
      /\ Aligned(u, ch.load_index, ch.item_counter, n) /\ Window(ch.items, u, ch.item_counter, n)
      /\ Requesting(ch.items, u, ch.buffer, n, "RequestSent", key) /\ Current(ch.items, n)
  BY DEF Good, RingInv
<1>6. v \in ch.items[u].since /\ ~new.failed
  BY <1>1, <1>2
<1> HIDE DEF items, new, u
<1>7. ch.items[u].state = "RequestSent"
  BY <1>5 DEF Requesting
<1>8. KeysInv(items, n, st)
  BY <1>4, <1>5, <1>7 DEF KeysInv
<1>9. Distinct(items, n)
  <2>1. \A i \in 0 .. n - 1 : /\ items[i].state # "Idle" => ch.items[i].state # "Idle"
                             /\ items[i].key = ch.items[i].key
    BY <1>4, <1>7
  <2>2. Distinct(ch.items, n)
    BY <1>5
  <2> QED  BY <2>1, <2>2 DEF Distinct
<1>10. Window(items, u, ch.item_counter, n)
  BY <1>4, <1>5, <1>7 DEF Window
<1>11. Requesting(items, u, ch.buffer, n, "Idle", next)
  BY <1>4, <1>5 DEF Requesting
<1>12. Current(items, n)
  BY <1>4, <1>5, <1>6 DEF Current
<1>13. RingInv(new, n, "Idle", next)
  BY <1>2, <1>5, <1>9, <1>10, <1>11, <1>12 DEF RingInv, items
<1>14. Good(new, n, st, "Idle", next)
  BY <1>2, <1>8, <1>13 DEF Good, items
<1>15. items[u].state = "ResponseReceived"
  BY <1>0, <1>4
<1> QED  BY <1>2, <1>14, <1>15 DEF new, u, items

LEMMA NotSkipped ==
    ASSUME NEW n \in Sizes, NEW st, NEW nst, NEW key, NEW ch, Good(ch, n, st, nst, key), ~ch.failed
    PROVE  SkipError(ch) = ch
<1>1. ch.update_index \in 0 .. n - 1
  BY DEF Good, CacheOf
<1> QED  BY <1>1 DEF SkipError, Good, RingInv, Window

(* update() with an item that has been requested, or is there.              *)
LEMMA UpdateCacheGood ==
    ASSUME StoreInv, NEW n \in Sizes, Good(cache, n, store, state[Nav], Key(active[Nav])), UpdateCache
    PROVE  Good(cache', n, store', state'[Nav], Key(active'[Nav]))
<1> USE DEF StoreInv
<1> DEFINE u == cache.update_index
           slot == cache.items[u].state
           nst == state[Nav]
           answered == nst = "RequestSent" /\ Answers(Nav)
           filled == IF answered /\ cache.buffer \in Slots THEN WithData(cache, cache.buffer, response.value)
                     ELSE cache
           completed == answered \/ nst = "ResponseReceived"
           okay == IF answered THEN response.ok ELSE status[Nav]
<1>0. /\ Nav \in Clients /\ cache \in CacheOf(n) /\ n \in Nat \ {0} /\ Slots = 0 .. n - 1
      /\ u \in 0 .. n - 1 /\ response.value \in Contents
  BY CacheAssumption, CacheSize DEF Good, CacheOf, Slots, TypeOK, Responses
<1>1. /\ cache' = Advanced(filled, completed, okay)
      /\ cache.item_counter > 0 /\ ~(slot = "RequestPrepared" /\ nst = "Idle")
  BY DEF UpdateCache, WithData, At
<1>2. /\ nst = "RequestSent" => Update(Nav, IF slot = "RequestSent" THEN "Idle" ELSE "ResponseReceived")
      /\ nst = "Idle" => UNCHANGED <<store, clientVars>>
  BY DEF UpdateCache, At
<1>3. answered \in BOOLEAN /\ completed \in BOOLEAN
  OBVIOUS
<1>4. okay \in BOOLEAN
  BY <1>0 DEF TypeOK, Responses
<1>5. UNCHANGED store
  BY DEF UpdateCache, Update, Complete
<1>6. /\ filled \in CacheOf(n) /\ KeysInv(filled.items, n, store) /\ filled.failed = cache.failed
  <2>1. KeysInv(cache.items, n, store)
    BY DEF Good
  <2>2. CASE ~(answered /\ cache.buffer \in Slots)
    BY <1>0, <2>1, <2>2
  <2>3. CASE answered /\ cache.buffer \in Slots
    <3>1. filled = WithData(cache, cache.buffer, response.value) /\ cache.buffer \in 0 .. n - 1
      BY <1>0, <2>3
    <3> HIDE DEF filled
    <3>2. /\ filled \in CacheOf(n) /\ filled.failed = cache.failed
          /\ \A i \in 0 .. n - 1 : /\ filled.items[i].state = cache.items[i].state
                                   /\ filled.items[i].key = cache.items[i].key
                                   /\ filled.items[i].since = cache.items[i].since
      BY <1>0, <3>1, FilledFields, SMTT(30)
    <3> QED  BY <2>1, <3>2 DEF KeysInv
  <2> QED  BY <2>2, <2>3
<1> HIDE DEF filled, completed, okay, answered
<1>7. cache' \in CacheOf(n) /\ KeysInv(cache'.items, n, store) /\ (cache.failed => cache'.failed)
  BY <1>1, <1>3, <1>4, <1>6, AdvancedKeys
<1>8. CASE cache'.failed
  BY <1>5, <1>7, <1>8 DEF Good
<1>9. CASE ~cache'.failed
  <2>0. ~cache.failed /\ RingInv(cache, n, nst, Key(active[Nav]))
    BY <1>7, <1>9 DEF Good
  <2>1. /\ Requesting(cache.items, u, cache.buffer, n, nst, Key(active[Nav])) /\ slot # "Error"
        /\ slot \in CacheStates
    BY <1>0, <2>0 DEF RingInv, Window, CacheOf, Slot
  <2>2. CASE nst = "Idle"
    <3>1. ~answered /\ ~completed /\ filled = cache
      BY <2>2 DEF answered, completed, filled
    <3>2. UNCHANGED <<state, active>>
      BY <1>2, <2>2 DEF clientVars
    <3>3. cache' = SkipError(Stepped(cache, completed, okay))
      BY <1>1, <3>1, AdvancedStepped
    <3>4. slot # "RequestSent" /\ slot # "RequestPrepared"
      BY <1>0, <1>1, <2>1, <2>2 DEF Requesting
    <3>5. CASE slot = "ResponseReceived"
      <4>1. Stepped(cache, completed, okay) = ChangeUpdateIndex(cache)
        BY <1>3, <1>4, <3>5, SteppedCases
      <4>2. Good(ChangeUpdateIndex(cache), n, store, "Idle", Key(active[Nav]))
        BY <1>1, <2>2, <3>5, ChangedGood
      <4>3. ~ChangeUpdateIndex(cache).failed
        BY <1>0, <2>0, ChangeFields
      <4>4. cache' = ChangeUpdateIndex(cache)
        BY <3>3, <4>1, <4>2, <4>3, NotSkipped
      <4> QED  BY <1>5, <2>2, <3>2, <4>2, <4>4
    <3>6. CASE slot # "ResponseReceived"
      <4>1. Stepped(cache, completed, okay) = cache
        BY <1>3, <1>4, <3>4, <3>6, SteppedCases
      <4>2. cache' = cache
        BY <2>0, <3>3, <4>1, NotSkipped
      <4> QED  BY <1>5, <3>2, <4>2
    <3> QED  BY <3>5, <3>6
  <2>3. CASE nst = "RequestSent"
    <3>1. slot = "RequestSent" /\ cache.buffer = u /\ cache.items[u].key = Key(active[Nav])
      BY <2>1, <2>3 DEF Requesting
    <3>2. Update(Nav, "Idle")
      BY <1>2, <2>3, <3>1
    <3>3. filled.items[u].state = "RequestSent" /\ filled.update_index = u
      <4>1. CASE filled = cache
        BY <3>1, <4>1
      <4>2. CASE filled = WithData(cache, u, response.value)
        BY <1>0, <3>1, <4>2, FilledFields, SMTT(30)
      <4> QED  BY <3>1, <4>1, <4>2 DEF filled
    <3>4. cache' = SkipError(Stepped(filled, completed, okay))
      BY <1>1, AdvancedStepped
    <3>5. CASE ~answered
      <4>1. ~completed /\ filled = cache
        BY <2>3, <3>5 DEF completed, filled
      <4>2. Stepped(cache, completed, okay) = cache
        BY <1>3, <1>4, <3>1, <4>1, SteppedCases
      <4>3. cache' = cache
        BY <2>0, <3>4, <4>1, <4>2, NotSkipped
      <4>4. UNCHANGED <<state, active>>
        BY <2>3, <3>2, <3>5 DEF Update, answered
      <4> QED  BY <1>5, <4>3, <4>4
    <3>6. CASE answered
      <4>1. completed /\ okay = response.ok /\ filled = WithData(cache, u, response.value)
        BY <1>0, <3>1, <3>6 DEF completed, okay, filled
      <4>2. state'[Nav] = "Idle"
        BY <1>0, <3>2, <3>6 DEF Update, answered, Leave, TypeOK
      <4>3. CASE response.ok
        <5>1. response.value = store[Key(active[Nav])]
          <6>1. active[Nav] \in Op /\ active[Nav].type = "read" /\ response.op = [active[Nav] EXCEPT !.value = Empty]
            BY <1>0, <2>3, <3>6 DEF ActiveReads, ReadOps, answered, Answers
          <6>2. response.op.type = "read" /\ Key(response.op) = Key(active[Nav])
            BY <6>1 DEF Op, Key
          <6> QED  BY <4>3, <6>2 DEF ResponseInv
        <5>2. response.value \in cache.items[u].since
          BY <1>0, <3>1, <5>1 DEF Good, KeysInv
        <5> DEFINE got == Moved(filled, "ResponseReceived")
        <5>3. /\ Good(got, n, store, "Idle", Key(active'[Nav])) /\ got.update_index = u
              /\ got.item_counter = cache.item_counter /\ got.items[u].state = "ResponseReceived"
          <6>1. Good(cache, n, store, "RequestSent", Key(active[Nav]))
            BY <2>3
          <6>2. filled = WithData(cache, cache.update_index, response.value)
            BY <4>1
          <6>3. response.value \in cache.items[cache.update_index].since
            BY <5>2
          <6> HIDE DEF u
          <6>4. PICK ch, st, key, next, v, fl : /\ ch = cache /\ st = store /\ key = Key(active[Nav])
                                                /\ next = Key(active'[Nav]) /\ v = response.value /\ fl = filled
            OBVIOUS
          <6>5. v \in Contents
            BY <1>0, <2>0, <6>4
          <6>6. ~ch.failed
            BY <1>0, <2>0, <6>4
          <6>7. Good(ch, n, st, "RequestSent", key)
            BY <6>1, <6>4
          <6>8. fl = WithData(ch, ch.update_index, v)
            BY <6>2, <6>4
          <6>9. v \in ch.items[ch.update_index].since
            BY <6>3, <6>4
          <6>10. /\ Good(Moved(fl, "ResponseReceived"), n, st, "Idle", next)
                /\ Moved(fl, "ResponseReceived").update_index = ch.update_index
                /\ Moved(fl, "ResponseReceived").item_counter = ch.item_counter
                /\ Moved(fl, "ResponseReceived").items[ch.update_index].state = "ResponseReceived"
            BY <6>5, <6>6, <6>7, <6>8, <6>9, ReceivedGood, SMTT(30)
          <6> QED  BY <6>4, <6>10 DEF u
        <5>4. Stepped(filled, completed, okay) = ChangeUpdateIndex(got)
          <6>1. filled.items[filled.update_index].state = "RequestSent" /\ completed /\ okay
            BY <3>3, <4>1, <4>3
          <6> QED  BY <1>3, <1>4, <6>1, SteppedCases
        <5> HIDE DEF got
        <5>5. Good(ChangeUpdateIndex(got), n, store, "Idle", Key(active'[Nav]))
          BY <1>1, <5>3, ChangedGood
        <5>6. cache' = ChangeUpdateIndex(got)
          <6>1. ChangeUpdateIndex(got).failed = got.failed
            BY <5>3, ChangeFields DEF Good
          <6>2. got.failed = filled.failed
            <7>1. "ResponseReceived" \in CacheStates
              BY DEF CacheStates
            <7>2. "ResponseReceived" # "Error"
              OBVIOUS
            <7> QED  BY <1>6, <7>1, <7>2, MovedFields DEF got
          <6>3. ~ChangeUpdateIndex(got).failed
            BY <1>6, <2>0, <6>1, <6>2
          <6> QED  BY <3>4, <5>4, <5>5, <6>3, NotSkipped
        <5> QED  BY <1>5, <4>2, <5>5, <5>6
      <4>4. CASE ~response.ok
        <5> DEFINE got == Moved(filled, "Error")
        <5>1. Stepped(filled, completed, okay) = got
          BY <1>3, <1>4, <3>3, <4>1, <4>4, SteppedCases
        <5>2. got \in CacheOf(n) /\ got.failed
          BY <1>6, MovedFields DEF CacheStates
        <5>3. ChangeUpdateIndex(got).failed = got.failed
          BY <5>2, ChangeFields
        <5> HIDE DEF got
        <5>4. cache'.failed
          BY <3>4, <5>1, <5>2, <5>3 DEF SkipError
        <5> QED  BY <1>9, <5>4
      <4> QED  BY <4>3, <4>4
    <3> QED  BY <3>5, <3>6
  <2> QED  BY <2>1, <2>2, <2>3 DEF Requesting
<1> QED  BY <1>8, <1>9

(* Slots keep their keys; one that waits to be requested may be filled.     *)
LEMMA KeptGood ==
    ASSUME NEW n \in Sizes, NEW st, NEW nst, NEW key, NEW ch, Good(ch, n, st, nst, key),
           NEW items \in [0 .. n - 1 -> Slot], NEW st1, KeysInv(items, n, st1),
           ~ch.failed => /\ Current(items, n)
                         /\ \A i \in 0 .. n - 1 :
                                /\ items[i].key = ch.items[i].key
                                /\ \/ items[i].state = ch.items[i].state
                                   \/ /\ ch.items[i].state = "RequestPrepared"
                                      /\ items[i].state = "ResponseReceived"
    PROVE  Good([ch EXCEPT !.items = items], n, st1, nst, key)
<1> DEFINE new == [ch EXCEPT !.items = items]
<1>0. ch \in CacheOf(n) /\ n \in Nat \ {0} /\ ch.update_index \in 0 .. n - 1
  BY CacheSize DEF Good, CacheOf
<1>1. /\ new \in CacheOf(n) /\ new.items = items /\ new.load_index = ch.load_index
      /\ new.update_index = ch.update_index /\ new.item_counter = ch.item_counter
      /\ new.buffer = ch.buffer /\ new.failed = ch.failed
  BY <1>0 DEF CacheOf
<1> HIDE DEF new
<1>2. ASSUME ~ch.failed PROVE RingInv(new, n, nst, key)
  <2> DEFINE u == ch.update_index
  <2>0. /\ Distinct(ch.items, n) /\ Aligned(u, ch.load_index, ch.item_counter, n)
        /\ Window(ch.items, u, ch.item_counter, n)
        /\ Requesting(ch.items, u, ch.buffer, n, nst, key)
    BY <1>2 DEF Good, RingInv
  <2>1. /\ Current(items, n)
        /\ \A i \in 0 .. n - 1 : /\ items[i].key = ch.items[i].key
                                 /\ \/ items[i].state = ch.items[i].state
                                    \/ /\ ch.items[i].state = "RequestPrepared"
                                       /\ items[i].state = "ResponseReceived"
    BY <1>2
  <2>2. Distinct(items, n)
    <3>1. \A i \in 0 .. n - 1 : items[i].state # "Idle" => ch.items[i].state # "Idle"
      BY <2>1
    <3> QED  BY <2>0, <2>1, <3>1 DEF Distinct
  <2>3. Window(items, u, ch.item_counter, n)
    BY <2>0, <2>1 DEF Window
  <2>4. Requesting(items, u, ch.buffer, n, nst, key)
    <3>1. u \in 0 .. n - 1
      BY <1>0
    <3> HIDE DEF u
    <3> QED  BY <2>0, <2>1, <3>1 DEF Requesting
  <2> QED  BY <1>1, <2>0, <2>1, <2>2, <2>3, <2>4 DEF RingInv
<1>3. Good(new, n, st1, nst, key)
  BY <1>1, <1>2 DEF Good
<1> QED  BY <1>3 DEF new

(* The rest of loadWait().                                                  *)
LEMMA RememberedGood ==
    ASSUME NEW n \in Sizes, NEW nst, NEW key, Good(cache, n, store, nst, key), NEW k \in Keys,
           NEW v, v = store[k], store[k] \in outcome[Nav]["sync"], outcome[Nav]["sync"] \subseteq Contents
    PROVE  Good(Remembered(k, v), n, store, nst, key)
<1> DEFINE slot == [state |-> "ResponseReceived", key |-> k, data |-> v, since |-> outcome[Nav]["sync"]]
<1>0. /\ cache \in CacheOf(n) /\ n \in Nat \ {0} /\ Slots = 0 .. n - 1 /\ NumItems = n
  BY CacheSize DEF Good, Slots, NumItems
<1>1. CASE Matching(k) # {} \/ cache.item_counter >= NumItems
  BY <1>1 DEF Remembered
<1>2. CASE Matching(k) = {} /\ ~(cache.item_counter >= NumItems)
  <2>1. Remembered(k, v) = Insert(cache, slot)
    BY <1>2 DEF Remembered
  <2>2. /\ slot \in Slot /\ slot.state = "ResponseReceived" /\ slot.key = k
        /\ slot.data = v /\ slot.since = outcome[Nav]["sync"]
    BY DEF Slot, CacheStates
  <2>3. cache.item_counter < n
    BY <1>0, <1>2, SMTT(30) DEF CacheOf
  <2>4. \A i \in 0 .. n - 1 : cache.items[i].key # k
    BY <1>0, <1>2 DEF Matching, At
  <2> HIDE DEF slot
  <2>5. PICK ch, st, sl : ch = cache /\ st = store /\ sl = slot
    OBVIOUS
  <2>6. /\ Good(ch, n, st, nst, key) /\ sl \in Slot /\ ch.item_counter < n
        /\ sl.state \in {"RequestPrepared", "ResponseReceived"} /\ sl.key \in Keys
        /\ st[sl.key] \in sl.since /\ sl.data \in sl.since
        /\ \A i \in 0 .. n - 1 : ch.items[i].key # sl.key
    BY <2>2, <2>3, <2>4, <2>5
  <2>7. Good(Insert(ch, sl), n, st, nst, key)
    BY <2>6, InsertGood
  <2> QED  BY <2>1, <2>5, <2>7
<1> QED  BY <1>1, <1>2

(* The rest of writeWait().                                                 *)
LEMMA OverwrittenGood ==
    ASSUME TypeOK, NEW n \in Sizes, NEW nst, NEW key, Good(cache, n, store, nst, key), NEW k \in Keys,
           NEW v \in Contents
    PROVE  Good(Overwritten(k, v), n, store, nst, key)
<1> DEFINE hits == {i \in Matching(k) : At(i).state \in {"ResponseReceived", "RequestPrepared"}}
           first == CHOOSE i \in hits : \A j \in hits : i <= j
           items == [i \in 0 .. n - 1 |->
                        IF i \notin Matching(k) THEN cache.items[i]
                        ELSE IF hits # {} /\ i = first
                        THEN [cache.items[i] EXCEPT !.state = "ResponseReceived", !.data = v,
                                                    !.since = {v, store[k]}]
                        ELSE [cache.items[i] EXCEPT !.since = {v, store[k]}]]
<1>0. /\ cache \in CacheOf(n) /\ n \in Nat \ {0} /\ Slots = 0 .. n - 1 /\ store[k] \in Contents
      /\ cache.items \in [0 .. n - 1 -> Slot]
  BY CacheSize DEF Good, Slots, TypeOK, CacheOf
<1>1. Overwritten(k, v) = [cache EXCEPT !.items = items]
  BY <1>0 DEF Overwritten, CacheOf
<1>2. \A i \in 0 .. n - 1 : (i \in Matching(k) <=> cache.items[i].key = k)
  BY <1>0 DEF Matching, At
<1>3. ~cache.failed => \A i \in 0 .. n - 1 : i \in hits => first = i
  <2> SUFFICES ASSUME ~cache.failed, NEW i \in 0 .. n - 1, i \in hits
               PROVE  first = i
    OBVIOUS
  <2>1. hits = {i}
    BY <1>0 DEF Good, RingInv, Distinct, Matching, At
  <2>2. \A j \in hits : i <= j
    BY <2>1, SMTT(30)
  <2> HIDE DEF hits
  <2>3. first \in hits
    BY <2>1, <2>2
  <2> QED  BY <2>1, <2>3, SMTT(30)
<1>4. hits # {} => \E i \in 0 .. n - 1 : i \in hits
  BY <1>0 DEF Matching
<1>5. \A i \in 0 .. n - 1 : i \in hits <=>
        cache.items[i].key = k /\ cache.items[i].state \in {"ResponseReceived", "RequestPrepared"}
  BY <1>2 DEF At
<1> HIDE DEF first, hits
<1>6. ASSUME NEW i \in 0 .. n - 1
      PROVE  /\ items[i] \in Slot /\ items[i].key = cache.items[i].key
             /\ cache.items[i].key # k => items[i] = cache.items[i]
             /\ cache.items[i].key = k => items[i].since = {v, store[k]}
             /\ cache.items[i].key = k /\ hits # {} /\ i = first =>
                    items[i].state = "ResponseReceived" /\ items[i].data = v
             /\ ~(hits # {} /\ i = first) => items[i].state = cache.items[i].state
  <2>0. cache.items[i] \in Slot
    BY <1>0
  <2>1. CASE cache.items[i].key # k
    BY <1>2, <2>0, <2>1
  <2>2. CASE cache.items[i].key = k /\ hits # {} /\ i = first
    <3>1. items[i] = [cache.items[i] EXCEPT !.state = "ResponseReceived", !.data = v, !.since = {v, store[k]}]
      BY <1>2, <2>2
    <3> QED  BY <1>0, <2>0, <2>2, <3>1 DEF Slot, CacheStates
  <2>3. CASE cache.items[i].key = k /\ ~(hits # {} /\ i = first)
    <3>1. items[i] = [cache.items[i] EXCEPT !.since = {v, store[k]}]
      BY <1>2, <2>3
    <3> QED  BY <1>0, <2>0, <2>3, <3>1 DEF Slot
  <2> QED  BY <2>1, <2>2, <2>3
<1>7. items \in [0 .. n - 1 -> Slot]
  BY <1>6
<1> HIDE DEF items
<1>8. KeysInv(items, n, store)
  <2> SUFFICES ASSUME NEW i \in 0 .. n - 1, items[i].state # "Idle"
               PROVE  items[i].key \in Keys /\ store[items[i].key] \in items[i].since
    BY DEF KeysInv
  <2>1. CASE cache.items[i].key = k
    BY <1>6, <2>1
  <2>2. CASE cache.items[i].key # k
    BY <1>6, <2>2 DEF Good, KeysInv
  <2> QED  BY <2>1, <2>2
<1>9. ASSUME ~cache.failed
      PROVE  /\ Current(items, n)
             /\ \A i \in 0 .. n - 1 : /\ items[i].key = cache.items[i].key
                                      /\ \/ items[i].state = cache.items[i].state
                                         \/ /\ cache.items[i].state = "RequestPrepared"
                                            /\ items[i].state = "ResponseReceived"
  <2>0. Current(cache.items, n)
    BY <1>9 DEF Good, RingInv
  <2>1. ASSUME NEW i \in 0 .. n - 1, hits # {}, i = first PROVE i \in hits
    BY <1>3, <1>4, <1>9, <2>1
  <2>2. ASSUME NEW i \in 0 .. n - 1
        PROVE  /\ items[i].key = cache.items[i].key
               /\ \/ items[i].state = cache.items[i].state
                  \/ /\ cache.items[i].state = "RequestPrepared"
                     /\ items[i].state = "ResponseReceived"
               /\ items[i].state = "ResponseReceived" => items[i].data \in items[i].since
    <3>1. CASE hits # {} /\ i = first
      BY <1>5, <1>6, <2>1, <3>1
    <3>2. CASE ~(hits # {} /\ i = first)
      <4>1. i \notin hits
        BY <1>3, <1>9, <3>2
      <4>2. CASE cache.items[i].key = k
        BY <1>5, <1>6, <3>2, <4>1, <4>2
      <4>3. CASE cache.items[i].key # k
        BY <1>6, <2>0, <3>2, <4>3 DEF Current
      <4> QED  BY <4>2, <4>3
    <3> QED  BY <3>1, <3>2
  <2> QED  BY <2>2 DEF Current
<1>10. PICK ch, st, its : ch = cache /\ st = store /\ its = items
  OBVIOUS
<1>11. /\ Good(ch, n, st, nst, key) /\ its \in [0 .. n - 1 -> Slot] /\ KeysInv(its, n, st)
       /\ ~ch.failed => /\ Current(its, n)
                        /\ \A i \in 0 .. n - 1 : /\ its[i].key = ch.items[i].key
                                                 /\ \/ its[i].state = ch.items[i].state
                                                    \/ /\ ch.items[i].state = "RequestPrepared"
                                                       /\ its[i].state = "ResponseReceived"
  BY <1>7, <1>8, <1>9, <1>10
<1>12. Good([ch EXCEPT !.items = its], n, st, nst, key)
  BY <1>11, KeptGood
<1> QED  BY <1>1, <1>10, <1>12

(* The server answers: slots learn what their items hold now.               *)
LEMMA AnsweredGood ==
    ASSUME TypeOK', NEW n \in Sizes, NEW nst, NEW key, Good(cache, n, store, nst, key),
           cache' = [cache EXCEPT !.items = [i \in Slots |->
                        IF At(i).key \in Keys THEN [At(i) EXCEPT !.since = @ \cup {store'[At(i).key]}] ELSE At(i)]]
    PROVE  Good(cache', n, store', nst, key)
<1> DEFINE items == [i \in 0 .. n - 1 |->
                        IF cache.items[i].key \in Keys
                        THEN [cache.items[i] EXCEPT !.since = @ \cup {store'[cache.items[i].key]}]
                        ELSE cache.items[i]]
<1>0. /\ cache \in CacheOf(n) /\ n \in Nat \ {0} /\ Slots = 0 .. n - 1
      /\ cache.items \in [0 .. n - 1 -> Slot] /\ store' \in [Keys -> Contents]
  BY CacheSize DEF Good, Slots, TypeOK, CacheOf
<1>1. cache' = [cache EXCEPT !.items = items]
  BY <1>0 DEF At
<1>2. ASSUME NEW i \in 0 .. n - 1
      PROVE  /\ items[i] \in Slot /\ items[i].key = cache.items[i].key
             /\ items[i].state = cache.items[i].state /\ items[i].data = cache.items[i].data
             /\ cache.items[i].since \subseteq items[i].since
             /\ cache.items[i].key \in Keys => store'[cache.items[i].key] \in items[i].since
  <2>0. cache.items[i] \in Slot
    BY <1>0
  <2>1. CASE cache.items[i].key \in Keys
    <3>1. items[i] = [cache.items[i] EXCEPT !.since = @ \cup {store'[cache.items[i].key]}]
      BY <2>1
    <3>2. store'[cache.items[i].key] \in Contents
      BY <1>0, <2>1
    <3> QED  BY <2>0, <3>1, <3>2 DEF Slot
  <2>2. CASE cache.items[i].key \notin Keys
    BY <2>0, <2>2
  <2> QED  BY <2>1, <2>2
<1>3. items \in [0 .. n - 1 -> Slot]
  BY <1>2
<1> HIDE DEF items
<1>4. KeysInv(items, n, store')
  BY <1>2 DEF Good, KeysInv
<1>5. ~cache.failed => Current(items, n)
  BY <1>2 DEF Good, RingInv, Current
<1>6. PICK ch, st, its, st1 : ch = cache /\ st = store /\ its = items /\ st1 = store'
  OBVIOUS
<1>7. /\ Good(ch, n, st, nst, key) /\ its \in [0 .. n - 1 -> Slot] /\ KeysInv(its, n, st1)
      /\ ~ch.failed => /\ Current(its, n)
                       /\ \A i \in 0 .. n - 1 : /\ its[i].key = ch.items[i].key
                                                /\ its[i].state = ch.items[i].state
  BY <1>2, <1>3, <1>4, <1>5, <1>6
<1>8. Good([ch EXCEPT !.items = its], n, st1, nst, key)
  BY <1>7, KeptGood
<1> QED  BY <1>1, <1>6, <1>8

(* A synchronous operation of the owner of the cache returns.               *)
LEMMA NavReceiveGood ==
    ASSUME StoreInv, NEW n \in Sizes, Good(cache, n, store, state[Nav], Key(active[Nav])), NavReceive
    PROVE  Good(cache', n, store', state'[Nav], Key(active'[Nav]))
<1> DEFINE op == sync[Nav]
           success == Accepts(Nav) /\ response.ok
<1>0. /\ Nav \in Clients /\ TypeOK /\ OutcomeInv /\ ResponseInv
      /\ UNCHANGED <<store, state, active>>
  BY CacheAssumption DEF StoreInv, NavReceive, ReceiveSync
<1>1. op \in Op \cup {NoOp, GetId}
  BY <1>0 DEF TypeOK
<1>2. op.type \in {"read", "write"} => op \in Op /\ Key(op) \in Keys /\ op.value \in Contents
  BY <1>1, SMTT(30) DEF Op, NoOp, GetId, OpOf, Key, Keys
<1>3. CASE success /\ op.type = "read"
  <2>1. cache' = Remembered(Key(op), response.value)
    BY <1>3 DEF NavReceive
  <2>2. response.op = [op EXCEPT !.value = Empty]
    <3>1. "none" # Nav
      BY <1>0, ClientsAssumption
    <3>2. response.stamp # Nav
      BY <1>0, <1>3, <3>1 DEF ResponseInv
    <3> QED  BY <1>3, <3>2 DEF Accepts
  <2>3. response.op.type = "read" /\ Key(response.op) = Key(op)
    BY <1>2, <1>3, <2>2 DEF Op, Key
  <2>4. response.value = store[Key(op)]
    BY <1>0, <1>3, <2>3 DEF ResponseInv
  <2>5. /\ store[Key(op)] \in outcome[Nav]["sync"] /\ outcome[Nav]["sync"] \subseteq Contents
    <3>1. Calls(Nav, "sync") = op
      BY <1>2, <1>3, ConstantTypes DEF Calls, Pending
    <3> QED  BY <1>0, <1>3, <3>1 DEF OutcomeInv, Ports
  <2>6. PICK k, v, nst, key : k = Key(op) /\ v = response.value /\ nst = state[Nav] /\ key = Key(active[Nav])
    OBVIOUS
  <2>7. /\ Good(cache, n, store, nst, key) /\ k \in Keys /\ v = store[k]
        /\ store[k] \in outcome[Nav]["sync"]
    BY <1>2, <1>3, <2>4, <2>5, <2>6
  <2>8. Good(Remembered(k, v), n, store, nst, key)
    BY <2>5, <2>7, RememberedGood
  <2> QED  BY <1>0, <2>1, <2>6, <2>8
<1>4. CASE success /\ op.type = "write"
  <2>1. cache' = Overwritten(Key(op), op.value)
    BY <1>4 DEF NavReceive
  <2>2. PICK k, v, nst, key : k = Key(op) /\ v = op.value /\ nst = state[Nav] /\ key = Key(active[Nav])
    OBVIOUS
  <2>3. Good(cache, n, store, nst, key) /\ k \in Keys /\ v \in Contents
    BY <1>2, <1>4, <2>2
  <2>4. Good(Overwritten(k, v), n, store, nst, key)
    BY <1>0, <2>3, OverwrittenGood
  <2> QED  BY <1>0, <2>1, <2>2, <2>4
<1>5. CASE ~(success /\ op.type \in {"read", "write"})
  <2>1. cache' = cache
    BY <1>5 DEF NavReceive
  <2> QED  BY <1>0, <2>1
<1> QED  BY <1>3, <1>4, <1>5

-----------------------------------------------------------------------------
(* Steps of the whole system.                                               *)

LEMMA CacheStoreStep ==
    ASSUME StoreInv, CacheInv, CacheNext
    PROVE  StoreStep
<1>0. Nav \in Clients /\ NavWrites \subseteq Contents /\ NavKeys \subseteq Keys /\ OthersOps \subseteq Op
  BY CacheAssumption
<1>1. \A key \in Keys, v \in Contents : OpOf("read", key[1], key[2], Empty) \in ReadOps
                                        /\ OpOf("write", key[1], key[2], v) \in Op
  BY DEF Keys, OpOf, Op, ReadOps, Contents
<1>2. \A op \in ReadOps : op \in Op
  BY DEF ReadOps
<1>3. CASE Server
  BY <1>3 DEF Server, StoreStep
<1>4. CASE Start
  BY <1>4 DEF Start, StoreStep, ClientStep
<1>5. CASE \E c \in Others : Other(c)
  BY <1>0, <1>5 DEF Other, Others, StoreStep, ClientStep
<1>6. CASE NavReceive
  BY <1>0, <1>6 DEF NavReceive, StoreStep, ClientStep
<1>7. ASSUME NEW key \in Keys, Load(key) PROVE StoreStep
  BY <1>7 DEF Load, StoreStep, Unmoved
<1>8. ASSUME NEW key \in NavKeys, LoadWait(key) PROVE StoreStep
  <2>1. OpOf("read", key[1], key[2], Empty) \in Op
    BY <1>0, <1>1, <1>2 DEF Contents
  <2> QED  BY <1>0, <1>8, <2>1 DEF LoadWait, StoreStep, ClientStep
<1>9. ASSUME NEW key \in NavKeys, NEW v \in NavWrites, WriteWait(key, v) PROVE StoreStep
  <2>1. OpOf("write", key[1], key[2], v) \in Op
    BY <1>0, <1>1
  <2> QED  BY <1>0, <1>9, <2>1 DEF WriteWait, StoreStep, ClientStep
<1>10. ASSUME NavMayCall, Abort(Nav) PROVE StoreStep
  BY <1>0, <1>10 DEF NavMayCall, StoreStep, ClientStep
<1>11. CASE Fetch
  <2> DEFINE key == cache.items[cache.update_index].key
  <2>1. CallAsync(Nav, OpOf("read", key[1], key[2], Empty)) /\ cache.items[cache.update_index].state # "Idle"
    BY <1>11 DEF Fetch, At
  <2>2. key \in Keys
    BY <2>1 DEF CacheInv, Good, CacheOf, KeysInv
  <2> HIDE DEF key
  <2>3. OpOf("read", key[1], key[2], Empty) \in ReadOps
    BY <1>1, <2>2 DEF Contents
  <2> QED  BY <1>0, <2>1, <2>3 DEF StoreStep, ClientStep
<1>12. CASE UpdateCache
  <2>1. Update(Nav, "Idle") \/ Update(Nav, "ResponseReceived") \/ Complete(Nav) \/ Unmoved
    BY <1>12 DEF UpdateCache, Unmoved
  <2> QED  BY <1>0, <2>1 DEF StoreStep, ClientStep
<1> QED  BY <1>3, <1>4, <1>5, <1>6, <1>7, <1>8, <1>9, <1>10, <1>11, <1>12
         DEF CacheNext, Invalidate, Renew

LEMMA InitCacheInv ==
    ASSUME CacheInit
    PROVE  CacheInv
<1> DEFINE empty(n) == [items |-> [i \in 0 .. n - 1 |-> FreshSlot], load_index |-> 0,
                        update_index |-> 0, item_counter |-> 0, buffer |-> 0, failed |-> FALSE]
<1>1. PICK n \in Sizes : cache = empty(n)
  BY DEF CacheInit
<1>2. n \in Nat \ {0} /\ Nav \in Clients
  BY CacheAssumption
<1>3. state[Nav] = "Idle"
  BY <1>2 DEF CacheInit, Init
<1> DEFINE items == [i \in 0 .. n - 1 |-> FreshSlot]
<1>4. /\ cache.items = items /\ cache.load_index = 0 /\ cache.update_index = 0
      /\ cache.item_counter = 0 /\ cache.buffer = 0
  BY <1>1
<1>5. \A i \in 0 .. n - 1 : items[i] \in Slot /\ items[i].state = "Idle"
  BY DEF FreshSlot, Slot, CacheStates, Contents
<1>6. cache \in CacheOf(n)
  <2>1. items \in [0 .. n - 1 -> Slot]
    BY <1>5
  <2>2. 0 \in 0 .. n - 1 /\ 0 \in 0 .. n
    BY <1>2, SMTT(30)
  <2> HIDE DEF items
  <2>3. cache = [items |-> items, load_index |-> 0, update_index |-> 0, item_counter |-> 0, buffer |-> 0,
                 failed |-> FALSE]
    BY <1>1 DEF items
  <2> QED  BY <2>1, <2>2, <2>3 DEF CacheOf
<1> HIDE DEF items
<1>7. KeysInv(items, n, store)
  BY <1>5 DEF KeysInv
<1>8. RingInv(cache, n, state[Nav], Key(active[Nav]))
  <2>1. Distinct(items, n) /\ Window(items, 0, 0, n) /\ Requesting(items, 0, 0, n, "Idle", Key(active[Nav]))
        /\ Current(items, n)
    BY <1>5 DEF Distinct, Window, Requesting, Current
  <2>2. Aligned(0, 0, 0, n)
    BY <1>2, SMTT(30) DEF Aligned
  <2> QED  BY <1>3, <1>4, <2>1, <2>2 DEF RingInv
<1> QED  BY <1>4, <1>6, <1>7, <1>8 DEF CacheInv, Good

(* A step that leaves the ring, the store and the asynchronous operation of *)
(* the owner of the cache alone.                                            *)
LEMMA SameGood ==
    ASSUME CacheInv, UNCHANGED <<cache, store, state, active>>
    PROVE  CacheInv'
BY DEF CacheInv

LEMMA StepCacheInv ==
    ASSUME StoreInv, CacheInv, CacheNext
    PROVE  CacheInv'
<1>0. Nav \in Clients /\ TypeOK /\ TypeOK'
  BY CacheAssumption, CacheStoreStep, StepStoreInv DEF StoreInv
<1>1. PICK n \in Sizes : Good(cache, n, store, state[Nav], Key(active[Nav]))
  BY DEF CacheInv
<1>2. cache \in CacheOf(n)
  BY <1>1 DEF Good
<1>3. ASSUME NEW m \in Sizes, Good(cache', m, store', state'[Nav], Key(active'[Nav])) PROVE CacheInv'
  BY <1>3 DEF CacheInv
<1>4. ASSUME NavMayCall, Abort(Nav) PROVE state'[Nav] = "Idle" /\ store' = store
  BY <1>0, <1>4 DEF Abort, Leave, TypeOK
<1>5. CASE Server
  <2>1. CASE TakeRequest /\ UNCHANGED cache
    BY <2>1, SameGood DEF TakeRequest
  <2>2. CASE ~(TakeRequest /\ UNCHANGED cache)
    <3>1. /\ UNCHANGED <<state, active>>
          /\ cache' = [cache EXCEPT !.items = [i \in Slots |->
                IF At(i).key \in Keys THEN [At(i) EXCEPT !.since = @ \cup {store'[At(i).key]}] ELSE At(i)]]
      BY <1>5, <2>2 DEF Server, AnswerRequest
    <3>2. PICK nst, key : nst = state[Nav] /\ key = Key(active[Nav])
      OBVIOUS
    <3>3. Good(cache, n, store, nst, key)
      BY <1>1, <3>2
    <3>4. Good(cache', n, store', nst, key)
      BY <1>0, <3>1, <3>3, AnsweredGood
    <3> QED  BY <1>3, <3>1, <3>2, <3>4
  <2> QED  BY <2>1, <2>2
<1>6. CASE Start
  BY <1>6, SameGood DEF Start, Construct, RetrySync
<1>7. CASE \E c \in Others : Other(c)
  BY <1>7, SameGood DEF Other, CallSyncOp, ReceiveSync
<1>8. CASE NavReceive
  BY <1>1, <1>3, <1>8, NavReceiveGood
<1>9. ASSUME NEW k \in Keys, Load(k) PROVE CacheInv'
  <2>1. cache' = Loaded(cache, k) /\ UNCHANGED <<store, state, active>>
    BY <1>9 DEF Load, clientVars
  <2>2. PICK ch, nst, key : ch = cache /\ nst = state[Nav] /\ key = Key(active[Nav])
    OBVIOUS
  <2>3. Good(ch, n, store, nst, key)
    BY <1>1, <2>2
  <2>4. Good(Loaded(ch, k), n, store, nst, key)
    BY <1>0, <2>3, LoadedGood
  <2> QED  BY <1>3, <2>1, <2>2, <2>4
<1>10. ASSUME NEW key \in NavKeys, LoadWait(key) PROVE CacheInv'
  BY <1>10, SameGood DEF LoadWait, CallSyncOp
<1>11. ASSUME NEW key \in NavKeys, NEW v \in NavWrites, WriteWait(key, v) PROVE CacheInv'
  BY <1>11, SameGood DEF WriteWait, CallSyncOp
<1>12. CASE Invalidate
  <2>1. cache' = Invalidated(cache) /\ state'[Nav] = "Idle"
    BY <1>4, <1>12 DEF Invalidate
  <2>2. PICK ch, st, key : ch = cache /\ st = store' /\ key = Key(active'[Nav])
    OBVIOUS
  <2>3. Good(Invalidated(ch), n, st, "Idle", key)
    BY <1>2, <2>2, InvalidatedGood
  <2> QED  BY <1>3, <2>1, <2>2, <2>3
<1>13. ASSUME NEW item \in Items, NEW m \in Sizes, Renew(item, m) PROVE CacheInv'
  <2>1. cache' = Filled(Resized(Invalidated(cache), m), item, m) /\ state'[Nav] = "Idle" /\ store' = store
    BY <1>4, <1>13 DEF Renew
  <2>2. PICK ch, key : ch = cache /\ key = Key(active'[Nav])
    OBVIOUS
  <2>3. Good(Filled(Resized(Invalidated(ch), m), item, m), m, store, "Idle", key)
    BY <1>0, <1>2, <2>2, RenewedGood
  <2> QED  BY <1>3, <2>1, <2>2, <2>3
<1>14. CASE Fetch
  <2> DEFINE key == cache.items[cache.update_index].key
  <2>1. /\ CallAsync(Nav, OpOf("read", key[1], key[2], Empty)) /\ state[Nav] = "Idle"
        /\ cache.items[cache.update_index].state = "RequestPrepared"
        /\ cache' = [cache EXCEPT !.items[cache.update_index].state = "RequestSent",
                                  !.buffer = cache.update_index]
    BY <1>14 DEF Fetch, At
  <2>2. key \in Keys
    BY <1>1, <2>1 DEF Good, CacheOf, KeysInv
  <2>3. state'[Nav] = "RequestSent" /\ Key(active'[Nav]) = key /\ store' = store
    <3> HIDE DEF key
    <3>1. /\ state' = [state EXCEPT ![Nav] = "RequestSent"] /\ store' = store
          /\ active' = [active EXCEPT ![Nav] = OpOf("read", key[1], key[2], Empty)]
      BY <2>1 DEF CallAsync
    <3>2. key = <<key[1], key[2]>>
      BY <2>2, SMTT(30) DEF Keys
    <3>3. state'[Nav] = "RequestSent" /\ active'[Nav] = OpOf("read", key[1], key[2], Empty)
      BY <1>0, <3>1 DEF TypeOK
    <3> QED  BY <3>1, <3>2, <3>3, SMTT(30) DEF Key, OpOf
  <2>4. PICK ch, st, nst, old : ch = cache /\ st = store /\ nst = state[Nav] /\ old = Key(active[Nav])
    OBVIOUS
  <2>5. /\ Good(ch, n, st, nst, old) /\ nst = "Idle"
        /\ ch.items[ch.update_index].state = "RequestPrepared"
    BY <1>1, <2>1, <2>4
  <2>6. Good([ch EXCEPT !.items[ch.update_index].state = "RequestSent", !.buffer = ch.update_index],
             n, st, "RequestSent", ch.items[ch.update_index].key)
    BY <2>5, FetchedGood
  <2>7. Good(cache', n, store', state'[Nav], Key(active'[Nav]))
    BY <2>1, <2>3, <2>4, <2>6
  <2> QED  BY <1>3, <2>7
<1>15. CASE UpdateCache
  BY <1>1, <1>3, <1>15, UpdateCacheGood
<1> QED  BY <1>5, <1>6, <1>7, <1>8, <1>9, <1>10, <1>11, <1>12, <1>13, <1>14, <1>15 DEF CacheNext

LEMMA StutterCacheInv ==
    ASSUME CacheInv, UNCHANGED cacheVars
    PROVE  CacheInv'
BY SameGood DEF cacheVars, vars, clientVars

LEMMA StutterStoreInv ==
    ASSUME StoreInv, UNCHANGED cacheVars
    PROVE  StoreInv'
<1>1. UNCHANGED <<store, request, serving, clients_count, response, response_new, id, constructed,
                  sync, state, active, status, outcome, returned>>
  BY DEF cacheVars, vars, topics, clientVars
<1>2. TypeOK' /\ ActiveReads'
  BY <1>1 DEF StoreInv, TypeOK, ActiveReads
<1>3. PortInv' /\ ResponseInv'
  BY <1>1 DEF StoreInv, PortInv, ResponseInv
<1>4. OutcomeInv'
  <2>1. OutcomeInv /\ \A c \in Clients, p \in Ports : Calls(c, p)' = Calls(c, p)
    BY <1>1, SameCalls DEF StoreInv
  <2> QED  BY <1>1, <2>1, KeptOutcomeInv
<1> QED  BY <1>2, <1>3, <1>4 DEF StoreInv

LEMMA StutterPromptInv ==
    ASSUME PromptInv, UNCHANGED cacheVars
    PROVE  PromptInv'
<1>1. UNCHANGED <<store, request, serving, clients_count, response, response_new, id, constructed,
                  sync, state, active, status, outcome, returned>>
  BY DEF cacheVars, vars, topics, clientVars
<1>2. IdInv'
  BY <1>1 DEF PromptInv, IdInv, IdsInv, SentInv, GrantInv, CountInv
<1>3. WireInv'
  BY <1>1 DEF PromptInv, WireInv, WireOf, Requested, Served, Responded
<1> QED  BY <1>2, <1>3, StutterStoreInv DEF PromptInv

-----------------------------------------------------------------------------
(* Theorems.                                                                *)

(* The inductive invariant, whether answers come in time or not.            *)
THEOREM CacheInvariance == CacheSpec => [](StoreInv /\ CacheInv)
<1>1. CacheInit => StoreInv /\ CacheInv
  BY InitStoreInv, InitCacheInv DEF CacheInit
<1>2. StoreInv /\ CacheInv /\ [CacheNext]_cacheVars => (StoreInv /\ CacheInv)'
  BY CacheStoreStep, StepStoreInv, StepCacheInv, StutterStoreInv, StutterCacheInv
<1> QED  BY <1>1, <1>2, PTL DEF CacheSpec

(* Every variable keeps its type, and the indices of the ring stay inside   *)
(* it, through load(), update(), resize(), lost messages, answers that come *)
(* too late and storage that fails.                                         *)
THEOREM CacheTypes == CacheSpec => []CacheTypeOK
<1>1. StoreInv /\ CacheInv => CacheTypeOK
  BY DEF StoreInv, CacheInv, CacheTypeOK, Good, CacheOf
<1> QED  BY <1>1, CacheInvariance, PTL

(* As long as no load has failed since invalidate(), what loadWait() finds  *)
(* in the cache is a value the item had since it was loaded or written.     *)
THEOREM CacheIsCurrent == CacheSpec => []CurrentUntilFailure
<1>1. CacheInv => CurrentUntilFailure
  <2> SUFFICES ASSUME NEW n \in Sizes, Good(cache, n, store, state[Nav], Key(active[Nav])), ~cache.failed
               PROVE  CachedIsCurrent
    BY DEF CacheInv, CurrentUntilFailure
  <2>1. Slots = 0 .. n - 1 /\ Current(cache.items, n)
    BY CacheSize DEF Good, RingInv, Slots
  <2> QED  BY <2>1 DEF Current, CachedIsCurrent, At
<1> QED  BY <1>1, CacheInvariance, PTL

(* As long as no load has failed since invalidate(), isLoading() is true    *)
(* while an item waits to be requested or answered.                         *)
THEOREM LoadingItemsAreCounted == CacheSpec => []LoadingIsCounted
<1>1. CacheInv => LoadingIsCounted
  <2> SUFFICES ASSUME NEW n \in Sizes, Good(cache, n, store, state[Nav], Key(active[Nav])), ~cache.failed,
                      cache.item_counter = 0
               PROVE  \A i \in Slots : At(i).state \notin {"RequestPrepared", "RequestSent"}
    BY DEF CacheInv, LoadingIsCounted
  <2>1. /\ Slots = 0 .. n - 1 /\ n \in Nat \ {0} /\ cache.update_index \in 0 .. n - 1
        /\ Window(cache.items, cache.update_index, 0, n)
    BY CacheSize DEF Good, RingInv, Slots, CacheOf
  <2>2. \A i \in 0 .. n - 1 : ~(Ahead(cache.update_index, i, n) < 0)
    BY <2>1, SMTT(30) DEF Ahead
  <2> QED  BY <2>1, <2>2 DEF Window, At
<1> QED  BY <1>1, CacheInvariance, PTL

(* The inductive invariant when the server keeps up with the clients: ids   *)
(* are handed out once, and nothing of an operation that has returned is    *)
(* still on its way.                                                        *)
THEOREM PromptInvariance ==
    ASSUME Prompt
    PROVE  CacheSpec => [](PromptInv /\ CacheInv)
<1>1. CacheInit => PromptInv /\ CacheInv
  BY InitPromptInv, InitCacheInv DEF CacheInit
<1>2. PromptInv /\ CacheInv /\ [CacheNext]_cacheVars => (PromptInv /\ CacheInv)'
  <2>1. PromptInv => StoreInv
    BY DEF PromptInv
  <2> QED  BY <2>1, CacheStoreStep, StepPromptInv, StepCacheInv, StutterPromptInv, StutterCacheInv
<1> QED  BY <1>1, <1>2, PTL DEF CacheSpec

(* When the server keeps up with the clients, DM_GET_ID gives no two        *)
(* clients whose constructors have returned the same id, for any number of  *)
(* clients and any interleaving of their constructors.                      *)
THEOREM ClientIdsAreUnique ==
    ASSUME Prompt
    PROVE  CacheSpec => []UniqueIds
<1>1. PromptInv => UniqueIds
  BY DEF PromptInv, IdInv, IdsInv, UniqueIds
<1> QED  BY <1>1, PromptInvariance, PTL

(* When the server keeps up with the clients, they and the topics implement *)
(* the store of DatamanStore: operations take effect only between call and  *)
(* return, none succeeds without effect, and a read returns what the item   *)
(* held while it ran.                                                       *)
THEOREM DatamanImplementsStore ==
    ASSUME Prompt
    PROVE  CacheSpec => ImplementsStore
<1>1. CacheInit => Store!Init
  BY InitImplements DEF CacheInit
<1>2. PromptInv /\ CacheInv /\ [CacheNext]_cacheVars => [Store!Next]_(Store!vars)
  <2>1. ASSUME PromptInv, CacheInv, CacheNext PROVE Store!Next
    BY <2>1, CacheStoreStep, StepImplements DEF PromptInv
  <2>2. ASSUME UNCHANGED cacheVars PROVE UNCHANGED Store!vars
    <3>1. UNCHANGED <<store, sync, state, active, outcome, returned>>
      BY <2>2 DEF cacheVars, vars, clientVars
    <3>2. \A c : Pending(c[1], c[2])' = Pending(c[1], c[2])
      BY <3>1 DEF Pending
    <3>3. UNCHANGED [c \in Callers |-> IF Pending(c[1], c[2]) = GetId THEN NoOp ELSE Pending(c[1], c[2])]
      BY <3>2, SMTT(30)
    <3>4. UNCHANGED [c \in Callers |-> outcome[c[1]][c[2]]]
      BY <3>1
    <3> QED  BY <3>1, <3>3, <3>4 DEF Store!vars
  <2> QED  BY <2>1, <2>2
<1> QED  BY <1>1, <1>2, PromptInvariance, PTL DEF CacheSpec, ImplementsStore, Store!Spec
=============================================================================
