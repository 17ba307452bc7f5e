--------------------------- MODULE UorbNodeProofs ---------------------------
(***************************************************************************)
(* Proofs about UorbNode: for any number of publishers and subscribers, any *)
(* queue sizes and any modulus of the generation they divide, the node     *)
(* implements Topic.                                                       *)
(***************************************************************************)
EXTENDS UorbNode, TLAPS

(* The provers a step is tried with unless it names one, and their time.    *)
USE ZenonT(30), SMTT(30)

-----------------------------------------------------------------------------
(* Arithmetic of generations.                                               *)

(* A remainder is determined by its range.                                  *)
LEMMA ModUnique ==
    ASSUME NEW N \in Nat \ {0}, NEW k \in Int, NEW r \in 0 .. N - 1
    PROVE  (N * k + r) % N = r
  BY SMTT(30)

(* Every integer has a quotient and a remainder.                            *)
LEMMA ModQuotient ==
    ASSUME NEW N \in Nat \ {0}, NEW a \in Int
    PROVE  a % N \in 0 .. N - 1 /\ \E k \in Int : a = N * k + (a % N)
<1>1. a % N \in 0 .. N - 1 /\ a \div N \in Int /\ a = N * (a \div N) + (a % N)
  BY SMTT(30)
<1> QED  BY <1>1

(* Reducing modulo GenMod before a queue size that divides it changes       *)
(* nothing.                                                                 *)
LEMMA ModShift ==
    ASSUME NEW q \in QueueSizes, NEW t \in Int, NEW r \in Int
    PROVE  (q * t + r) % q = r % q
  BY SMTT(30) DEF QueueSizes

(* Messages less than a queue apart have different slots.                   *)
LEMMA ModDistinct ==
    ASSUME NEW q \in QueueSizes, NEW a \in Nat, NEW b \in Nat, b < a, a < b + q
    PROVE  a % q # b % q
  BY SMTT(30) DEF QueueSizes

(* A remainder modulo GenMod has the same remainder modulo a queue size.    *)
LEMMA ModMod ==
    ASSUME NEW N \in Nat \ {0}, NEW q \in QueueSizes, N % q = 0, NEW a \in Int
    PROVE  (a % N) % q = a % q
<1>1. PICK k \in Int : a = N * k + (a % N)
  BY ModQuotient
<1>2. PICK m \in Int : N = q * m
  <2>1. q \in Nat \ {0}
    BY SMTT(30) DEF QueueSizes
  <2>2. \E m \in Int : N = q * m + (N % q)
    BY <2>1, ModQuotient, N \in Int
  <2> QED  BY <2>1, <2>2, SMTT(30)
<1>3. m * k \in Int /\ a % N \in Int
  BY ModQuotient, SMTT(30)
<1>4. a = q * (m * k) + (a % N)
  <2>1. q \in Int
    BY SMTT(30) DEF QueueSizes
  <2> QED  BY <1>1, <1>2, <2>1, SMTT(30)
<1> QED  BY <1>3, <1>4, ModShift, SMTT(30)

(* Going back d from message a, for d up to a whole turn.                   *)
LEMMA ModSub ==
    ASSUME NEW N \in Nat \ {0}, NEW a \in Int, NEW d \in 0 .. N
    PROVE  (a - d) % N = IF a % N >= d THEN (a % N) - d ELSE (a % N) - d + N
<1>1. PICK k \in Int : a = N * k + (a % N)
  BY ModQuotient
<1>2. a % N \in 0 .. N - 1
  BY ModQuotient
<1>3. CASE a % N >= d
  <2>1. (a % N) - d \in 0 .. N - 1 /\ a - d = N * k + ((a % N) - d)
    BY <1>1, <1>2, <1>3, SMTT(30)
  <2> QED  BY <2>1, <1>3, ModUnique
<1>4. CASE ~(a % N >= d)
  <2>1. (a % N) - d + N \in 0 .. N - 1 /\ a - d = N * (k - 1) + ((a % N) - d + N)
    BY <1>1, <1>2, <1>4, SMTT(30)
  <2>2. k - 1 \in Int
    BY SMTT(30)
  <2> QED  BY <2>1, <2>2, <1>4, ModUnique
<1> QED  BY <1>3, <1>4

(* The counter moves with the messages it counts.                           *)
LEMMA ModStep ==
    ASSUME NEW N \in Nat \ {0}, NEW a \in Int, NEW d \in Int
    PROVE  ((a % N) + d) % N = (a + d) % N
<1>1. PICK k \in Int : a = N * k + (a % N)
  BY ModQuotient
<1>2. PICK j \in Int : (a % N) + d = N * j + (((a % N) + d) % N)
  <2>1. (a % N) + d \in Int
    BY ModQuotient, SMTT(30)
  <2> QED  BY <2>1, ModQuotient
<1>3. ((a % N) + d) % N \in 0 .. N - 1
  BY ModQuotient, SMTT(30)
<1>4. a + d = N * (k + j) + (((a % N) + d) % N) /\ k + j \in Int
  <2>1. a % N \in Int
    BY ModQuotient, SMTT(30)
  <2>2. PICK g \in Int : g = a % N
    BY <2>1
  <2>3. PICK h \in Int : h = ((a % N) + d) % N
    BY <1>3, SMTT(30)
  <2>4. a = N * k + g /\ g + d = N * j + h
    BY <1>1, <1>2, <2>2, <2>3
  <2>5. a + d = N * (k + j) + h
    BY <2>4, SMTT(30)
  <2> QED  BY <2>3, <2>5, SMTT(30)
<1> QED  BY <1>3, <1>4, ModUnique

(* How far a counter is behind, within a turn.                              *)
LEMMA ModDifference ==
    ASSUME NEW N \in Nat \ {0}, NEW a \in Int, NEW b \in Int, b <= a, a < b + N
    PROVE  ((a % N) - (b % N)) % N = a - b
<1>1. PICK k \in Int : b = N * k + (b % N)
  BY ModQuotient
<1>2. PICK r \in 0 .. N - 1 : r = b % N
  BY ModQuotient
<1>3. PICK g \in 0 .. N - 1 : g = a % N
  BY ModQuotient
<1>4. -r \in Int
  BY SMTT(30)
<1>5. (g + (-r)) % N = (a + (-r)) % N
  BY <1>3, <1>4, ModStep
<1>6. a + (-r) = N * k + (a - b) /\ a - b \in 0 .. N - 1 /\ g + (-r) = g - r
  BY <1>1, <1>2, SMTT(30)
<1>7. (N * k + (a - b)) % N = a - b
  BY <1>6, ModUnique
<1> QED  BY <1>2, <1>3, <1>5, <1>6, <1>7

(* is_in_range() tells whether the message is one of the last q, although   *)
(* the counters may have wrapped around.                                    *)
LEMMA InRange ==
    ASSUME NEW N \in Nat \ {0}, NEW q \in 2 .. N, NEW a \in Int, NEW d \in 1 .. N
    PROVE  IsInRange((a - q) % N, (a - d) % N, (a - 1) % N) <=> d <= q
<1>0. q \in 0 .. N /\ d \in 0 .. N /\ 1 \in 0 .. N
  BY SMTT(30)
<1>1. a % N \in 0 .. N - 1
  BY ModQuotient
<1>2. (a - q) % N = IF a % N >= q THEN (a % N) - q ELSE (a % N) - q + N
  BY <1>0, ModSub
<1>3. (a - d) % N = IF a % N >= d THEN (a % N) - d ELSE (a % N) - d + N
  BY <1>0, ModSub
<1>4. (a - 1) % N = IF a % N >= 1 THEN (a % N) - 1 ELSE (a % N) - 1 + N
  BY <1>0, ModSub
<1> HIDE DEF IsInRange
<1>5. ASSUME NEW g \in 0 .. N - 1
      PROVE  IsInRange(IF g >= q THEN g - q ELSE g - q + N, IF g >= d THEN g - d ELSE g - d + N,
                       IF g >= 1 THEN g - 1 ELSE g - 1 + N) <=> d <= q
  BY SMTT(30) DEF IsInRange
<1> QED  BY <1>1, <1>2, <1>3, <1>4, <1>5

-----------------------------------------------------------------------------
(* The inductive invariant.                                                 *)

(* Where publishers and subscribers can be.                                 *)
PlacesInv ==
    /\ \A p \in Publishers : pub[p] = "write" => Allocated
    /\ \A s \in Subscribers :
        /\ sub[s] \in {"copy", "increment"} => s \in valid /\ Allocated
        /\ sub[s] = "increment" => queue_size # 1
        /\ sub[s] \in {"try", "wait", "blocked", "woken"} => s \in callbacks /\ s \in Blockers

(* The buffer holds the last messages; before the first one, zeros.         *)
BufferInv ==
    /\ BufferHasQueueSize
    /\ GenMod % queue_size = 0
    /\ data_valid <=> published > 0
    /\ ~Allocated => published = 0
    /\ published = 0 => \A slot \in DOMAIN data : data[slot] = 0
    /\ \A n \in 1 .. published : published < n + queue_size => data[(n - 1) % queue_size] = n

(* The counters count messages; between the copy and ++generation the       *)
(* subscriber's one is a message behind.                                    *)
CounterInv ==
    /\ generation = published % GenMod
    /\ \A s \in valid :
        /\ seen[s] <= published /\ published < seen[s] + GenMod
        /\ sub[s] # "increment" => last[s] = seen[s] % GenMod
        /\ sub[s] = "increment" => last[s] = (seen[s] - 1) % GenMod

(* A topic that is not advertised owes no callback.                         *)
WakeInv ==
    /\ WakeupNotLost
    /\ ~advertised => \A s \in callbacks \cap WorkItems : since[s] = published

IInv == TypeOK /\ PlacesInv /\ BufferInv /\ CounterInv /\ WakeInv

-----------------------------------------------------------------------------
(* Preservation of the invariant, one conjunct of it at a time.             *)

(* Rounding yields a queue size, large enough or the largest.               *)
LEMMA Rounding ==
    ASSUME NEW n \in 0 .. 255
    PROVE  /\ RoundPowOfTwo8(n) \in QueueSizes
           /\ RoundPowOfTwo8(n) >= n \/ RoundPowOfTwo8(n) = 128
<1>1. \E q \in QueueSizes : /\ q >= n \/ q = 128
                           /\ \A r \in QueueSizes : r >= n => q <= r
  BY SMTT(30) DEF QueueSizes
<1> QED  BY <1>1 DEF RoundPowOfTwo8

(* A queue of one message is a queue size.                                  *)
LEMMA RoundingOne == RoundPowOfTwo8(1) = 1
<1>1. 1 \in QueueSizes /\ \A q \in QueueSizes : q >= 1
  BY SMTT(30) DEF QueueSizes
<1>2. \A q \in QueueSizes :
        (q >= 1 \/ q = 128) /\ (\A r \in QueueSizes : r >= 1 => q <= r) => q = 1
  BY <1>1, SMTT(30) DEF QueueSizes
<1>3. \E q \in QueueSizes : (q >= 1 \/ q = 128) /\ (\A r \in QueueSizes : r >= 1 => q <= r)
  BY <1>1 DEF QueueSizes
<1> QED  BY <1>2, <1>3, SMTT(30) DEF RoundPowOfTwo8

(* A queue size is a positive number that divides GenMod.                   *)
LEMMA QueueSizeNat == QueueSizes \subseteq Nat \ {0}
  BY SMTT(30) DEF QueueSizes

(* update_queue_size() sets a size that divides GenMod, and never a smaller *)
(* one.                                                                     *)
LEMMA NewSize ==
    ASSUME NEW p \in Publishers, queue_size \in QueueSizes, GenMod % queue_size = 0
    PROVE  /\ NewQueueSize(QueueSizeOf[p]) \in QueueSizes
           /\ NewQueueSize(QueueSizeOf[p]) >= queue_size
           /\ GenMod % NewQueueSize(QueueSizeOf[p]) = 0
           /\ Allocated => NewQueueSize(QueueSizeOf[p]) = queue_size
<1> DEFINE size == QueueSizeOf[p]
<1>1. size \in 0 .. 255
  BY QueueSizeAssumption
<1>2. RoundPowOfTwo8(size) \in QueueSizes /\ (RoundPowOfTwo8(size) >= size \/ RoundPowOfTwo8(size) = 128)
  BY <1>1, Rounding
<1>3. GenMod % RoundPowOfTwo8(size) = 0
  BY GenModAssumption
<1>4. \A q \in QueueSizes : q <= 128 /\ q \in Nat
  BY SMTT(30) DEF QueueSizes
<1> HIDE DEF size
<1>5. NewQueueSize(size) = queue_size \/ (NewQueueSize(size) = RoundPowOfTwo8(size) /\ ~Allocated /\ queue_size < size)
  BY <1>1, <1>4, SMTT(30) DEF NewQueueSize
<1> QED  BY <1>1, <1>2, <1>3, <1>4, <1>5, SMTT(30) DEF size

(* copy() reads a generation.                                               *)
LEMMA ReadGenerationType ==
    ASSUME NEW s \in Subscribers, generation \in Int, last[s] \in Int, queue_size \in Int
    PROVE  ReadGeneration(s) \in 0 .. GenMod - 1
<1>1. GenMod \in Nat \ {0}
  BY GenModAssumption
<1> DEFINE gen == (last[s] - (IF last[s] = generation THEN 1 ELSE 0)) % GenMod
           oldest == (generation - queue_size) % GenMod
<1>2. gen \in 0 .. GenMod - 1
  <2>1. last[s] - (IF last[s] = generation THEN 1 ELSE 0) \in Int
    BY SMTT(30)
  <2> QED  BY <1>1, <2>1, ModQuotient
<1>3. oldest \in 0 .. GenMod - 1
  <2>1. generation - queue_size \in Int
    BY SMTT(30)
  <2> QED  BY <1>1, <2>1, ModQuotient
<1> QED  BY <1>2, <1>3 DEF ReadGeneration

(* Every step keeps the types.                                              *)
LEMMA TypeStep ==
    ASSUME IInv, [Next]_vars
    PROVE  TypeOK'
<1> USE DEF IInv
<1>1. ASSUME NEW p \in Publishers, Advertise(p)  PROVE  TypeOK'
  BY <1>1 DEF TypeOK, Advertise, node, history
<1>2. ASSUME NEW p \in Publishers, SetQueueSize(p)  PROVE  TypeOK'
  BY <1>2, NewSize DEF TypeOK, BufferInv, SetQueueSize, history
<1>3. ASSUME NEW p \in Publishers, Allocate(p)  PROVE  TypeOK'
  <2>1. queue_size \in Nat
    BY QueueSizeNat DEF TypeOK
  <2>2. data' \in [DOMAIN data' -> Nat]
    BY <1>3, <2>1 DEF TypeOK, Allocate
  <2> QED  BY <1>3, <2>2 DEF TypeOK, Allocate, history
<1>4. ASSUME NEW p \in Publishers, Write(p)  PROVE  TypeOK'
  <2>1. generation' \in 0 .. GenMod - 1
    BY <1>4, GenModAssumption, ModQuotient, SMTT(30) DEF TypeOK, Write
  <2>2. data' \in [DOMAIN data' -> Nat]
    <3>1. published + 1 \in Nat /\ data \in [DOMAIN data -> Nat]
      BY SMTT(30) DEF TypeOK
    <3>2. data' = [data EXCEPT ![generation % queue_size] = published + 1]
      BY <1>4 DEF Write
    <3> QED  BY <3>1, <3>2
  <2>3. sub' \in [Subscribers -> {"idle", "run", "try", "wait", "blocked", "woken", "copy", "increment"}]
    BY <1>4 DEF TypeOK, Write
  <2>4. scheduled' \subseteq WorkItems
    BY <1>4 DEF TypeOK, Write, Called
  <2>5. since' \in [Subscribers -> Nat]
    BY <1>4, SMTT(30) DEF TypeOK, Write, Forgotten
  <2> QED  BY <1>4, <2>1, <2>2, <2>3, <2>4, <2>5, SMTT(30) DEF TypeOK, Write
<1>5. ASSUME NEW p \in Publishers, Unadvertise(p)  PROVE  TypeOK'
  BY <1>5 DEF TypeOK, Unadvertise, Forgotten
<1>6. ASSUME NEW p \in Publishers, DestroyPublication(p)  PROVE  TypeOK'
  BY <1>6 DEF TypeOK, DestroyPublication, Forgotten
<1>7. ASSUME NEW s \in Subscribers, Subscribe(s)  PROVE  TypeOK'
  <2>1. InitialGeneration \in 0 .. GenMod - 1
    BY GenModAssumption, ModQuotient, SMTT(30) DEF TypeOK, InitialGeneration
  <2>2. last' \in [Subscribers -> 0 .. GenMod - 1]
    BY <1>7, <2>1 DEF TypeOK, Subscribe
  <2> QED  BY <1>7, <2>2, SMTT(30) DEF TypeOK, Subscribe, node
<1>8. ASSUME NEW s \in Subscribers, Unsubscribe(s)  PROVE  TypeOK'
  <2>1. 0 \in 0 .. GenMod - 1
    BY GenModAssumption, SMTT(30)
  <2> QED  BY <1>8, <2>1 DEF TypeOK, Unsubscribe, node
<1>9. ASSUME NEW s \in Subscribers, RegisterCallback(s)  PROVE  TypeOK'
  BY <1>9 DEF TypeOK, RegisterCallback, node
<1>10. ASSUME NEW s \in Subscribers, UnregisterCallback(s)  PROVE  TypeOK'
  BY <1>10 DEF TypeOK, UnregisterCallback, node
<1>11. ASSUME NEW s \in Subscribers, Update(s)  PROVE  TypeOK'
  BY <1>11 DEF TypeOK, Update, Goto, Local, node, history
<1>12. ASSUME NEW s \in Subscribers, Copy(s)  PROVE  TypeOK'
  BY <1>12 DEF TypeOK, Copy, Goto, Local, node, history
<1>13. ASSUME NEW s \in Subscribers, Run(s)  PROVE  TypeOK'
  BY <1>13 DEF TypeOK, Run, Goto, Local, node, history
<1>14. ASSUME NEW s \in Subscribers, RunUpdate(s)  PROVE  TypeOK'
  BY <1>14 DEF TypeOK, RunUpdate, Goto, Local, node, history
<1>15. ASSUME NEW s \in Subscribers, UpdateBlocking(s)  PROVE  TypeOK'
  BY <1>15 DEF TypeOK, UpdateBlocking, Goto, Local, node, history
<1>16. ASSUME NEW s \in Subscribers, CondWait(s)  PROVE  TypeOK'
  BY <1>16 DEF TypeOK, CondWait, Goto, Local, node, history
<1>17. ASSUME NEW s \in Subscribers, Timeout(s)  PROVE  TypeOK'
  BY <1>17 DEF TypeOK, Timeout, Goto, Local, node, history
<1>18. ASSUME NEW s \in Subscribers, Woken(s)  PROVE  TypeOK'
  BY <1>18 DEF TypeOK, Woken, Goto, Local, node, history
<1>19. ASSUME NEW s \in Subscribers, TryCopy(s)  PROVE  TypeOK'
  BY <1>19 DEF TypeOK, TryCopy, Goto, Local, node, history
<1>20. ASSUME NEW s \in Subscribers, CopyLatest(s)  PROVE  TypeOK'
  <2>1. data[0] \in Nat
    <3>1. 0 \in DOMAIN data
      BY <1>20, SMT DEF TypeOK, PlacesInv, BufferInv, BufferHasQueueSize, CopyLatest
    <3> QED  BY <3>1 DEF TypeOK
  <2> QED  BY <1>20, <2>1 DEF TypeOK, CopyLatest, Goto, Return, node
<1>21. ASSUME NEW s \in Subscribers, CopyQueued(s)  PROVE  TypeOK'
  <2>1. queue_size \in Nat \ {0}
    BY QueueSizeNat DEF TypeOK
  <2>2. ReadGeneration(s) \in 0 .. GenMod - 1
    BY <2>1, ReadGenerationType, SMTT(30) DEF TypeOK
  <2>3. ReadGeneration(s) % queue_size \in 0 .. queue_size - 1
    <3>1. ReadGeneration(s) \in Int
      BY <2>2, SMTT(30)
    <3> QED  BY <2>1, <3>1, ModQuotient
  <2>4. data[ReadGeneration(s) % queue_size] \in Nat
    <3>1. DOMAIN data = 0 .. queue_size - 1
      BY <1>21 DEF PlacesInv, BufferInv, BufferHasQueueSize, CopyQueued
    <3> QED  BY <2>3, <3>1 DEF TypeOK
  <2> QED  BY <1>21, <2>2, <2>4 DEF TypeOK, CopyQueued, Goto, node
<1>22. ASSUME NEW s \in Subscribers, Increment(s)  PROVE  TypeOK'
  <2>1. (last[s] + 1) % GenMod \in 0 .. GenMod - 1
    BY GenModAssumption, ModQuotient, SMTT(30) DEF TypeOK
  <2> QED  BY <1>22, <2>1 DEF TypeOK, Increment, Goto, Return, node, history
<1>23. CASE UNCHANGED vars
  BY <1>23 DEF TypeOK, vars, node, history
<1> QED  BY <1>1, <1>2, <1>3, <1>4, <1>5, <1>6, <1>7, <1>8, <1>9, <1>10, <1>11,
            <1>12, <1>13, <1>14, <1>15, <1>16, <1>17, <1>18, <1>19, <1>20, <1>21, <1>22, <1>23
         DEF Next, PublisherStep, Management, SubscriberStep

(* A function with an element in its domain is not NoData.                  *)
LEMMA NotNoData ==
    ASSUME NEW f, 0 \in DOMAIN f
    PROVE  f # NoData
  BY DEF NoData

(* An allocated buffer has as many slots as the queue size says.            *)
LEMMA AllocatedSlots ==
    ASSUME IInv, Allocated
    PROVE  /\ queue_size \in Nat \ {0}
           /\ DOMAIN data = 0 .. queue_size - 1
           /\ 0 \in DOMAIN data
<1>1. queue_size \in Nat \ {0}
  BY QueueSizeNat DEF IInv, TypeOK
<1>2. DOMAIN data = 0 .. queue_size - 1
  BY DEF IInv, BufferInv, BufferHasQueueSize
<1> QED  BY <1>1, <1>2, SMTT(30)

(* Every step keeps what the places of the threads imply of the buffer.     *)
LEMMA PlacesStep ==
    ASSUME IInv, [Next]_vars
    PROVE  PlacesInv'
<1> USE DEF IInv
<1>1. ASSUME NEW p \in Publishers, Advertise(p)  PROVE  PlacesInv'
  BY <1>1 DEF TypeOK, PlacesInv, Allocated, Advertise, node, history
<1>2. ASSUME NEW p \in Publishers, SetQueueSize(p)  PROVE  PlacesInv'
  <2>1. queue_size' = NewQueueSize(QueueSizeOf[p]) /\ (Allocated => queue_size' = queue_size)
    BY <1>2, NewSize DEF TypeOK, BufferInv, SetQueueSize
  <2>2. (Allocated)' <=> Allocated
    BY <1>2 DEF SetQueueSize, Allocated
  <2>3. \A s \in Subscribers : sub[s] = "increment" => queue_size' # 1
    BY <2>1 DEF PlacesInv
  <2> QED  BY <1>2, <2>2, <2>3 DEF TypeOK, PlacesInv, SetQueueSize
<1>3. ASSUME NEW p \in Publishers, Allocate(p)  PROVE  PlacesInv'
  <2>1. queue_size \in Nat \ {0}
    BY QueueSizeNat DEF TypeOK
  <2>2. Allocated'
    <3>1. CASE Allocated
      BY <1>3, <3>1 DEF Allocate, Allocated
    <3>2. CASE ~Allocated
      <4>1. data' = [slot \in 0 .. queue_size - 1 |-> 0]
        BY <1>3, <3>2 DEF Allocate
      <4>2. 0 \in DOMAIN data'
        BY <2>1, <4>1, SMTT(30)
      <4> QED  BY <4>2, NotNoData DEF Allocated
    <3> QED  BY <3>1, <3>2
  <2> QED  BY <1>3, <2>2 DEF TypeOK, PlacesInv, Allocate
<1>4. ASSUME NEW p \in Publishers, Write(p)  PROVE  PlacesInv'
  <2>1. Allocated
    BY <1>4 DEF PlacesInv, Write
  <2>2. 0 \in DOMAIN data'
    BY <1>4, <2>1, AllocatedSlots DEF Write
  <2>3. Allocated'
    BY <2>2, NotNoData DEF Allocated
  <2>4. \A s \in Subscribers : sub'[s] = sub[s] \/ (s \in callbacks \cap Blockers /\ sub'[s] = "woken")
    BY <1>4 DEF TypeOK, Write
  <2> QED  BY <1>4, <2>3, <2>4 DEF TypeOK, PlacesInv, Write
<1>5. ASSUME NEW p \in Publishers, Unadvertise(p)  PROVE  PlacesInv'
  BY <1>5 DEF TypeOK, PlacesInv, Allocated, Unadvertise, node, history
<1>6. ASSUME NEW p \in Publishers, DestroyPublication(p)  PROVE  PlacesInv'
  BY <1>6 DEF TypeOK, PlacesInv, Allocated, DestroyPublication, node, history
<1>7. ASSUME NEW s \in Subscribers, Subscribe(s)  PROVE  PlacesInv'
  BY <1>7 DEF TypeOK, PlacesInv, Allocated, Subscribe, node, history
<1>8. ASSUME NEW s \in Subscribers, Unsubscribe(s)  PROVE  PlacesInv'
  BY <1>8 DEF TypeOK, PlacesInv, Allocated, Unsubscribe, node, history
<1>9. ASSUME NEW s \in Subscribers, RegisterCallback(s)  PROVE  PlacesInv'
  BY <1>9 DEF TypeOK, PlacesInv, Allocated, RegisterCallback, node, history
<1>10. ASSUME NEW s \in Subscribers, UnregisterCallback(s)  PROVE  PlacesInv'
  BY <1>10 DEF TypeOK, PlacesInv, Allocated, UnregisterCallback, node, history
<1>11. ASSUME NEW s \in Subscribers, Update(s)  PROVE  PlacesInv'
  BY <1>11 DEF TypeOK, PlacesInv, Allocated, Update, Goto, Local, node, history
<1>12. ASSUME NEW s \in Subscribers, Copy(s)  PROVE  PlacesInv'
  BY <1>12 DEF TypeOK, PlacesInv, Allocated, Copy, Goto, Local, node, history
<1>13. ASSUME NEW s \in Subscribers, Run(s)  PROVE  PlacesInv'
  BY <1>13 DEF TypeOK, PlacesInv, Allocated, Run, Goto, Local, node, history
<1>14. ASSUME NEW s \in Subscribers, RunUpdate(s)  PROVE  PlacesInv'
  <2>1. s \in valid
    BY <1>14 DEF RunUpdate
  <2>2. \A t \in Subscribers : sub'[t] = sub[t] \/ (t = s /\ (sub'[t] = "idle" \/ (sub'[t] = "copy" /\ Allocated)))
    BY <1>14 DEF TypeOK, RunUpdate, Goto
  <2> QED  BY <1>14, <2>1, <2>2 DEF PlacesInv, RunUpdate, Local, node, Allocated
<1>15. ASSUME NEW s \in Subscribers, UpdateBlocking(s)  PROVE  PlacesInv'
  <2>1. s \in callbacks /\ s \in Blockers
    BY <1>15 DEF UpdateBlocking
  <2>2. \A t \in Subscribers : sub'[t] = sub[t] \/ (t = s /\ sub'[t] \in {"try", "wait"})
    BY <1>15 DEF TypeOK, UpdateBlocking, Goto
  <2> QED  BY <1>15, <2>1, <2>2 DEF PlacesInv, UpdateBlocking, Local, node, Allocated
<1>16. ASSUME NEW s \in Subscribers, CondWait(s)  PROVE  PlacesInv'
  BY <1>16 DEF TypeOK, PlacesInv, Allocated, CondWait, Goto, Local, node, history
<1>17. ASSUME NEW s \in Subscribers, Timeout(s)  PROVE  PlacesInv'
  BY <1>17 DEF TypeOK, PlacesInv, Allocated, Timeout, Goto, Local, node, history
<1>18. ASSUME NEW s \in Subscribers, Woken(s)  PROVE  PlacesInv'
  <2>1. s \in callbacks /\ s \in Blockers
    BY <1>18 DEF Woken, PlacesInv
  <2>2. \A t \in Subscribers : sub'[t] = sub[t] \/ (t = s /\ sub'[t] \in {"try", "idle"})
    BY <1>18 DEF TypeOK, Woken, Goto
  <2> QED  BY <1>18, <2>1, <2>2 DEF PlacesInv, Woken, Local, node, Allocated
<1>19. ASSUME NEW s \in Subscribers, TryCopy(s)  PROVE  PlacesInv'
  <2>1. s \in valid
    BY <1>19 DEF TypeOK, TryCopy, PlacesInv
  <2>2. \A t \in Subscribers : sub'[t] = sub[t] \/ (t = s /\ (sub'[t] = "idle" \/ (sub'[t] = "copy" /\ Allocated)))
    BY <1>19 DEF TypeOK, TryCopy, Goto
  <2> QED  BY <1>19, <2>1, <2>2 DEF PlacesInv, TryCopy, Local, node, Allocated
<1>20. ASSUME NEW s \in Subscribers, CopyLatest(s)  PROVE  PlacesInv'
  BY <1>20 DEF TypeOK, PlacesInv, Allocated, CopyLatest, Goto, Return, node, history
<1>21. ASSUME NEW s \in Subscribers, CopyQueued(s)  PROVE  PlacesInv'
  BY <1>21 DEF TypeOK, PlacesInv, Allocated, CopyQueued, Goto, Return, node, history
<1>22. ASSUME NEW s \in Subscribers, Increment(s)  PROVE  PlacesInv'
  BY <1>22 DEF TypeOK, PlacesInv, Allocated, Increment, Goto, Return, node, history
<1>23. CASE UNCHANGED vars
  BY <1>23 DEF TypeOK, PlacesInv, Allocated, vars, node, history
<1> QED  BY <1>1, <1>2, <1>3, <1>4, <1>5, <1>6, <1>7, <1>8, <1>9, <1>10, <1>11,
            <1>12, <1>13, <1>14, <1>15, <1>16, <1>17, <1>18, <1>19, <1>20, <1>21, <1>22, <1>23
         DEF Next, PublisherStep, Management, SubscriberStep

(* Every step keeps the last messages in their slots.                       *)
LEMMA BufferStep ==
    ASSUME IInv, [Next]_vars
    PROVE  BufferInv'
<1> USE DEF IInv
<1>1. ASSUME NEW p \in Publishers, Advertise(p)  PROVE  BufferInv'
  BY <1>1 DEF BufferInv, BufferHasQueueSize, Allocated, Advertise, node, history
<1>2. ASSUME NEW p \in Publishers, SetQueueSize(p)  PROVE  BufferInv'
  <2>1. /\ queue_size' = NewQueueSize(QueueSizeOf[p]) /\ (Allocated => queue_size' = queue_size)
        /\ GenMod % queue_size' = 0
    BY <1>2, NewSize DEF TypeOK, BufferInv, SetQueueSize
  <2>2. (Allocated)' <=> Allocated
    BY <1>2 DEF SetQueueSize, Allocated
  <2>3. CASE Allocated
    BY <1>2, <2>1, <2>2, <2>3 DEF BufferInv, BufferHasQueueSize, SetQueueSize, history
  <2>4. CASE ~Allocated
    <3>1. published = 0
      BY <2>4 DEF BufferInv
    <3> QED  BY <1>2, <2>1, <2>2, <2>4, <3>1, SMTT(30) DEF BufferInv, BufferHasQueueSize, SetQueueSize, history
  <2> QED  BY <2>3, <2>4
<1>3. ASSUME NEW p \in Publishers, Allocate(p)  PROVE  BufferInv'
  <2>1. CASE Allocated
    BY <1>3, <2>1 DEF BufferInv, BufferHasQueueSize, Allocated, Allocate, history
  <2>2. CASE ~Allocated
    <3>1. published = 0 /\ published' = 0
      BY <1>3, <2>2 DEF BufferInv, Allocate, history
    <3>2. data' = [slot \in 0 .. queue_size - 1 |-> 0]
      BY <1>3, <2>2 DEF Allocate
    <3>3. DOMAIN data' = 0 .. queue_size - 1 /\ \A slot \in DOMAIN data' : data'[slot] = 0
      BY <3>2
    <3> QED  BY <1>3, <3>1, <3>3, SMTT(30) DEF BufferInv, BufferHasQueueSize, Allocate
  <2> QED  BY <2>1, <2>2
<1>4. ASSUME NEW p \in Publishers, Write(p)  PROVE  BufferInv'
  <2> DEFINE q == queue_size
             slot == generation % q
  <2>1. Allocated
    BY <1>4 DEF PlacesInv, Write
  <2>2. q \in Nat \ {0} /\ q \in QueueSizes /\ DOMAIN data = 0 .. q - 1 /\ 0 \in DOMAIN data
    BY <2>1, AllocatedSlots DEF TypeOK
  <2>3. published \in Nat /\ GenMod \in Nat \ {0} /\ GenMod % q = 0
    BY GenModAssumption DEF TypeOK, BufferInv
  <2>4. slot = published % q
    <3>1. generation = published % GenMod
      BY DEF CounterInv
    <3>2. published \in Int
      BY <2>3, SMTT(30)
    <3> QED  BY <2>2, <2>3, <3>1, <3>2, ModMod
  <2>5. slot \in DOMAIN data
    <3>1. published \in Int
      BY <2>3, SMTT(30)
    <3>2. published % q \in 0 .. q - 1
      BY <2>2, <3>1, ModQuotient
    <3> QED  BY <2>2, <2>4, <3>2
  <2>6. /\ data' = [data EXCEPT ![slot] = published + 1] /\ published' = published + 1
        /\ data_valid' = TRUE /\ queue_size' = q
    BY <1>4 DEF Write
  <2>7. DOMAIN data' = DOMAIN data /\ Allocated'
    <3>1. DOMAIN data' = DOMAIN data
      BY <2>6
    <3>2. 0 \in DOMAIN data'
      BY <2>2, <3>1
    <3> QED  BY <3>1, <3>2, NotNoData DEF Allocated
  <2> HIDE DEF q, slot
  <2>8. ASSUME NEW n \in 1 .. published + 1, published + 1 < n + q
        PROVE  data'[(n - 1) % q] = n
    <3>1. CASE n = published + 1
      <4>1. n - 1 = published
        BY <2>3, <3>1, SMTT(30)
      <4> QED  BY <2>4, <2>5, <2>6, <3>1, <4>1
    <3>2. CASE n # published + 1
      <4>1. n - 1 \in Nat /\ n - 1 < published /\ published < (n - 1) + q /\ published < n + q /\ n \in 1 .. published
        BY <2>2, <2>3, <2>8, <3>2, SMTT(30)
      <4>2. (n - 1) % q # slot
        BY <2>2, <2>3, <2>4, <4>1, ModDistinct
      <4>3. data[(n - 1) % q] = n
        BY <4>1 DEF BufferInv, q
      <4> QED  BY <2>6, <4>2, <4>3, SMTT(30)
    <3> QED  BY <3>1, <3>2
  <2>9. BufferHasQueueSize'
    BY <2>2, <2>6, <2>7 DEF BufferHasQueueSize, q
  <2> QED  BY <2>3, <2>6, <2>7, <2>8, <2>9, SMTT(30) DEF BufferInv, q
<1>5. ASSUME NEW p \in Publishers, Unadvertise(p)  PROVE  BufferInv'
  BY <1>5 DEF BufferInv, BufferHasQueueSize, Allocated, Unadvertise
<1>6. ASSUME NEW p \in Publishers, DestroyPublication(p)  PROVE  BufferInv'
  BY <1>6 DEF BufferInv, BufferHasQueueSize, Allocated, DestroyPublication
<1>7. ASSUME NEW s \in Subscribers, Subscribe(s)  PROVE  BufferInv'
  BY <1>7 DEF BufferInv, BufferHasQueueSize, Allocated, Subscribe, node, history
<1>8. ASSUME NEW s \in Subscribers, Unsubscribe(s)  PROVE  BufferInv'
  BY <1>8 DEF BufferInv, BufferHasQueueSize, Allocated, Unsubscribe, node, history
<1>9. ASSUME NEW s \in Subscribers, RegisterCallback(s)  PROVE  BufferInv'
  BY <1>9 DEF BufferInv, BufferHasQueueSize, Allocated, RegisterCallback, node, history
<1>10. ASSUME NEW s \in Subscribers, UnregisterCallback(s)  PROVE  BufferInv'
  BY <1>10 DEF BufferInv, BufferHasQueueSize, Allocated, UnregisterCallback, node, history
<1>11. ASSUME NEW s \in Subscribers, Update(s)  PROVE  BufferInv'
  BY <1>11 DEF BufferInv, BufferHasQueueSize, Allocated, Update, Local, node, history
<1>12. ASSUME NEW s \in Subscribers, Copy(s)  PROVE  BufferInv'
  BY <1>12 DEF BufferInv, BufferHasQueueSize, Allocated, Copy, Local, node, history
<1>13. ASSUME NEW s \in Subscribers, Run(s)  PROVE  BufferInv'
  BY <1>13 DEF BufferInv, BufferHasQueueSize, Allocated, Run, Local, node, history
<1>14. ASSUME NEW s \in Subscribers, RunUpdate(s)  PROVE  BufferInv'
  BY <1>14 DEF BufferInv, BufferHasQueueSize, Allocated, RunUpdate, Local, node, history
<1>15. ASSUME NEW s \in Subscribers, UpdateBlocking(s)  PROVE  BufferInv'
  BY <1>15 DEF BufferInv, BufferHasQueueSize, Allocated, UpdateBlocking, Local, node, history
<1>16. ASSUME NEW s \in Subscribers, CondWait(s)  PROVE  BufferInv'
  BY <1>16 DEF BufferInv, BufferHasQueueSize, Allocated, CondWait, Local, node, history
<1>17. ASSUME NEW s \in Subscribers, Timeout(s)  PROVE  BufferInv'
  BY <1>17 DEF BufferInv, BufferHasQueueSize, Allocated, Timeout, Local, node, history
<1>18. ASSUME NEW s \in Subscribers, Woken(s)  PROVE  BufferInv'
  BY <1>18 DEF BufferInv, BufferHasQueueSize, Allocated, Woken, Local, node, history
<1>19. ASSUME NEW s \in Subscribers, TryCopy(s)  PROVE  BufferInv'
  BY <1>19 DEF BufferInv, BufferHasQueueSize, Allocated, TryCopy, Local, node, history
<1>20. ASSUME NEW s \in Subscribers, CopyLatest(s)  PROVE  BufferInv'
  BY <1>20 DEF BufferInv, BufferHasQueueSize, Allocated, CopyLatest, node, history
<1>21. ASSUME NEW s \in Subscribers, CopyQueued(s)  PROVE  BufferInv'
  BY <1>21 DEF BufferInv, BufferHasQueueSize, Allocated, CopyQueued, node, history
<1>22. ASSUME NEW s \in Subscribers, Increment(s)  PROVE  BufferInv'
  BY <1>22 DEF BufferInv, BufferHasQueueSize, Allocated, Increment, node, history
<1>23. CASE UNCHANGED vars
  BY <1>23 DEF BufferInv, BufferHasQueueSize, Allocated, vars, node, history
<1> QED  BY <1>1, <1>2, <1>3, <1>4, <1>5, <1>6, <1>7, <1>8, <1>9, <1>10, <1>11,
            <1>12, <1>13, <1>14, <1>15, <1>16, <1>17, <1>18, <1>19, <1>20, <1>21, <1>22, <1>23
         DEF Next, PublisherStep, Management, SubscriberStep

(* The message that copy() reads from a queue: the next unread one, or the  *)
(* oldest that is kept, or the latest one again.  x + 1 is the message and  *)
(* x the generation, before it is reduced.                                  *)
LEMMA CopiedFromQueue ==
    ASSUME IInv, NEW s \in Subscribers, CopyQueued(s)
    PROVE  LET x == IF seen[s] = published THEN published - 1
                    ELSE IF published - seen[s] <= queue_size THEN seen[s]
                    ELSE published - queue_size
           IN  seen'[s] = x + 1 /\ last'[s] = x % GenMod
<1> DEFINE N == GenMod
           q == queue_size
           d == published - seen[s]
           x == IF seen[s] = published THEN published - 1
                ELSE IF d <= q THEN seen[s] ELSE published - q
<1>1. /\ Allocated /\ s \in valid /\ sub[s] = "copy"
      /\ q # 1 /\ published \in Nat /\ seen[s] \in Nat
  BY DEF IInv, PlacesInv, CopyQueued, TypeOK
<1>2. /\ q \in QueueSizes /\ q \in Nat \ {0} /\ DOMAIN data = 0 .. q - 1
      /\ N \in Nat \ {0} /\ N % q = 0
  BY <1>1, AllocatedSlots, GenModAssumption DEF IInv, TypeOK, BufferInv
<1>3. q \in 2 .. N
  BY <1>1, <1>2, SMTT(30) DEF QueueSizes
<1>4. /\ generation = published % N /\ last[s] = seen[s] % N
      /\ seen[s] <= published /\ published < seen[s] + N
  BY <1>1 DEF IInv, CounterInv
<1>5. (generation - q) % N = (published - q) % N /\ (generation - 1) % N = (published - 1) % N
  <2>1. -q \in Int /\ -1 \in Int /\ published \in Int
    BY <1>1, <1>2, SMTT(30)
  <2>2. (generation + (-q)) % N = (published + (-q)) % N /\ (generation + (-1)) % N = (published + (-1)) % N
    BY <1>2, <1>4, <2>1, ModStep
  <2>3. generation \in Int
    BY SMTT(30) DEF IInv, TypeOK
  <2>4. /\ generation + (-q) = generation - q /\ generation + (-1) = generation - 1
        /\ published + (-q) = published - q /\ published + (-1) = published - 1
    BY <1>2, <2>1, <2>3
  <2> QED  BY <2>2, <2>4
<1>6. ReadGeneration(s) = x % N
  <2> DEFINE gen == (last[s] - (IF last[s] = generation THEN 1 ELSE 0)) % N
             inrange == IsInRange((published - q) % N, gen, (published - 1) % N)
  <2>1. ReadGeneration(s) = IF inrange THEN gen ELSE (published - q) % N
    BY <1>5 DEF ReadGeneration
  <2>2. CASE seen[s] = published
    <3>1. gen = (published - 1) % N
      BY <1>4, <1>5, <2>2
    <3>2. 1 \in 1 .. N /\ 1 <= q /\ published \in Int
      BY <1>1, <1>2, SMTT(30)
    <3>3. inrange
      BY <1>2, <1>3, <3>1, <3>2, InRange
    <3> QED  BY <2>1, <2>2, <3>1, <3>3
  <2>3. CASE seen[s] # published
    <3>1. d \in 1 .. N /\ d \in 1 .. N - 1 /\ published - d = seen[s] /\ published \in Int /\ seen[s] \in Int
      BY <1>1, <1>2, <1>4, <2>3, SMTT(30)
    <3>2. last[s] # generation
      <4>1. ((published % N) - (seen[s] % N)) % N = d
        BY <1>2, <1>4, <3>1, ModDifference
      <4>2. published % N \in Int
        BY <1>2, <3>1, ModQuotient, SMTT(30)
      <4>3. (published % N) - (published % N) = 0 /\ 0 % N = 0
        BY <1>2, <4>2, SMTT(30)
      <4> QED  BY <1>4, <3>1, <4>1, <4>3, SMTT(30)
    <3>3. gen = seen[s] % N
      <4>1. last[s] \in 0 .. N - 1
        BY DEF IInv, TypeOK
      <4>2. last[s] - 0 = last[s] /\ N * 0 + last[s] = last[s]
        BY <1>2, <4>1, SMTT(30)
      <4>3. (N * 0 + last[s]) % N = last[s]
        BY <1>2, <4>1, ModUnique, SMTT(30)
      <4> QED  BY <1>4, <3>2, <4>2, <4>3
    <3>4. inrange <=> d <= q
      <4>1. IsInRange((published - q) % N, (published - d) % N, (published - 1) % N) <=> d <= q
        BY <1>2, <1>3, <3>1, InRange
      <4> QED  BY <3>1, <3>3, <4>1
    <3> HIDE DEF gen, inrange
    <3> QED  BY <2>1, <2>3, <3>3, <3>4
  <2> QED  BY <2>2, <2>3
<1>7. x \in Int
  BY <1>1, <1>2, SMTT(30)
<1>8. ReadGeneration(s) % q = x % q
  <2> HIDE DEF x
  <2>1. (x % N) % q = x % q
    <3> HIDE DEF N, q
    <3> QED  BY <1>2, <1>7, ModMod
  <2> QED  BY <1>6, <2>1
<1>9. data[x % q] = x + 1
  <2>1. CASE published = 0
    <3>1. x = -1
      BY <1>1, <1>4, <2>1, SMTT(30)
    <3>2. x % q \in 0 .. q - 1
      BY <1>2, <1>7, ModQuotient
    <3> QED  BY <1>2, <2>1, <3>1, <3>2, SMTT(30) DEF IInv, BufferInv
  <2>2. CASE published # 0
    <3>1. x + 1 \in 1 .. published /\ published < (x + 1) + q /\ (x + 1) - 1 = x
      <4>1. CASE seen[s] = published
        <5>1. x = published - 1
          BY <4>1
        <5> HIDE DEF x, q
        <5> QED  BY <1>1, <1>2, <2>2, <5>1, SMTT(30)
      <4>2. CASE seen[s] # published /\ d <= q
        <5>1. x = seen[s] /\ published - seen[s] <= q
          BY <4>2
        <5>2. seen[s] < published
          BY <1>1, <1>4, <4>2, SMTT(30)
        <5> HIDE DEF x, q
        <5> QED  BY <1>1, <1>2, <5>1, <5>2, SMTT(30)
      <4>3. CASE seen[s] # published /\ ~(d <= q)
        <5>1. x = published - q /\ ~(published - seen[s] <= q)
          BY <4>3
        <5> HIDE DEF x, q
        <5> QED  BY <1>1, <1>2, <5>1, SMTT(30)
      <4> QED  BY <4>1, <4>2, <4>3
    <3>2. data[((x + 1) - 1) % q] = x + 1
      <4> HIDE DEF x
      <4> QED  BY <3>1 DEF IInv, BufferInv
    <3> QED  BY <3>1, <3>2
  <2> QED  BY <2>1, <2>2
<1>10. seen'[s] = data[ReadGeneration(s) % q] /\ last'[s] = ReadGeneration(s)
  BY DEF CopyQueued, IInv, TypeOK
<1> HIDE DEF x
<1>11. seen'[s] = x + 1 /\ last'[s] = x % N
  BY <1>6, <1>8, <1>9, <1>10
<1> QED  BY <1>11 DEF x

(* Without a queue it is the latest message.                                *)
LEMMA CopiedLatest ==
    ASSUME IInv, NEW s \in Subscribers, CopyLatest(s)
    PROVE  seen'[s] = published /\ last'[s] = generation
<1>1. Allocated /\ queue_size = 1 /\ published \in Nat
  BY DEF IInv, PlacesInv, CopyLatest, TypeOK
<1>2. 0 \in DOMAIN data
  BY <1>1, AllocatedSlots
<1>3. data[0] = published
  <2>1. CASE published = 0
    BY <1>2, <2>1 DEF IInv, BufferInv
  <2>2. CASE published # 0
    <3>1. published \in 1 .. published /\ (published - 1) % 1 = 0 /\ published < published + 1
      BY <1>1, <2>2, SMTT(30)
    <3> QED  BY <1>1, <3>1 DEF IInv, BufferInv
  <2> QED  BY <2>1, <2>2
<1> QED  BY <1>3 DEF CopyLatest, IInv, TypeOK

(* Every step keeps the counters in line with the messages they count.      *)
LEMMA CounterStep ==
    ASSUME IInv, [Next]_vars
    PROVE  CounterInv'
<1> USE DEF IInv
<1>1. ASSUME NEW p \in Publishers, Advertise(p)  PROVE  CounterInv'
  BY <1>1 DEF TypeOK, CounterInv, Advertise, node, history
<1>2. ASSUME NEW p \in Publishers, SetQueueSize(p)  PROVE  CounterInv'
  BY <1>2 DEF CounterInv, SetQueueSize, history
<1>3. ASSUME NEW p \in Publishers, Allocate(p)  PROVE  CounterInv'
  BY <1>3 DEF CounterInv, Allocate, history
<1>4. ASSUME NEW p \in Publishers, Write(p)  PROVE  CounterInv'
  <2>1. published \in Nat /\ published \in Int /\ GenMod \in Nat \ {0} /\ 1 \in Int
    BY GenModAssumption, SMTT(30) DEF TypeOK
  <2>2. generation' = (published + 1) % GenMod
    <3>1. ((published % GenMod) + 1) % GenMod = (published + 1) % GenMod
      BY <2>1, ModStep
    <3> QED  BY <1>4, <3>1 DEF CounterInv, Write
  <2>3. \A s \in valid : /\ seen[s] \in Nat /\ published + 1 < seen[s] + GenMod
                         /\ (sub'[s] = "increment" <=> sub[s] = "increment")
    BY <1>4, <2>1, SMTT(30) DEF TypeOK, Write, NoFullTurn
  <2> QED  BY <1>4, <2>1, <2>2, <2>3, SMTT(30) DEF CounterInv, Write
<1>5. ASSUME NEW p \in Publishers, Unadvertise(p)  PROVE  CounterInv'
  BY <1>5 DEF CounterInv, Unadvertise
<1>6. ASSUME NEW p \in Publishers, DestroyPublication(p)  PROVE  CounterInv'
  BY <1>6 DEF CounterInv, DestroyPublication
<1>7. ASSUME NEW s \in Subscribers, Subscribe(s)  PROVE  CounterInv'
  <2>1. published \in Nat /\ GenMod \in Nat \ {0, 1} /\ generation = published % GenMod /\ sub[s] # "increment"
    BY <1>7, GenModAssumption DEF TypeOK, CounterInv, PlacesInv, Subscribe
  <2>2. /\ valid' = valid \cup {s} /\ \A t \in valid : t # s /\ seen'[t] = seen[t] /\ last'[t] = last[t]
        /\ seen'[s] = (IF published = 0 THEN 0 ELSE published - 1) /\ last'[s] = InitialGeneration
        /\ UNCHANGED <<generation, published, sub>>
    BY <1>7 DEF TypeOK, Subscribe, node
  <2>3. InitialGeneration = seen'[s] % GenMod
    <3>1. CASE published = 0
      <4>1. 0 % GenMod = 0 /\ ~data_valid
        BY <2>1, <3>1, SMTT(30) DEF BufferInv
      <4> QED  BY <2>1, <2>2, <3>1, <4>1, SMTT(30) DEF InitialGeneration
    <3>2. CASE published # 0
      <4>1. data_valid /\ published \in Int /\ -1 \in Int
        BY <2>1, <3>2, SMTT(30) DEF BufferInv
      <4>2. ((published % GenMod) + (-1)) % GenMod = (published + (-1)) % GenMod
        BY <2>1, <4>1, ModStep
      <4>3. (published % GenMod) + (-1) = generation - 1 /\ published + (-1) = published - 1
        BY <2>1, <4>1, ModQuotient
      <4>4. (generation - 1) % GenMod = (published - 1) % GenMod
        BY <4>2, <4>3
      <4> QED  BY <2>2, <3>2, <4>1, <4>4 DEF InitialGeneration
    <3> QED  BY <3>1, <3>2
  <2>4. seen'[s] <= published /\ published < seen'[s] + GenMod
    BY <2>1, <2>2, SMTT(30)
  <2> QED  BY <2>1, <2>2, <2>3, <2>4 DEF CounterInv
<1>8. ASSUME NEW s \in Subscribers, Unsubscribe(s)  PROVE  CounterInv'
  BY <1>8 DEF TypeOK, CounterInv, Unsubscribe, node, history
<1>9. ASSUME NEW s \in Subscribers, RegisterCallback(s)  PROVE  CounterInv'
  BY <1>9 DEF CounterInv, RegisterCallback, node
<1>10. ASSUME NEW s \in Subscribers, UnregisterCallback(s)  PROVE  CounterInv'
  BY <1>10 DEF CounterInv, UnregisterCallback, node
<1>11. ASSUME NEW s \in Subscribers, Update(s)  PROVE  CounterInv'
  <2>1. \A t \in Subscribers : sub'[t] = "increment" <=> sub[t] = "increment"
    BY <1>11 DEF TypeOK, Update, Goto
  <2> QED  BY <1>11, <2>1 DEF TypeOK, CounterInv, Update, Local, node, history
<1>12. ASSUME NEW s \in Subscribers, Copy(s)  PROVE  CounterInv'
  <2>1. \A t \in Subscribers : sub'[t] = "increment" <=> sub[t] = "increment"
    BY <1>12 DEF TypeOK, Copy, Goto
  <2> QED  BY <1>12, <2>1 DEF TypeOK, CounterInv, Copy, Local, node, history
<1>13. ASSUME NEW s \in Subscribers, Run(s)  PROVE  CounterInv'
  <2>1. \A t \in Subscribers : sub'[t] = "increment" <=> sub[t] = "increment"
    BY <1>13 DEF TypeOK, Run, Goto
  <2> QED  BY <1>13, <2>1 DEF TypeOK, CounterInv, Run, Local, node, history
<1>14. ASSUME NEW s \in Subscribers, RunUpdate(s)  PROVE  CounterInv'
  <2>1. \A t \in Subscribers : sub'[t] = "increment" <=> sub[t] = "increment"
    BY <1>14 DEF TypeOK, RunUpdate, Goto
  <2> QED  BY <1>14, <2>1 DEF TypeOK, CounterInv, RunUpdate, Local, node, history
<1>15. ASSUME NEW s \in Subscribers, UpdateBlocking(s)  PROVE  CounterInv'
  <2>1. \A t \in Subscribers : sub'[t] = "increment" <=> sub[t] = "increment"
    BY <1>15 DEF TypeOK, UpdateBlocking, Goto
  <2> QED  BY <1>15, <2>1 DEF TypeOK, CounterInv, UpdateBlocking, Local, node, history
<1>16. ASSUME NEW s \in Subscribers, CondWait(s)  PROVE  CounterInv'
  <2>1. \A t \in Subscribers : sub'[t] = "increment" <=> sub[t] = "increment"
    BY <1>16 DEF TypeOK, CondWait, Goto
  <2> QED  BY <1>16, <2>1 DEF TypeOK, CounterInv, CondWait, Local, node, history
<1>17. ASSUME NEW s \in Subscribers, Timeout(s)  PROVE  CounterInv'
  <2>1. \A t \in Subscribers : sub'[t] = "increment" <=> sub[t] = "increment"
    BY <1>17 DEF TypeOK, Timeout, Goto
  <2> QED  BY <1>17, <2>1 DEF TypeOK, CounterInv, Timeout, Local, node, history
<1>18. ASSUME NEW s \in Subscribers, Woken(s)  PROVE  CounterInv'
  <2>1. \A t \in Subscribers : sub'[t] = "increment" <=> sub[t] = "increment"
    BY <1>18 DEF TypeOK, Woken, Goto
  <2> QED  BY <1>18, <2>1 DEF TypeOK, CounterInv, Woken, Local, node, history
<1>19. ASSUME NEW s \in Subscribers, TryCopy(s)  PROVE  CounterInv'
  <2>1. \A t \in Subscribers : sub'[t] = "increment" <=> sub[t] = "increment"
    BY <1>19 DEF TypeOK, TryCopy, Goto
  <2> QED  BY <1>19, <2>1 DEF TypeOK, CounterInv, TryCopy, Local, node, history
<1>20. ASSUME NEW s \in Subscribers, CopyLatest(s)  PROVE  CounterInv'
  <2>1. /\ seen'[s] = published /\ last'[s] = generation /\ sub'[s] # "increment"
        /\ published \in Nat /\ GenMod \in Nat \ {0, 1}
    BY <1>20, CopiedLatest, GenModAssumption DEF CopyLatest, Goto, Return, TypeOK
  <2>2. \A t \in Subscribers : t # s => seen'[t] = seen[t] /\ last'[t] = last[t] /\ sub'[t] = sub[t]
    BY <1>20 DEF CopyLatest, Goto, TypeOK
  <2>3. UNCHANGED <<generation, published, valid>> /\ valid \subseteq Subscribers
    BY <1>20 DEF CopyLatest, node, TypeOK
  <2> QED  BY <2>1, <2>2, <2>3, SMTT(30) DEF CounterInv
<1>21. ASSUME NEW s \in Subscribers, CopyQueued(s)  PROVE  CounterInv'
  <2> DEFINE x == IF seen[s] = published THEN published - 1
                  ELSE IF published - seen[s] <= queue_size THEN seen[s]
                  ELSE published - queue_size
  <2>1. /\ seen'[s] = x + 1 /\ last'[s] = x % GenMod /\ sub'[s] = "increment"
    BY <1>21, CopiedFromQueue DEF CopyQueued, Goto, TypeOK
  <2>2. /\ published \in Nat /\ seen[s] \in Nat /\ queue_size \in Nat \ {0}
        /\ seen[s] <= published /\ published < seen[s] + GenMod /\ GenMod \in Nat
    BY <1>21, QueueSizeNat, GenModAssumption DEF TypeOK, CounterInv, PlacesInv, CopyQueued
  <2>3. seen'[s] <= published /\ published < seen'[s] + GenMod /\ seen'[s] - 1 = x
    BY <2>1, <2>2, SMTT(30)
  <2> HIDE DEF x
  <2>4. last'[s] = (seen'[s] - 1) % GenMod
    BY <2>1, <2>3
  <2>5. \A t \in Subscribers : t # s => seen'[t] = seen[t] /\ last'[t] = last[t] /\ sub'[t] = sub[t]
    BY <1>21 DEF CopyQueued, Goto, TypeOK
  <2>6. UNCHANGED <<generation, published, valid>> /\ valid \subseteq Subscribers
    BY <1>21 DEF CopyQueued, node, TypeOK
  <2> QED  BY <2>1, <2>3, <2>4, <2>5, <2>6 DEF CounterInv
<1>22. ASSUME NEW s \in Subscribers, Increment(s)  PROVE  CounterInv'
  <2>1. s \in valid /\ last[s] = (seen[s] - 1) % GenMod
    BY <1>22 DEF PlacesInv, CounterInv, Increment
  <2>2. last'[s] = seen[s] % GenMod
    <3>1. seen[s] - 1 \in Int /\ (seen[s] - 1) + 1 = seen[s] /\ GenMod \in Nat \ {0} /\ 1 \in Int
      BY GenModAssumption, SMTT(30) DEF TypeOK
    <3>2. (((seen[s] - 1) % GenMod) + 1) % GenMod = ((seen[s] - 1) + 1) % GenMod
      BY <3>1, ModStep
    <3> QED  BY <1>22, <2>1, <3>1, <3>2 DEF Increment, TypeOK
  <2>3. sub'[s] # "increment" /\ \A t \in Subscribers : t # s => last'[t] = last[t] /\ sub'[t] = sub[t]
    BY <1>22 DEF Increment, Goto, Return, TypeOK
  <2>4. UNCHANGED <<generation, published, valid, seen>> /\ valid \subseteq Subscribers
    BY <1>22 DEF Increment, node, history, TypeOK
  <2> QED  BY <2>1, <2>2, <2>3, <2>4 DEF CounterInv
<1>23. CASE UNCHANGED vars
  BY <1>23 DEF TypeOK, CounterInv, vars, node, history
<1> QED  BY <1>1, <1>2, <1>3, <1>4, <1>5, <1>6, <1>7, <1>8, <1>9, <1>10, <1>11,
            <1>12, <1>13, <1>14, <1>15, <1>16, <1>17, <1>18, <1>19, <1>20, <1>21, <1>22, <1>23
         DEF Next, PublisherStep, Management, SubscriberStep

(* What updates_available() computes is the number of unread messages.      *)
LEMMA AvailableCounts ==
    ASSUME IInv, NEW s \in valid, sub[s] # "increment",
           NEW n \in Nat, published <= n, n < seen[s] + GenMod
    PROVE  Available(n % GenMod, s) = n - seen[s]
<1>1. last[s] = seen[s] % GenMod /\ seen[s] <= published
  BY DEF IInv, CounterInv
<1>2. /\ GenMod \in Nat \ {0} /\ n \in Int /\ seen[s] \in Int /\ seen[s] <= n
  BY <1>1, GenModAssumption, SMTT(30) DEF IInv, TypeOK
<1>3. ((n % GenMod) - (seen[s] % GenMod)) % GenMod = n - seen[s]
  BY <1>2, ModDifference
<1> QED  BY <1>1, <1>3 DEF Available

(* No step leaves a work item idle with the messages it waits for.          *)
LEMMA WakeStep ==
    ASSUME IInv, [Next]_vars
    PROVE  WakeInv'
<1> USE DEF IInv
<1>1. ASSUME NEW p \in Publishers, Advertise(p)  PROVE  WakeInv'
  BY <1>1 DEF TypeOK, WakeInv, WakeupNotLost, Advertise, node, history
<1>2. ASSUME NEW p \in Publishers, SetQueueSize(p)  PROVE  WakeInv'
  BY <1>2 DEF TypeOK, WakeInv, WakeupNotLost, SetQueueSize, node, history
<1>3. ASSUME NEW p \in Publishers, Allocate(p)  PROVE  WakeInv'
  BY <1>3 DEF TypeOK, WakeInv, WakeupNotLost, Allocate, node, history
<1>4. ASSUME NEW p \in Publishers, Write(p)  PROVE  WakeInv'
  <2>1. /\ published \in Nat /\ published' = published + 1 /\ published + 1 \in Nat
        /\ UNCHANGED <<advertised, callbacks, valid, seen>> /\ callbacks \subseteq valid
    BY <1>4, SMTT(30) DEF TypeOK, Write
  <2>2. generation' = (published + 1) % GenMod
    BY <1>4, <2>1, CounterStep DEF CounterInv, Next, PublisherStep
  <2>3. CASE ~advertised
    <3>1. \A s \in callbacks \cap WorkItems : since'[s] = published + 1
      BY <1>4, <2>3 DEF TypeOK, Write, Forgotten
    <3> QED  BY <2>1, <2>3, <3>1, SMTT(30) DEF WakeInv, WakeupNotLost
  <2>4. CASE advertised
    <3>1. ASSUME NEW s \in callbacks \cap WorkItems, sub'[s] = "idle",
                 published + 1 > seen[s], published + 1 - seen[s] >= Required
          PROVE  s \in scheduled'
      <4>1. sub[s] = "idle" /\ s \in valid /\ s \in Subscribers
        BY <1>4, <2>1, <3>1 DEF TypeOK, Write, Subscribers
      <4>2. seen[s] \in Nat /\ published + 1 < seen[s] + GenMod /\ published <= published + 1
        BY <1>4, <2>1, <4>1, GenModAssumption, SMTT(30) DEF TypeOK, Write, NoFullTurn
      <4>3. Available(generation', s) = published + 1 - seen[s]
        BY <2>1, <2>2, <4>1, <4>2, AvailableCounts, SMTT(30)
      <4>4. Available(generation', s) >= Required /\ Available(generation', s) # 0
        BY <2>1, <3>1, <4>2, <4>3, SMTT(30)
      <4>5. s \in Called(generation')
        BY <2>4, <3>1, <4>4 DEF Called
      <4> QED  BY <1>4, <4>5 DEF Write
    <3>2. WakeupNotLost'
      <4> SUFFICES ASSUME NEW s \in callbacks' \cap WorkItems, sub'[s] = "idle",
                          published' > seen'[s], published' - seen'[s] >= Required
                   PROVE  s \in scheduled'
        BY DEF WakeupNotLost
      <4>1. callbacks' = callbacks /\ seen' = seen /\ published' = published + 1
        BY <2>1
      <4>2. seen[s] \in Nat
        BY <2>1, <4>1 DEF TypeOK, Subscribers
      <4>3. s \in callbacks \cap WorkItems
        BY <4>1
      <4>4. published + 1 > seen[s]
        BY <4>1
      <4>5. published + 1 - seen[s] >= Required
        BY <2>1, <4>1, <4>2, RequiredAssumption, SMTT(30)
      <4> QED  BY <3>1, <4>3, <4>4, <4>5
    <3> QED  BY <2>1, <2>4, <3>2 DEF WakeInv
  <2> QED  BY <2>3, <2>4
<1>5. ASSUME NEW p \in Publishers, Unadvertise(p)  PROVE  WakeInv'
  <2>1. \A s \in callbacks \cap WorkItems : since'[s] = published
    BY <1>5 DEF TypeOK, Unadvertise, Forgotten
  <2> QED  BY <1>5, <2>1, SMTT(30) DEF TypeOK, WakeInv, WakeupNotLost, Unadvertise
<1>6. ASSUME NEW p \in Publishers, DestroyPublication(p)  PROVE  WakeInv'
  <2>1. queue_size = 1 => \A s \in callbacks \cap WorkItems : since'[s] = published
    BY <1>6 DEF TypeOK, DestroyPublication, Forgotten
  <2> QED  BY <1>6, <2>1, SMTT(30) DEF TypeOK, WakeInv, WakeupNotLost, DestroyPublication
<1>7. ASSUME NEW s \in Subscribers, Subscribe(s)  PROVE  WakeInv'
  BY <1>7 DEF TypeOK, WakeInv, WakeupNotLost, Subscribe, node, history
<1>8. ASSUME NEW s \in Subscribers, Unsubscribe(s)  PROVE  WakeInv'
  BY <1>8 DEF TypeOK, WakeInv, WakeupNotLost, Unsubscribe, node, history
<1>9. ASSUME NEW s \in Subscribers, RegisterCallback(s)  PROVE  WakeInv'
  BY <1>9, SMTT(30) DEF TypeOK, WakeInv, WakeupNotLost, RegisterCallback, node, history
<1>10. ASSUME NEW s \in Subscribers, UnregisterCallback(s)  PROVE  WakeInv'
  BY <1>10 DEF TypeOK, WakeInv, WakeupNotLost, UnregisterCallback, node, history
<1>11. ASSUME NEW s \in Subscribers, Update(s)  PROVE  WakeInv'
  <2>1. sub'[s] # "idle" /\ \A t \in Subscribers : t # s => sub'[t] = sub[t]
    BY <1>11 DEF TypeOK, Update, Goto
  <2> QED  BY <1>11, <2>1 DEF WakeInv, WakeupNotLost, Update, Local, node, history, Subscribers
<1>12. ASSUME NEW s \in Subscribers, Copy(s)  PROVE  WakeInv'
  <2>1. sub'[s] # "idle" /\ \A t \in Subscribers : t # s => sub'[t] = sub[t]
    BY <1>12 DEF TypeOK, Copy, Goto
  <2> QED  BY <1>12, <2>1 DEF WakeInv, WakeupNotLost, Copy, Local, node, history, Subscribers
<1>13. ASSUME NEW s \in Subscribers, Run(s)  PROVE  WakeInv'
  <2>1. sub'[s] # "idle" /\ \A t \in Subscribers : t # s => sub'[t] = sub[t]
    BY <1>13 DEF TypeOK, Run, Goto
  <2> QED  BY <1>13, <2>1 DEF WakeInv, WakeupNotLost, Run, Local, node, history, Subscribers
<1>14. ASSUME NEW s \in Subscribers, RunUpdate(s)  PROVE  WakeInv'
  <2>1. \A t \in Subscribers : t # s => sub'[t] = sub[t]
    BY <1>14 DEF TypeOK, RunUpdate, Goto
  <2>2. UNCHANGED <<published, since, seen, scheduled, advertised, callbacks>>
    BY <1>14 DEF RunUpdate, Local, node, history
  <2>3. ASSUME s \in callbacks \cap WorkItems, sub'[s] = "idle"
        PROVE  ~(published > since[s] /\ published > seen[s])
    <3>1. ~Updated(s) \/ ~Allocated
      BY <1>14, <2>3 DEF TypeOK, RunUpdate, Goto
    <3>2. s \in valid /\ sub[s] # "increment" /\ published \in Nat /\ since[s] \in Nat /\ seen[s] \in Nat
      BY <1>14 DEF TypeOK, RunUpdate
    <3>3. CASE ~Allocated
      BY <3>2, <3>3, SMTT(30) DEF BufferInv
    <3>4. CASE ~advertised
      BY <2>3, <3>2, <3>4, SMTT(30) DEF WakeInv
    <3>5. CASE Available(generation, s) = 0
      <4>1. generation = published % GenMod /\ published <= published /\ published < seen[s] + GenMod
        BY <3>2, SMTT(30) DEF CounterInv
      <4>2. Available(generation, s) = published - seen[s]
        BY <3>2, <4>1, AvailableCounts
      <4> QED  BY <3>2, <3>5, <4>2, SMTT(30)
    <3> QED  BY <3>1, <3>3, <3>4, <3>5 DEF Updated
  <2> QED  BY <2>1, <2>2, <2>3 DEF WakeInv, WakeupNotLost, Subscribers
<1>15. ASSUME NEW s \in Subscribers, UpdateBlocking(s)  PROVE  WakeInv'
  <2>1. sub'[s] # "idle" /\ \A t \in Subscribers : t # s => sub'[t] = sub[t]
    BY <1>15 DEF TypeOK, UpdateBlocking, Goto
  <2> QED  BY <1>15, <2>1 DEF WakeInv, WakeupNotLost, UpdateBlocking, Local, node, history, Subscribers
<1>16. ASSUME NEW s \in Subscribers, CondWait(s)  PROVE  WakeInv'
  <2>1. sub'[s] # "idle" /\ \A t \in Subscribers : t # s => sub'[t] = sub[t]
    BY <1>16 DEF TypeOK, CondWait, Goto
  <2> QED  BY <1>16, <2>1 DEF WakeInv, WakeupNotLost, CondWait, Local, node, history, Subscribers
<1>17. ASSUME NEW s \in Subscribers, Timeout(s)  PROVE  WakeInv'
  <2>1. s \notin WorkItems
    BY <1>17, SubscribersAssumption DEF PlacesInv, Timeout
  <2>2. \A t \in Subscribers : t # s => sub'[t] = sub[t]
    BY <1>17 DEF TypeOK, Timeout, Goto
  <2> QED  BY <1>17, <2>1, <2>2 DEF WakeInv, WakeupNotLost, Timeout, Local, node, history, Subscribers
<1>18. ASSUME NEW s \in Subscribers, Woken(s)  PROVE  WakeInv'
  <2>1. s \notin WorkItems
    BY <1>18, SubscribersAssumption DEF PlacesInv, Woken
  <2>2. \A t \in Subscribers : t # s => sub'[t] = sub[t]
    BY <1>18 DEF TypeOK, Woken, Goto
  <2> QED  BY <1>18, <2>1, <2>2 DEF WakeInv, WakeupNotLost, Woken, Local, node, history, Subscribers
<1>19. ASSUME NEW s \in Subscribers, TryCopy(s)  PROVE  WakeInv'
  <2>1. s \notin WorkItems
    BY <1>19, SubscribersAssumption DEF PlacesInv, TryCopy
  <2>2. \A t \in Subscribers : t # s => sub'[t] = sub[t]
    BY <1>19 DEF TypeOK, TryCopy, Goto
  <2> QED  BY <1>19, <2>1, <2>2 DEF WakeInv, WakeupNotLost, TryCopy, Local, node, history, Subscribers
<1>20. ASSUME NEW s \in Subscribers, CopyLatest(s)  PROVE  WakeInv'
  <2>1. s \in WorkItems => sub'[s] # "idle"
    BY <1>20 DEF TypeOK, CopyLatest, Goto, Return
  <2>2. \A t \in Subscribers : t # s => sub'[t] = sub[t] /\ seen'[t] = seen[t]
    BY <1>20 DEF TypeOK, CopyLatest, Goto, history
  <2> QED  BY <1>20, <2>1, <2>2 DEF WakeInv, WakeupNotLost, CopyLatest, node, history, Subscribers
<1>21. ASSUME NEW s \in Subscribers, CopyQueued(s)  PROVE  WakeInv'
  <2>1. s \in WorkItems => sub'[s] # "idle"
    BY <1>21 DEF TypeOK, CopyQueued, Goto, Return
  <2>2. \A t \in Subscribers : t # s => sub'[t] = sub[t] /\ seen'[t] = seen[t]
    BY <1>21 DEF TypeOK, CopyQueued, Goto, history
  <2> QED  BY <1>21, <2>1, <2>2 DEF WakeInv, WakeupNotLost, CopyQueued, node, history, Subscribers
<1>22. ASSUME NEW s \in Subscribers, Increment(s)  PROVE  WakeInv'
  <2>1. s \in WorkItems => sub'[s] # "idle"
    BY <1>22 DEF TypeOK, Increment, Goto, Return
  <2>2. \A t \in Subscribers : t # s => sub'[t] = sub[t] /\ seen'[t] = seen[t]
    BY <1>22 DEF TypeOK, Increment, Goto, history
  <2> QED  BY <1>22, <2>1, <2>2 DEF WakeInv, WakeupNotLost, Increment, node, history, Subscribers
<1>23. CASE UNCHANGED vars
  BY <1>23 DEF WakeInv, WakeupNotLost, vars, node, history
<1> QED  BY <1>1, <1>2, <1>3, <1>4, <1>5, <1>6, <1>7, <1>8, <1>9, <1>10, <1>11,
            <1>12, <1>13, <1>14, <1>15, <1>16, <1>17, <1>18, <1>19, <1>20, <1>21, <1>22, <1>23
         DEF Next, PublisherStep, Management, SubscriberStep

-----------------------------------------------------------------------------
(* Theorems.                                                                *)

(* The initial states satisfy the inductive invariant.                      *)
LEMMA InitIInv == Init => IInv
<1> SUFFICES ASSUME Init PROVE IInv
  OBVIOUS
<1>1. queue_size = 1 /\ 1 \in QueueSizes /\ GenMod \in Nat \ {0, 1}
  BY RoundingOne, GenModAssumption DEF Init, QueueSizes
<1>2. GenMod % 1 = 0 /\ 0 % GenMod = 0 /\ 0 \in 0 .. GenMod - 1
  BY <1>1, SMTT(30)
<1>3. TypeOK
  BY <1>1, <1>2 DEF Init, TypeOK, NoData
<1>4. BufferInv
  BY <1>1, <1>2, SMTT(30) DEF Init, BufferInv, BufferHasQueueSize, Allocated, NoData
<1>5. PlacesInv /\ CounterInv /\ WakeInv
  BY <1>2 DEF Init, PlacesInv, CounterInv, WakeInv, WakeupNotLost
<1> QED  BY <1>3, <1>4, <1>5 DEF IInv

(* IInv is an invariant.                                                    *)
LEMMA Inductive == Spec => []IInv
<1>1. IInv /\ [Next]_vars => IInv'
  BY TypeStep, PlacesStep, BufferStep, CounterStep, WakeStep DEF IInv
<1> QED  BY <1>1, InitIInv, PTL DEF Spec

(* The variables keep their types.                                          *)
THEOREM TypeCorrect == Spec => []TypeOK
<1>1. IInv => TypeOK
  BY DEF IInv
<1> QED  BY <1>1, Inductive, PTL

(* The buffer has the size by which publishers and subscribers index it     *)
(* (DeviceNode::write(), update_queue_size()).                              *)
THEOREM BufferSize == Spec => []BufferHasQueueSize
<1>1. IInv => BufferHasQueueSize
  BY DEF IInv, BufferInv
<1> QED  BY <1>1, Inductive, PTL

(* Generations stand for messages, over any number of wrap-arounds.         *)
THEOREM CountersCount == Spec => []GenerationsCountMessages
<1>1. IInv => GenerationsCountMessages
  BY DEF IInv, CounterInv, GenerationsCountMessages
<1> QED  BY <1>1, Inductive, PTL

(* A work item with the messages it waits for is scheduled or running       *)
(* (SubscriptionCallbackWorkItem::call()).                                  *)
THEOREM WakeupsAreNotLost == Spec => []WakeupNotLost
<1>1. IInv => WakeupNotLost
  BY DEF IInv, WakeInv
<1> QED  BY <1>1, Inductive, PTL

(* Every step is one of the topic, or leaves it as it is.                   *)
LEMMA TopicStep ==
    ASSUME IInv, [Next]_vars
    PROVE  [AbstractTopic!Next]_(AbstractTopic!vars)
<1> USE DEF AbstractTopic!vars
<1>1. ASSUME NEW p \in Publishers, Advertise(p)  PROVE  [AbstractTopic!Next]_(AbstractTopic!vars)
  BY <1>1 DEF Advertise, node, history
<1>2. ASSUME NEW p \in Publishers, SetQueueSize(p)  PROVE  [AbstractTopic!Next]_(AbstractTopic!vars)
  <2>1. /\ queue_size' \in QueueSizes /\ queue_size' >= queue_size
        /\ Allocated => queue_size' = queue_size
    BY <1>2, NewSize DEF IInv, TypeOK, BufferInv, SetQueueSize
  <2>2. queue_size \in Nat /\ queue_size' \in Nat
    BY <2>1, QueueSizeNat DEF IInv, TypeOK
  <2>3. queue_size' # queue_size => published = 0
    BY <2>1 DEF IInv, BufferInv
  <2> QED  BY <1>2, <2>1, <2>2, <2>3, SMTT(30) DEF SetQueueSize, history, AbstractTopic!Next, AbstractTopic!Grow
<1>3. ASSUME NEW p \in Publishers, Allocate(p)  PROVE  [AbstractTopic!Next]_(AbstractTopic!vars)
  BY <1>3 DEF Allocate, node, history
<1>4. ASSUME NEW p \in Publishers, Write(p)  PROVE  [AbstractTopic!Next]_(AbstractTopic!vars)
  BY <1>4 DEF Write, AbstractTopic!Next, AbstractTopic!Publish
<1>5. ASSUME NEW p \in Publishers, Unadvertise(p)  PROVE  [AbstractTopic!Next]_(AbstractTopic!vars)
  BY <1>5 DEF Unadvertise, node, history
<1>6. ASSUME NEW p \in Publishers, DestroyPublication(p)  PROVE  [AbstractTopic!Next]_(AbstractTopic!vars)
  BY <1>6 DEF DestroyPublication, node, history
<1>7. ASSUME NEW s \in Subscribers, Subscribe(s)  PROVE  [AbstractTopic!Next]_(AbstractTopic!vars)
  BY <1>7 DEF Subscribe, node, AbstractTopic!Next, AbstractTopic!Subscribe
<1>8. ASSUME NEW s \in Subscribers, Unsubscribe(s)  PROVE  [AbstractTopic!Next]_(AbstractTopic!vars)
  BY <1>8 DEF Unsubscribe, node, AbstractTopic!Next, AbstractTopic!Unsubscribe
<1>9. ASSUME NEW s \in Subscribers, RegisterCallback(s)  PROVE  [AbstractTopic!Next]_(AbstractTopic!vars)
  BY <1>9 DEF RegisterCallback, node, history
<1>10. ASSUME NEW s \in Subscribers, UnregisterCallback(s)  PROVE  [AbstractTopic!Next]_(AbstractTopic!vars)
  BY <1>10 DEF UnregisterCallback, node, history
<1>11. ASSUME NEW s \in Subscribers, Update(s)  PROVE  [AbstractTopic!Next]_(AbstractTopic!vars)
  BY <1>11 DEF Update, Local, node, history
<1>12. ASSUME NEW s \in Subscribers, Copy(s)  PROVE  [AbstractTopic!Next]_(AbstractTopic!vars)
  BY <1>12 DEF Copy, Local, node, history
<1>13. ASSUME NEW s \in Subscribers, Run(s)  PROVE  [AbstractTopic!Next]_(AbstractTopic!vars)
  BY <1>13 DEF Run, Local, node, history
<1>14. ASSUME NEW s \in Subscribers, RunUpdate(s)  PROVE  [AbstractTopic!Next]_(AbstractTopic!vars)
  BY <1>14 DEF RunUpdate, Local, node, history
<1>15. ASSUME NEW s \in Subscribers, UpdateBlocking(s)  PROVE  [AbstractTopic!Next]_(AbstractTopic!vars)
  BY <1>15 DEF UpdateBlocking, Local, node, history
<1>16. ASSUME NEW s \in Subscribers, CondWait(s)  PROVE  [AbstractTopic!Next]_(AbstractTopic!vars)
  BY <1>16 DEF CondWait, Local, node, history
<1>17. ASSUME NEW s \in Subscribers, Timeout(s)  PROVE  [AbstractTopic!Next]_(AbstractTopic!vars)
  BY <1>17 DEF Timeout, Local, node, history
<1>18. ASSUME NEW s \in Subscribers, Woken(s)  PROVE  [AbstractTopic!Next]_(AbstractTopic!vars)
  BY <1>18 DEF Woken, Local, node, history
<1>19. ASSUME NEW s \in Subscribers, TryCopy(s)  PROVE  [AbstractTopic!Next]_(AbstractTopic!vars)
  BY <1>19 DEF TryCopy, Local, node, history
<1>20. ASSUME NEW s \in Subscribers, CopyLatest(s)  PROVE  [AbstractTopic!Next]_(AbstractTopic!vars)
  <2>1. /\ seen'[s] = published /\ seen' = [seen EXCEPT ![s] = seen'[s]] /\ queue_size = 1
        /\ UNCHANGED <<published, queue_size, valid>>
    BY <1>20, CopiedLatest DEF CopyLatest, node, IInv, TypeOK
  <2>2. s \in valid /\ seen[s] <= published /\ seen[s] \in Nat /\ published \in Nat
    BY <1>20 DEF CopyLatest, IInv, TypeOK, PlacesInv, CounterInv
  <2>3. CASE seen[s] = published
    BY <2>1, <2>3 DEF IInv, TypeOK
  <2>4. CASE seen[s] # published
    <3>1. seen[s] < published /\ seen'[s] = AbstractTopic!Oldest(s)
      BY <2>1, <2>2, <2>4, SMTT(30) DEF AbstractTopic!Oldest
    <3> QED  BY <2>1, <2>2, <3>1 DEF AbstractTopic!Next, AbstractTopic!Receive
  <2> QED  BY <2>3, <2>4
<1>21. ASSUME NEW s \in Subscribers, CopyQueued(s)  PROVE  [AbstractTopic!Next]_(AbstractTopic!vars)
  <2>1. /\ seen'[s] = (IF seen[s] = published THEN published - 1
                         ELSE IF published - seen[s] <= queue_size THEN seen[s]
                         ELSE published - queue_size) + 1
        /\ seen' = [seen EXCEPT ![s] = seen'[s]] /\ UNCHANGED <<published, queue_size, valid>>
    BY <1>21, CopiedFromQueue DEF CopyQueued, node, IInv, TypeOK
  <2>2. /\ s \in valid /\ seen[s] <= published /\ seen[s] \in Nat /\ published \in Nat
        /\ queue_size \in Nat
    BY <1>21, QueueSizeNat DEF CopyQueued, IInv, TypeOK, PlacesInv, CounterInv
  <2>3. CASE seen[s] = published
    <3>1. seen'[s] = seen[s]
      BY <2>1, <2>2, <2>3, SMTT(30)
    <3> QED  BY <2>1, <3>1 DEF IInv, TypeOK
  <2>4. CASE seen[s] # published
    <3>1. seen[s] < published /\ seen'[s] = AbstractTopic!Oldest(s)
      BY <2>1, <2>2, <2>4, SMTT(30) DEF AbstractTopic!Oldest
    <3> QED  BY <2>1, <2>2, <3>1 DEF AbstractTopic!Next, AbstractTopic!Receive
  <2> QED  BY <2>3, <2>4
<1>22. ASSUME NEW s \in Subscribers, Increment(s)  PROVE  [AbstractTopic!Next]_(AbstractTopic!vars)
  BY <1>22 DEF Increment, node, history
<1>23. CASE UNCHANGED vars
  BY <1>23 DEF vars, node, history
<1> QED  BY <1>1, <1>2, <1>3, <1>4, <1>5, <1>6, <1>7, <1>8, <1>9, <1>10, <1>11,
            <1>12, <1>13, <1>14, <1>15, <1>16, <1>17, <1>18, <1>19, <1>20, <1>21, <1>22, <1>23
         DEF Next, PublisherStep, Management, SubscriberStep

(* The node implements the topic: copy() gives a subscriber the oldest kept *)
(* message it has not seen, whatever the interleaving, the queue size and   *)
(* the position of the generation in its range.                             *)
THEOREM NodeImplementsTopic == Spec => ImplementsTopic
<1>1. Init => AbstractTopic!Init
  BY RoundingOne, SMTT(30) DEF Init, AbstractTopic!Init
<1>2. IInv /\ [Next]_vars => [AbstractTopic!Next]_(AbstractTopic!vars)
  BY TopicStep
<1> QED  BY <1>1, <1>2, Inductive, PTL DEF Spec, ImplementsTopic, AbstractTopic!Spec
=============================================================================
