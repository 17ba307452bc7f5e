-------------------------- MODULE WorkQueueProofs --------------------------
(***************************************************************************)
(* Proofs about WorkQueue, for every set of items and of threads.          *)
(***************************************************************************)
EXTENDS WorkQueue, TLAPS

(* The provers a step is tried with unless it names one, and their time.    *)
USE ZenonT(30), SMTT(30)

QueueTypes ==
    /\ head \in Items \cup {Nil} /\ tail \in Items \cup {Nil}
    /\ next \in [Items -> Items \cup {Nil}]
    /\ fifo \in Seq(Items)

QueueInv == QueueTypes /\ QueueIsFifo

-----------------------------------------------------------------------------
(* The intrusive queue. *)

(* push() recognises exactly the items that are queued.                     *)
LEMMA QueuedIsLinked ==
    ASSUME QueueInv, NEW i \in Items
    PROVE  i \in Queued <=> next[i] # Nil \/ i = tail
<1>1. ASSUME i \in Queued PROVE next[i] # Nil \/ i = tail
  <2>1. PICK k \in 1 .. Len(fifo) : fifo[k] = i
    BY <1>1 DEF Queued
  <2>2. CASE k = Len(fifo)
    BY <2>1, <2>2, SMTT(30) DEF QueueInv, QueueTypes, QueueIsFifo
  <2>3. CASE k # Len(fifo)
    <3>1. k \in 1 .. Len(fifo) - 1 /\ k + 1 \in 1 .. Len(fifo)
      BY <2>3, SMTT(30) DEF QueueInv, QueueTypes
    <3>2. fifo[k + 1] \in Items
      BY <3>1, SMTT(30) DEF QueueInv, QueueTypes
    <3>. QED BY <2>1, <3>1, <3>2, ItemsAssumption DEF QueueInv, QueueIsFifo
  <2>. QED BY <2>2, <2>3
<1>2. ASSUME next[i] # Nil PROVE i \in Queued
  <2>1. PICK k \in 1 .. Len(fifo) - 1 : fifo[k] = i
    BY <1>2 DEF QueueInv, QueueIsFifo
  <2>. QED BY <2>1, SMTT(30) DEF Queued, QueueInv, QueueTypes
<1>3. ASSUME i = tail PROVE i \in Queued
  <2>1. fifo # <<>> /\ fifo[Len(fifo)] = i
    BY <1>3, ItemsAssumption DEF QueueInv, QueueIsFifo
  <2>2. Len(fifo) \in 1 .. Len(fifo)
    BY <2>1, SMTT(30) DEF QueueInv, QueueTypes
  <2>. QED BY <2>1, <2>2 DEF Queued
<1>. QED BY <1>1, <1>2, <1>3

(* push() keeps the list a queue, and leaves it non-empty.                  *)
LEMMA PushFacts ==
    ASSUME QueueInv, NEW i \in Items, Push(i)
    PROVE  QueueInv' /\ fifo' # <<>>
<1>1. CASE i \in Queued
  <2>1. UNCHANGED <<head, tail, next, fifo>>
    BY <1>1, QueuedIsLinked DEF Push
  <2>2. fifo # <<>>
    BY <1>1, SMTT(30) DEF Queued
  <2>. QED BY <2>1, <2>2 DEF QueueInv, QueueTypes, QueueIsFifo
<1>2. CASE i \notin Queued
  <2>1. /\ fifo' = Append(fifo, i)
        /\ head' = IF head = Nil THEN i ELSE head
        /\ next' = IF tail # Nil THEN [next EXCEPT ![tail] = i] ELSE next
        /\ tail' = i
        /\ next[i] = Nil
    BY <1>2, QueuedIsLinked DEF Push
  <2>2. /\ fifo' \in Seq(Items) /\ Len(fifo') = Len(fifo) + 1
        /\ \A k \in 1 .. Len(fifo) : fifo'[k] = fifo[k]
        /\ fifo'[Len(fifo) + 1] = i
        /\ fifo' # <<>>
        /\ Len(fifo) \in Nat
        /\ fifo = <<>> <=> Len(fifo) = 0
    BY <2>1, SMTT(30) DEF QueueInv, QueueTypes
  <2>3. QueueTypes'
    BY <2>1, <2>2 DEF QueueInv, QueueTypes
  <2>4. head' = fifo'[1] /\ tail' = fifo'[Len(fifo')]
    <3>1. CASE fifo = <<>>
      BY <2>1, <2>2, <3>1, SMTT(30) DEF QueueInv, QueueIsFifo
    <3>2. CASE fifo # <<>>
      <4>1. 1 \in 1 .. Len(fifo) /\ fifo[1] \in Items
        BY <2>2, <3>2, SMTT(30) DEF QueueInv, QueueTypes
      <4>. QED BY <2>1, <2>2, <3>2, <4>1, ItemsAssumption DEF QueueInv, QueueIsFifo
    <3>. QED BY <3>1, <3>2
  <2>5. ASSUME NEW k \in 1 .. Len(fifo') - 1 PROVE next'[fifo'[k]] = fifo'[k + 1]
    <3>1. k \in 1 .. Len(fifo) /\ fifo # <<>> /\ fifo'[k] = fifo[k] /\ fifo[k] \in Items
      BY <2>2, SMTT(30) DEF QueueInv, QueueTypes
    <3>2. tail = fifo[Len(fifo)] /\ tail \in Items /\ tail # Nil
      BY <2>2, <3>1, ItemsAssumption, SMTT(30) DEF QueueInv, QueueTypes, QueueIsFifo
    <3>3. next' = [next EXCEPT ![tail] = i]
      BY <2>1, <3>2
    <3>4. CASE k = Len(fifo)
      BY <2>2, <3>1, <3>2, <3>3, <3>4 DEF QueueInv, QueueTypes
    <3>5. CASE k # Len(fifo)
      <4>1. k \in 1 .. Len(fifo) - 1 /\ k + 1 \in 1 .. Len(fifo) /\ Len(fifo) \in 1 .. Len(fifo)
        BY <2>2, <3>1, <3>5, SMTT(30)
      <4>2. fifo[k] # tail
        BY <3>2, <3>5, <3>1, <4>1 DEF QueueInv, QueueIsFifo
      <4>3. next'[fifo[k]] = next[fifo[k]]
        BY <3>1, <3>3, <4>2 DEF QueueInv, QueueTypes
      <4>. QED BY <2>2, <3>1, <4>1, <4>3 DEF QueueInv, QueueIsFifo
    <3>. QED BY <3>4, <3>5
  <2>6. ASSUME NEW j \in Items, \A k \in 1 .. Len(fifo') - 1 : fifo'[k] # j
        PROVE  next'[j] = Nil
    <3>1. \A k \in 1 .. Len(fifo) : fifo[k] # j
      BY <2>2, <2>6, SMTT(30)
    <3>2. next[j] = Nil
      BY <2>2, <3>1, SMTT(30) DEF QueueInv, QueueIsFifo
    <3>3. tail # Nil => tail # j
      BY <2>2, <3>1, SMTT(30) DEF QueueInv, QueueIsFifo
    <3>. QED BY <2>1, <3>2, <3>3 DEF QueueInv, QueueTypes
  <2>7. ASSUME NEW j \in 1 .. Len(fifo'), NEW k \in 1 .. Len(fifo'), fifo'[j] = fifo'[k]
        PROVE  j = k
    <3>1. \A m \in 1 .. Len(fifo) : fifo[m] # i
      BY <1>2 DEF Queued
    <3>. QED BY <2>2, <2>7, <3>1, SMTT(30) DEF QueueInv, QueueIsFifo
  <2>8. QueueIsFifo'
    BY <2>2, <2>4, <2>5, <2>6, <2>7 DEF QueueIsFifo
  <2>. QED BY <2>2, <2>3, <2>8 DEF QueueInv
<1>. QED BY <1>1, <1>2

(* pop() takes the first item and keeps the rest a queue.                   *)
LEMMA PopFacts ==
    ASSUME QueueInv, Pop
    PROVE  QueueInv' /\ fifo # <<>> /\ head \in Items
<1>1. fifo # <<>> /\ head = fifo[1] /\ head \in Items /\ tail = fifo[Len(fifo)]
  BY DEF Pop, QueueInv, QueueTypes, QueueIsFifo
<1>2. /\ Len(fifo) \in Nat /\ Len(fifo) >= 1
      /\ fifo' \in Seq(Items) /\ Len(fifo') = Len(fifo) - 1
      /\ \A k \in 1 .. Len(fifo) - 1 : fifo'[k] = fifo[k + 1]
      /\ fifo' = <<>> <=> Len(fifo) = 1
  <2>1. fifo \in Seq(Items) /\ fifo' = Tail(fifo)
    BY DEF Pop, QueueInv, QueueTypes
  <2>2. Len(fifo) \in Nat /\ Len(fifo) >= 1
    BY <1>1, <2>1, SMTT(30)
  <2>3. fifo' \in Seq(Items) /\ Len(fifo') = Len(fifo) - 1
    BY <1>1, <2>1, <2>2, SMTT(30)
  <2>4. \A k \in 1 .. Len(fifo) - 1 : fifo'[k] = fifo[k + 1]
    BY <1>1, <2>1, <2>2, SMTT(30)
  <2>5. fifo' = <<>> <=> Len(fifo) = 1
    BY <2>2, <2>3, SMTT(30)
  <2>. QED BY <2>2, <2>3, <2>4, <2>5
<1>3. head = tail <=> Len(fifo) = 1
  <2>1. 1 \in 1 .. Len(fifo) /\ Len(fifo) \in 1 .. Len(fifo)
    BY <1>2, SMTT(30)
  <2>. QED BY <1>1, <1>2, <2>1 DEF QueueInv, QueueIsFifo
<1>4. QueueTypes'
  BY <1>1, <1>2 DEF Pop, QueueInv, QueueTypes
<1>5. /\ head' = IF fifo' = <<>> THEN Nil ELSE fifo'[1]
      /\ tail' = IF fifo' = <<>> THEN Nil ELSE fifo'[Len(fifo')]
  <2>1. CASE Len(fifo) = 1
    BY <1>2, <1>3, <2>1 DEF Pop
  <2>2. CASE Len(fifo) # 1
    <3>1. 1 \in 1 .. Len(fifo) - 1 /\ Len(fifo) - 1 \in 1 .. Len(fifo) - 1
      BY <1>2, <2>2, SMTT(30)
    <3>2. next[fifo[1]] = fifo[1 + 1]
      BY <3>1 DEF QueueInv, QueueIsFifo
    <3>3. fifo'[1] = fifo[1 + 1] /\ fifo'[Len(fifo) - 1] = fifo[Len(fifo) - 1 + 1]
      BY <1>2, <3>1
    <3>4. Len(fifo) - 1 + 1 = Len(fifo)
      BY <1>2, SMTT(30)
    <3>. QED BY <1>1, <1>2, <1>3, <2>2, <3>2, <3>3, <3>4 DEF Pop
  <2>. QED BY <2>1, <2>2
<1>6. ASSUME NEW k \in 1 .. Len(fifo') - 1 PROVE next'[fifo'[k]] = fifo'[k + 1]
  <2>1. /\ k \in 1 .. Len(fifo) - 1 /\ k + 1 \in 1 .. Len(fifo) - 1
        /\ k + 1 \in 1 .. Len(fifo) /\ 1 \in 1 .. Len(fifo) /\ k + 1 # 1
    BY <1>2, SMTT(30)
  <2>2. fifo'[k] = fifo[k + 1] /\ fifo'[k + 1] = fifo[k + 1 + 1]
    BY <1>2, <2>1
  <2>3. next[fifo[k + 1]] = fifo[k + 1 + 1] /\ fifo[k + 1] # fifo[1]
    BY <2>1 DEF QueueInv, QueueIsFifo
  <2>4. fifo[k + 1] \in Items
    BY <2>1, SMTT(30) DEF QueueInv, QueueTypes
  <2>. QED BY <1>1, <2>2, <2>3, <2>4 DEF Pop, QueueInv, QueueTypes
<1>7. ASSUME NEW j \in Items, \A k \in 1 .. Len(fifo') - 1 : fifo'[k] # j
      PROVE  next'[j] = Nil
  <2>1. CASE j = head
    BY <1>1, <2>1 DEF Pop, QueueInv, QueueTypes
  <2>2. CASE j # head
    <3>1. ASSUME NEW k \in 1 .. Len(fifo) - 1 PROVE fifo[k] # j
      <4>1. CASE k = 1
        BY <1>1, <2>2, <4>1
      <4>2. CASE k # 1
        <5>1. k - 1 \in 1 .. Len(fifo') - 1 /\ k - 1 \in 1 .. Len(fifo) - 1 /\ k - 1 + 1 = k
          BY <1>2, <4>2, SMTT(30)
        <5>. QED BY <1>2, <1>7, <5>1
      <4>. QED BY <4>1, <4>2
    <3>2. next[j] = Nil
      BY <3>1 DEF QueueInv, QueueIsFifo
    <3>. QED BY <2>2, <3>2 DEF Pop, QueueInv, QueueTypes
  <2>. QED BY <2>1, <2>2
<1>8. ASSUME NEW j \in 1 .. Len(fifo'), NEW k \in 1 .. Len(fifo'), fifo'[j] = fifo'[k]
      PROVE  j = k
  <2>1. j + 1 \in 1 .. Len(fifo) /\ k + 1 \in 1 .. Len(fifo) /\ fifo[j + 1] = fifo[k + 1]
    BY <1>2, <1>8, SMTT(30)
  <2>2. j + 1 = k + 1
    BY <2>1 DEF QueueInv, QueueIsFifo
  <2>. QED BY <2>2, SMTT(30)
<1>9. QueueIsFifo'
  BY <1>5, <1>6, <1>7, <1>8 DEF QueueIsFifo
<1>. QED BY <1>1, <1>4, <1>9 DEF QueueInv

(* The empty sequence is the one of length zero.                            *)
LEMMA EmptySeq ==
    ASSUME NEW S, NEW s \in Seq(S)
    PROVE  s = <<>> <=> Len(s) = 0
BY SMTT(30)

(* What is left of a sequence without its k-th element.                     *)
LEMMA RemovedSeq ==
    ASSUME NEW S, NEW f \in Seq(S), NEW k \in 1 .. Len(f)
    PROVE  /\ WithoutAt(f, k) \in Seq(S) /\ Len(WithoutAt(f, k)) = Len(f) - 1
           /\ \A j \in 1 .. Len(f) - 1 :
                 WithoutAt(f, k)[j] = IF j < k THEN f[j] ELSE f[j + 1]
           /\ WithoutAt(f, k) = <<>> <=> Len(f) = 1
<1>. DEFINE g == WithoutAt(f, k)
<1>1. Len(f) \in Nat /\ Len(f) - 1 \in Nat
  BY SMTT(30)
<1>2. \A j \in 1 .. Len(f) - 1 : (IF j < k THEN f[j] ELSE f[j + 1]) \in S
  <2>1. TAKE j \in 1 .. Len(f) - 1
  <2>2. j \in 1 .. Len(f) /\ j + 1 \in 1 .. Len(f)
    BY <1>1, SMTT(30)
  <2>. QED BY <2>2, SMTT(30)
<1>3. g \in [1 .. Len(f) - 1 -> S]
  BY <1>2 DEF WithoutAt
<1>4. \A j \in 1 .. Len(f) - 1 : g[j] = IF j < k THEN f[j] ELSE f[j + 1]
  BY DEF WithoutAt
<1>. HIDE DEF g
<1>5. g \in Seq(S)
  BY <1>1, <1>3, SMTT(30)
<1>6. Len(g) = Len(f) - 1
  BY <1>1, <1>3, <1>5, SMTT(30)
<1>7. g = <<>> <=> Len(f) = 1
  <2>1. g = <<>> <=> Len(g) = 0
    BY ONLY <1>5, EmptySeq, SMTT(30)
  <2>. QED BY ONLY <1>1, <1>6, <2>1, SMTT(30)
<1>. QED BY <1>5, <1>6, <1>7, <1>4 DEF g

(* remove() finds the node if and only if it is queued.                     *)
LEMMA RemoveFacts ==
    ASSUME QueueInv, NEW i \in Items, Remove(i)
    PROVE  QueueInv' /\ (fifo' # <<>> => fifo # <<>>)
<1>0. fifo \in Seq(Items) /\ Len(fifo) \in Nat /\ (\A k \in 1 .. Len(fifo) : fifo[k] \in Items)
  BY SMTT(30) DEF QueueInv, QueueTypes
<1>1. CASE i \notin Queued
  <2>1. i # head
    <3>1. ASSUME i = head PROVE FALSE
      <4>1. fifo # <<>> /\ fifo[1] = i
        BY <3>1, ItemsAssumption DEF QueueInv, QueueIsFifo
      <4>2. 1 \in 1 .. Len(fifo)
        BY <1>0, <4>1, SMTT(30)
      <4>. QED BY <1>1, <4>1, <4>2 DEF Queued
    <3>. QED BY <3>1
  <2>2. ASSUME NEW n \in Items PROVE next[n] # i
    <3>1. CASE \A k \in 1 .. Len(fifo) - 1 : fifo[k] # n
      BY <3>1, ItemsAssumption DEF QueueInv, QueueIsFifo
    <3>2. CASE \E k \in 1 .. Len(fifo) - 1 : fifo[k] = n
      <4>1. PICK k \in 1 .. Len(fifo) - 1 : fifo[k] = n
        BY <3>2
      <4>2. next[n] = fifo[k + 1] /\ k + 1 \in 1 .. Len(fifo)
        BY <1>0, <4>1, SMTT(30) DEF QueueInv, QueueIsFifo
      <4>. QED BY <1>1, <4>2 DEF Queued
    <3>. QED BY <3>1, <3>2
  <2>3. UNCHANGED <<head, tail, next, fifo>>
    BY <1>1, <2>1, <2>2 DEF Remove, FifoRemove, RemoveHead, RemoveInner, RemoveAbsent
  <2>. QED BY <2>3 DEF QueueInv, QueueTypes, QueueIsFifo
<1>2. CASE i \in Queued
  <2>1. PICK k \in 1 .. Len(fifo) : fifo[k] = i /\ fifo' = WithoutAt(fifo, k)
    BY <1>2 DEF Remove, FifoRemove
  <2>2. /\ fifo' \in Seq(Items) /\ Len(fifo') = Len(fifo) - 1
        /\ \A j \in 1 .. Len(fifo) - 1 : fifo'[j] = IF j < k THEN fifo[j] ELSE fifo[j + 1]
        /\ fifo' = <<>> <=> Len(fifo) = 1
    BY <1>0, <2>1, RemovedSeq
  <2>3. fifo # <<>> /\ Len(fifo) >= 1 /\ head = fifo[1] /\ tail = fifo[Len(fifo)]
    BY <1>0, <2>1, SMTT(30) DEF QueueInv, QueueIsFifo
  <2>4. \A a, b \in 1 .. Len(fifo) : fifo[a] = fifo[b] => a = b
    BY DEF QueueInv, QueueIsFifo
  <2>5. \A a \in 1 .. Len(fifo) - 1 : next[fifo[a]] = fifo[a + 1]
    BY DEF QueueInv, QueueIsFifo
  <2>6. \A j \in Items : (\A a \in 1 .. Len(fifo) - 1 : fifo[a] # j) => next[j] = Nil
    BY DEF QueueInv, QueueIsFifo
  <2>7. next \in [Items -> Items \cup {Nil}] /\ head \in Items /\ tail \in Items
    BY <1>0, <2>3, SMTT(30) DEF QueueInv, QueueTypes
  <2>8. next[i] = IF k = Len(fifo) THEN Nil ELSE fifo[k + 1]
    <3>1. CASE k = Len(fifo)
      BY <1>0, <2>1, <2>4, <2>6, <3>1, SMTT(30)
    <3>2. CASE k # Len(fifo)
      BY <1>0, <2>1, <2>5, <3>2, SMTT(30)
    <3>. QED BY <3>1, <3>2
  <2>9. \A a, b \in 1 .. Len(fifo') : fifo'[a] = fifo'[b] => a = b
    <3>1. TAKE a, b \in 1 .. Len(fifo')
    <3>2. /\ a \in 1 .. Len(fifo) - 1 /\ a \in 1 .. Len(fifo) /\ a + 1 \in 1 .. Len(fifo)
          /\ b \in 1 .. Len(fifo) - 1 /\ b \in 1 .. Len(fifo) /\ b + 1 \in 1 .. Len(fifo)
      BY <1>0, <2>2, SMTT(30)
    <3>. QED BY <1>0, <2>2, <2>4, <3>2, SMTT(30)
  <2>10. CASE i = head
    <3>1. k = 1
      BY <1>0, <2>1, <2>3, <2>4, <2>10, SMTT(30)
    <3>2. RemoveHead(i)
      BY <2>10 DEF Remove, RemoveInner, RemoveAbsent, RemoveHead
    <3>3. \A j \in 1 .. Len(fifo) - 1 : fifo'[j] = fifo[j + 1]
      BY <1>0, <2>2, <3>1, SMTT(30)
    <3>4. QueueTypes'
      BY <2>2, <2>7, <3>2 DEF QueueTypes, RemoveHead
    <3>5. /\ head' = IF fifo' = <<>> THEN Nil ELSE fifo'[1]
          /\ tail' = IF fifo' = <<>> THEN Nil ELSE fifo'[Len(fifo')]
      <4>1. CASE Len(fifo) = 1
        BY <2>2, <2>8, <3>1, <3>2, <4>1 DEF RemoveHead
      <4>2. CASE Len(fifo) # 1
        <5>1. /\ 1 \in 1 .. Len(fifo) - 1 /\ Len(fifo) - 1 \in 1 .. Len(fifo) - 1
              /\ 1 + 1 \in 1 .. Len(fifo) /\ Len(fifo) - 1 + 1 = Len(fifo)
          <6>1. Len(fifo) \in Nat /\ Len(fifo) > 1
            BY <1>0, <2>3, <4>2, SMTT(30)
          <6>. QED BY ONLY <6>1, SMTT(30)
        <5>2. next[i] = fifo[1 + 1] /\ next[i] # Nil
          BY <1>0, <2>8, <3>1, <4>2, <5>1, ItemsAssumption
        <5>3. fifo'[1] = fifo[1 + 1] /\ fifo'[Len(fifo) - 1] = fifo[Len(fifo)]
          BY <3>3, <5>1
        <5>. QED BY <2>2, <2>3, <3>2, <4>2, <5>2, <5>3 DEF RemoveHead
      <4>. QED BY <4>1, <4>2
    <3>6. ASSUME NEW a \in 1 .. Len(fifo') - 1 PROVE next'[fifo'[a]] = fifo'[a + 1]
      <4>1. /\ a \in 1 .. Len(fifo) - 1 /\ a + 1 \in 1 .. Len(fifo) - 1
            /\ a + 1 \in 1 .. Len(fifo) /\ 1 \in 1 .. Len(fifo) /\ a + 1 # 1
        BY <1>0, <2>2, SMTT(30)
      <4>2. fifo'[a] = fifo[a + 1] /\ fifo'[a + 1] = fifo[a + 1 + 1]
        BY <3>3, <4>1
      <4>3. fifo[a + 1] # i /\ next[fifo[a + 1]] = fifo[a + 1 + 1] /\ fifo[a + 1] \in Items
        BY <1>0, <2>1, <2>4, <2>5, <3>1, <4>1
      <4>. QED BY <2>7, <3>2, <4>2, <4>3 DEF RemoveHead
    <3>7. ASSUME NEW j \in Items, \A a \in 1 .. Len(fifo') - 1 : fifo'[a] # j
          PROVE  next'[j] = Nil
      <4>1. CASE j = i
        BY <2>7, <3>2, <4>1 DEF RemoveHead
      <4>2. CASE j # i
        <5>1. ASSUME NEW a \in 1 .. Len(fifo) - 1 PROVE fifo[a] # j
          <6>1. CASE a = 1
            BY <2>1, <3>1, <4>2, <6>1
          <6>2. CASE a # 1
            <7>1. a - 1 \in 1 .. Len(fifo') - 1 /\ a - 1 \in 1 .. Len(fifo) - 1 /\ a - 1 + 1 = a
              BY <1>0, <2>2, <6>2, SMTT(30)
            <7>. QED BY <3>3, <3>7, <7>1
          <6>. QED BY <6>1, <6>2
        <5>. QED BY <2>6, <2>7, <3>2, <4>2, <5>1 DEF RemoveHead
      <4>. QED BY <4>1, <4>2
    <3>8. QueueIsFifo'
      BY <2>9, <3>5, <3>6, <3>7 DEF QueueIsFifo
    <3>. QED BY <2>3, <3>4, <3>8 DEF QueueInv
  <2>11. CASE i # head
    <3>1. k - 1 \in 1 .. Len(fifo) - 1 /\ k - 1 + 1 = k /\ k # 1 /\ Len(fifo) # 1
      BY <1>0, <2>1, <2>3, <2>11, SMTT(30)
    <3>2. next[fifo[k - 1]] = i /\ fifo[k - 1] \in Items
      BY <1>0, <2>1, <2>5, <3>1, SMTT(30)
    <3>3. PICK n \in Items : /\ next[n] = i
                             /\ tail' = IF i = tail THEN n ELSE tail
                             /\ next' = [next EXCEPT ![n] = next[i], ![i] = Nil]
                             /\ head' = head
      BY <2>11, <3>2 DEF Remove, RemoveHead, RemoveInner, RemoveAbsent
    <3>4. n = fifo[k - 1]
      <4>1. PICK a \in 1 .. Len(fifo) - 1 : fifo[a] = n
        BY <2>6, <3>3, ItemsAssumption
      <4>2. fifo[a + 1] = fifo[k] /\ a + 1 \in 1 .. Len(fifo)
        BY <1>0, <2>1, <2>5, <3>3, <4>1, SMTT(30)
      <4>3. a + 1 = k
        BY <2>4, <4>2
      <4>4. a = k - 1
        BY <4>3, SMTT(30)
      <4>. QED BY <4>1, <4>4
    <3>5. n # i
      BY <1>0, <2>1, <2>4, <3>1, <3>4, SMTT(30)
    <3>6. \A j \in Items : next'[j] = IF j = i THEN Nil ELSE IF j = n THEN next[i] ELSE next[j]
      BY <2>7, <3>3, <3>5
    <3>7. QueueTypes'
      BY <2>2, <2>7, <3>3 DEF QueueTypes
    <3>8. /\ head' = IF fifo' = <<>> THEN Nil ELSE fifo'[1]
          /\ tail' = IF fifo' = <<>> THEN Nil ELSE fifo'[Len(fifo')]
      <4>1. /\ 1 \in 1 .. Len(fifo) - 1 /\ Len(fifo) - 1 \in 1 .. Len(fifo) - 1 /\ 1 < k
            /\ Len(fifo) \in 1 .. Len(fifo) /\ Len(fifo) - 1 + 1 = Len(fifo)
        BY <1>0, <2>3, <3>1, SMTT(30)
      <4>2. fifo'[1] = fifo[1]
        BY <2>2, <4>1
      <4>3. CASE k = Len(fifo)
        <5>1. fifo'[Len(fifo) - 1] = fifo[k - 1]
          BY <1>0, <2>2, <4>1, <4>3, SMTT(30)
        <5>. QED BY <2>1, <2>2, <2>3, <3>1, <3>3, <3>4, <4>2, <4>3, <5>1
      <4>4. CASE k # Len(fifo)
        <5>1. fifo'[Len(fifo) - 1] = fifo[Len(fifo)]
          BY <1>0, <2>2, <4>1, <4>4, SMTT(30)
        <5>2. i # tail
          BY <2>1, <2>3, <2>4, <4>1, <4>4
        <5>. QED BY <2>2, <2>3, <3>1, <3>3, <4>2, <5>1, <5>2
      <4>. QED BY <4>3, <4>4
    <3>9. ASSUME NEW a \in 1 .. Len(fifo') - 1 PROVE next'[fifo'[a]] = fifo'[a + 1]
      <4>1. /\ a \in 1 .. Len(fifo) - 1 /\ a + 1 \in 1 .. Len(fifo) - 1 /\ a \in 1 .. Len(fifo)
            /\ a + 1 \in 1 .. Len(fifo)
        BY <1>0, <2>2, SMTT(30)
      <4>2. CASE a + 1 < k
        <5>1. fifo'[a] = fifo[a] /\ fifo'[a + 1] = fifo[a + 1] /\ a < k
          BY <1>0, <2>2, <4>1, <4>2, SMTT(30)
        <5>2. fifo[a] # i /\ fifo[a] # n
          BY <1>0, <2>1, <2>4, <3>1, <3>4, <4>1, <4>2, SMTT(30)
        <5>. QED BY <1>0, <2>5, <3>6, <4>1, <5>1, <5>2
      <4>3. CASE a + 1 = k
        <5>1. fifo'[a] = fifo[k - 1] /\ fifo'[a + 1] = fifo[k + 1] /\ k # Len(fifo)
          BY <1>0, <2>2, <4>1, <4>3, SMTT(30)
        <5>. QED BY <2>8, <3>4, <3>5, <3>6, <5>1
      <4>4. CASE a + 1 > k
        <5>1. fifo'[a] = fifo[a + 1] /\ fifo'[a + 1] = fifo[a + 1 + 1]
          BY <1>0, <2>2, <4>1, <4>4, SMTT(30)
        <5>2. fifo[a + 1] # i /\ fifo[a + 1] # n
          BY <1>0, <2>1, <2>4, <3>1, <3>4, <4>1, <4>4, SMTT(30)
        <5>. QED BY <1>0, <2>5, <3>6, <4>1, <5>1, <5>2
      <4>. QED BY <1>0, <4>1, <4>2, <4>3, <4>4, SMTT(30)
    <3>10. ASSUME NEW j \in Items, \A a \in 1 .. Len(fifo') - 1 : fifo'[a] # j
           PROVE  next'[j] = Nil
      <4>1. CASE j = i
        BY <3>6, <4>1
      <4>2. CASE j # i /\ j = n
        <5>1. CASE k = Len(fifo)
          BY <2>8, <3>6, <4>2, <5>1
        <5>2. CASE k # Len(fifo)
          <6>1. k - 1 \in 1 .. Len(fifo') - 1 /\ k - 1 \in 1 .. Len(fifo) - 1 /\ k - 1 < k
            BY <1>0, <2>1, <2>2, <3>1, <5>2, SMTT(30)
          <6>. QED BY <2>2, <3>4, <3>10, <4>2, <6>1
        <5>. QED BY <5>1, <5>2
      <4>3. CASE j # i /\ j # n
        <5>1. ASSUME NEW a \in 1 .. Len(fifo) - 1 PROVE fifo[a] # j
          <6>1. CASE a = k \/ a = k - 1
            BY <2>1, <3>4, <4>3, <6>1
          <6>2. CASE a < k - 1
            <7>1. a \in 1 .. Len(fifo') - 1 /\ a \in 1 .. Len(fifo) - 1 /\ a < k
              BY <1>0, <2>1, <2>2, <6>2, SMTT(30)
            <7>. QED BY <2>2, <3>10, <7>1
          <6>3. CASE a > k
            <7>1. /\ a - 1 \in 1 .. Len(fifo') - 1 /\ a - 1 \in 1 .. Len(fifo) - 1
                  /\ ~(a - 1 < k) /\ a - 1 + 1 = a
              BY <1>0, <2>1, <2>2, <6>3, SMTT(30)
            <7>. QED BY <2>2, <3>10, <7>1
          <6>. QED BY <1>0, <6>1, <6>2, <6>3, SMTT(30)
        <5>. QED BY <2>6, <3>6, <4>3, <5>1
      <4>. QED BY <4>1, <4>2, <4>3
    <3>11. QueueIsFifo'
      BY <2>9, <3>8, <3>9, <3>10 DEF QueueIsFifo
    <3>. QED BY <2>3, <3>7, <3>11 DEF QueueInv
  <2>. QED BY <2>10, <2>11
<1>. QED BY <1>1, <1>2

-----------------------------------------------------------------------------
(* The inductive invariant. *)

StopOps == {"detach_signal", "detach_post", "detach_unlock", "detach_exit"}

(* A thread in an operation has its item.  One that attaches an item is the *)
(* only one to use it; an item that is being deinitialised is attached,     *)
(* has no _wq, and is deinitialised once.                                   *)
OpsInv ==
    /\ \A t \in Threads : op[t] # "idle" => arg[t] \in Items
    /\ \A t \in Threads : op[t] = "attach" =>
          /\ arg[t] \notin work_items
          /\ \A u \in Threads \ {t} : op[u] # "idle" => arg[u] # arg[t]
    /\ \A t \in Threads : op[t] \in {"deinit", "detach"} =>
          /\ arg[t] \in work_items \ wq
          /\ \A u \in Threads \ {t} : op[u] \in {"deinit", "detach"} => arg[u] # arg[t]
    /\ wq \subseteq work_items

(* Once it is told to stop the queue has no items; one thread at most told  *)
(* it so, and the exit lock is taken from then until the thread is done.    *)
StopInv ==
    /\ should_exit => work_items = {}
    /\ worker \in {"unlist", "exit", "destroy", "destroyed"} => should_exit
    /\ \A t \in Threads : op[t] \in StopOps => exit_lock = 0 /\ ~Destroyed
    /\ \A t, u \in Threads : op[t] \in StopOps /\ op[u] \in StopOps => t = u
    /\ Destroyed => exit_lock = 0

(* What holds of a worker that is about to sleep holds when it sleeps.      *)
WakeInv ==
    /\ worker \in {"loop", "wait"} /\ fifo # <<>> => process_lock > 0 \/ Signalling
    /\ worker \in {"loop", "wait"} /\ lockstep => process_lock > 0 \/ Signalling
    /\ NoLostStop

LockstepInv ==
    /\ LockstepWaitsForWork
    /\ worker # "run" => running = Nil

IInv ==
    /\ TypeOK /\ QueueIsFifo /\ OpsInv /\ StopInv /\ WakeInv /\ LockstepInv /\ DetachOutlived

(* The queue's part of the invariant.                                       *)
LEMMA IInvQueue == IInv => QueueInv
BY DEF IInv, QueueInv, QueueTypes, TypeOK

(* The invariant holds when the thread starts.                              *)
LEMMA InitIInv == Init => IInv
<1>. SUFFICES ASSUME Init PROVE IInv
  OBVIOUS
<1>. USE DEF Init
<1>1. TypeOK
  <2>1. op \in [Threads -> Ops] /\ arg \in [Threads -> Items \cup {Nil}]
    BY DEF Ops
  <2>2. fifo \in Seq(Items) /\ next \in [Items -> Items \cup {Nil}]
    BY SMTT(30)
  <2>3. /\ head \in Items \cup {Nil} /\ tail \in Items \cup {Nil}
        /\ process_lock \in Nat /\ exit_lock \in {0, 1} /\ qlock \in Threads \cup {Nil}
        /\ work_items \subseteq Items /\ wq \subseteq Items /\ late \subseteq Ops
        /\ running \in Items \cup {Nil}
    OBVIOUS
  <2>. QED BY <2>1, <2>2, <2>3 DEF TypeOK
<1>2. QueueIsFifo
  BY SMTT(30) DEF QueueIsFifo
<1>3. OpsInv /\ StopInv /\ WakeInv /\ LockstepInv /\ DetachOutlived
  BY DEF OpsInv, StopInv, StopOps, Destroyed, WakeInv, NoLostStop, LockstepInv,
         LockstepWaitsForWork, DetachOutlived
<1>. QED BY <1>1, <1>2, <1>3 DEF IInv

(* A step that leaves the queue alone keeps what is said of it.             *)
LEMMA QueueUnchanged ==
    ASSUME QueueInv, UNCHANGED queue
    PROVE  QueueInv'
BY DEF queue, QueueInv, QueueTypes, QueueIsFifo

-----------------------------------------------------------------------------
(* The actions, one by one. *)

(* The test of _wq in ScheduleNow().                                        *)
LEMMA ScheduleNowIInv ==
    ASSUME IInv, NEW t \in Threads, NEW i \in Items, ScheduleNow(t, i)
    PROVE  IInv'
<1>0. QueueInv /\ TypeOK /\ OpsInv /\ StopInv /\ WakeInv /\ LockstepInv /\ DetachOutlived
  BY IInvQueue DEF IInv
<1>1. QueueInv'
  BY <1>0, QueueUnchanged DEF queue, ScheduleNow, Enter, MayCall, state
<1>2. TypeOK'
  BY <1>0, <1>1 DEF TypeOK, Ops, QueueInv, QueueTypes, ScheduleNow, Enter, MayCall, queue, state
<1>3. OpsInv'
  BY <1>0 DEF OpsInv, TypeOK, ScheduleNow, Enter, MayCall, queue, state
<1>4. StopInv'
  BY <1>0 DEF StopInv, StopOps, OpsInv, TypeOK, Destroyed, ScheduleNow, Enter, MayCall, queue,
         state
<1>5. WakeInv'
  BY <1>0 DEF WakeInv, NoLostStop, Signalling, StopSignalling, TypeOK, ScheduleNow, Enter,
         MayCall, queue, state
<1>6. LockstepInv' /\ DetachOutlived'
  BY <1>0 DEF LockstepInv, LockstepWaitsForWork, DetachOutlived, TypeOK, ScheduleNow, Enter,
         MayCall, queue, state
<1>. QED BY <1>1, <1>2, <1>3, <1>4, <1>5, <1>6 DEF IInv, QueueInv

(* The test of _wq in ScheduleClear().                                      *)
LEMMA ScheduleClearIInv ==
    ASSUME IInv, NEW t \in Threads, NEW i \in Items, ScheduleClear(t, i)
    PROVE  IInv'
<1>0. QueueInv /\ TypeOK /\ OpsInv /\ StopInv /\ WakeInv /\ LockstepInv /\ DetachOutlived
  BY IInvQueue DEF IInv
<1>1. QueueInv'
  BY <1>0, QueueUnchanged DEF queue, ScheduleClear, Enter, MayCall, state
<1>2. TypeOK'
  BY <1>0, <1>1 DEF TypeOK, Ops, QueueInv, QueueTypes, ScheduleClear, Enter, MayCall, queue, state
<1>3. OpsInv'
  BY <1>0 DEF OpsInv, TypeOK, ScheduleClear, Enter, MayCall, queue, state
<1>4. StopInv'
  BY <1>0 DEF StopInv, StopOps, OpsInv, TypeOK, Destroyed, ScheduleClear, Enter, MayCall, queue,
         state
<1>5. WakeInv'
  BY <1>0 DEF WakeInv, NoLostStop, Signalling, StopSignalling, TypeOK, ScheduleClear, Enter,
         MayCall, queue, state
<1>6. LockstepInv' /\ DetachOutlived'
  BY <1>0 DEF LockstepInv, LockstepWaitsForWork, DetachOutlived, TypeOK, ScheduleClear, Enter,
         MayCall, queue, state
<1>. QED BY <1>1, <1>2, <1>3, <1>4, <1>5, <1>6 DEF IInv, QueueInv

(* Init() finds the queue in the manager's list.                            *)
LEMMA FindWorkQueueIInv ==
    ASSUME IInv, NEW t \in Threads, NEW i \in Items, FindWorkQueue(t, i)
    PROVE  IInv'
<1>0. QueueInv /\ TypeOK /\ OpsInv /\ StopInv /\ WakeInv /\ LockstepInv /\ DetachOutlived
  BY IInvQueue DEF IInv
<1>1. QueueInv'
  BY <1>0, QueueUnchanged DEF queue, FindWorkQueue, Enter, MayCall, state, Listed
<1>2. TypeOK'
  BY <1>0, <1>1 DEF TypeOK, Ops, QueueInv, QueueTypes, FindWorkQueue, Enter, MayCall, queue,
         state, Listed
<1>3. OpsInv'
  BY <1>0 DEF OpsInv, TypeOK, FindWorkQueue, Enter, MayCall, queue, state, Listed
<1>4. StopInv'
  BY <1>0 DEF StopInv, StopOps, OpsInv, TypeOK, Destroyed, FindWorkQueue, Enter, MayCall, queue,
         state, Listed
<1>5. WakeInv'
  BY <1>0 DEF WakeInv, NoLostStop, Signalling, StopSignalling, TypeOK, FindWorkQueue, Enter,
         MayCall, queue, state, Listed
<1>6. LockstepInv' /\ DetachOutlived'
  BY <1>0 DEF LockstepInv, LockstepWaitsForWork, DetachOutlived, TypeOK, FindWorkQueue, Enter,
         MayCall, queue, state, Listed
<1>. QED BY <1>1, <1>2, <1>3, <1>4, <1>5, <1>6 DEF IInv, QueueInv

(* Deinit() clears _wq: the item is attached and deinitialised once.        *)
LEMMA DeinitIInv ==
    ASSUME IInv, NEW t \in Threads, NEW i \in Items, Deinit(t, i)
    PROVE  IInv'
<1>0. QueueInv /\ TypeOK /\ OpsInv /\ StopInv /\ WakeInv /\ LockstepInv /\ DetachOutlived
  BY IInvQueue DEF IInv
<1>1. QueueInv'
  BY <1>0, QueueUnchanged DEF queue, Deinit, Enter, MayCall, state
<1>2. TypeOK'
  BY <1>0, <1>1 DEF TypeOK, Ops, QueueInv, QueueTypes, Deinit, Enter, MayCall, queue, state
<1>3. OpsInv'
  BY <1>0 DEF OpsInv, TypeOK, Deinit, Enter, MayCall, queue, state
<1>4. StopInv'
  BY <1>0 DEF StopInv, StopOps, OpsInv, TypeOK, Destroyed, Deinit, Enter, MayCall, queue, state
<1>5. WakeInv'
  BY <1>0 DEF WakeInv, NoLostStop, Signalling, StopSignalling, TypeOK, Deinit, Enter, MayCall,
         queue, state
<1>6. LockstepInv' /\ DetachOutlived'
  BY <1>0 DEF LockstepInv, LockstepWaitsForWork, DetachOutlived, TypeOK, Deinit, Enter, MayCall,
         queue, state
<1>. QED BY <1>1, <1>2, <1>3, <1>4, <1>5, <1>6 DEF IInv, QueueInv

(* Clear() empties the queue.                                               *)
LEMMA ClearIInv ==
    ASSUME IInv, NEW t \in Threads, Clear(t)
    PROVE  IInv'
<1>0. QueueInv /\ TypeOK /\ OpsInv /\ StopInv /\ WakeInv /\ LockstepInv /\ DetachOutlived
  BY IInvQueue DEF IInv
<1>1. QueueInv'
  BY SMTT(30) DEF Clear, QueueInv, QueueTypes, QueueIsFifo
<1>2. TypeOK'
  BY <1>0, <1>1 DEF TypeOK, Ops, QueueInv, QueueTypes, Clear, MayCall, queue, state
<1>3. OpsInv'
  BY <1>0 DEF OpsInv, TypeOK, Clear, MayCall, queue, state
<1>4. StopInv'
  BY <1>0 DEF StopInv, StopOps, OpsInv, TypeOK, Destroyed, Clear, MayCall, queue, state
<1>5. WakeInv'
  BY <1>0 DEF WakeInv, NoLostStop, Signalling, StopSignalling, TypeOK, Clear, MayCall, queue,
         state
<1>6. LockstepInv' /\ DetachOutlived'
  BY <1>0 DEF LockstepInv, LockstepWaitsForWork, DetachOutlived, TypeOK, Clear, MayCall, queue,
         state
<1>. QED BY <1>1, <1>2, <1>3, <1>4, <1>5, <1>6 DEF IInv, QueueInv

(* Attach() adds an item nobody else uses, unless the worker is to stop.    *)
LEMMA AttachIInv ==
    ASSUME IInv, NEW t \in Threads, Attach(t)
    PROVE  IInv'
<1>0. QueueInv /\ TypeOK /\ OpsInv /\ StopInv /\ WakeInv /\ LockstepInv /\ DetachOutlived
  BY IInvQueue DEF IInv
<1>1. QueueInv'
  BY <1>0, QueueUnchanged DEF queue, Attach, At, Goto, state, Destroyed
<1>2. TypeOK'
  BY <1>0, <1>1, SMTT(30) DEF TypeOK, Ops, OpsInv, QueueInv, QueueTypes, Attach, At, Goto
<1>3. OpsInv'
  BY <1>0 DEF OpsInv, TypeOK, Attach, At, Goto, queue, state, Destroyed
<1>4. StopInv'
  BY <1>0 DEF StopInv, StopOps, OpsInv, TypeOK, Destroyed, Attach, At, Goto, queue, state
<1>5. WakeInv'
  BY <1>0 DEF WakeInv, NoLostStop, Signalling, StopSignalling, TypeOK, Attach, At, Goto, queue,
         state, Destroyed
<1>6. LockstepInv' /\ DetachOutlived'
  BY <1>0 DEF LockstepInv, LockstepWaitsForWork, DetachOutlived, TypeOK, Attach, At, Goto, queue,
         state, Destroyed
<1>. QED BY <1>1, <1>2, <1>3, <1>4, <1>5, <1>6 DEF IInv, QueueInv

(* SignalWorkerThread() reads the semaphore: it may return when it is up.   *)
LEMMA SignalIInv ==
    ASSUME IInv, NEW t \in Threads, Signal(t)
    PROVE  IInv'
<1>0. QueueInv /\ TypeOK /\ OpsInv /\ StopInv /\ WakeInv /\ LockstepInv /\ DetachOutlived
  BY IInvQueue DEF IInv
<1>1. QueueInv'
  BY <1>0, QueueUnchanged DEF queue, Signal, At, Goto, state, Destroyed, NeedsPost
<1>2. TypeOK'
  BY <1>0, <1>1 DEF TypeOK, Ops, QueueInv, QueueTypes, Signal, At, Goto, queue, state, Destroyed,
         NeedsPost
<1>3. OpsInv'
  BY <1>0, SMTT(30) DEF OpsInv, TypeOK, Signal, At, Goto, queue, state, Destroyed, NeedsPost
<1>4. StopInv'
  BY <1>0, SMTT(30) DEF StopInv, StopOps, OpsInv, TypeOK, Destroyed, Signal, At, Goto, queue, state,
         NeedsPost
<1>5. WakeInv'
  BY <1>0, SMTT(30) DEF WakeInv, NoLostStop, Signalling, StopSignalling, TypeOK, Signal, At, Goto, queue,
         state, Destroyed, NeedsPost
<1>6. LockstepInv' /\ DetachOutlived'
  BY <1>0 DEF LockstepInv, LockstepWaitsForWork, DetachOutlived, TypeOK, Signal, At, Goto, queue,
         state, Destroyed, NeedsPost
<1>. QED BY <1>1, <1>2, <1>3, <1>4, <1>5, <1>6 DEF IInv, QueueInv

(* SignalWorkerThread() posts the semaphore.                                *)
LEMMA PostIInv ==
    ASSUME IInv, NEW t \in Threads, Post(t)
    PROVE  IInv'
<1>0. QueueInv /\ TypeOK /\ OpsInv /\ StopInv /\ WakeInv /\ LockstepInv /\ DetachOutlived
  BY IInvQueue DEF IInv
<1>1. QueueInv'
  BY <1>0, QueueUnchanged DEF queue, Post, At, Goto, state, Destroyed
<1>2. TypeOK'
  BY <1>0, <1>1, SMTT(30) DEF TypeOK, Ops, QueueInv, QueueTypes, Post, At, Goto, queue, state, Destroyed
<1>3. OpsInv'
  BY <1>0 DEF OpsInv, TypeOK, Post, At, Goto, queue, state, Destroyed
<1>4. StopInv'
  BY <1>0 DEF StopInv, StopOps, OpsInv, TypeOK, Destroyed, Post, At, Goto, queue, state
<1>5. WakeInv'
  BY <1>0, SMTT(30) DEF WakeInv, NoLostStop, Signalling, StopSignalling, TypeOK, Post, At, Goto, queue,
         state, Destroyed
<1>6. LockstepInv' /\ DetachOutlived'
  BY <1>0 DEF LockstepInv, LockstepWaitsForWork, DetachOutlived, TypeOK, Post, At, Goto, queue,
         state, Destroyed
<1>. QED BY <1>1, <1>2, <1>3, <1>4, <1>5, <1>6 DEF IInv, QueueInv

(* Detach() takes the exit lock before it tells the worker to stop.         *)
LEMMA DetachIInv ==
    ASSUME IInv, NEW t \in Threads, Detach(t)
    PROVE  IInv'
<1>0. QueueInv /\ TypeOK /\ OpsInv /\ StopInv /\ WakeInv /\ LockstepInv /\ DetachOutlived
  BY IInvQueue DEF IInv
<1>1. QueueInv'
  BY <1>0, QueueUnchanged DEF queue, Detach, At, Goto, state, Destroyed
<1>2. TypeOK'
  <2>1. op' \in [Threads -> Ops]
    BY <1>0 DEF TypeOK, Ops, Detach, Goto
  <2>2. exit_lock' \in {0, 1} /\ qlock' \in Threads \cup {Nil} /\ should_exit' \in BOOLEAN
    <3>1. CASE work_items' = {}
      <4>1. exit_lock' = exit_lock - 1 /\ exit_lock > 0 /\ qlock' = t /\ should_exit' = TRUE
        BY <3>1 DEF Detach
      <4>. QED BY <1>0, <4>1, SMTT(30) DEF TypeOK
    <3>2. CASE work_items' # {}
      <4>1. UNCHANGED <<exit_lock, qlock, should_exit>>
        BY <3>2 DEF Detach
      <4>. QED BY <1>0, <4>1 DEF TypeOK
    <3>. QED BY <3>1, <3>2
  <2>3. work_items' \subseteq Items /\ UNCHANGED <<queue, process_lock, lockstep, wq, worker>>
        /\ UNCHANGED <<running, arg, late>>
    BY <1>0 DEF TypeOK, Detach
  <2>. QED BY <1>0, <2>1, <2>2, <2>3 DEF TypeOK, queue
<1>3. OpsInv'
  BY <1>0, SMTT(30) DEF OpsInv, TypeOK, Detach, At, Goto, queue, state, Destroyed
<1>4. StopInv'
  BY <1>0, SMTT(30) DEF StopInv, StopOps, OpsInv, TypeOK, Destroyed, Detach, At, Goto, queue, state
<1>5. WakeInv'
  BY <1>0 DEF WakeInv, NoLostStop, Signalling, StopSignalling, TypeOK, Detach, At, Goto, queue,
         state, Destroyed
<1>6. LockstepInv' /\ DetachOutlived'
  BY <1>0 DEF LockstepInv, LockstepWaitsForWork, DetachOutlived, TypeOK, Detach, At, Goto, queue,
         state, Destroyed
<1>. QED BY <1>1, <1>2, <1>3, <1>4, <1>5, <1>6 DEF IInv, QueueInv

(* Detach() leaves the critical section.                                    *)
LEMMA DetachUnlockIInv ==
    ASSUME IInv, NEW t \in Threads, DetachUnlock(t)
    PROVE  IInv'
<1>0. QueueInv /\ TypeOK /\ OpsInv /\ StopInv /\ WakeInv /\ LockstepInv /\ DetachOutlived
  BY IInvQueue DEF IInv
<1>1. QueueInv'
  BY <1>0, QueueUnchanged DEF queue, DetachUnlock, At, Goto, state, Destroyed
<1>2. TypeOK'
  BY <1>0, <1>1 DEF TypeOK, Ops, QueueInv, QueueTypes, DetachUnlock, At, Goto, queue, state,
         Destroyed
<1>3. OpsInv'
  BY <1>0 DEF OpsInv, TypeOK, DetachUnlock, At, Goto, queue, state, Destroyed
<1>4. StopInv'
  BY <1>0 DEF StopInv, StopOps, OpsInv, TypeOK, Destroyed, DetachUnlock, At, Goto, queue, state
<1>5. WakeInv'
  BY <1>0 DEF WakeInv, NoLostStop, Signalling, StopSignalling, TypeOK, DetachUnlock, At, Goto,
         queue, state, Destroyed
<1>6. LockstepInv' /\ DetachOutlived'
  BY <1>0 DEF LockstepInv, LockstepWaitsForWork, DetachOutlived, TypeOK, DetachUnlock, At, Goto,
         queue, state, Destroyed
<1>. QED BY <1>1, <1>2, <1>3, <1>4, <1>5, <1>6 DEF IInv, QueueInv

(* Detach() releases the exit lock, which it alone held.                    *)
LEMMA DetachExitIInv ==
    ASSUME IInv, NEW t \in Threads, DetachExit(t)
    PROVE  IInv'
<1>0. QueueInv /\ TypeOK /\ OpsInv /\ StopInv /\ WakeInv /\ LockstepInv /\ DetachOutlived
  BY IInvQueue DEF IInv
<1>1. QueueInv'
  BY <1>0, QueueUnchanged DEF queue, DetachExit, At, Goto, state, Destroyed
<1>2. TypeOK'
  BY <1>0, <1>1, SMTT(30) DEF TypeOK, Ops, StopInv, StopOps, QueueInv, QueueTypes, DetachExit, At,
         Goto, state
<1>3. OpsInv'
  BY <1>0 DEF OpsInv, TypeOK, DetachExit, At, Goto, queue, state, Destroyed
<1>4. StopInv'
  BY <1>0 DEF StopInv, StopOps, OpsInv, TypeOK, Destroyed, DetachExit, At, Goto, queue, state
<1>5. WakeInv'
  BY <1>0 DEF WakeInv, NoLostStop, Signalling, StopSignalling, TypeOK, DetachExit, At, Goto,
         queue, state, Destroyed
<1>6. LockstepInv' /\ DetachOutlived'
  BY <1>0 DEF LockstepInv, LockstepWaitsForWork, DetachOutlived, TypeOK, DetachExit, At, Goto,
         queue, state, Destroyed
<1>. QED BY <1>1, <1>2, <1>3, <1>4, <1>5, <1>6 DEF IInv, QueueInv

(* No operation of Deinit() meets a destroyed queue.                        *)
LEMMA TooLateIInv ==
    ASSUME IInv, NEW t \in Threads, TooLate(t)
    PROVE  IInv'
<1>0. QueueInv /\ TypeOK /\ OpsInv /\ StopInv /\ WakeInv /\ LockstepInv /\ DetachOutlived
  BY IInvQueue DEF IInv
<1>1. QueueInv'
  BY <1>0, QueueUnchanged DEF queue, TooLate, At, Goto, state, Destroyed
<1>2. TypeOK'
  BY <1>0, <1>1 DEF TypeOK, Ops, QueueInv, QueueTypes, TooLate, At, Goto, queue, state, Destroyed
<1>3. OpsInv'
  BY <1>0 DEF OpsInv, TypeOK, TooLate, At, Goto, queue, state, Destroyed
<1>4. StopInv'
  BY <1>0 DEF StopInv, StopOps, OpsInv, TypeOK, Destroyed, TooLate, At, Goto, queue, state
<1>5. WakeInv'
  BY <1>0 DEF WakeInv, NoLostStop, Signalling, StopSignalling, TypeOK, TooLate, At, Goto, queue,
         state, Destroyed
<1>6. LockstepInv' /\ DetachOutlived'
  <2>1. work_items = {} /\ ~(op[t] \in StopOps)
    BY <1>0 DEF StopInv, TooLate, Destroyed
  <2>2. ~(op[t] \in {"deinit", "detach"})
    BY <1>0, <2>1 DEF OpsInv
  <2>3. DetachOutlived'
    BY <1>0, <2>1, <2>2 DEF TooLate, DetachOutlived, StopOps
  <2>. QED BY <1>0, <2>3 DEF LockstepInv, LockstepWaitsForWork, TooLate, queue, state
<1>. QED BY <1>1, <1>2, <1>3, <1>4, <1>5, <1>6 DEF IInv, QueueInv

(* Add() pushes the item and is then about to signal.                       *)
LEMMA AddIInv ==
    ASSUME IInv, NEW t \in Threads, Add(t)
    PROVE  IInv'
<1>0. QueueInv /\ TypeOK /\ OpsInv /\ StopInv /\ WakeInv /\ LockstepInv /\ DetachOutlived
  BY IInvQueue DEF IInv
<1>1. QueueInv' /\ fifo' # <<>>
  BY <1>0, PushFacts DEF Add, At, OpsInv
<1>2. TypeOK'
  BY <1>0, <1>1 DEF TypeOK, Ops, QueueInv, QueueTypes, Add, At, Goto, queue, state, Destroyed
<1>3. OpsInv'
  BY <1>0 DEF OpsInv, TypeOK, Add, At, Goto, queue, state, Destroyed
<1>4. StopInv'
  BY <1>0 DEF StopInv, StopOps, OpsInv, TypeOK, Destroyed, Add, At, Goto, queue, state
<1>5. WakeInv'
  BY <1>0 DEF WakeInv, NoLostStop, Signalling, StopSignalling, TypeOK, Add, At, Goto, queue,
         state, Destroyed
<1>6. LockstepInv' /\ DetachOutlived'
  BY <1>0 DEF LockstepInv, LockstepWaitsForWork, DetachOutlived, TypeOK, Add, At, Goto, queue,
         state, Destroyed
<1>. QED BY <1>1, <1>2, <1>3, <1>4, <1>5, <1>6 DEF IInv, QueueInv

(* Remove() takes an item out of the queue.                                 *)
LEMMA RemoveItemIInv ==
    ASSUME IInv, NEW t \in Threads, RemoveItem(t)
    PROVE  IInv'
<1>0. QueueInv /\ TypeOK /\ OpsInv /\ StopInv /\ WakeInv /\ LockstepInv /\ DetachOutlived
  BY IInvQueue DEF IInv
<1>1. QueueInv' /\ (fifo' # <<>> => fifo # <<>>)
  BY <1>0, RemoveFacts DEF RemoveItem, At, OpsInv
<1>2. TypeOK'
  BY <1>0, <1>1 DEF TypeOK, Ops, QueueInv, QueueTypes, RemoveItem, At, Goto, queue, state,
         Destroyed
<1>3. OpsInv'
  BY <1>0 DEF OpsInv, TypeOK, RemoveItem, At, Goto, queue, state, Destroyed
<1>4. StopInv'
  BY <1>0, SMTT(30) DEF StopInv, StopOps, OpsInv, TypeOK, Destroyed, RemoveItem, At, Goto, queue, state
<1>5. WakeInv'
  BY <1>0, <1>1 DEF WakeInv, NoLostStop, Signalling, StopSignalling, TypeOK, RemoveItem, At,
         Goto, queue, state, Destroyed
<1>6. LockstepInv' /\ DetachOutlived'
  BY <1>0, <1>1 DEF LockstepInv, LockstepWaitsForWork, DetachOutlived, TypeOK, RemoveItem, At,
         Goto, queue, state, Destroyed
<1>. QED BY <1>1, <1>2, <1>3, <1>4, <1>5, <1>6 DEF IInv, QueueInv

(* The worker tests whether it is to stop.                                  *)
LEMMA LoopIInv ==
    ASSUME IInv, Loop
    PROVE  IInv'
<1>0. QueueInv /\ TypeOK /\ OpsInv /\ StopInv /\ WakeInv /\ LockstepInv /\ DetachOutlived
  BY IInvQueue DEF IInv
<1>1. QueueInv'
  BY <1>0, QueueUnchanged DEF queue, Loop, state, Destroyed
<1>2. TypeOK'
  BY <1>0, <1>1 DEF TypeOK, Ops, QueueInv, QueueTypes, Loop, queue, state, Destroyed
<1>3. OpsInv'
  BY <1>0 DEF OpsInv, TypeOK, Loop, queue, state, Destroyed
<1>4. StopInv'
  BY <1>0 DEF StopInv, StopOps, OpsInv, TypeOK, Destroyed, Loop, queue, state
<1>5. WakeInv'
  BY <1>0 DEF WakeInv, NoLostStop, Signalling, StopSignalling, TypeOK, Loop, queue, state,
         Destroyed
<1>6. LockstepInv' /\ DetachOutlived'
  BY <1>0 DEF LockstepInv, LockstepWaitsForWork, DetachOutlived, TypeOK, Loop, queue, state,
         Destroyed
<1>. QED BY <1>1, <1>2, <1>3, <1>4, <1>5, <1>6 DEF IInv, QueueInv

(* The worker wakes up.                                                     *)
LEMMA WaitIInv ==
    ASSUME IInv, Wait
    PROVE  IInv'
<1>0. QueueInv /\ TypeOK /\ OpsInv /\ StopInv /\ WakeInv /\ LockstepInv /\ DetachOutlived
  BY IInvQueue DEF IInv
<1>1. QueueInv'
  BY <1>0, QueueUnchanged DEF queue, Wait, state, Destroyed
<1>2. TypeOK'
  BY <1>0, <1>1, SMTT(30) DEF TypeOK, Ops, QueueInv, QueueTypes, Wait, queue, state, Destroyed
<1>3. OpsInv'
  BY <1>0 DEF OpsInv, TypeOK, Wait, queue, state, Destroyed
<1>4. StopInv'
  BY <1>0 DEF StopInv, StopOps, OpsInv, TypeOK, Destroyed, Wait, queue, state
<1>5. WakeInv'
  BY <1>0 DEF WakeInv, NoLostStop, Signalling, StopSignalling, TypeOK, Wait, queue, state,
         Destroyed
<1>6. LockstepInv' /\ DetachOutlived'
  BY <1>0 DEF LockstepInv, LockstepWaitsForWork, DetachOutlived, TypeOK, Wait, queue, state,
         Destroyed
<1>. QED BY <1>1, <1>2, <1>3, <1>4, <1>5, <1>6 DEF IInv, QueueInv

(* An item's Run() returns.                                                 *)
LEMMA RunDoneIInv ==
    ASSUME IInv, RunDone
    PROVE  IInv'
<1>0. QueueInv /\ TypeOK /\ OpsInv /\ StopInv /\ WakeInv /\ LockstepInv /\ DetachOutlived
  BY IInvQueue DEF IInv
<1>1. QueueInv'
  BY <1>0, QueueUnchanged DEF queue, RunDone, state, Destroyed
<1>2. TypeOK'
  BY <1>0, <1>1 DEF TypeOK, Ops, QueueInv, QueueTypes, RunDone, queue, state, Destroyed
<1>3. OpsInv'
  BY <1>0 DEF OpsInv, TypeOK, RunDone, queue, state, Destroyed
<1>4. StopInv'
  BY <1>0 DEF StopInv, StopOps, OpsInv, TypeOK, Destroyed, RunDone, queue, state
<1>5. WakeInv'
  BY <1>0 DEF WakeInv, NoLostStop, Signalling, StopSignalling, TypeOK, RunDone, queue, state,
         Destroyed
<1>6. LockstepInv' /\ DetachOutlived'
  BY <1>0 DEF LockstepInv, LockstepWaitsForWork, DetachOutlived, TypeOK, RunDone, queue, state,
         Destroyed
<1>. QED BY <1>1, <1>2, <1>3, <1>4, <1>5, <1>6 DEF IInv, QueueInv

(* The queue leaves the manager's list.                                     *)
LEMMA UnlistIInv ==
    ASSUME IInv, Unlist
    PROVE  IInv'
<1>0. QueueInv /\ TypeOK /\ OpsInv /\ StopInv /\ WakeInv /\ LockstepInv /\ DetachOutlived
  BY IInvQueue DEF IInv
<1>1. QueueInv'
  BY <1>0, QueueUnchanged DEF queue, Unlist, state, Destroyed
<1>2. TypeOK'
  BY <1>0, <1>1 DEF TypeOK, Ops, QueueInv, QueueTypes, Unlist, queue, state, Destroyed
<1>3. OpsInv'
  BY <1>0 DEF OpsInv, TypeOK, Unlist, queue, state, Destroyed
<1>4. StopInv'
  BY <1>0 DEF StopInv, StopOps, OpsInv, TypeOK, Destroyed, Unlist, queue, state
<1>5. WakeInv'
  BY <1>0 DEF WakeInv, NoLostStop, Signalling, StopSignalling, TypeOK, Unlist, queue, state,
         Destroyed
<1>6. LockstepInv' /\ DetachOutlived'
  BY <1>0 DEF LockstepInv, LockstepWaitsForWork, DetachOutlived, TypeOK, Unlist, queue, state,
         Destroyed
<1>. QED BY <1>1, <1>2, <1>3, <1>4, <1>5, <1>6 DEF IInv, QueueInv

(* The destructor takes the lock of the queue.                              *)
LEMMA DestroyLockIInv ==
    ASSUME IInv, DestroyLock
    PROVE  IInv'
<1>0. QueueInv /\ TypeOK /\ OpsInv /\ StopInv /\ WakeInv /\ LockstepInv /\ DetachOutlived
  BY IInvQueue DEF IInv
<1>1. QueueInv'
  BY <1>0, QueueUnchanged DEF queue, DestroyLock, state, Destroyed
<1>2. TypeOK'
  BY <1>0, <1>1 DEF TypeOK, Ops, QueueInv, QueueTypes, DestroyLock, state, Threads
<1>3. OpsInv'
  BY <1>0 DEF OpsInv, TypeOK, DestroyLock, queue, state, Destroyed
<1>4. StopInv'
  BY <1>0 DEF StopInv, StopOps, OpsInv, TypeOK, Destroyed, DestroyLock, queue, state
<1>5. WakeInv'
  BY <1>0 DEF WakeInv, NoLostStop, Signalling, StopSignalling, TypeOK, DestroyLock, queue, state,
         Destroyed
<1>6. LockstepInv' /\ DetachOutlived'
  BY <1>0 DEF LockstepInv, LockstepWaitsForWork, DetachOutlived, TypeOK, DestroyLock, queue,
         state, Destroyed
<1>. QED BY <1>1, <1>2, <1>3, <1>4, <1>5, <1>6 DEF IInv, QueueInv

(* The destructor gets the exit lock: nobody is in Detach().                *)
LEMMA DestroyIInv ==
    ASSUME IInv, Destroy
    PROVE  IInv'
<1>0. QueueInv /\ TypeOK /\ OpsInv /\ StopInv /\ WakeInv /\ LockstepInv /\ DetachOutlived
  BY IInvQueue DEF IInv
<1>1. QueueInv'
  BY <1>0, QueueUnchanged DEF queue, Destroy, state, Destroyed
<1>2. TypeOK'
  BY <1>0, <1>1, SMTT(30) DEF TypeOK, Ops, QueueInv, QueueTypes, Destroy, queue, state, Destroyed
<1>3. OpsInv'
  BY <1>0 DEF OpsInv, TypeOK, Destroy, queue, state, Destroyed
<1>4. StopInv'
  BY <1>0, SMTT(30) DEF StopInv, StopOps, OpsInv, TypeOK, Destroyed, Destroy, queue, state
<1>5. WakeInv'
  BY <1>0 DEF WakeInv, NoLostStop, Signalling, StopSignalling, TypeOK, Destroy, queue, state,
         Destroyed
<1>6. LockstepInv' /\ DetachOutlived'
  BY <1>0 DEF LockstepInv, LockstepWaitsForWork, DetachOutlived, TypeOK, Destroy, queue, state,
         Destroyed
<1>. QED BY <1>1, <1>2, <1>3, <1>4, <1>5, <1>6 DEF IInv, QueueInv

(* The worker takes an item, with the lockstep component registered.        *)
LEMMA PopItemIInv ==
    ASSUME IInv, PopItem
    PROVE  IInv'
<1>0. QueueInv /\ TypeOK /\ OpsInv /\ StopInv /\ WakeInv /\ LockstepInv /\ DetachOutlived
  BY IInvQueue DEF IInv
<1>1. QueueInv' /\ fifo # <<>> /\ head \in Items
  BY <1>0, PopFacts DEF PopItem
<1>2. TypeOK'
  BY <1>0, <1>1 DEF TypeOK, Ops, QueueInv, QueueTypes, PopItem, queue, state, Destroyed
<1>3. OpsInv'
  BY <1>0 DEF OpsInv, TypeOK, PopItem, queue, state, Destroyed
<1>4. StopInv'
  BY <1>0 DEF StopInv, StopOps, OpsInv, TypeOK, Destroyed, PopItem, queue, state
<1>5. WakeInv'
  BY <1>0 DEF WakeInv, NoLostStop, Signalling, StopSignalling, TypeOK, PopItem, queue, state,
         Destroyed
<1>6. LockstepInv' /\ DetachOutlived'
  BY <1>0, <1>1 DEF LockstepInv, LockstepWaitsForWork, DetachOutlived, TypeOK, PopItem, queue,
         state, Destroyed
<1>. QED BY <1>1, <1>2, <1>3, <1>4, <1>5, <1>6 DEF IInv, QueueInv

(* The worker finds the queue empty and releases the component.             *)
LEMMA QueueEmptyIInv ==
    ASSUME IInv, QueueEmpty
    PROVE  IInv'
<1>0. QueueInv /\ TypeOK /\ OpsInv /\ StopInv /\ WakeInv /\ LockstepInv /\ DetachOutlived
  BY IInvQueue DEF IInv
<1>1. QueueInv' /\ fifo' = <<>>
  BY <1>0, QueueUnchanged, ItemsAssumption, SMTT(60), SMTT(30) DEF QueueEmpty, queue, QueueInv, QueueTypes,
         QueueIsFifo
<1>2. TypeOK'
  BY <1>0, <1>1 DEF TypeOK, Ops, QueueInv, QueueTypes, QueueEmpty, queue, state, Destroyed
<1>3. OpsInv'
  BY <1>0 DEF OpsInv, TypeOK, QueueEmpty, queue, state, Destroyed
<1>4. StopInv'
  BY <1>0 DEF StopInv, StopOps, OpsInv, TypeOK, Destroyed, QueueEmpty, queue, state
<1>5. WakeInv'
  BY <1>0, <1>1 DEF WakeInv, NoLostStop, Signalling, StopSignalling, TypeOK, QueueEmpty, queue,
         state, Destroyed
<1>6. LockstepInv' /\ DetachOutlived'
  BY <1>0, <1>1 DEF LockstepInv, LockstepWaitsForWork, DetachOutlived, TypeOK, QueueEmpty, queue,
         state, Destroyed
<1>. QED BY <1>1, <1>2, <1>3, <1>4, <1>5, <1>6 DEF IInv, QueueInv

-----------------------------------------------------------------------------
(* The theorems. *)

(* Every step keeps the invariant.                                          *)
LEMMA StepIInv ==
    ASSUME IInv, [Next]_vars
    PROVE  IInv'
<1>1. CASE WorkerStep
  BY <1>1, LoopIInv, WaitIInv, PopItemIInv, RunDoneIInv, QueueEmptyIInv, UnlistIInv,
     DestroyLockIInv, DestroyIInv DEF WorkerStep
<1>2. ASSUME NEW t \in Threads, Call(t) PROVE IInv'
  BY <1>2, ClearIInv, ScheduleNowIInv, ScheduleClearIInv, FindWorkQueueIInv, DeinitIInv DEF Call
<1>3. ASSUME NEW t \in Threads, OpStep(t) PROVE IInv'
  BY <1>3, AttachIInv, AddIInv, SignalIInv, PostIInv, RemoveItemIInv, DetachIInv,
     DetachUnlockIInv, DetachExitIInv, TooLateIInv DEF OpStep
<1>4. CASE UNCHANGED vars
  BY <1>4, SMTT(60), SMTT(30) DEF vars, queue, state, IInv, TypeOK, QueueIsFifo, OpsInv, StopInv, StopOps, Destroyed,
     WakeInv, NoLostStop, Signalling, StopSignalling, LockstepInv, LockstepWaitsForWork,
     DetachOutlived
<1>. QED BY <1>1, <1>2, <1>3, <1>4 DEF Next

(* The invariant holds whatever the items and threads, and in whatever      *)
(* order the threads take their steps.                                      *)
THEOREM Invariance == Spec => []IInv
BY InitIInv, StepIInv, PTL DEF Spec

(* The variables keep their types; the exit lock stays binary.              *)
THEOREM TypeCorrect == Spec => []TypeOK
<1>1. IInv => TypeOK
  BY DEF IInv
<1>. QED BY <1>1, Invariance, PTL

(* push(), pop() and remove() keep the linked list a queue of distinct      *)
(* items, in the order in which they were scheduled.                        *)
THEOREM QueueIsAFifo == Spec => []QueueIsFifo
<1>1. IInv => QueueIsFifo
  BY DEF IInv
<1>. QED BY <1>1, Invariance, PTL

(* SignalWorkerThread() loses no wakeup: a worker that sleeps has nothing   *)
(* to do, or will be woken.                                                 *)
THEOREM WakeupsAreNotLost == Spec => []NoLostWakeup
<1>1. IInv => NoLostWakeup
  BY DEF IInv, WakeInv, NoLostWakeup
<1>. QED BY <1>1, Invariance, PTL

(* A worker that sleeps when it has been told to stop will be woken.        *)
THEOREM StopIsNotLost == Spec => []NoLostStop
<1>1. IInv => NoLostStop
  BY DEF IInv, WakeInv
<1>. QED BY <1>1, Invariance, PTL

(* The lockstep component is registered while there is work.                *)
THEOREM LockstepFollowsWork == Spec => []LockstepWaitsForWork
<1>1. IInv => LockstepWaitsForWork
  BY DEF IInv, LockstepInv
<1>. QED BY <1>1, Invariance, PTL

(* No worker sleeps with the lockstep component registered and nobody about *)
(* to wake it: it would hold up the simulation for ever.                    *)
THEOREM LockstepIsReleased == Spec => []LockstepNotStuck
<1>1. IInv => LockstepNotStuck
  BY DEF IInv, WakeInv, LockstepInv, LockstepNotStuck
<1>. QED BY <1>1, Invariance, PTL

(* Deinit() is done with the queue before the worker thread destroys it.    *)
THEOREM DetachIsOutlived == Spec => []DetachOutlived
<1>1. IInv => DetachOutlived
  BY DEF IInv
<1>. QED BY <1>1, Invariance, PTL
=============================================================================
