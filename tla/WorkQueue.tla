----------------------------- MODULE WorkQueue -----------------------------
(***************************************************************************)
(* One work queue thread and the work items that are scheduled on it       *)
(* (platforms/common/px4_work_queue/WorkQueue.cpp, WorkItem.cpp, the       *)
(* runner of WorkQueueManager.cpp and the intrusive queue of               *)
(* src/include/containers/IntrusiveQueue.hpp).                             *)
(*                                                                         *)
(* Threads run ScheduleNow(), ScheduleClear(), Clear(), Init() and         *)
(* Deinit() on items; the worker thread may do so from within an item's    *)
(* Run().  A step is what a thread does between two points at which        *)
(* another thread can intervene: the test of _wq, a critical section of    *)
(* work_lock(), the reading of a semaphore and its posting.  The sections  *)
(* of Detach() and ~WorkQueue() take several steps and hold qlock.         *)
(***************************************************************************)
EXTENDS Integers, Sequences

CONSTANTS
    Items,      \* work items
    Callers,    \* threads (or interrupt handlers) other than the worker
    Worker,     \* the thread of the work queue
    Deleters,   \* threads that deinitialise items
    Nil         \* nullptr, no thread

Threads == Callers \cup {Worker}

ASSUME ThreadsAssumption ==
    Worker \notin Callers /\ Nil \notin Threads /\ Deleters \subseteq Threads
ASSUME ItemsAssumption == Nil \notin Items

VARIABLES
    head, tail, next,  \* _q: _head, _tail and the items' _next_intrusive_queue_node
    fifo,              \* history: the sequence of items _q stands for
    process_lock,      \* value of the semaphore _process_lock
    exit_lock,         \* value of the semaphore _exit_lock
    qlock,             \* thread that holds work_lock() over several steps, or Nil
    should_exit,       \* _should_exit
    lockstep,          \* _lockstep_component is registered
    work_items,        \* _work_items
    wq,                \* items whose _wq is not nullptr
    worker,            \* where the worker is in WorkQueueRunner()
    running,           \* item that Run() has popped, or Nil
    op, arg,           \* [thread -> where it is in which operation, and the item]
    late               \* history: operations that met a destroyed queue

queue == <<head, tail, next, fifo>>
state == <<should_exit, lockstep, work_items, wq>>
vars == <<queue, process_lock, exit_lock, qlock, state, worker, running, op, arg, late>>

Init ==
    /\ head = Nil /\ tail = Nil
    /\ next = [i \in Items |-> Nil]
    /\ fifo = <<>>
    /\ process_lock = 0 /\ exit_lock = 1
    /\ qlock = Nil
    /\ should_exit = FALSE /\ lockstep = FALSE
    /\ work_items = {} /\ wq = {}
    /\ worker = "loop"
    /\ running = Nil
    /\ op = [t \in Threads |-> "idle"]
    /\ arg = [t \in Threads |-> Nil]
    /\ late = {}

-----------------------------------------------------------------------------
(* IntrusiveQueue, and beside it the sequence it stands for. *)

Queued == {fifo[k] : k \in 1 .. Len(fifo)}

WithoutAt(f, k) == [j \in 1 .. Len(f) - 1 |-> IF j < k THEN f[j] ELSE f[j + 1]]

FifoRemove(i) ==
    IF i \in Queued
    THEN \E k \in 1 .. Len(fifo) : fifo[k] = i /\ fifo' = WithoutAt(fifo, k)
    ELSE UNCHANGED fifo

(* Mutant: the last node, which has no successor, is not known to be queued. *)
PushLastTwice(i) ==
    /\ fifo' = IF i \in Queued THEN fifo ELSE Append(fifo, i)
    /\ IF next[i] # Nil
       THEN UNCHANGED <<head, tail, next>>
       ELSE /\ head' = IF head = Nil THEN i ELSE head
            /\ next' = IF tail # Nil THEN [next EXCEPT ![tail] = i] ELSE next
            /\ tail' = i

Push(i) ==
    /\ fifo' = IF i \in Queued THEN fifo ELSE Append(fifo, i)
    /\ IF next[i] # Nil \/ i = tail
       THEN UNCHANGED <<head, tail, next>>
       ELSE /\ head' = IF head = Nil THEN i ELSE head
            /\ next' = IF tail # Nil THEN [next EXCEPT ![tail] = i] ELSE next
            /\ tail' = i

Pop ==
    /\ head # Nil
    /\ fifo' = Tail(fifo)
    /\ head' = IF head # tail THEN next[head] ELSE Nil
    /\ tail' = IF head # tail THEN tail ELSE Nil
    /\ next' = [next EXCEPT ![head] = Nil]

(* Removal of the first node; of a later one, found as a node's successor;  *)
(* of a node that is not in the queue.                                      *)
RemoveHead(i) ==
    /\ i = head
    /\ head' = next[i]
    /\ tail' = IF next[i] # Nil THEN tail ELSE Nil
    /\ next' = [next EXCEPT ![i] = Nil]

(* Mutant: the tail stays at a removed node. *)
RemoveInnerKeepTail(i) ==
    /\ i # head
    /\ \E n \in Items : next[n] = i /\ next' = [next EXCEPT ![n] = next[i], ![i] = Nil]
    /\ UNCHANGED <<head, tail>>

RemoveInner(i) ==
    /\ i # head
    /\ \E n \in Items :
          /\ next[n] = i
          /\ tail' = IF i = tail THEN n ELSE tail
          /\ next' = [next EXCEPT ![n] = next[i], ![i] = Nil]
    /\ UNCHANGED head

RemoveAbsent(i) ==
    /\ i # head
    /\ \A n \in Items : next[n] # i
    /\ UNCHANGED <<head, tail, next>>

Remove(i) == FifoRemove(i) /\ (RemoveHead(i) \/ RemoveInner(i) \/ RemoveAbsent(i))

-----------------------------------------------------------------------------
(* Calls.  The worker calls operations only from an item's Run(). *)

MayCall(t) == op[t] = "idle" /\ (t = Worker => worker = "run")

Destroyed == worker = "destroyed"

(* The queue is in _wq_manager_wqs_list. *)
Listed == worker \in {"loop", "wait", "process", "run", "unlist"}

Enter(t, i, place) ==
    /\ MayCall(t)
    /\ op' = [op EXCEPT ![t] = place]
    /\ arg' = [arg EXCEPT ![t] = i]
    /\ UNCHANGED <<queue, process_lock, exit_lock, qlock, worker, running, late>>

(* ScheduleNow(): _wq is tested outside the lock. *)
ScheduleNow(t, i) == i \in wq /\ Enter(t, i, "add") /\ UNCHANGED state

(* WorkItem::ScheduleClear() likewise. *)
ScheduleClear(t, i) == i \in wq /\ Enter(t, i, "remove") /\ UNCHANGED state

(* Init() of an item that has no queue: the queue is found in the list.     *)
(* "Caller is responsible for synchronization": nobody uses the item.       *)
FindWorkQueue(t, i) ==
    /\ Listed
    /\ i \notin wq \cup work_items
    /\ \A u \in Threads : op[u] # "idle" => arg[u] # i
    /\ Enter(t, i, "attach")
    /\ UNCHANGED state

(* Deinit(): _wq is cleared first. *)
Deinit(t, i) ==
    /\ t \in Deleters
    /\ i \in wq
    /\ wq' = wq \ {i}
    /\ Enter(t, i, "deinit")
    /\ UNCHANGED <<should_exit, lockstep, work_items>>

(* WorkQueue::Clear(): pops every item. *)
Clear(t) ==
    /\ MayCall(t) /\ qlock = Nil /\ work_items # {}
    /\ head' = Nil /\ tail' = Nil
    /\ next' = [i \in Items |-> Nil]
    /\ fifo' = <<>>
    /\ UNCHANGED <<process_lock, exit_lock, qlock, state, worker, running, op, arg, late>>

-----------------------------------------------------------------------------
(* Steps of the operations that were called. *)

At(t, place) == op[t] = place /\ ~Destroyed
Goto(t, place) == op' = [op EXCEPT ![t] = place]

(* Attach(): refused when the worker has been asked to stop. *)
Attach(t) ==
    /\ At(t, "attach") /\ qlock = Nil
    /\ Goto(t, "idle")
    /\ IF should_exit
       THEN UNCHANGED <<work_items, wq>>
       ELSE work_items' = work_items \cup {arg[t]} /\ wq' = wq \cup {arg[t]}
    /\ UNCHANGED <<queue, process_lock, exit_lock, qlock, should_exit, lockstep, worker, running,
                   arg, late>>

(* Add(): the critical section; the worker is signalled after it. *)
Add(t) ==
    /\ At(t, "add") /\ qlock = Nil
    /\ lockstep' = TRUE
    /\ Push(arg[t])
    /\ Goto(t, "signal")
    /\ UNCHANGED <<process_lock, exit_lock, qlock, should_exit, work_items, wq, worker, running,
                   arg, late>>

(* Mutant: signals only a semaphore with waiters counted below zero. *)
NeedsPostNegative == process_lock < 0

(* SignalWorkerThread(): the value is read; a step later it is posted. *)
NeedsPost == process_lock <= 0

Signal(t) ==
    /\ \/ At(t, "signal") /\ Goto(t, IF NeedsPost THEN "post" ELSE "idle")
       \/ At(t, "detach_signal") /\ Goto(t, IF NeedsPost THEN "detach_post" ELSE "detach_unlock")
    /\ UNCHANGED <<queue, process_lock, exit_lock, qlock, state, worker, running, arg, late>>

Post(t) ==
    /\ \/ At(t, "post") /\ Goto(t, "idle")
       \/ At(t, "detach_post") /\ Goto(t, "detach_unlock")
    /\ process_lock' = process_lock + 1
    /\ UNCHANGED <<queue, exit_lock, qlock, state, worker, running, arg, late>>

(* WorkQueue::Remove(), from ScheduleClear() and from Deinit(). *)
RemoveItem(t) ==
    /\ qlock = Nil
    /\ \/ At(t, "remove") /\ Goto(t, "idle")
       \/ At(t, "deinit") /\ Goto(t, "detach")
    /\ Remove(arg[t])
    /\ UNCHANGED <<process_lock, exit_lock, qlock, state, worker, running, arg, late>>

(* Mutant: the queue may be deleted as soon as the worker is told to stop. *)
DetachNoExitLock(t) ==
    /\ At(t, "detach") /\ qlock = Nil
    /\ work_items' = work_items \ {arg[t]}
    /\ IF work_items' = {}
       THEN should_exit' = TRUE /\ qlock' = t /\ Goto(t, "detach_signal")
       ELSE Goto(t, "idle") /\ UNCHANGED <<should_exit, qlock>>
    /\ UNCHANGED <<queue, process_lock, exit_lock, lockstep, wq, worker, running, arg, late>>

(* Mutant: the worker is told to stop and not woken. *)
DetachNoSignal(t) ==
    /\ At(t, "detach") /\ qlock = Nil
    /\ work_items' = work_items \ {arg[t]}
    /\ IF work_items' = {}
       THEN /\ exit_lock > 0 /\ exit_lock' = exit_lock - 1
            /\ should_exit' = TRUE /\ qlock' = t /\ Goto(t, "detach_unlock")
       ELSE Goto(t, "idle") /\ UNCHANGED <<exit_lock, should_exit, qlock>>
    /\ UNCHANGED <<queue, process_lock, lockstep, wq, worker, running, arg, late>>

(* Detach(): with the last item the worker is told to stop, and until        *)
(* DetachExit the exit lock is held.                                         *)
Detach(t) ==
    /\ At(t, "detach") /\ qlock = Nil
    /\ work_items' = work_items \ {arg[t]}
    /\ IF work_items' = {}
       THEN /\ exit_lock > 0 /\ exit_lock' = exit_lock - 1
            /\ should_exit' = TRUE /\ qlock' = t /\ Goto(t, "detach_signal")
       ELSE Goto(t, "idle") /\ UNCHANGED <<exit_lock, should_exit, qlock>>
    /\ UNCHANGED <<queue, process_lock, lockstep, wq, worker, running, arg, late>>

DetachUnlock(t) ==
    /\ At(t, "detach_unlock")
    /\ qlock' = Nil
    /\ Goto(t, "detach_exit")
    /\ UNCHANGED <<queue, process_lock, exit_lock, state, worker, running, arg, late>>

DetachExit(t) ==
    /\ At(t, "detach_exit")
    /\ exit_lock' = exit_lock + 1
    /\ Goto(t, "idle")
    /\ UNCHANGED <<queue, process_lock, qlock, state, worker, running, arg, late>>

(* The operation meets a destroyed queue, where its effect is undefined. *)
TooLate(t) ==
    /\ Destroyed /\ op[t] # "idle"
    /\ late' = late \cup {op[t]}
    /\ Goto(t, "idle")
    /\ UNCHANGED <<queue, process_lock, exit_lock, qlock, state, worker, running, arg>>

-----------------------------------------------------------------------------
(* The worker thread: WorkQueueRunner(), WorkQueue::Run() and ~WorkQueue(). *)

Loop ==
    /\ worker = "loop"
    /\ worker' = IF should_exit THEN "unlist" ELSE "wait"
    /\ UNCHANGED <<queue, process_lock, exit_lock, qlock, state, running, op, arg, late>>

Wait ==
    /\ worker = "wait" /\ process_lock > 0
    /\ process_lock' = process_lock - 1
    /\ worker' = "process"
    /\ UNCHANGED <<queue, exit_lock, qlock, state, running, op, arg, late>>

(* Mutant: the component is released with the last item, before its Run(). *)
PopItemRelease ==
    /\ worker = "process" /\ qlock = Nil
    /\ Pop
    /\ running' = head
    /\ worker' = "run"
    /\ lockstep' = (head' # Nil)
    /\ UNCHANGED <<process_lock, exit_lock, qlock, should_exit, work_items, wq, op, arg, late>>

(* Takes an item and leaves the critical section to run it. *)
PopItem ==
    /\ worker = "process" /\ qlock = Nil
    /\ Pop
    /\ running' = head
    /\ worker' = "run"
    /\ UNCHANGED <<process_lock, exit_lock, qlock, state, op, arg, late>>

(* Run() of the item returns. *)
RunDone ==
    /\ worker = "run" /\ op[Worker] = "idle"
    /\ running' = Nil
    /\ worker' = "process"
    /\ UNCHANGED <<queue, process_lock, exit_lock, qlock, state, op, arg, late>>

(* Mutant: the component stays registered. *)
QueueEmptyKeep ==
    /\ worker = "process" /\ qlock = Nil /\ head = Nil
    /\ worker' = "loop"
    /\ UNCHANGED <<queue, process_lock, exit_lock, qlock, state, running, op, arg, late>>

(* The queue is empty: the lockstep component is released. *)
QueueEmpty ==
    /\ worker = "process" /\ qlock = Nil /\ head = Nil
    /\ lockstep' = FALSE
    /\ worker' = "loop"
    /\ UNCHANGED <<queue, process_lock, exit_lock, qlock, should_exit, work_items, wq, running,
                   op, arg, late>>

(* _wq_manager_wqs_list->remove(&wq) *)
Unlist ==
    /\ worker = "unlist"
    /\ worker' = "exit"
    /\ UNCHANGED <<queue, process_lock, exit_lock, qlock, state, running, op, arg, late>>

(* ~WorkQueue(): takes the lock, then waits for Detach() to be done. *)
DestroyLock ==
    /\ worker = "exit" /\ qlock = Nil
    /\ qlock' = Worker
    /\ worker' = "destroy"
    /\ UNCHANGED <<queue, process_lock, exit_lock, state, running, op, arg, late>>

Destroy ==
    /\ worker = "destroy" /\ exit_lock > 0
    /\ exit_lock' = exit_lock - 1
    /\ qlock' = Nil
    /\ worker' = "destroyed"
    /\ UNCHANGED <<queue, process_lock, state, running, op, arg, late>>

WorkerStep ==
    Loop \/ Wait \/ PopItem \/ RunDone \/ QueueEmpty \/ Unlist \/ DestroyLock \/ Destroy

Call(t) ==
    \/ Clear(t)
    \/ \E i \in Items :
          ScheduleNow(t, i) \/ ScheduleClear(t, i) \/ FindWorkQueue(t, i) \/ Deinit(t, i)

OpStep(t) ==
    \/ Attach(t) \/ Add(t) \/ Signal(t) \/ Post(t) \/ RemoveItem(t)
    \/ Detach(t) \/ DetachUnlock(t) \/ DetachExit(t) \/ TooLate(t)

Next == WorkerStep \/ \E t \in Threads : Call(t) \/ OpStep(t)

(* A thread goes on with the operation it is in, the worker with its loop,  *)
(* and an item's Run() returns.  Nobody has to call anything.               *)
Fairness ==
    /\ WF_vars(WorkerStep) /\ SF_vars(RunDone)
    /\ \A t \in Threads : WF_vars(OpStep(t))

Spec == Init /\ [][Next]_vars

FairSpec == Spec /\ Fairness

-----------------------------------------------------------------------------
(* Properties. *)

Ops == {"idle", "attach", "add", "signal", "post", "remove", "deinit", "detach",
        "detach_signal", "detach_post", "detach_unlock", "detach_exit"}

(* Types of the variables; the exit lock is a binary semaphore. *)
TypeOK ==
    /\ head \in Items \cup {Nil} /\ tail \in Items \cup {Nil}
    /\ next \in [Items -> Items \cup {Nil}]
    /\ fifo \in Seq(Items)
    /\ process_lock \in Nat /\ exit_lock \in {0, 1}
    /\ qlock \in Threads \cup {Nil}
    /\ should_exit \in BOOLEAN /\ lockstep \in BOOLEAN
    /\ work_items \subseteq Items /\ wq \subseteq Items
    /\ worker \in {"loop", "wait", "process", "run", "unlist", "exit", "destroy", "destroyed"}
    /\ running \in Items \cup {Nil}
    /\ op \in [Threads -> Ops]
    /\ arg \in [Threads -> Items \cup {Nil}]
    /\ late \subseteq Ops

(* The linked list is the sequence of scheduled items: after any pushes,    *)
(* pops and removals none is lost, linked twice, or still linked when it    *)
(* has been taken out (IntrusiveQueue.hpp:59-129).                          *)
QueueIsFifo ==
    /\ head = IF fifo = <<>> THEN Nil ELSE fifo[1]
    /\ tail = IF fifo = <<>> THEN Nil ELSE fifo[Len(fifo)]
    /\ \A k \in 1 .. Len(fifo) - 1 : next[fifo[k]] = fifo[k + 1]
    /\ \A i \in Items : (\A k \in 1 .. Len(fifo) - 1 : fifo[k] # i) => next[i] = Nil
    /\ \A j, k \in 1 .. Len(fifo) : fifo[j] = fifo[k] => j = k

Signalling == \E t \in Threads : op[t] \in {"signal", "post"}
StopSignalling == \E t \in Threads : op[t] \in {"detach_signal", "detach_post"}

(* The worker does not sleep on scheduled work: the semaphore is up, or a    *)
(* thread that has added an item is still to signal, although                *)
(* SignalWorkerThread() reads and posts without a lock                       *)
(* (WorkQueue.cpp:147-154).                                                  *)
NoLostWakeup ==
    worker = "wait" /\ fifo # <<>> => process_lock > 0 \/ Signalling

(* Nor does it sleep through the request to stop (WorkQueue.cpp:116-117).    *)
NoLostStop ==
    worker = "wait" /\ should_exit => process_lock > 0 \/ StopSignalling

(* Simulated time waits for scheduled and running work, and never for a      *)
(* worker that sleeps with nothing to wake it (WorkQueue.cpp:133-139,        *)
(* 193-200).                                                                 *)
LockstepWaitsForWork == fifo # <<>> \/ running # Nil => lockstep

LockstepNotStuck == worker = "wait" /\ lockstep => process_lock > 0 \/ Signalling

(* No premature deletion: Remove() and Detach() of Deinit() are done with    *)
(* the queue before it is destroyed (WorkQueue.cpp:112-114).                 *)
DetachOutlived ==
    late \cap {"deinit", "detach", "detach_signal", "detach_post", "detach_unlock",
               "detach_exit"} = {}

(* No premature deletion for Add() either: the same comment of               *)
(* WorkQueue.cpp:112-113 for the other caller of SignalWorkerThread().       *)
SignalOutlived == late \cap {"signal", "post"} = {}

(* After Deinit() has cleared _wq and removed the item there are no          *)
(* additional insertions (WorkItem.cpp:89-94).                               *)
DetachedIsNotQueued == Queued \subseteq work_items

(* A scheduled item that stays attached is run or cleared (WorkQueue.cpp     *)
(* 174-203).                                                                 *)
ScheduledItemRuns == \A i \in Items : i \in Queued ~> (i \notin Queued \/ i \notin wq)

(* The thread of a queue that has lost its last item ends (WorkQueue.cpp     *)
(* 68-83, 100-127).                                                          *)
StoppedWorkerEnds == should_exit ~> Destroyed
=============================================================================
