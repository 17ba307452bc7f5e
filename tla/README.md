# Verification of the flight stack's coordination code

TLA+ specifications of the parts of this PX4 fork in which several conditions,
threads or messages meet: the failsafe state machine, the work queues, the uORB
message bus, the data manager with its clients and cache, the MAVLink mission
protocol and the log writer. Each part is model-checked with TLC on small
instances. The safety properties of all of them are proved with TLAPS for all
values of their constants, some of them under hypotheses that the section on the
proofs names: a data manager that keeps up with its clients, and for the mission
protocol one link and writes of the states that succeed.

The repository has about 770,000 lines, nearly all of them drivers, estimators,
controllers, board support and libraries. What is modelled here, some 2,000
lines, is a fraction of a per cent of them.

## The system

| Part | State | Operations | What makes it hard |
|---|---|---|---|
| Failsafe framework (`commander/failsafe/framework.*`) | table of active actions, selected action, takeover, deferral, delays | `update()`, `deferFailsafes()`, `updateParams()` | latching, takeover, deferral and delay interact over many updates; eight slots |
| Failsafe checks (`failsafe.cpp`) | last flags, arming time, marine mode | about 40 checks, mode fallback | parameters choose the action; the marine modes of the fork exclude checks |
| Work queue (`px4_work_queue/*`, `IntrusiveQueue.hpp`) | intrusive list, two semaphores, attached items | schedule, clear, attach, detach, worker loop, destruction | every caller is another thread or an interrupt; the worker destroys the queue |
| uORB node (`uORB/*`) | ring of messages, generation, queue size, advertised flag, callbacks | advertise, publish, unadvertise, subscribe, copy, block | wrap-around, slow readers, publishers with different queue sizes, lost signals |
| Data manager (`dataman.cpp`, `DatamanClient.*`) | items, requests in flight, cache | read, write, clear, synchronous and asynchronous; load, update, invalidate, resize of the cache | topics that hold one message for all clients, retries, late answers, aborted loads |
| Mission protocol (`mavlink_mission.*`) | two banks of waypoints, fence, transfer | handlers of the mission messages, retries, timeouts, restart | lost and repeated messages, power loss in an upload |
| Log writer (`log_writer_file.*`) | ring buffer per log, file, mutex and condition variable | start, stop, write, notify; the writer thread | two threads, the file written without the mutex |
| Commander, mode management | intended mode, arming state, external modes | main loop, commands | glue around the failsafe |
| MAVLink parameters and FTP; navigator | transfers, mission index | message handlers, timeouts | lost and repeated messages |
| Parameters, lockstep scheduler, ring buffers | shared buffers, simulated time | writer and reader threads | concurrency |
| Estimators, controllers, drivers, marine navigation | real numbers, devices | filters and control laws | not discrete |

The commander calls the failsafe framework once per loop. Modules run as items
of work queues. uORB callbacks schedule these items, and nearly everything else
communicates through uORB, among it the data manager and its clients. The
mission protocol keeps its plans in the data manager, from which the navigator
reads them through the cache.

`PROJECT.json` lists all components with what is modelled of them, the hazards
at their source lines, the map from definitions to source lines, the runs, and
the theorems.

## Modules

| Module | Models |
|---|---|
| `FailsafeTypes` | enumerations and types of the failsafe code |
| `FailsafeFramework` | class `FailsafeBase` |
| `FailsafeActions` | decisions of class `Failsafe`: options from parameters, modes that can run, mode fallback |
| `MCFailsafeFramework`, `MCFailsafeToggle` | instances: two checks with latching, forbidden takeover and deferral; a failure that comes and goes |
| `FailsafeProofs` | theorems about `FailsafeFramework` and `FailsafeActions` |
| `WorkQueue` | `WorkQueue`, `WorkItem`, `IntrusiveQueue` and the runner of `WorkQueueManager` |
| `MCWorkQueue`, `WorkQueueProofs` | instance and theorems |
| `QueueSize`, `RoundPow` | the queue sizes of topics; `round_pow_of_two_8()` statement by statement |
| `Topic` | abstract: a topic that keeps the last messages for its subscribers |
| `UorbNode` | `DeviceNode` with publications and the polling, scheduled and blocking subscriptions |
| `MCUorbNode`, `UorbNodeProofs` | instances of and theorems about `UorbNode` |
| `DatamanStore` | abstract: a store whose operations take effect between call and return |
| `Dataman` | the server task, the two topics, `DatamanClient` |
| `DatamanCache`, `MCDataman` | `DatamanCache` in front of a client, composed with `Dataman`; instances |
| `DatamanProofs`, `DatamanCacheProofs` | lemmas about server and clients; about the cache, and the theorems |
| `MissionManager`, `MCMission` | `MavlinkMissionManager`, with the link and a ground station as environment; instance |
| `MissionManagerProofs`, `MissionTransferProofs` | theorems about the plan the vehicle has; about what the ground station may conclude from a transfer |
| `LogWriter`, `MCLogWriter`, `LogWriterProofs` | `LogWriterFile` with the logger's thread and the writer's; instance; theorems |

### Failsafe framework

`update()` runs on the commander's thread without interruption. It is the
sequence `UpdateBegin` (arming edge, mode change, end of deferral, progress of
the delay), one `Check` per check of the subclass, `CheckFallback` (the mode
fallback, which is the last check) and `UpdateEnd` (removal of actions whose
check was not made, selection of action and mode). `pc` says where the update
is. `DeferFailsafes` and `UpdateParams` happen between updates. The checks are
abstract: each may fail or not, be called or not, and pass one of the options
that `OptionsOf` allows. `CheckModeFallback` is a parameter, of which only
`FallbackAssumption` is known: without a fallback the mode can run. Time is kept
as durations in ticks. The texts of `notifyUser()` are left out. So is
`modifyUserIntendedMode()`, the hook by which the concrete class turns ORBIT
into LOITER: the framework's own version returns the mode unchanged.

`demanded`, `no_free_idx` and `new_failsafe` are history that only properties
read. An update in which the eight slots ran out (`no_free_idx`) is excepted
from two properties: the code drops a failing check that finds the table full of
actions as severe, even if later checks of the same update clear the table.

`FailsafeActions` has the concrete decisions as operators: the options each
parameter selects, what each mode requires (`getModeRequirements()`; the modes
of the fork require nothing), which modes can run when estimates or signals are
lost, and `checkModeFallback()`. The instance of `framework_updates` takes its
options, its sets of modes and its fallback from there. What stays abstract of
`checkStateAndMode()` is when a check is made and fails.

### Work queue

Each caller, and the worker from within an item's `Run()`, has an operation
`op` in progress on the item `arg`. A step lies between two points at which
another thread can intervene: the unlocked test of `_wq`, a section under
`work_lock()`, reading the semaphore in `SignalWorkerThread()`, and posting it.
`fifo` is the sequence the linked list should represent; `late` records
operations that meet a destroyed queue. `RunPreamble()` (run statistics) is left
out. The lockstep component is the Boolean "registered".

### uORB node

A message is the number of its publication. Sections under `ATOMIC_ENTER` or
`lock()` are steps. Generations are numbers modulo `GenMod`, standing for 2^32.
`NoFullTurn`, a guard of `Write`, bounds what is claimed: no subscriber falls a
whole turn of the counter behind, which at 1 kHz takes 49 days. A scheduled
item reads until `update()` returns false. An instance fixes how many publishers
and subscribers of each kind there are and how publishers withdraw.

`Topic` is what a topic promises: messages are numbered, the last `capacity` are
kept, and a subscriber receives the oldest kept message it has not seen, or the
latest one again; the latest one is also what a new subscriber gets first.
`ImplementsTopic` says that `UorbNode` implements it, with
`published` and `seen` as history, `queue_size` as capacity and `valid` as the
subscribers.

### Data manager

`request` and `response` are the topics, each of one message that all clients
share; `serving` is the request the server has copied. A synchronous call is in
progress while `sync[c]` is its operation, an asynchronous one while `state[c]`
is `RequestSent`. `RetrySync` and `Update` publish the request again after the
retry time. A client without id recognises the answer to its request for one by
the timestamp, which the model represents by the client (`stamp`). `cache` is
the ring of slots with its two indices and its counter; `Load`, `LoadWait`,
`WriteWait`, `Invalidate`, `Renew`, `Fetch` and `UpdateCache` are the calls the
navigator makes, `Renew` being the invalidation, resize and reload of the
geofence. Storage accesses fail as `Fallible` says.

`DatamanStore` is what callers rely on: an operation takes effect, possibly more
than once, only while it is in progress; it succeeds only if it took effect; a
read returns a value the item had meanwhile. `ImplementsStore` shows it for both
sides of every client. It depends on `Prompt`: the server works off what was
published within the retry time of 100 ms, and no operation runs into its
timeout. Without it the property is violated, because the last try publishes the
request just before the call reports failure, and because a late answer
matches the next call of the same kind. These two cases are recorded as
hazards. `IdsLeft` keeps enough client ids for the clients of the instance.

`outcome`, `returned`, `since` and `failed` are history.

### Mission protocol

Every handler of a mission message is an action, as are the three things
`send()` does on its own: asking again for an item, giving a transfer up, and
resending an item whose jump counter changed. A mission is received into the
bank that is not active and becomes active by one write; a fence is received in
place. The ground station transfers, clears and cancels in any order, sends
things again, and starts something new only when nothing is in flight (`Quiet`);
so does the vehicle's timeout of 5 s. The links lose messages. `Restart` keeps
only what the data manager stores, and may cut a handler short after it stored
an item. Items are pairs of a plan and a number; converting and validating them,
the current item, rally points (handled as fence points are) and the markers
of the landing sequence are left out. `mixed` is history: a count that
arrives while the first item of another upload is awaited is answered but not
read, and the plan then has the length announced first.

### Log writer

Both threads are modelled to the granularity of the mutex and of the unlocked
accesses between. Bytes carry the number under which the log accepted them, so
that `file` and `accepted`, which are history, show loss, duplication and
reordering. A write may write less than asked for, or fail. The writer scans
both buffers; only the full log is started, as by default (`SDLOG_MISSION` 0).
Assumed: after a write error the log is not started again in the instant the
writer needs to end its scan.

## Runs

| Run | Result | Bounds |
|---|---|---|
| `framework_updates` | ten properties hold | two slots, two checks and the fallback (so the table overflows), two modes, three sets of lost estimates (none, all positions, attitude and altitude), every combination of pilot requests, a delay of one tick, one update long, deferral with timeouts none and 1 tick |
| `framework_fast_toggle` | **violated** | a failure that lasts single updates, delay 40, updates 4 ticks apart, so that dt/4 is one tick |
| `work_queue` | seven invariants hold, queued items run, stopped workers end | two items, two callers and the worker |
| `work_queue_signal`, `work_queue_deinit` | **violated** | one item and caller; two items and callers |
| `uorb` | buffer, generations, topic and wakeups; rounding for all 256 arguments | two publishers with sizes 1 and 2, a work item with two required updates, a blocking subscriber, generations modulo 4, 9 publications (more than two turns) |
| `uorb_blocking`, `uorb_unadvertise` | **violated** | one publisher and blocking subscriber; two publishers |
| `dataman` | ids are unique, the store is implemented; until a load fails the cache is current and counts what it loads | the cache's client and another one, both constructed in the run, one item with two indices, one value and empty, rings of one and two slots, reads and clears that fail |
| `dataman_read_error` | **violated** | the cache's client alone, three indices, a ring of two slots, reads that fail |
| `mission` | accepted and downloaded plans are the active ones; missions are of one plan | one link with two messages in flight each way, missions of one and two items, a fence of one, an empty one and one too long |
| `log_writer` | no byte is lost, stopped logs keep what was scanned, data is written, files close | ring of 4 bytes, chunks of 2, messages of 1 and 2, 8 bytes (two turns) per log, any number of logs |

The bounds include what the properties are about: rings and counters that wrap
around, tables that overflow, a second transfer after an aborted one, two
clients on one topic. The safety properties need no larger instance, as they
are proved for all sizes (those of the mission protocol for one link, with any
plans and any number of messages in flight).

What the violated runs show, each against a sentence of the code:

- *Toggling failure* (`framework.cpp:123`): a failure that alternates with every
  update is never acted on. Every update without it gives back `dt/4` of delay,
  and the next failure starts a delay of that length, which elapses in an update
  in which the failure is absent.
- *Signal after unlock* (`WorkQueue.cpp:112`): `Detach()` protects its signal
  against the destruction of the queue; `Add()` does not.
- *Schedule during deinit* (`WorkItem.cpp:89`): a detached item is queued.
- *Blocking wait* (`SubscriptionBlocking.hpp:101`): a publication between test
  and wait goes unnoticed.
- *Unadvertise* (`uORBDeviceNode.cpp:338`): a publication that is destroyed
  silences the other publishers of its topic.
- *Cache after a read error* (`DatamanClient.hpp:223`): the slot of a failed load
  stays in the ring as an `Error`. When `update()` comes across it with nothing
  left to load it skips it without the counter going down, and from then on the
  update index and the load index are out of step. A slot whose read is under way
  is then given to another item, and the late answer is copied into it: the cache
  hands out the data of one item for another. The same state keeps items that
  wait to be requested while `isLoading()` is false, so that `update()` never asks
  for them. Attempting to prove the cache current led to this run; with
  `failed`, the history of a failed load since `invalidate()`, the property is
  proved for the rest.

Deadlock is not checked for the work queue, uORB, the mission protocol and the
log writer: a worker ends, callers may have nothing to do, and publications
and bytes are bounded.

### Fairness

`FairSpec` of the work queue has weak fairness of the worker's steps and of each
step of an operation in progress (threads are scheduled and critical sections
are short), and strong fairness of an item's `Run()` returning, which may be
interrupted by operations the item itself calls. Callers need not call.
`ToggleSpec` has weak fairness of the update loop: the commander runs it for ever.
`Spec` of the log writer has weak fairness of both threads' steps, and strong
fairness of the logger's loop, which notifies the writer in every iteration in
which a log runs.

## Proofs

`FailsafeProofs` proves every safety property of the framework's
passing runs, for any checks, options, modes, slots, parameters and fallback
that satisfy the assumptions of `FailsafeFramework`. The inductive invariant
strengthens the properties, which speak of the state between updates
(`pc = "idle"`), by what holds inside an update: which checks have been made,
that the table holds every failing check unless it overflowed, what `demanded`
is a maximum of, and how age and timeout of a deferral are related. Two action
properties, that a new failsafe ends a takeover and that latched actions are
kept, follow from the invariant and one step.

It also discharges two of those assumptions for the code: the
options of every parameter value are options (`OptionsSound`), and
`checkModeFallback()` returns no action only if the intended mode can run
(`FallbackSound`, which also says that its action leads to a mode that can run
unless it is RTL, the last resort). It proves that an update terminates the
flight only if an action or the fallback asks for it or the vehicle cannot
descend (`TerminationCaused`), and that, given what the modes require, falling
through to termination means that angular velocity, attitude or altitude is lost
(`TerminatesOnlyBlind`).

`WorkQueueProofs` proves the seven invariants for any number of items and
threads. The invariant adds, for each operation in progress, where it can be
(`OpsInv`), that a stop request comes with a signal or a thread about to send
it (`StopInv`), the same for queued work (`WakeInv`), and the relation of the
lockstep component with the worker's place (`LockstepInv`). That the list is a
queue is stated by `fifo`: `head`, `tail` and `next` are determined by it.

`UorbNodeProofs` proves, for any publishers, subscribers, queue sizes and
modulus of the generation that is a multiple of every rounded queue size
(`GenModAssumption`; 2^32 and the powers of two up to 128 satisfy it), the type
invariant, that the buffer has the size by which it is indexed, that the
generations count messages, that no wakeup of a work item is lost, and that
every step of the node is a step of `Topic` or leaves it unchanged. The
invariant says which message every slot of the buffer holds (`BufferInv`), and
where publishers and subscribers can be (`PlacesInv`). The generations
differ from the unbounded numbers of messages by a multiple of the modulus, and
since no subscriber is a whole turn behind, differences of generations are
differences of numbers.

`LogWriterProofs` proves the three invariants of the log writer for any sizes of
buffers and chunks greater than 0 and any sizes of messages
(`ConstantsAssumption`): what is read lies inside the ring, no byte of a running
log is lost, doubled or out of order, and a file closed without a write error
has all that was accepted before the writer's last look. The invariant says
which byte every cell of the ring holds (`RingInv`), that messages put into the
ring while the writer writes without the mutex leave the chunk it reads alone
(`ChunkInv`), and that a log is being started only while the writer is not busy
with it (`WriterInv`, `LoggerInv`). The last part rests on the guard of
`FileClosed`: after a write error the writer may pass over the buffer a second
time, and the model assumes that the log is not started again in that instant.

`DatamanProofs` and `DatamanCacheProofs` prove the properties of the data manager
for any number of clients, items and slots, any operations of the other clients
and any failures of the storage. Two facts about the cache need no assumption on
timing: messages may be lost, repeated and late. The invariant for them says that
the response on the topic, if it answers a read, holds the value the item still
has (`ResponseInv`, because whatever changes the item also replaces the
response), that a read in progress may return what the item holds
(`OutcomeInv`), and that requests belong to the operation their port names
(`PortInv`). For the ring (`RingInv`) it says, until a load fails, that the load
index is `item_counter` slots ahead of the update index, that the slots that wait
are among those in between, that at most one slot is being read, at the update
index, by the operation in progress and into its own buffer, and that no key is
in use twice. The last two make `loadWait()` and `writeWait()` safe while a read
is under way.

Unique ids and the refinement of `DatamanStore` need `Prompt` as a hypothesis. The
invariant then adds which ids have been handed out or are on their way (`IdInv`:
the requests for an id that are still to be answered are counted, so that the
ids last) and that a write or clear is requested, served or answered, one at a
time and only while its operation is in progress (`WireInv`): a client publishes
again only when the server is idle, so nothing of an operation that has returned
is left to be served. Every step is then a step of the store or leaves it
unchanged (`StepImplements`).

`MissionManagerProofs` and `MissionTransferProofs` prove the five safety
properties of the mission protocol for any plans, any limit on their length and
any number of messages in flight. The type
invariant needs no further assumption. Everything else assumes one link
(`OneLink`): `_transfer_in_progress` is shared by the managers of all links, and
`send()` clears it when a download times out, so that with two links an upload
can be opened while another one still writes, and the properties fail. All but
the stability of the active mission also assume that the writes of the mission
and fence states succeed (`Reliable`), because `update_active_mission()` only
logs a failed one; reads and writes of items may fail.

A step is first reduced to one of some fifteen kinds (`Steps`), so that the later
proofs do not look into the handlers again. The invariants are:

- `BankInv`: a mission is received into the bank that is not active. The active
  mission is then stable.
- `UpInv`: what is in flight to the vehicle belongs to the transfer the ground
  station is in, and an item to the part of the plan it has already sent.
- `StoredInv`: the states in memory and in storage agree, which makes a restart
  harmless.
- `UploadInv`: the items received so far are the first ones of one plan, the one
  being offered, or of one that was given up; in the latter case nothing that the
  manager would take can arrive (`Stale`). `MissionInv` follows: the active
  mission is the beginning of one plan.
- `DownloadInv`: while the ground station downloads, every count and item on its
  way is still true of the vehicle's plan, and so is what has arrived.
- `UpOrder`, `DownOrder`: items arrive in order and no count behind them;
  requests of one upload arrive in the order in which they were made.
- `OfferInv`: where an upload stands. It is stated about a view of the link
  (`View`: the station's position, the numbers of the requests and items in
  flight, the manager's state, and whether the vehicle's plan is the one
  offered), so that each kind of step becomes a lemma about two views. In
  particular, once a manager that has left the upload acknowledges an item as the
  last one it took, either it holds the whole plan, or the station has not sent
  all of it and no request for the next item is on its way (`AckInv`): a station
  that has sent everything and hears an acceptance can rely on it.

A leaf of a proof is tried with Zenon and then with the SMT solver; the leaves
that need arithmetic or large records name the SMT solver. From nothing, all
modules together take about half an hour.

Only model-checked: the liveness properties, which are out of TLAPS's reach, and
`round_pow_of_two_8()`, whose definition needs bitwise operators.

## Not modelled

- When the checks of `failsafe.cpp` are made and fail (among it the fork's marine
  mode and the flags lost at arming), and the commander's loop around the
  framework.
- In the modelled parts: the layout and the initialisation of the data manager's
  file, asynchronous writes and clears, transfers on two links, rally points,
  the mission log and encryption of logs, `poll()` on topics, modes of external
  components.
- Parameters, the parameter and file transfer protocols, the lockstep scheduler,
  the navigator, mode management and VTOL transitions.
- Numeric code (estimators, controllers, marine navigation) and device drivers,
  which are out of a model checker's reach.

`PROJECT.json` lists the main hazards, with the reason where no property covers
one. Further places that no property reaches: the pointer to a work queue that
its manager hands out while the queue ends, and two threads creating the same
queue; an item deleted after the worker popped it; the lockstep component of a
worker that exits; the 8-bit count of subscribers of a topic; running out of
client ids (`dataman.cpp:724`); a failed allocation in the resize of the cache
(`DatamanClient.cpp:455`); the compatibility key of the data manager's file
(`dataman.cpp:562`); the replacement of ORBIT by LOITER (`failsafe.cpp:604`); a
deferral requested again and again (`Commander.cpp:2511`); `start_log()`, which
sets up a buffer without the mutex (`log_writer_file.cpp:251`).
