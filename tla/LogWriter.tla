----------------------------- MODULE LogWriter -----------------------------
(***************************************************************************)
(* LogWriterFile (src/modules/logger/log_writer_file.cpp): the logger puts *)
(* messages into a ring buffer per log type, a writer thread moves them to *)
(* the files.  A mutex protects the buffers, but not start_log() of a      *)
(* buffer and not the file operations; a condition variable wakes the      *)
(* writer.  Bytes are numbered in the order in which a log accepts them.   *)
(* The logger starts the full log only (SDLOG_MISSION = 0, the default);   *)
(* the writer scans the buffer of the mission log all the same.            *)
(***************************************************************************)
EXTENDS Integers, Sequences

CONSTANTS
    Size,           \* [type -> _buffer_size]
    MinChunk,       \* [type -> min_available]
    MsgSizes,       \* sizes of messages
    MaxBytes        \* bound: bytes a log accepts

ASSUME ConstantsAssumption ==
    /\ \A b \in {"mission", "full"} : Size[b] \in Nat \ {0} /\ MinChunk[b] \in Nat \ {0}
    /\ MsgSizes \subseteq Nat /\ MaxBytes \in Nat

VARIABLES
    buf,            \* [type -> LogFileBuffer]
    cells,          \* [type -> contents of _buffer]
    mutex,          \* _mtx: "free", or held by the "writer"
    exit,           \* _exit_thread
    logger,         \* pc of the logger's thread
    writer,         \* run(): pc and locals; seen (history): bytes accepted at the scan
    accepted, file  \* history: [type -> bytes the current log accepted, has in its file]

vars == <<buf, cells, mutex, exit, logger, writer, accepted, file>>

Logs == {"mission", "full"}
Types == <<"mission", "full">>      \* the order of a scan
Buffer == [head : Nat, count : Nat, fd : {"none", "open", "closed"}, should_run : BOOLEAN,
           had_write_error : BOOLEAN]

(* pcs of the writer from which it goes on to scan the buffers.             *)
Active == {"scan", "writing", "relock", "failed", "fsync", "close", "reset", "wait_data"}

(* The writer at pc, with buffer i next and no reading under way.           *)
At(pc, i) == [pc |-> pc, i |-> i, ptr |-> 0, available |-> 0, is_part |-> FALSE, written |-> 0,
              seen |-> 0]

Init ==
    /\ buf = [b \in Logs |-> [head |-> 0, count |-> 0, fd |-> "none", should_run |-> FALSE,
                              had_write_error |-> FALSE]]
    /\ cells = [b \in Logs |-> [i \in 0 .. Size[b] - 1 |-> 0]]
    /\ mutex = "free" /\ exit = FALSE
    /\ logger = "ready"
    /\ writer = At("check", 1)
    /\ accepted = [b \in Logs |-> <<>>] /\ file = [b \in Logs |-> <<>>]

----------------------------------------------------------------------------
(* The ring buffer.                                                         *)

Available(b) == Size[b] - buf[b].count

(* get_read_ptr().                                                          *)
IsPart(b) == buf[b].head < buf[b].count
ReadPtr(b) == IF IsPart(b) THEN buf[b].head - buf[b].count + Size[b] ELSE buf[b].head - buf[b].count

(* Mutant: the part that wraps around is read with the first one.           *)
ReadableAll(b) == buf[b].count

Readable(b) == IF IsPart(b) THEN Size[b] - ReadPtr(b) ELSE buf[b].count

(* write_no_check(): up to the end of the buffer, then from its start.      *)
WriteNoCheck(b, bytes) ==
    LET n == Len(bytes)
        end == Size[b] - buf[b].head
    IN /\ cells' = [cells EXCEPT ![b] = [i \in DOMAIN @ |->
                IF i >= buf[b].head /\ i - buf[b].head < n THEN bytes[i - buf[b].head + 1]
                ELSE IF n > end /\ i < n - end THEN bytes[i + end + 1]
                ELSE @[i]]]
       /\ buf' = [buf EXCEPT ![b].head = IF n > end THEN (n - end) % Size[b] ELSE (@ + n) % Size[b],
                             ![b].count = @ + n]

(* The bytes in the buffer, oldest first.                                   *)
Buffered(b) ==
    [i \in 1 .. buf[b].count |-> cells[b][(ReadPtr(b) + i - 1) % Size[b]]]

----------------------------------------------------------------------------
(* The logger's thread.                                                     *)

(* notify(): wakes the writer, if it waits.                                 *)
Notify ==
    writer' = IF writer.pc \in {"wait_start", "wait_data"}
              THEN [writer EXCEPT !.pc = IF @ = "wait_start" THEN "woken" ELSE "woken_data"] ELSE writer

(* start_log(): waits for the file to be closed; from there to notify() it  *)
(* does not hold the mutex.  Assumed: after a write error the log is not    *)
(* started again in the instant the writer needs to finish its scan.        *)
StartLog ==
    /\ logger = "ready" /\ ~buf["full"].should_run
    /\ logger' = "start"
    /\ UNCHANGED <<buf, cells, mutex, exit, writer, accepted, file>>

FileClosed ==
    /\ logger = "start" /\ mutex = "free" /\ buf["full"].fd = "none"
    /\ buf["full"].had_write_error => writer.pc \notin {"close", "reset"}
    /\ logger' = "open"
    /\ UNCHANGED <<buf, cells, mutex, exit, writer, accepted, file>>

Open ==
    /\ logger = "open"
    /\ LET b == "full"
       IN \/ /\ buf' = [buf EXCEPT ![b].fd = "open", ![b].had_write_error = FALSE]
             /\ logger' = "clear"
             /\ accepted' = [accepted EXCEPT ![b] = <<>>]
             /\ file' = [file EXCEPT ![b] = <<>>]
          \/ /\ buf' = [buf EXCEPT ![b].had_write_error = FALSE]
             /\ logger' = "ready"
             /\ UNCHANGED <<accepted, file>>
    /\ UNCHANGED <<cells, mutex, exit, writer>>

Clear ==
    /\ logger = "clear"
    /\ buf' = [buf EXCEPT !["full"].head = 0, !["full"].count = 0]
    /\ logger' = "run"
    /\ UNCHANGED <<cells, mutex, exit, writer, accepted, file>>

Run ==
    /\ logger = "run"
    /\ buf' = [buf EXCEPT !["full"].should_run = TRUE]
    /\ logger' = "notify"
    /\ UNCHANGED <<cells, mutex, exit, writer, accepted, file>>

(* stop_log().                                                              *)
StopLog(b) ==
    /\ logger = "ready" /\ mutex = "free" /\ buf[b].should_run
    /\ buf' = [buf EXCEPT ![b].should_run = FALSE]
    /\ logger' = "notify"
    /\ UNCHANGED <<cells, mutex, exit, writer, accepted, file>>

(* write_message(), under the mutex: nothing if it does not fit.            *)
WriteMessage(b, n) ==
    /\ logger = "ready" /\ mutex = "free" /\ buf[b].should_run
    /\ n <= Available(b)
    /\ Len(accepted[b]) + n <= MaxBytes
    /\ LET bytes == [i \in 1 .. n |-> Len(accepted[b]) + i]
       IN /\ WriteNoCheck(b, bytes)
          /\ accepted' = [accepted EXCEPT ![b] = @ \o bytes]
    /\ logger' = "notify"
    /\ UNCHANGED <<mutex, exit, writer, file>>

NotifyWriter ==
    /\ logger = "notify"
    /\ Notify
    /\ logger' = "ready"
    /\ UNCHANGED <<buf, cells, mutex, exit, accepted, file>>

(* The logger's loop notifies the writer in every iteration, written or not,*)
(* while the full log runs.                                                 *)
Iterate ==
    /\ logger = "ready" /\ buf["full"].should_run
    /\ Notify
    /\ UNCHANGED <<buf, cells, mutex, exit, logger, accepted, file>>

(* thread_stop() up to its notify(), which is followed by pthread_join().   *)
ThreadStop ==
    /\ logger = "ready" /\ mutex = "free"
    /\ exit' = TRUE
    /\ buf' = [b \in Logs |-> [buf[b] EXCEPT !.should_run = FALSE]]
    /\ logger' = "notify_exit"
    /\ UNCHANGED <<cells, mutex, writer, accepted, file>>

Join ==
    /\ logger = "notify_exit"
    /\ Notify
    /\ logger' = "join"
    /\ UNCHANGED <<buf, cells, mutex, exit, accepted, file>>

----------------------------------------------------------------------------
(* The writer thread.                                                       *)

Current == Types[writer.i]
Goto(pc) == writer' = [writer EXCEPT !.pc = pc]

(* The tests of _exit_thread, without the mutex.                            *)
CheckExit ==
    /\ writer.pc \in {"check", "started"}
    /\ Goto(IF exit THEN "done" ELSE IF writer.pc = "check" THEN "lock_wait" ELSE "lock_scan")
    /\ UNCHANGED <<buf, cells, mutex, exit, logger, accepted, file>>

(* pthread_mutex_lock() and pthread_cond_wait().                            *)
WaitStart ==
    /\ writer.pc = "lock_wait" /\ mutex = "free"
    /\ Goto("wait_start")
    /\ UNCHANGED <<buf, cells, mutex, exit, logger, accepted, file>>

Woken ==
    /\ writer.pc = "woken" /\ mutex = "free"
    /\ Goto(IF \E b \in Logs : buf[b].should_run THEN "started" ELSE "check")
    /\ UNCHANGED <<buf, cells, mutex, exit, logger, accepted, file>>

(* The scan of the buffers begins, with the mutex held.                     *)
BeginScan ==
    /\ writer.pc \in {"lock_scan", "woken_data"} /\ mutex = "free"
    /\ mutex' = "writer"
    /\ writer' = At("scan", 1)
    /\ UNCHANGED <<buf, cells, exit, logger, accepted, file>>

(* Mutant: the writer waits for data although no log runs.                  *)
WaitsAlways(bufs) == TRUE

(* "If the logger was switched off in the meantime, do not wait for data"   *)
Waits(bufs) == \E b \in Logs : bufs[b].should_run

(* The end of the loop body, with the buffers as in bufs: the same buffer   *)
(* again after part of it, the next one, or the end of the scan.            *)
Onward(bufs, is_part) ==
    LET open == \E b \in Logs : bufs[b].fd # "none"
    IN \/ /\ is_part
          /\ mutex' = "writer" /\ writer' = At("scan", writer.i)
       \/ /\ ~is_part /\ writer.i < Len(Types)
          /\ mutex' = "writer" /\ writer' = At("scan", writer.i + 1)
       \/ /\ ~is_part /\ writer.i = Len(Types) /\ ~open
          /\ mutex' = "free" /\ writer' = At("check", 1)
       \/ /\ ~is_part /\ writer.i = Len(Types) /\ open /\ Waits(bufs)
          /\ mutex' = "free" /\ writer' = At("wait_data", 1)
       \/ /\ ~is_part /\ writer.i = Len(Types) /\ open /\ ~Waits(bufs)
          /\ mutex' = "writer" /\ writer' = At("scan", 1)

(* Mutant: a chunk is not written before it is exceeded.                    *)
EnoughAbove(b) ==
    Readable(b) > MinChunk[b] \/ IsPart(b) \/ (~buf[b].should_run /\ Readable(b) > 0)

(* "sufficient data available or partial read or terminating"               *)
Enough(b) ==
    Readable(b) >= MinChunk[b] \/ IsPart(b) \/ (~buf[b].should_run /\ Readable(b) > 0)

(* A buffer is looked at: to be written, synced, closed or left alone.      *)
Scan ==
    /\ writer.pc = "scan"
    /\ LET b == Current
       IN \/ /\ Enough(b)
             /\ mutex' = "free"
             /\ writer' = [At("writing", writer.i) EXCEPT !.ptr = ReadPtr(b),
                             !.available = Readable(b), !.is_part = IsPart(b),
                             !.seen = Len(accepted[b])]
          \/ /\ ~Enough(b) /\ buf[b].should_run
             /\ mutex' = "free" /\ Goto("fsync")
          \/ /\ ~Enough(b) /\ buf[b].should_run
             /\ Onward(buf, FALSE)
          \/ /\ ~Enough(b) /\ ~buf[b].should_run
             /\ mutex' = "free"
             /\ writer' = [At("close", writer.i) EXCEPT !.seen = Len(accepted[b])]
    /\ UNCHANGED <<buf, cells, exit, logger, accepted, file>>

(* write_to_file(), twice if it fails: it may write less than it is given.  *)
WriteToFile ==
    /\ writer.pc = "writing"
    /\ LET b == Current
       IN \/ /\ buf[b].fd = "open"
             /\ \E n \in 1 .. writer.available :
                  /\ file' = [file EXCEPT ![b] = @ \o [i \in 1 .. n |-> cells[b][writer.ptr + i - 1]]]
                  /\ writer' = [writer EXCEPT !.pc = "relock", !.written = n]
          \/ Goto("failed") /\ UNCHANGED file
    /\ UNCHANGED <<buf, cells, mutex, exit, logger, accepted>>

(* Mutant: what was readable counts as read, written or not.                *)
ReadAvailable == writer.available

(* mark_read(written)                                                       *)
Read == writer.written

(* Mutant: the file is closed after the part before the wrap-around.        *)
FinishedPart(b) == ~buf[b].should_run /\ writer.written = writer.available

Finished(b) ==
    ~buf[b].should_run /\ writer.written = writer.available /\ ~writer.is_part

(* mark_read(); all that was readable is written and the log is stopped:    *)
(* the file is closed.                                                      *)
MarkRead ==
    /\ writer.pc = "relock" /\ mutex = "free"
    /\ LET b == Current
           marked == [buf EXCEPT ![b].count = @ - Read]
       IN /\ buf' = marked
          /\ IF Finished(b)
             THEN writer' = [At("close", writer.i) EXCEPT !.seen = writer.seen] /\ UNCHANGED mutex
             ELSE Onward(marked, writer.is_part)
    /\ UNCHANGED <<cells, exit, logger, accepted, file>>

WriteFailed ==
    /\ writer.pc = "failed" /\ mutex = "free"
    /\ buf' = [buf EXCEPT ![Current].had_write_error = TRUE, ![Current].should_run = FALSE]
    /\ writer' = [At("close", writer.i) EXCEPT !.is_part = writer.is_part]
    /\ UNCHANGED <<cells, mutex, exit, logger, accepted, file>>

Fsync ==
    /\ writer.pc = "fsync" /\ mutex = "free"
    /\ Onward(buf, FALSE)
    /\ UNCHANGED <<buf, cells, exit, logger, accepted, file>>

(* close_file(), without the mutex; the descriptor keeps its value.         *)
CloseFile ==
    /\ writer.pc = "close"
    /\ buf' = [buf EXCEPT ![Current].fd = IF @ = "open" THEN "closed" ELSE @]
    /\ Goto("reset")
    /\ UNCHANGED <<cells, mutex, exit, logger, accepted, file>>

Reset ==
    /\ writer.pc = "reset" /\ mutex = "free"
    /\ LET bufs == [buf EXCEPT ![Current].head = 0, ![Current].count = 0, ![Current].fd = "none"]
       IN buf' = bufs /\ Onward(bufs, writer.is_part)
    /\ UNCHANGED <<cells, exit, logger, accepted, file>>

----------------------------------------------------------------------------
LoggerCall ==
    \/ StartLog
    \/ \E b \in Logs : StopLog(b)
    \/ \E b \in Logs, n \in MsgSizes : WriteMessage(b, n)
    \/ ThreadStop
LoggerStep ==
    \/ FileClosed \/ Open \/ Clear \/ Run \/ NotifyWriter \/ Join
Writer ==
    \/ CheckExit \/ WaitStart \/ Woken \/ BeginScan \/ Scan \/ WriteToFile
    \/ MarkRead \/ WriteFailed \/ Fsync \/ CloseFile \/ Reset

Next == LoggerCall \/ LoggerStep \/ Iterate \/ Writer

(* Both threads are scheduled: a call that has begun goes on, and the       *)
(* logger's loop comes round again.                                         *)
Fairness == WF_vars(Writer) /\ WF_vars(LoggerStep) /\ SF_vars(Iterate)
Spec == Init /\ [][Next]_vars /\ Fairness

----------------------------------------------------------------------------
(* The ring stays a ring: what is readable lies inside the buffer.          *)
TypeOK ==
    /\ buf \in [Logs -> Buffer]
    /\ mutex \in {"free", "writer"} /\ exit \in BOOLEAN
    /\ \A b \in Logs :
        /\ buf[b].head < Size[b] /\ buf[b].count <= Size[b]
        /\ ReadPtr(b) \in 0 .. Size[b] - 1 /\ ReadPtr(b) + Readable(b) <= Size[b]
    /\ writer.ptr + writer.available <= Size[Current]

(* While a log runs, its file and its buffer together hold every byte it    *)
(* has accepted, once and in order, whatever the writer is doing.           *)
NothingLost ==
    \A b \in Logs : buf[b].fd = "open" /\ buf[b].should_run =>
        LET read == IF writer.pc = "relock" /\ Current = b THEN writer.written ELSE 0
        IN accepted[b] = file[b] \o SubSeq(Buffered(b), read + 1, buf[b].count)

(* "Stop only when all data written": when the file of a stopped log is     *)
(* closed without a write error, it has everything, in order, that the log  *)
(* accepted before the writer's last look at the buffer.  What was accepted *)
(* during the last write, with the mutex free, may be lost.                 *)
StopKeepsScanned ==
    \A b \in Logs : /\ writer.pc = "reset" /\ Current = b /\ buf[b].fd = "closed"
                     /\ ~buf[b].should_run /\ ~buf[b].had_write_error
        => /\ Len(file[b]) >= writer.seen
           /\ file[b] = SubSeq(accepted[b], 1, Len(file[b]))

(* A log that is stopped while the writer scans the buffers gets its file   *)
(* closed, so that its next start_log() does not wait for ever.             *)
Stopped(b) ==
    /\ ~buf[b].should_run /\ buf[b].fd # "none"
    /\ logger \notin {"clear", "run"}
ClosesWhenStopped ==
    \A b \in Logs : Stopped(b) /\ writer.pc \in Active ~> buf[b].fd = "none"

(* Notifications may be lost, and data is written all the same: while a log *)
(* runs, all it accepts but less than a chunk gets to the file.             *)
WrittenWhileRunning ==
    \A b \in Logs, k \in 1 .. MaxBytes :
        buf[b].should_run /\ Len(accepted[b]) >= k ~>
            ~buf[b].should_run \/ Len(file[b]) > k - MinChunk[b]
=============================================================================
