-------------------------- MODULE LogWriterProofs --------------------------
(***************************************************************************)
(* Proofs about LogWriter: for any sizes of buffers, chunks and messages    *)
(* the ring stays a ring and no byte of a running log is lost, duplicated   *)
(* or reordered.                                                           *)
(***************************************************************************)
EXTENDS LogWriter, TLAPS

(* The provers a step is tried with unless it names one, and their time.    *)
USE ZenonT(30), SMTT(30)

mission == buf["mission"]
full == buf["full"]

(* pcs of the writer while it is busy with a log.                           *)
Scanning == {"started", "lock_scan", "scan", "writing", "relock", "failed", "fsync", "close",
             "reset", "wait_data", "woken_data"}
Pcs == Scanning \cup {"check", "lock_wait", "wait_start", "woken", "done"}
Loggers == {"ready", "start", "open", "clear", "run", "notify", "notify_exit", "join"}

(* What the variables are, in more detail than TypeOK.                      *)
Typed ==
    /\ buf \in [Logs -> Buffer]
    /\ mission.head = 0 /\ mission.count = 0 /\ mission.fd = "none" /\ ~mission.should_run
    /\ DOMAIN cells = Logs /\ cells["full"] \in [0 .. Size["full"] - 1 -> Nat]
    /\ mutex \in {"free", "writer"} /\ exit \in BOOLEAN
    /\ logger \in Loggers
    /\ writer \in [pc : Pcs, i : 1 .. 2, ptr : Nat, available : Nat, is_part : BOOLEAN,
                   written : Nat, seen : Nat]
    /\ accepted \in [Logs -> Seq(Nat)] /\ file \in [Logs -> Seq(Nat)]

(* Where the writer can be: it holds the mutex in a scan, and from waking   *)
(* up for a running log to resetting its buffer the file is not gone,       *)
(* except for a second pass over the buffer after a write error.            *)
WriterInv ==
    /\ mutex = "writer" <=> writer.pc = "scan"
    /\ writer.pc \in {"writing", "relock", "failed", "fsync"} => writer.i = 2
    /\ writer.pc \in Scanning =>
        \/ full.fd = "open" /\ ~(writer.pc = "reset" /\ writer.i = 2)
        \/ full.fd = "closed" /\ writer.pc = "reset" /\ writer.i = 2
        \/ /\ full.fd = "none" /\ full.had_write_error /\ ~full.should_run
           /\ writer.pc \in {"scan", "close", "reset"} /\ writer.i = 2
    /\ writer.pc \notin Scanning => full.fd # "closed"
    /\ writer.pc \in {"close", "reset"} /\ writer.i = 2 =>
        ~full.should_run /\ (writer.is_part => full.had_write_error)

(* Where the logger can be: a log that is being started has no writer.      *)
LoggerInv ==
    /\ full.should_run => full.fd = "open"
    /\ logger \in {"start", "open", "clear", "run"} => ~full.should_run
    /\ logger \in {"open", "clear", "run"} =>
        /\ writer.pc \notin Scanning
        /\ full.fd = IF logger = "open" THEN "none" ELSE "open"
        /\ full.head = 0 /\ full.count = 0

(* Bytes that are in the file and still in the buffer.                      *)
Unmarked == IF writer.pc = "relock" THEN writer.written ELSE 0

Pos(j) == (ReadPtr("full") + j - 1) % Size["full"]

(* The ring holds the bytes from the last one in the file on.               *)
RingInv ==
    /\ full.head < Size["full"] /\ full.count <= Size["full"]
    /\ full.fd = "none" => full.head = 0 /\ full.count = 0
    /\ \A i \in 1 .. Len(accepted["full"]) : accepted["full"][i] = i
    /\ \A i \in 1 .. Len(file["full"]) : file["full"][i] = i
    /\ Len(file["full"]) <= Len(accepted["full"])
    /\ full.fd # "none" =>
        /\ full.count = Len(accepted["full"]) - Len(file["full"]) + Unmarked
        /\ \A j \in 1 .. full.count :
                cells["full"][Pos(j)] = Len(accepted["full"]) - full.count + j

(* What the writer read from the ring is still there.                       *)
ChunkInv ==
    /\ writer.ptr + writer.available <= Size[Current]
    /\ writer.pc \in {"writing", "relock"} =>
        /\ writer.ptr = ReadPtr("full") /\ writer.available <= full.count
        /\ writer.pc = "relock" => writer.written <= writer.available
        /\ ~writer.is_part => writer.seen = Len(file["full"]) - Unmarked + writer.available
    /\ /\ writer.pc \in {"close", "reset"} /\ writer.i = 2
       /\ full.fd # "none" /\ ~full.had_write_error
       => writer.seen <= Len(file["full"])

IInv == Typed /\ WriterInv /\ LoggerInv /\ RingInv /\ ChunkInv

-----------------------------------------------------------------------------
(* The ring.                                                                *)

(* A remainder is determined by its range.                                  *)
LEMMA RingUnique ==
    ASSUME NEW N \in Nat \ {0}, NEW k \in Int, NEW r \in 0 .. N - 1
    PROVE  (N * k + r) % N = r
  BY SMTT(30)

(* An index runs over the end of a ring at most once.                       *)
LEMMA RingIndex ==
    ASSUME NEW N \in Nat \ {0}, NEW x \in Nat, x < N + N
    PROVE  x % N = IF x < N THEN x ELSE x - N
<1>1. CASE x < N
  BY <1>1, RingUnique, x = N * 0 + x, SMTT(30)
<1>2. CASE x >= N
  BY <1>2, RingUnique, x = N * 1 + (x - N), x - N \in 0 .. N - 1, SMTT(30)
<1> QED  BY <1>1, <1>2, SMTT(30)

(* The readable part lies inside the buffer.                                *)
LEMMA ReadPtrFacts ==
    ASSUME NEW b \in Logs, buf \in [Logs -> Buffer], buf[b].head < Size[b], buf[b].count <= Size[b]
    PROVE  /\ ReadPtr(b) \in 0 .. Size[b] - 1 /\ Readable(b) \in Nat
           /\ ReadPtr(b) + Readable(b) <= Size[b] /\ Readable(b) <= buf[b].count
           /\ ~IsPart(b) => Readable(b) = buf[b].count
           /\ ReadPtr(b) = IF buf[b].head < buf[b].count THEN buf[b].head - buf[b].count + Size[b]
                           ELSE buf[b].head - buf[b].count
<1>1. Size[b] \in Nat \ {0}
  BY ConstantsAssumption DEF Logs
<1>2. buf[b].head \in Nat /\ buf[b].count \in Nat
  BY DEF Buffer
<1> QED  BY <1>1, <1>2, SMTT(30) DEF ReadPtr, Readable, IsPart

(* A ring of N bytes holds, from r on, the c bytes after byte B.            *)
Holds(ring, N, r, c, B) == \A j \in 1 .. c : ring[(r + j - 1) % N] = B + j

(* The bytes from A + 1 to A + n are put into a ring at h.                  *)
Puts(new, old, N, h, n, A) ==
    \A i \in 0 .. N - 1 :
        new[i] = IF i >= h /\ i - h < n THEN A + (i - h + 1)
                 ELSE IF n > N - h /\ i < n - (N - h) THEN A + (i + (N - h) + 1)
                 ELSE old[i]

(* What write_no_check() puts into a ring of N bytes with c bytes up to h:  *)
(* the bytes from A + 1 on follow those in it.                              *)
LEMMA RingPut ==
    ASSUME NEW N \in Nat \ {0}, NEW h \in 0 .. N - 1, NEW c \in 0 .. N, NEW n \in Nat, c + n <= N,
           NEW A \in Nat, NEW r \in 0 .. N - 1, r = IF h < c THEN h - c + N ELSE h - c,
           NEW old, Holds(old, N, r, c, A - c), NEW new, Puts(new, old, N, h, n, A)
    PROVE  Holds(new, N, r, c + n, A - c)
<1> SUFFICES \A j \in 1 .. c + n : new[(r + j - 1) % N] = A - c + j
  BY DEF Holds
<1> TAKE j \in 1 .. c + n
<1> DEFINE x == r + j - 1
           p == IF x < N THEN x ELSE x - N
<1>1. x \in Nat /\ x < N + N
  BY SMTT(30)
<1>2. x % N = p
  <2> HIDE DEF x
  <2> QED  BY <1>1, RingIndex
<1>3. p \in 0 .. N - 1
  BY SMTT(30)
<1>4. CASE j <= c
  <2>1. old[x % N] = A - c + j
    <3>1. j \in 1 .. c
      BY <1>4, SMTT(30)
    <3> QED  BY <3>1 DEF Holds
  <2>2. ~(p >= h /\ p - h < n) /\ ~(n > N - h /\ p < n - (N - h))
    BY <1>4, SMTT(30)
  <2> HIDE DEF x, p
  <2>3. old[p] = A - c + j
    BY <1>2, <2>1
  <2>4. new[p] = A - c + j
    BY <1>3, <2>2, <2>3 DEF Puts
  <2>5. new[x % N] = A - c + j
    BY <1>2, <2>4
  <2> QED  BY <2>5 DEF x
<1>5. CASE j > c
  <2>1. p = IF h + (j - c) - 1 < N THEN h + (j - c) - 1 ELSE h + (j - c) - 1 - N
    BY <1>5, SMTT(30)
  <2> HIDE DEF x, p
  <2>2. new[p] = A - c + j
    BY <1>3, <1>5, <2>1, SMTT(30) DEF Puts
  <2>3. new[x % N] = A - c + j
    BY <1>2, <2>2
  <2> QED  BY <2>3 DEF x
<1> QED  BY <1>4, <1>5, SMTT(30)

(* mark_read(w): what remains in the ring stays where it is.                *)
LEMMA RingTake ==
    ASSUME NEW N \in Nat \ {0}, NEW h \in 0 .. N - 1, NEW c \in 0 .. N, NEW w \in 0 .. c,
           NEW r \in 0 .. N - 1, r = IF h < c THEN h - c + N ELSE h - c, r + w <= N,
           NEW s \in 0 .. N - 1, s = IF h < c - w THEN h - (c - w) + N ELSE h - (c - w)
    PROVE  \A j \in 1 .. c - w : (s + j - 1) % N = (r + (w + j) - 1) % N
<1> SUFFICES ASSUME NEW j \in 1 .. c - w
             PROVE  (s + j - 1) % N = (r + (w + j) - 1) % N
  OBVIOUS
<1> DEFINE x == s + j - 1
           y == r + (w + j) - 1
<1>1. x \in Nat /\ x < N + N /\ y \in Nat /\ y < N + N
  BY SMTT(30)
<1>2. (IF x < N THEN x ELSE x - N) = (IF y < N THEN y ELSE y - N)
  BY SMTT(30)
<1>3. x % N = y % N
  <2> HIDE DEF x, y
  <2> QED  BY <1>1, <1>2, RingIndex
<1> QED  BY <1>3

(* Concatenation.                                                           *)
LEMMA ConcatFacts ==
    ASSUME NEW f \in Seq(Nat), NEW g \in Seq(Nat)
    PROVE  f \o g \in Seq(Nat) /\ Len(f \o g) = Len(f) + Len(g)
  BY SMTT(30)

(* The n bytes after byte F.                                                *)
Bytes(f, F, n) == f \in Seq(Nat) /\ Len(f) = n /\ \A i \in 1 .. n : f[i] = F + i

(* A file with the first F bytes, and n more.                               *)
LEMMA SeqMore ==
    ASSUME NEW F \in Nat, NEW n \in Nat, NEW f, Bytes(f, 0, F), NEW more, Bytes(more, F, n)
    PROVE  Bytes(f \o more, 0, F + n)
<1>0. /\ f \in Seq(Nat) /\ Len(f) = F /\ more \in Seq(Nat) /\ Len(more) = n
      /\ \A i \in 1 .. F : f[i] = i
      /\ \A i \in 1 .. n : more[i] = F + i
  BY SMTT(30) DEF Bytes
<1>1. f \o more \in Seq(Nat) /\ Len(f \o more) = F + n
  BY <1>0, ConcatFacts
<1>2. ASSUME NEW i \in 1 .. F + n
      PROVE  (f \o more)[i] = i
  <2>1. CASE i <= F
    BY <1>0, <2>1, SMTT(30)
  <2>2. CASE i > F
    <3>1. i - F \in 1 .. n /\ F + (i - F) = i
      BY <2>2, SMTT(30)
    <3>2. more[i - F] = i
      BY <1>0, <3>1
    <3>3. (f \o more)[i] = more[i - F]
      BY <1>0, <2>2, <3>1, SMTT(30)
    <3> QED  BY <3>2, <3>3
  <2>3. i <= F \/ i > F
    BY SMTT(30)
  <2> QED  BY <2>1, <2>2, <2>3
<1> QED  BY <1>1, <1>2, SMTT(30) DEF Bytes

(* A step that leaves the ring alone.                                       *)
LEMMA RingKept ==
    ASSUME RingInv, full'.head = full.head, full'.count = full.count, full'.fd = full.fd,
           cells' = cells, accepted' = accepted, file' = file, Unmarked' = Unmarked
    PROVE  RingInv' /\ ReadPtr("full")' = ReadPtr("full")
<1>1. ReadPtr("full")' = ReadPtr("full")
  BY DEF ReadPtr, IsPart, full
<1>2. \A j : Pos(j)' = Pos(j)
  BY <1>1 DEF Pos
<1> QED  BY <1>1, <1>2 DEF RingInv

(* A step of the logger that leaves the ring alone and does not disturb the *)
(* writer, other than by waking it.                                         *)
LEMMA WriterKept ==
    ASSUME IInv, full'.head = full.head, full'.count = full.count, full'.fd = full.fd,
           cells' = cells, accepted' = accepted, file' = file,
           full'.had_write_error = full.had_write_error,
           full'.should_run => full.should_run \/ writer.pc \notin Scanning,
           mutex' = mutex, writer' = writer \/ Notify
    PROVE  WriterInv' /\ RingInv' /\ ChunkInv'
<1>1. /\ writer'.i = writer.i /\ writer'.ptr = writer.ptr /\ writer'.available = writer.available
      /\ writer'.is_part = writer.is_part /\ writer'.written = writer.written
      /\ writer'.seen = writer.seen
      /\ \/ writer'.pc = writer.pc
         \/ writer.pc = "wait_start" /\ writer'.pc = "woken"
         \/ writer.pc = "wait_data" /\ writer'.pc = "woken_data"
  BY DEF Notify, IInv, Typed
<1>2. Unmarked' = Unmarked
  BY <1>1 DEF Unmarked
<1>3. RingInv' /\ ReadPtr("full")' = ReadPtr("full")
  BY <1>2, RingKept DEF IInv
<1>4. WriterInv'
  BY <1>1 DEF IInv, WriterInv, Scanning
<1>5. ChunkInv'
  BY <1>1, <1>2, <1>3 DEF IInv, ChunkInv, Current
<1> QED  BY <1>3, <1>4, <1>5

-----------------------------------------------------------------------------
(* The logger's steps.                                                      *)

(* start_log() is called.                                                   *)
LEMMA StartLogIInv ==
    ASSUME IInv, StartLog
    PROVE  IInv'
<1>1. WriterInv' /\ RingInv' /\ ChunkInv'
  BY WriterKept DEF StartLog, full
<1>2. Typed'
  BY DEF StartLog, IInv, Typed, Loggers, mission
<1>3. LoggerInv'
  BY DEF StartLog, IInv, LoggerInv, full
<1> QED  BY <1>1, <1>2, <1>3 DEF IInv

(* start_log() finds the file closed: the writer is not busy any more.      *)
LEMMA FileClosedIInv ==
    ASSUME IInv, FileClosed
    PROVE  IInv'
<1>1. WriterInv' /\ RingInv' /\ ChunkInv'
  BY WriterKept DEF FileClosed, full
<1>2. Typed'
  BY DEF FileClosed, IInv, Typed, Loggers, mission
<1>3. writer.pc \notin Scanning
  BY DEF FileClosed, IInv, WriterInv, full
<1>4. LoggerInv'
  BY <1>3 DEF FileClosed, IInv, LoggerInv, RingInv, full
<1> QED  BY <1>1, <1>2, <1>4 DEF IInv

(* The log runs, with an open file and an empty buffer.                     *)
LEMMA RunIInv ==
    ASSUME IInv, Run
    PROVE  IInv'
<1>1. /\ buf' = [buf EXCEPT !["full"].should_run = TRUE] /\ logger = "run" /\ logger' = "notify"
      /\ UNCHANGED <<cells, mutex, exit, writer, accepted, file>>
  BY DEF Run
<1>2. buf \in [Logs -> Buffer]
  BY DEF IInv, Typed
<1>3. /\ buf' \in [Logs -> Buffer] /\ mission' = mission
      /\ full'.head = full.head /\ full'.count = full.count /\ full'.fd = full.fd
      /\ full'.had_write_error = full.had_write_error
  BY <1>1, <1>2 DEF Logs, Buffer, full, mission
<1>4. writer.pc \notin Scanning /\ full.fd = "open"
  BY <1>1 DEF IInv, LoggerInv
<1>5. WriterInv' /\ RingInv' /\ ChunkInv'
  BY <1>1, <1>3, <1>4, WriterKept
<1>6. Typed'
  BY <1>1, <1>3 DEF IInv, Typed, Loggers
<1>7. LoggerInv'
  BY <1>1, <1>3, <1>4 DEF LoggerInv
<1> QED  BY <1>5, <1>6, <1>7 DEF IInv

(* stop_log() and thread_stop(): the log is stopped.                        *)
LEMMA StopIInv ==
    ASSUME IInv, (\E b \in Logs : StopLog(b)) \/ ThreadStop
    PROVE  IInv'
<1>1. buf \in [Logs -> Buffer]
  BY DEF IInv, Typed
<1>2. /\ buf' \in [Logs -> Buffer]
      /\ mission'.head = mission.head /\ mission'.count = mission.count
      /\ mission'.fd = mission.fd /\ ~mission'.should_run
      /\ full'.head = full.head /\ full'.count = full.count /\ full'.fd = full.fd
      /\ full'.had_write_error = full.had_write_error /\ ~full'.should_run
      /\ logger' \in {"notify", "notify_exit"} /\ exit' \in BOOLEAN
      /\ UNCHANGED <<cells, mutex, writer, accepted, file>>
  <2>1. CASE StopLog("full")
    BY <1>1, <2>1 DEF StopLog, Logs, Buffer, full, mission, IInv, Typed
  <2>2. ~StopLog("mission")
    BY DEF StopLog, IInv, Typed, mission
  <2>3. CASE ThreadStop
    BY <1>1, <2>3 DEF ThreadStop, Logs, Buffer, full, mission
  <2> QED  BY <2>1, <2>2, <2>3 DEF Logs
<1>3. WriterInv' /\ RingInv' /\ ChunkInv'
  BY <1>2, WriterKept
<1>4. Typed'
  BY <1>2 DEF IInv, Typed, Loggers
<1>5. LoggerInv'
  BY <1>2 DEF LoggerInv
<1> QED  BY <1>3, <1>4, <1>5 DEF IInv

(* The writer is notified.                                                  *)
LEMMA NotifyIInv ==
    ASSUME IInv, NotifyWriter \/ Iterate \/ Join
    PROVE  IInv'
<1>1. /\ Notify /\ logger' \in {"ready", "join"}
      /\ UNCHANGED <<buf, cells, mutex, exit, accepted, file>>
  BY DEF NotifyWriter, Iterate, Join
<1>2. WriterInv' /\ RingInv' /\ ChunkInv'
  BY <1>1, WriterKept DEF full
<1>3. Typed'
  BY <1>1 DEF IInv, Typed, Loggers, mission, Notify, Pcs, Scanning
<1>4. LoggerInv'
  BY <1>1 DEF IInv, LoggerInv, full
<1> QED  BY <1>2, <1>3, <1>4 DEF IInv

(* A file is opened, or cannot be.                                          *)
LEMMA OpenIInv ==
    ASSUME IInv, Open
    PROVE  IInv'
<1>1. buf \in [Logs -> Buffer] /\ accepted \in [Logs -> Seq(Nat)] /\ file \in [Logs -> Seq(Nat)]
  BY DEF IInv, Typed
<1>2. writer.pc \notin Scanning /\ full.fd = "none" /\ ~full.should_run /\ full.head = 0 /\ full.count = 0
  BY DEF Open, IInv, LoggerInv, RingInv
<1>3. /\ UNCHANGED <<cells, mutex, exit, writer>>
      /\ \/ /\ buf' = [buf EXCEPT !["full"].fd = "open", !["full"].had_write_error = FALSE]
            /\ logger' = "clear" /\ accepted' = [accepted EXCEPT !["full"] = <<>>]
            /\ file' = [file EXCEPT !["full"] = <<>>]
         \/ /\ buf' = [buf EXCEPT !["full"].had_write_error = FALSE]
            /\ logger' = "ready" /\ accepted' = accepted /\ file' = file
  BY DEF Open
<1>4. /\ buf' \in [Logs -> Buffer] /\ mission' = mission
      /\ full'.head = 0 /\ full'.count = 0 /\ ~full'.should_run
      /\ \/ /\ full'.fd = "open" /\ logger' = "clear"
            /\ accepted' = [accepted EXCEPT !["full"] = <<>>] /\ file' = [file EXCEPT !["full"] = <<>>]
         \/ full'.fd = "none" /\ logger' = "ready" /\ accepted' = accepted /\ file' = file
  <2>1. CASE buf' = [buf EXCEPT !["full"].fd = "open", !["full"].had_write_error = FALSE]
    <3>1. /\ buf' \in [Logs -> Buffer] /\ mission' = mission
          /\ full'.head = full.head /\ full'.count = full.count
          /\ full'.should_run = full.should_run /\ full'.fd = "open"
      BY <1>1, <2>1 DEF Logs, Buffer, full, mission
    <3>2. [buf EXCEPT !["full"].had_write_error = FALSE]["full"].fd = full.fd
      BY <1>1 DEF Logs, Buffer, full
    <3> QED  BY <1>2, <1>3, <3>1, <3>2 DEF full
  <2>2. CASE buf' = [buf EXCEPT !["full"].had_write_error = FALSE]
    <3>1. /\ buf' \in [Logs -> Buffer] /\ mission' = mission
          /\ full'.head = full.head /\ full'.count = full.count
          /\ full'.should_run = full.should_run /\ full'.fd = full.fd
      BY <1>1, <2>2 DEF Logs, Buffer, full, mission
    <3>2. [buf EXCEPT !["full"].fd = "open", !["full"].had_write_error = FALSE]["full"].fd = "open"
      BY <1>1 DEF Logs, Buffer, full
    <3> QED  BY <1>2, <1>3, <3>1, <3>2 DEF full
  <2> QED  BY <1>3, <2>1, <2>2
<1>5. Typed' /\ WriterInv' /\ LoggerInv'
  <2>1. accepted' \in [Logs -> Seq(Nat)] /\ file' \in [Logs -> Seq(Nat)]
    <3>1. <<>> \in Seq(Nat)
      BY SMTT(30)
    <3> QED  BY <1>1, <1>4, <3>1
  <2>2. Typed'
    <3>1. logger' \in Loggers
      BY <1>4 DEF Loggers
    <3> QED  BY <1>3, <1>4, <2>1, <3>1 DEF IInv, Typed
  <2>3. WriterInv' /\ LoggerInv'
    BY <1>2, <1>3, <1>4 DEF IInv, WriterInv, LoggerInv, Scanning
  <2> QED  BY <2>2, <2>3
<1>6. RingInv'
  <2>1. writer'.pc # "relock" /\ Unmarked' = 0
    BY <1>2, <1>3 DEF Scanning, Unmarked
  <2>2. CASE full'.fd = "open"
    <3>1. Len(accepted'["full"]) = 0 /\ Len(file'["full"]) = 0
      BY <1>1, <1>4, <2>2, SMTT(30) DEF Logs
    <3> QED  BY <1>4, <2>1, <2>2, <3>1, ConstantsAssumption, SMTT(30) DEF RingInv
  <2>3. CASE full'.fd = "none"
    BY <1>2, <1>3, <1>4, <2>1, <2>3 DEF IInv, RingInv
  <2> QED  BY <1>4, <2>2, <2>3
<1>7. ChunkInv'
  BY <1>2, <1>3 DEF IInv, ChunkInv, Scanning, Current
<1> QED  BY <1>5, <1>6, <1>7 DEF IInv

(* The buffer of a log that starts was empty before.                        *)
LEMMA ClearIInv ==
    ASSUME IInv, Clear
    PROVE  IInv'
<1>1. buf \in [Logs -> Buffer]
  BY DEF IInv, Typed
<1>2. /\ buf' \in [Logs -> Buffer] /\ mission' = mission
      /\ full'.head = 0 /\ full'.count = 0 /\ full'.fd = full.fd
      /\ full'.had_write_error = full.had_write_error /\ full'.should_run = full.should_run
  BY <1>1 DEF Clear, Logs, Buffer, full, mission
<1>3. /\ full.head = 0 /\ full.count = 0 /\ logger = "clear" /\ logger' = "run"
      /\ UNCHANGED <<cells, mutex, exit, writer, accepted, file>>
  BY DEF Clear, IInv, LoggerInv
<1>4. WriterInv' /\ RingInv' /\ ChunkInv'
  BY <1>2, <1>3, WriterKept
<1>5. Typed'
  BY <1>2, <1>3 DEF IInv, Typed, Loggers
<1>6. LoggerInv'
  BY <1>2, <1>3 DEF IInv, LoggerInv
<1> QED  BY <1>4, <1>5, <1>6 DEF IInv
(* The bytes of a message follow those in the ring; the reader's end of the *)
(* ring stays where it is.                                                  *)
LEMMA WriteMessageIInv ==
    ASSUME IInv, NEW n \in MsgSizes, WriteMessage("full", n)
    PROVE  IInv'
<1> DEFINE N == Size["full"]
           A == Len(accepted["full"])
           bytes == [i \in 1 .. n |-> A + i]
<1>1. /\ buf \in [Logs -> Buffer] /\ accepted \in [Logs -> Seq(Nat)] /\ n \in Nat /\ N \in Nat \ {0}
      /\ full.head \in 0 .. N - 1 /\ full.count \in 0 .. N /\ A \in Nat
      /\ DOMAIN cells = Logs /\ cells["full"] \in [0 .. N - 1 -> Nat]
  <2>1. /\ buf \in [Logs -> Buffer] /\ accepted \in [Logs -> Seq(Nat)]
        /\ DOMAIN cells = Logs /\ cells["full"] \in [0 .. N - 1 -> Nat]
    BY DEF IInv, Typed
  <2>2. n \in Nat /\ N \in Nat \ {0}
    BY ConstantsAssumption
  <2>3. full.head \in Nat /\ full.count \in Nat /\ A \in Nat
    BY <2>1, SMTT(30) DEF Logs, Buffer, full
  <2>4. full.head < N /\ full.count <= N
    BY DEF IInv, RingInv
  <2> QED  BY <2>1, <2>2, <2>3, <2>4, SMTT(30)
<1>0. /\ n \in Nat /\ N \in Nat \ {0} /\ A \in Nat
      /\ full.head \in 0 .. N - 1 /\ full.count \in 0 .. N
  BY <1>1
<1>2. bytes \in Seq(Nat) /\ Len(bytes) = n /\ \A i \in 1 .. n : bytes[i] = A + i
  BY <1>1, SMTT(30)
<1>3. /\ full.should_run /\ full.count + n <= N /\ logger' = "notify"
      /\ UNCHANGED <<mutex, exit, writer, file>>
      /\ accepted' = [accepted EXCEPT !["full"] = @ \o bytes] /\ WriteNoCheck("full", bytes)
  BY <1>1, SMTT(30) DEF WriteMessage, Available, full
<1>4. full.fd = "open"
  BY <1>3 DEF IInv, LoggerInv
<1> HIDE DEF bytes
<1>5. /\ cells' = [cells EXCEPT !["full"] = [i \in DOMAIN @ |->
                IF i >= full.head /\ i - full.head < n THEN bytes[i - full.head + 1]
                ELSE IF n > N - full.head /\ i < n - (N - full.head) THEN bytes[i + (N - full.head) + 1]
                ELSE @[i]]]
      /\ buf' = [buf EXCEPT !["full"].head = IF n > N - full.head THEN (n - (N - full.head)) % N
                                             ELSE (full.head + n) % N,
                            !["full"].count = @ + n]
  BY <1>2, <1>3 DEF WriteNoCheck, full
<1> DEFINE H == IF full.head + n < N THEN full.head + n ELSE full.head + n - N
<1>6. buf' = [buf EXCEPT !["full"].head = H, !["full"].count = @ + n] /\ H \in 0 .. N - 1
  <2> DEFINE x == IF n > N - full.head THEN n - (N - full.head) ELSE full.head + n
  <2>0. full.count + n <= N
    BY <1>3
  <2>1. x \in Nat /\ x < N + N /\ H \in 0 .. N - 1
    <3> HIDE DEF N, A
    <3> QED  BY <1>0, <2>0, SMTT(30)
  <2>2. buf' = [buf EXCEPT !["full"].head = x % N, !["full"].count = @ + n]
    <3>1. x % N = IF n > N - full.head THEN (n - (N - full.head)) % N ELSE (full.head + n) % N
      OBVIOUS
    <3> HIDE DEF x
    <3> QED  BY <1>5, <3>1
  <2>3. (IF x < N THEN x ELSE x - N) = H
    <3> HIDE DEF N, A
    <3> QED  BY <1>0, <2>0, SMTT(30)
  <2> HIDE DEF x, N, H
  <2>4. x % N = H
    BY <1>1, <2>1, <2>3, RingIndex
  <2> QED  BY <2>1, <2>2, <2>4
<1>7. /\ buf' \in [Logs -> Buffer] /\ mission' = mission
      /\ full'.head = H
      /\ full'.count = full.count + n /\ full'.fd = full.fd
      /\ full'.had_write_error = full.had_write_error /\ full'.should_run = full.should_run
  <2>1. buf \in [Logs -> Buffer] /\ H \in Nat
    BY <1>1, <1>6, SMTT(30)
  <2> HIDE DEF H
  <2>2. buf' = [buf EXCEPT !["full"] = [full EXCEPT !.head = H, !.count = full.count + n]]
    BY <1>6, <2>1 DEF Logs, Buffer, full
  <2>3. full \in Buffer /\ full.count + n \in Nat
    BY <1>0, <2>1, SMTT(30) DEF Logs, full
  <2>4. [full EXCEPT !.head = H, !.count = full.count + n] \in Buffer
    BY <2>1, <2>3 DEF Buffer
  <2>5. full' = [full EXCEPT !.head = H, !.count = full.count + n]
    BY <2>1, <2>2 DEF Logs, full
  <2>6. buf' \in [Logs -> Buffer] /\ mission' = mission
    BY <2>1, <2>2, <2>4 DEF Logs, mission
  <2> QED  BY <2>3, <2>5, <2>6 DEF Buffer
<1>8. ReadPtr("full") = IF full.head < full.count THEN full.head - full.count + N
                        ELSE full.head - full.count
  BY DEF ReadPtr, IsPart, full
<1>9. ReadPtr("full")' = ReadPtr("full") /\ ReadPtr("full") \in 0 .. N - 1
  <2>1. ReadPtr("full")' = IF full'.head < full'.count THEN full'.head - full'.count + N
                           ELSE full'.head - full'.count
    BY DEF ReadPtr, IsPart, full
  <2> HIDE DEF N
  <2>5. full.count + n <= N /\ full'.head = H /\ full'.count = full.count + n
    BY <1>3, <1>7
  <2>2. ReadPtr("full") \in 0 .. N - 1
    BY <1>0, <1>8, SMTT(30)
  <2>3. CASE full.head + n < N
    BY <1>0, <2>5, <1>8, <2>1, <2>3, SMTT(30)
  <2>4. CASE full.head + n >= N
    <3>1. H = full.head + n - N /\ full.head >= full.count /\ H < full.count + n
      BY <1>0, <2>4, <2>5, SMTT(30)
    <3> HIDE DEF H
    <3> QED  BY <1>0, <1>8, <2>1, <2>5, <3>1, SMTT(60), SMTT(30)
  <2> QED  BY <1>1, <2>2, <2>3, <2>4, SMTT(30)
<1>10. /\ accepted' \in [Logs -> Seq(Nat)] /\ Len(accepted["full"])' = A + n
       /\ \A i \in 1 .. A + n : accepted'["full"][i] = i
  <2>1. accepted["full"] \in Seq(Nat) /\ \A i \in 1 .. A : accepted["full"][i] = i
    BY <1>1 DEF IInv, RingInv, Logs
  <2>2. accepted'["full"] = accepted["full"] \o bytes
    BY <1>1, <1>3 DEF Logs
  <2>3. Bytes(accepted["full"], 0, A) /\ Bytes(bytes, A, n)
    BY <1>2, <2>1, SMTT(30) DEF Bytes
  <2>4. Bytes(accepted["full"] \o bytes, 0, A + n)
    <3> HIDE DEF A
    <3> QED  BY <1>0, <2>3, SeqMore
  <2>5. /\ accepted["full"] \o bytes \in Seq(Nat) /\ Len(accepted["full"] \o bytes) = A + n
        /\ \A i \in 1 .. A + n : (accepted["full"] \o bytes)[i] = i
    <3> HIDE DEF A
    <3> QED  BY <2>4, SMTT(30) DEF Bytes
  <2>6. accepted' \in [Logs -> Seq(Nat)]
    BY <1>1, <1>3, <2>5 DEF Logs
  <2> HIDE DEF A
  <2> QED  BY <2>2, <2>5, <2>6
<1>11. cells'["full"] = [i \in 0 .. N - 1 |->
                IF i >= full.head /\ i - full.head < n THEN A + (i - full.head + 1)
                ELSE IF n > N - full.head /\ i < n - (N - full.head) THEN A + (i + (N - full.head) + 1)
                ELSE cells["full"][i]]
  <2>1. cells'["full"] = [i \in 0 .. N - 1 |->
                IF i >= full.head /\ i - full.head < n THEN bytes[i - full.head + 1]
                ELSE IF n > N - full.head /\ i < n - (N - full.head) THEN bytes[i + (N - full.head) + 1]
                ELSE cells["full"][i]]
    BY <1>1, <1>5 DEF Logs
  <2>2. ASSUME NEW i \in 0 .. N - 1
        PROVE  /\ i >= full.head /\ i - full.head < n => bytes[i - full.head + 1] = A + (i - full.head + 1)
               /\ n > N - full.head /\ i < n - (N - full.head) =>
                    bytes[i + (N - full.head) + 1] = A + (i + (N - full.head) + 1)
    <3>1. full.count + n <= N /\ \A k \in 1 .. n : bytes[k] = A + k
      BY <1>2, <1>3
    <3> HIDE DEF N, A
    <3>2. ASSUME i >= full.head, i - full.head < n
          PROVE  i - full.head + 1 \in 1 .. n
      BY <1>0, <3>2, SMTT(30)
    <3>3. ASSUME n > N - full.head, i < n - (N - full.head)
          PROVE  i + (N - full.head) + 1 \in 1 .. n
      BY <1>0, <3>3, SMTT(30)
    <3> QED  BY <3>1, <3>2, <3>3
  <2> QED  BY <2>1, <2>2
<1>12. DOMAIN cells' = Logs /\ cells'["full"] \in [0 .. N - 1 -> Nat]
  <2>1. DOMAIN cells' = Logs
    BY <1>1, <1>5
  <2>2. ASSUME NEW i \in 0 .. N - 1
        PROVE  cells'["full"][i] \in Nat
    <3>1. cells["full"][i] \in Nat
      BY <1>1
    <3> HIDE DEF N, A
    <3>2. \/ cells'["full"][i] = A + (i - full.head + 1) /\ i >= full.head
          \/ cells'["full"][i] = A + (i + (N - full.head) + 1)
          \/ cells'["full"][i] = cells["full"][i]
      BY <1>11
    <3> QED  BY <1>0, <3>1, <3>2, SMTT(30)
  <2> HIDE DEF N, A
  <2> QED  BY <1>11, <2>1, <2>2
<1>13. Holds(cells'["full"], N, ReadPtr("full"), full.count + n, A - full.count)
  <2>1. Holds(cells["full"], N, ReadPtr("full"), full.count, A - full.count)
    BY <1>4 DEF IInv, RingInv, Pos, Holds
  <2>2. Puts(cells'["full"], cells["full"], N, full.head, n, A)
    <3> HIDE DEF N, A
    <3> QED  BY <1>11 DEF Puts
  <2>3. full.count + n <= N
    BY <1>3
  <2> HIDE DEF N, A
  <2> QED  BY <1>0, <1>8, <1>9, <2>1, <2>2, <2>3, RingPut
<1>14. Unmarked' = Unmarked
  BY <1>3 DEF Unmarked
<1>15. Typed'
  BY <1>3, <1>7, <1>10, <1>12 DEF IInv, Typed, Loggers, mission
<1>16. WriterInv' /\ LoggerInv'
  BY <1>3, <1>4, <1>7 DEF IInv, WriterInv, LoggerInv
<1>17. RingInv'
  <2>1. \A j \in 1 .. full'.count : cells'["full"][Pos(j)'] = Len(accepted["full"])' - full'.count + j
    BY <1>1, <1>7, <1>9, <1>10, <1>13, SMTT(30) DEF Pos, Holds
  <2>2. Len(file["full"]) \in Nat /\ Unmarked \in Nat
    BY SMTT(30) DEF IInv, Typed, Logs, Unmarked
  <2>3. full'.head < N /\ full'.count <= N
    BY <1>1, <1>3, <1>6, <1>7, SMTT(30)
  <2>4. /\ Len(file["full"])' <= Len(accepted["full"])'
        /\ full'.count = Len(accepted["full"])' - Len(file["full"])' + Unmarked'
    <3>1. /\ Len(file["full"]) <= A /\ full.count = A - Len(file["full"]) + Unmarked
      BY <1>4 DEF IInv, RingInv
    <3>2. Len(file["full"])' = Len(file["full"])
      BY <1>3
    <3>3. Len(accepted["full"])' = A + n /\ full'.count = full.count + n
      BY <1>7, <1>10
    <3> HIDE DEF A
    <3> QED  BY <1>0, <1>14, <2>2, <3>1, <3>2, <3>3, SMTT(30)
  <2>5. \A i \in 1 .. Len(file["full"])' : file'["full"][i] = i
    BY <1>3 DEF IInv, RingInv
  <2> QED  BY <1>4, <1>7, <1>10, <2>1, <2>3, <2>4, <2>5 DEF RingInv
<1>18. ChunkInv'
  <2>1. writer \in [pc : Pcs, i : 1 .. 2, ptr : Nat, available : Nat, is_part : BOOLEAN,
                    written : Nat, seen : Nat]
    BY DEF IInv, Typed
  <2> QED  BY <1>1, <1>3, <1>7, <1>9, <1>14, <2>1, SMTT(30) DEF IInv, ChunkInv, Current
<1> QED  BY <1>15, <1>16, <1>17, <1>18 DEF IInv

-----------------------------------------------------------------------------
(* The writer's steps.                                                      *)

WriterRecord == [pc : Pcs, i : 1 .. 2, ptr : Nat, available : Nat, is_part : BOOLEAN,
                 written : Nat, seen : Nat]

(* The writer's records and the buffer it is at.                            *)
LEMMA WriterFacts ==
    ASSUME IInv
    PROVE  /\ writer \in WriterRecord
           /\ Current \in Logs /\ (writer.i = 2 => Current = "full") /\ (writer.i = 1 => Current = "mission")
           /\ \A pc \in Pcs, i \in 1 .. 2 : At(pc, i) \in WriterRecord
  BY SMTT(30) DEF IInv, Typed, WriterRecord, Current, Types, Logs, At

(* A busy writer keeps the log from being started.                          *)
LEMMA LoggerKept ==
    ASSUME IInv, logger' = logger, writer.pc \in Scanning \/ (writer'.pc \notin Scanning /\ buf' = buf),
           full'.should_run => full.should_run /\ full'.fd = "open"
    PROVE  LoggerInv'
<1>1. CASE writer.pc \in Scanning
  BY <1>1 DEF IInv, LoggerInv
<1>2. CASE writer'.pc \notin Scanning /\ buf' = buf
  BY <1>2 DEF IInv, LoggerInv, full
<1> QED  BY <1>1, <1>2

(* A step of the writer that leaves buffers and files alone.                *)
LEMMA QuietStep ==
    ASSUME IInv, UNCHANGED <<buf, cells, exit, logger, accepted, file>>,
           writer' \in WriterRecord, mutex' \in {"free", "writer"}, Unmarked' = Unmarked,
           WriterInv', LoggerInv', ChunkInv'
    PROVE  IInv'
<1>1. RingInv'
  BY RingKept DEF IInv, full
<1>2. Typed'
  BY DEF IInv, Typed, WriterRecord, mission
<1> QED  BY <1>1, <1>2 DEF IInv

(* The end of the loop body, after which the file is open or gone.          *)
LEMMA OnwardFacts ==
    ASSUME IInv, NEW bufs, buf' = bufs, NEW is_part \in BOOLEAN, Onward(bufs, is_part),
           mission'.fd = "none", full'.fd \in {"open", "none"},
           full'.fd = "none" => /\ writer.i = 2 /\ ~full'.should_run
                                /\ is_part => full'.had_write_error
    PROVE  /\ writer' \in WriterRecord /\ mutex' \in {"free", "writer"}
           /\ WriterInv' /\ ChunkInv' /\ Unmarked' = 0
<1>1. writer.i \in 1 .. 2 /\ \A pc \in Pcs, i \in 1 .. 2 : At(pc, i) \in WriterRecord
  BY WriterFacts DEF WriterRecord
<1>2. (\E b \in Logs : bufs[b].fd # "none") <=> full'.fd # "none"
  BY DEF Logs, full, mission
<1>3. \/ is_part /\ mutex' = "writer" /\ writer' = At("scan", writer.i)
      \/ ~is_part /\ writer.i = 1 /\ mutex' = "writer" /\ writer' = At("scan", 2)
      \/ writer.i = 2 /\ full'.fd = "none" /\ mutex' = "free" /\ writer' = At("check", 1)
      \/ full'.fd # "none" /\ mutex' = "free" /\ writer' = At("wait_data", 1)
      \/ full'.fd # "none" /\ mutex' = "writer" /\ writer' = At("scan", 1)
  BY <1>1, <1>2, SMTT(30) DEF Onward, Types
<1>4. writer' \in WriterRecord /\ mutex' \in {"free", "writer"}
  BY <1>1, <1>3, SMTT(30) DEF Pcs, Scanning
<1>5. /\ writer'.ptr = 0 /\ writer'.available = 0 /\ writer'.i \in 1 .. 2
      /\ writer'.pc \in {"scan", "check", "wait_data"}
  BY <1>1, <1>3, SMTT(30) DEF At
<1>6. WriterInv'
  BY <1>1, <1>3, SMTT(30) DEF WriterInv, Scanning, At
<1>7. ChunkInv'
  <2>1. Size[Current'] \in Nat
    BY <1>5, ConstantsAssumption, SMTT(30) DEF Current, Types
  <2> QED  BY <1>5, <2>1, SMTT(30) DEF ChunkInv
<1>8. Unmarked' = 0
  BY <1>5 DEF Unmarked
<1> QED  BY <1>4, <1>6, <1>7, <1>8

(* The writer looks for a log to write and begins a scan.                   *)
LEMMA WakingIInv ==
    ASSUME IInv, CheckExit \/ WaitStart \/ Woken \/ BeginScan
    PROVE  IInv'
<1>1. /\ writer \in WriterRecord /\ Current \in Logs /\ At("scan", 1) \in WriterRecord
      /\ mutex \in {"free", "writer"} /\ UNCHANGED <<buf, cells, exit, logger, accepted, file>>
  BY WriterFacts, SMTT(30) DEF Pcs, Scanning, IInv, Typed, CheckExit, WaitStart, Woken, BeginScan
<1>2. full'.should_run => full.should_run /\ full'.fd = "open"
  BY <1>1 DEF IInv, LoggerInv, full
<1>3. CASE BeginScan
  <2>1. /\ writer.pc \in {"lock_scan", "woken_data"} /\ mutex' = "writer" /\ writer' = At("scan", 1)
    BY <1>3 DEF BeginScan
  <2>2. WriterInv'
    BY <1>1, <2>1 DEF IInv, WriterInv, Scanning, At, full
  <2>3. LoggerInv'
    BY <1>1, <1>2, <2>1, LoggerKept DEF Scanning
  <2>4. ChunkInv'
    BY <2>1, ConstantsAssumption, SMTT(30) DEF ChunkInv, At, Current, Types
  <2>5. Unmarked' = Unmarked
    BY <2>1 DEF Unmarked, At
  <2> QED  BY <1>1, <2>1, <2>2, <2>3, <2>4, <2>5, QuietStep
<1>4. CASE CheckExit \/ WaitStart \/ Woken
  <2>1. /\ mutex' = mutex /\ writer.pc \in {"check", "started", "lock_wait", "woken"}
        /\ \/ Goto("done") \/ Goto("lock_wait") \/ Goto("wait_start") \/ Goto("check")
           \/ Goto("lock_scan") /\ writer.pc = "started"
           \/ Goto("started") /\ full.should_run
    <3>1. CASE CheckExit
      BY <3>1 DEF CheckExit
    <3>2. CASE WaitStart
      BY <3>2 DEF WaitStart
    <3>3. CASE Woken
      <4>1. (\E b \in Logs : buf[b].should_run) => full.should_run
        BY DEF IInv, Typed, Logs, mission, full
      <4> QED  BY <3>3, <4>1 DEF Woken
    <3> QED  BY <1>4, <3>1, <3>2, <3>3
  <2>2. /\ writer'.pc \in {"done", "lock_wait", "lock_scan", "wait_start", "started", "check"}
        /\ writer'.pc = "lock_scan" => writer.pc = "started"
        /\ writer'.pc = "started" => full.should_run
        /\ writer' \in WriterRecord /\ writer'.i = writer.i
        /\ writer'.ptr = writer.ptr /\ writer'.available = writer.available
    BY <1>1, <2>1 DEF Goto, WriterRecord, Pcs, Scanning
  <2>4. full.should_run => full.fd = "open"
    BY DEF IInv, LoggerInv
  <2>5. WriterInv'
    BY <1>1, <2>1, <2>2, <2>4 DEF IInv, WriterInv, Scanning, full
  <2>6. LoggerInv'
    <3>1. CASE writer'.pc = "started"
      BY <1>1, <2>2, <2>4, <3>1 DEF IInv, LoggerInv, full
    <3>2. CASE writer'.pc = "lock_scan"
      BY <1>1, <1>2, <2>2, <3>2, LoggerKept DEF Scanning
    <3>3. CASE writer'.pc \notin {"started", "lock_scan"}
      BY <1>1, <1>2, <2>2, <3>3, LoggerKept DEF Scanning
    <3> QED  BY <3>1, <3>2, <3>3
  <2>7. ChunkInv'
    BY <1>1, <2>2 DEF IInv, ChunkInv, Current
  <2>8. Unmarked' = Unmarked /\ mutex' \in {"free", "writer"}
    BY <1>1, <2>1, <2>2 DEF Unmarked
  <2> QED  BY <1>1, <2>2, <2>5, <2>6, <2>7, <2>8, QuietStep
<1> QED  BY <1>3, <1>4

(* A log is not running, or the file of the log is open: fsync().           *)
LEMMA FsyncIInv ==
    ASSUME IInv, Fsync
    PROVE  IInv'
<1>1. writer.pc = "fsync" /\ Onward(buf, FALSE) /\ UNCHANGED <<buf, cells, exit, logger, accepted, file>>
  BY DEF Fsync
<1>2. full.fd = "open" /\ mission.fd = "none"
  BY <1>1 DEF IInv, WriterInv, Typed, Scanning
<1>3. full' = full /\ mission' = mission
  BY <1>1 DEF full, mission
<1>4. /\ writer' \in WriterRecord /\ mutex' \in {"free", "writer"}
      /\ WriterInv' /\ ChunkInv' /\ Unmarked' = 0
  BY <1>1, <1>2, <1>3, OnwardFacts
<1>5. LoggerInv' /\ Unmarked = 0
  BY <1>1, <1>2, <1>3, LoggerKept DEF Scanning, Unmarked
<1> QED  BY <1>1, <1>4, <1>5, QuietStep

(* The writer after get_read_ptr().                                         *)
LEMMA ReadingRecord ==
    ASSUME NEW r \in Nat, NEW a \in Nat, NEW p \in BOOLEAN, NEW n \in Nat, NEW w,
           w = [pc |-> "writing", i |-> 2, ptr |-> r, available |-> a, is_part |-> p,
                written |-> 0, seen |-> n]
    PROVE  /\ w \in WriterRecord /\ w.pc = "writing" /\ w.i = 2 /\ w.ptr = r /\ w.available = a
           /\ w.is_part = p /\ w.seen = n
<1>1. "writing" \in Pcs
  BY DEF Pcs, Scanning
<1> QED  BY <1>1, SMTT(30) DEF WriterRecord

(* A buffer is looked at.  That of the mission log is empty.                *)
LEMMA ScanIInv ==
    ASSUME IInv, Scan
    PROVE  IInv'
<1>1. /\ writer.pc = "scan" /\ writer \in WriterRecord /\ mutex \in {"free", "writer"}
      /\ Current \in Logs /\ (writer.i = 2 => Current = "full") /\ (writer.i = 1 => Current = "mission")
      /\ UNCHANGED <<buf, cells, exit, logger, accepted, file>> /\ writer.i \in 1 .. 2
      /\ \A pc \in Pcs, i \in 1 .. 2 : At(pc, i) \in WriterRecord
  BY WriterFacts DEF Scan, IInv, Typed, WriterRecord
<1>2. full' = full /\ mission' = mission /\ Unmarked = 0
  BY <1>1 DEF full, mission, Unmarked
<1>3. LoggerInv'
  BY <1>1, <1>2, LoggerKept DEF Scanning, IInv, LoggerInv
<1>4. ~Enough("mission") /\ ~mission.should_run /\ mission.fd = "none"
  BY ConstantsAssumption, SMTT(30) DEF Enough, Readable, IsPart, IInv, Typed, mission
<1>5. /\ buf \in [Logs -> Buffer] /\ Size["full"] \in Nat \ {0} /\ MinChunk["full"] \in Nat \ {0}
      /\ full.head \in Nat /\ full.count \in Nat
      /\ full.head < Size["full"] /\ full.count <= Size["full"]
  BY ConstantsAssumption DEF IInv, Typed, RingInv, Logs, Buffer, full
<1>6. /\ ReadPtr("full") \in Nat /\ Readable("full") \in Nat
      /\ ReadPtr("full") + Readable("full") <= Size["full"] /\ Readable("full") <= full.count
      /\ ~IsPart("full") => Readable("full") = full.count
  BY <1>5, ReadPtrFacts, SMTT(30) DEF full, Logs
<1>7. /\ Len(accepted["full"]) \in Nat /\ Len(file["full"]) \in Nat
      /\ full.fd # "none" => full.count = Len(accepted["full"]) - Len(file["full"])
  BY <1>2, SMTT(30) DEF IInv, Typed, RingInv, Logs
<1>8. CASE /\ Enough(Current) /\ mutex' = "free"
           /\ writer' = [At("writing", writer.i) EXCEPT !.ptr = ReadPtr(Current),
                             !.available = Readable(Current), !.is_part = IsPart(Current),
                             !.seen = Len(accepted[Current])]
  <2>1. writer.i = 2 /\ Current = "full"
    BY <1>1, <1>4, <1>8, SMTT(30)
  <2>2. full.fd = "open"
    <3>1. full.fd = "none" => ~Enough("full")
      BY <1>5, SMTT(30) DEF IInv, RingInv, Enough, Readable, IsPart, full
    <3> QED  BY <1>1, <1>8, <2>1, <3>1 DEF IInv, WriterInv, Scanning
  <2>3. PICK p \in BOOLEAN : IsPart("full") = p
    <3>1. IsPart("full") \in BOOLEAN
      BY SMTT(30) DEF IsPart
    <3> WITNESS IsPart("full") \in BOOLEAN
    <3> QED  OBVIOUS
  <2>4. /\ writer' \in WriterRecord /\ writer'.pc = "writing" /\ writer'.i = 2
        /\ writer'.ptr = ReadPtr("full") /\ writer'.available = Readable("full")
        /\ writer'.is_part = p /\ writer'.seen = Len(accepted["full"])
    <3>1. writer' = [pc |-> "writing", i |-> 2, ptr |-> ReadPtr("full"), available |-> Readable("full"),
                     is_part |-> IsPart("full"), written |-> 0, seen |-> Len(accepted["full"])]
      BY <1>8, <2>1 DEF At
    <3>2. ReadPtr("full") \in Nat /\ Readable("full") \in Nat /\ Len(accepted["full"]) \in Nat /\ p \in BOOLEAN
      BY <1>6, <1>7, <2>3
    <3>3. writer' = [pc |-> "writing", i |-> 2, ptr |-> ReadPtr("full"), available |-> Readable("full"),
                     is_part |-> p, written |-> 0, seen |-> Len(accepted["full"])]
      BY <2>3, <3>1
    <3> QED  BY <3>2, <3>3, ReadingRecord, SMTT(30)
  <2>5. WriterInv'
    BY <1>2, <1>8, <2>2, <2>4 DEF WriterInv, Scanning
  <2>6. Unmarked' = 0
    BY <2>4 DEF Unmarked
  <2>7. ReadPtr("full")' = ReadPtr("full") /\ Current' = "full"
    BY <1>1, <2>4, SMTT(30) DEF ReadPtr, IsPart, Current, Types
  <2>8. ChunkInv'
    <3>1. ~writer'.is_part => writer'.seen = Len(file["full"]) - 0 + writer'.available
      <4>1. ~p => Readable("full") = Len(accepted["full"]) - Len(file["full"])
        BY <1>6, <1>7, <2>2, <2>3
      <4>2. writer'.is_part = p /\ writer'.available = Readable("full") /\ writer'.seen = Len(accepted["full"])
        BY <2>4
      <4>3. ~writer'.is_part => Readable("full") = Len(accepted["full"]) - Len(file["full"])
        BY <4>1, <4>2
      <4>4. writer'.available = Readable("full") /\ writer'.seen = Len(accepted["full"])
        BY <4>2
      <4>5. Readable("full") = Len(accepted["full"]) - Len(file["full"]) =>
                writer'.seen = Len(file["full"]) - 0 + writer'.available
        <5>1. Readable("full") \in Nat /\ Len(accepted["full"]) \in Nat /\ Len(file["full"]) \in Nat
          BY <1>6, <1>7
        <5>2. ASSUME NEW A \in Nat, NEW F \in Nat, NEW R \in Nat, R = A - F
              PROVE  A = F - 0 + R
          BY <5>2, SMTT(30)
        <5>3. Readable("full") = Len(accepted["full"]) - Len(file["full"]) =>
                Len(accepted["full"]) = Len(file["full"]) - 0 + Readable("full")
          BY <5>1, <5>2
        <5> QED  BY <4>4, <5>3
      <4> QED  BY <4>3, <4>5
    <3>2. file' = file
      BY <1>1
    <3>3. writer'.ptr + writer'.available <= Size["full"] /\ writer'.available <= full'.count
      BY <1>2, <1>6, <2>4
    <3> QED  BY <2>4, <2>6, <2>7, <3>1, <3>2, <3>3 DEF ChunkInv
  <2> QED  BY <1>1, <1>2, <1>3, <1>8, <2>4, <2>5, <2>6, <2>8, QuietStep
<1>9. CASE buf[Current].should_run /\ mutex' = "free" /\ Goto("fsync")
  <2>1. writer.i = 2 /\ full.should_run /\ full.fd = "open"
    BY <1>1, <1>4, <1>9, SMTT(30) DEF full, mission, IInv, LoggerInv
  <2>2. /\ writer' \in WriterRecord /\ writer'.pc = "fsync" /\ writer'.i = 2
        /\ writer'.ptr = writer.ptr /\ writer'.available = writer.available
    BY <1>1, <1>9, <2>1 DEF Goto, WriterRecord, Pcs, Scanning
  <2>3. WriterInv'
    BY <1>2, <1>9, <2>1, <2>2 DEF WriterInv, Scanning
  <2>4. ChunkInv' /\ Unmarked' = 0
    BY <2>1, <2>2 DEF IInv, ChunkInv, Current, Unmarked
  <2> QED  BY <1>1, <1>2, <1>3, <1>9, <2>2, <2>3, <2>4, QuietStep
<1>10. CASE buf[Current].should_run /\ Onward(buf, FALSE)
  <2>1. full.fd = "open"
    BY <1>1, <1>4, <1>10, SMTT(30) DEF full, mission, IInv, LoggerInv
  <2>2. /\ writer' \in WriterRecord /\ mutex' \in {"free", "writer"}
        /\ WriterInv' /\ ChunkInv' /\ Unmarked' = 0
    BY <1>1, <1>2, <1>4, <1>10, <2>1, OnwardFacts
  <2> QED  BY <1>1, <1>2, <1>3, <2>2, QuietStep
<1>11. CASE /\ ~Enough(Current) /\ ~buf[Current].should_run /\ mutex' = "free"
            /\ writer' = [At("close", writer.i) EXCEPT !.seen = Len(accepted[Current])]
  <2>1. Len(accepted[Current]) \in Nat
    BY <1>1, SMTT(30) DEF IInv, Typed
  <2>2. /\ writer' \in WriterRecord /\ writer'.pc = "close" /\ writer'.i = writer.i
        /\ writer'.ptr = 0 /\ writer'.available = 0
        /\ ~writer'.is_part /\ writer'.seen = Len(accepted[Current])
    BY <1>1, <1>11, <2>1 DEF At, WriterRecord, Pcs, Scanning
  <2>3. writer.i = 2 => ~full.should_run /\ full.count = 0
    <3>1. ASSUME writer.i = 2
          PROVE  ~full.should_run /\ ~IsPart("full") /\ ~(Readable("full") > 0)
      BY <1>1, <1>11, <3>1 DEF Enough, full
    <3> QED  BY <1>6, <3>1, SMTT(30)
  <2>4. WriterInv'
    BY <1>1, <1>2, <1>11, <2>2, <2>3 DEF IInv, WriterInv, Scanning
  <2>5. Size[Current'] \in Nat
    BY <1>1, <2>2, ConstantsAssumption DEF Current, Logs
  <2>6. writer'.i = 2 /\ full.fd # "none" => writer'.seen <= Len(file["full"])
    <3>1. ASSUME writer'.i = 2, full.fd # "none"
          PROVE  writer'.seen = Len(accepted["full"]) /\ Len(accepted["full"]) - Len(file["full"]) = 0
      BY <1>1, <1>7, <2>2, <2>3, <3>1
    <3> QED  BY <1>7, <3>1, SMTT(30)
  <2>7. ChunkInv'
    BY <1>1, <1>2, <2>2, <2>5, <2>6, SMTT(30) DEF ChunkInv
  <2>8. Unmarked' = 0
    BY <2>2 DEF Unmarked
  <2> QED  BY <1>1, <1>2, <1>3, <1>11, <2>2, <2>4, <2>7, <2>8, QuietStep
<1> QED  BY <1>8, <1>9, <1>10, <1>11 DEF Scan

(* A write that fails stops the log.                                        *)
LEMMA WriteFailedIInv ==
    ASSUME IInv, WriteFailed
    PROVE  IInv'
<1>1. /\ writer.pc = "failed" /\ writer.i = 2 /\ Current = "full" /\ writer \in WriterRecord
      /\ full.fd = "open" /\ mutex = "free" /\ buf \in [Logs -> Buffer]
  BY WriterFacts DEF WriteFailed, IInv, WriterInv, Typed, Scanning
<1>2. /\ buf' = [buf EXCEPT !["full"].had_write_error = TRUE, !["full"].should_run = FALSE]
      /\ writer' = [At("close", 2) EXCEPT !.is_part = writer.is_part]
      /\ UNCHANGED <<cells, mutex, exit, logger, accepted, file>>
  BY <1>1 DEF WriteFailed
<1>3. /\ buf' \in [Logs -> Buffer] /\ mission' = mission
      /\ full'.head = full.head /\ full'.count = full.count /\ full'.fd = full.fd
      /\ full'.had_write_error /\ ~full'.should_run
  BY <1>1, <1>2 DEF Logs, Buffer, full, mission
<1>4. /\ writer' \in WriterRecord /\ writer'.pc = "close" /\ writer'.i = 2
      /\ writer'.ptr = 0 /\ writer'.available = 0
  BY <1>1, <1>2 DEF At, WriterRecord, Pcs, Scanning
<1>5. Unmarked' = Unmarked
  BY <1>1, <1>4 DEF Unmarked
<1>6. RingInv'
  BY <1>2, <1>3, <1>5, RingKept DEF IInv
<1>7. Typed'
  BY <1>2, <1>3, <1>4 DEF IInv, Typed, WriterRecord, mission
<1>8. WriterInv'
  BY <1>1, <1>2, <1>3, <1>4 DEF WriterInv, Scanning
<1>9. LoggerInv'
  BY <1>1, <1>2, <1>3, LoggerKept DEF Scanning
<1>10. ChunkInv'
  BY <1>3, <1>4, ConstantsAssumption, SMTT(30) DEF ChunkInv, Current, Types
<1> QED  BY <1>6, <1>7, <1>8, <1>9, <1>10 DEF IInv

(* The descriptor of a closed file keeps its value.                         *)
LEMMA CloseFileIInv ==
    ASSUME IInv, CloseFile
    PROVE  IInv'
<1>1. /\ writer.pc = "close" /\ writer \in WriterRecord /\ writer.i \in 1 .. 2
      /\ (writer.i = 2 => Current = "full") /\ (writer.i = 1 => Current = "mission")
      /\ buf \in [Logs -> Buffer] /\ mission.fd = "none"
      /\ UNCHANGED <<cells, mutex, exit, logger, accepted, file>>
  BY WriterFacts DEF CloseFile, IInv, Typed, WriterRecord
<1>2. /\ buf' = [buf EXCEPT ![Current].fd = IF @ = "open" THEN "closed" ELSE @]
      /\ writer' = [writer EXCEPT !.pc = "reset"]
  BY DEF CloseFile, Goto
<1>3. /\ buf' \in [Logs -> Buffer] /\ mission' = mission
      /\ full'.head = full.head /\ full'.count = full.count
      /\ full'.fd = (IF writer.i = 2 /\ full.fd = "open" THEN "closed" ELSE full.fd)
      /\ full'.had_write_error = full.had_write_error /\ full'.should_run = full.should_run
  <2>1. CASE writer.i = 2
    BY <1>1, <1>2, <2>1 DEF Logs, Buffer, full, mission
  <2>2. CASE writer.i = 1
    <3>1. buf' = [buf EXCEPT !["mission"].fd = "none"]
      BY <1>1, <1>2, <2>2 DEF mission
    <3> QED  BY <1>1, <2>2, <3>1 DEF Logs, Buffer, full, mission
  <2> QED  BY <1>1, <2>1, <2>2, SMTT(30)
<1>4. /\ writer' \in WriterRecord /\ writer'.pc = "reset" /\ writer'.i = writer.i
      /\ writer'.ptr = writer.ptr /\ writer'.available = writer.available
      /\ writer'.is_part = writer.is_part /\ writer'.seen = writer.seen
  BY <1>1, <1>2 DEF WriterRecord, Pcs, Scanning
<1>5. Unmarked' = Unmarked
  BY <1>1, <1>4 DEF Unmarked
<1>6. RingInv'
  <2>1. ReadPtr("full")' = ReadPtr("full")
    BY <1>3 DEF ReadPtr, IsPart, full
  <2>2. \A j : Pos(j)' = Pos(j)
    BY <2>1 DEF Pos
  <2> QED  BY <1>1, <1>3, <1>5, <2>2 DEF IInv, RingInv
<1>7. Typed'
  BY <1>1, <1>3, <1>4 DEF IInv, Typed, WriterRecord, mission
<1>8. WriterInv'
  BY <1>1, <1>3, <1>4 DEF IInv, WriterInv, Scanning
<1>9. LoggerInv'
  <2>1. full'.should_run => full.should_run /\ full'.fd = "open"
    BY <1>1, <1>3 DEF IInv, WriterInv, LoggerInv
  <2> QED  BY <1>1, <2>1, LoggerKept DEF Scanning
<1>10. ChunkInv'
  BY <1>1, <1>3, <1>4 DEF IInv, ChunkInv, Current
<1> QED  BY <1>6, <1>7, <1>8, <1>9, <1>10 DEF IInv

(* The reset of a buffer empties it.                                        *)
LEMMA ResetIInv ==
    ASSUME IInv, Reset
    PROVE  IInv'
<1>1. /\ writer.pc = "reset" /\ writer \in WriterRecord /\ writer.i \in 1 .. 2 /\ writer.is_part \in BOOLEAN
      /\ (writer.i = 2 => Current = "full") /\ (writer.i = 1 => Current = "mission")
      /\ buf \in [Logs -> Buffer] /\ mission.fd = "none" /\ mission.head = 0 /\ mission.count = 0
      /\ UNCHANGED <<cells, exit, logger, accepted, file>>
  BY WriterFacts DEF Reset, IInv, Typed, WriterRecord
<1>2. /\ buf' = [buf EXCEPT ![Current].head = 0, ![Current].count = 0, ![Current].fd = "none"]
      /\ Onward(buf', writer.is_part)
  BY DEF Reset
<1>3. /\ buf' \in [Logs -> Buffer]
      /\ mission'.head = 0 /\ mission'.count = 0 /\ mission'.fd = "none"
      /\ mission'.should_run = mission.should_run
      /\ writer.i = 2 => full'.head = 0 /\ full'.count = 0 /\ full'.fd = "none"
      /\ writer.i = 1 => full'.head = full.head /\ full'.count = full.count /\ full'.fd = full.fd
      /\ full'.had_write_error = full.had_write_error /\ full'.should_run = full.should_run
  <2>1. CASE writer.i = 2
    BY <1>1, <1>2, <2>1 DEF Logs, Buffer, full, mission
  <2>2. CASE writer.i = 1
    BY <1>1, <1>2, <2>2 DEF Logs, Buffer, full, mission
  <2> QED  BY <1>1, <2>1, <2>2, SMTT(30)
<1>4. /\ full'.fd \in {"open", "none"}
      /\ full'.fd = "none" => /\ writer.i = 2 /\ ~full'.should_run
                              /\ writer.is_part => full'.had_write_error
  BY <1>1, <1>3, SMTT(30) DEF IInv, WriterInv, Scanning
<1>5. /\ writer' \in WriterRecord /\ mutex' \in {"free", "writer"}
      /\ WriterInv' /\ ChunkInv' /\ Unmarked' = 0
  BY <1>1, <1>2, <1>3, <1>4, OnwardFacts
<1>6. Unmarked = 0
  BY <1>1 DEF Unmarked
<1>7. RingInv'
  <2>1. CASE writer.i = 1
    BY <1>1, <1>3, <1>5, <1>6, <2>1, RingKept DEF IInv
  <2>2. CASE writer.i = 2
    <3>1. full'.head = 0 /\ full'.count = 0 /\ full'.fd = "none" /\ 0 < Size["full"] /\ 0 <= Size["full"]
      BY <1>3, <2>2, ConstantsAssumption, SMTT(30)
    <3>2. /\ \A k \in 1 .. Len(accepted["full"])' : accepted'["full"][k] = k
          /\ \A k \in 1 .. Len(file["full"])' : file'["full"][k] = k
          /\ Len(file["full"])' <= Len(accepted["full"])'
      BY <1>1 DEF IInv, RingInv
    <3> QED  BY <3>1, <3>2 DEF RingInv
  <2> QED  BY <1>1, <2>1, <2>2, SMTT(30)
<1>8. Typed'
  BY <1>1, <1>3, <1>5 DEF IInv, Typed, WriterRecord
<1>9. LoggerInv'
  <2>1. full'.should_run => full.should_run /\ full'.fd = "open"
    BY <1>3, <1>4
  <2> QED  BY <1>1, <2>1, LoggerKept DEF Scanning
<1> QED  BY <1>5, <1>7, <1>8, <1>9 DEF IInv

(* What is written is what the file lacks.                                  *)
LEMMA WriteToFileIInv ==
    ASSUME IInv, WriteToFile
    PROVE  IInv'
<1> DEFINE N == Size["full"]
           A == Len(accepted["full"])
           F == Len(file["full"])
           r == ReadPtr("full")
<1>1. /\ writer.pc = "writing" /\ writer.i = 2 /\ Current = "full" /\ writer \in WriterRecord
      /\ full.fd = "open" /\ mutex = "free" /\ mission.fd = "none" /\ Unmarked = 0
      /\ file \in [Logs -> Seq(Nat)] /\ buf \in [Logs -> Buffer]
      /\ UNCHANGED <<buf, cells, mutex, exit, logger, accepted>>
  <2>1. writer.pc = "writing" /\ UNCHANGED <<buf, cells, mutex, exit, logger, accepted>>
    BY DEF WriteToFile
  <2> QED  BY <2>1, WriterFacts DEF IInv, WriterInv, Typed, Scanning, Unmarked
<1>2. full' = full /\ mission' = mission /\ r' = r
  BY <1>1 DEF full, mission, ReadPtr, IsPart
<1>3. LoggerInv'
  BY <1>1, <1>2, LoggerKept DEF Scanning, IInv, LoggerInv
<1>4. CASE Goto("failed") /\ file' = file
  <2>1. /\ writer' \in WriterRecord /\ writer'.pc = "failed" /\ writer'.i = 2
        /\ writer'.ptr = writer.ptr /\ writer'.available = writer.available
    BY <1>1, <1>4 DEF Goto, WriterRecord, Pcs, Scanning
  <2>2. WriterInv'
    BY <1>1, <1>2, <2>1 DEF WriterInv, Scanning
  <2>3. ChunkInv'
    BY <1>1, <2>1 DEF IInv, ChunkInv, Current
  <2>4. Unmarked' = Unmarked /\ mutex' \in {"free", "writer"}
    BY <1>1, <2>1 DEF Unmarked
  <2> QED  BY <1>1, <1>3, <1>4, <2>1, <2>2, <2>3, <2>4, QuietStep
<1>5. ASSUME NEW n \in 1 .. writer.available,
             file' = [file EXCEPT ![Current] = @ \o [i \in 1 .. n |-> cells[Current][writer.ptr + i - 1]]],
             writer' = [writer EXCEPT !.pc = "relock", !.written = n]
      PROVE  IInv'
  <2>1. /\ N \in Nat \ {0} /\ A \in Nat /\ F \in Nat /\ F <= A /\ full.count \in Nat /\ full.count = A - F
        /\ writer.ptr = r /\ writer.available <= full.count /\ writer.ptr + writer.available <= N
        /\ r \in Nat /\ writer.available \in Nat /\ n \in Nat /\ n <= writer.available
    <3>1. /\ N \in Nat \ {0} /\ A \in Nat /\ F \in Nat /\ full.count \in Nat
          /\ writer.available \in Nat /\ writer.ptr \in Nat
      <4>1. N \in Nat \ {0}
        BY ConstantsAssumption
      <4>2. A \in Nat /\ F \in Nat
        BY SMTT(30) DEF IInv, Typed, Logs
      <4>3. full.count \in Nat
        BY <1>1 DEF Logs, Buffer, full
      <4>4. writer.available \in Nat /\ writer.ptr \in Nat
        BY <1>1 DEF WriterRecord
      <4> QED  BY <4>1, <4>2, <4>3, <4>4
    <3>2. F <= A /\ full.count = A - F + 0
      BY <1>1 DEF IInv, RingInv
    <3>3. writer.ptr = r /\ writer.available <= full.count /\ writer.ptr + writer.available <= N
      BY <1>1 DEF IInv, ChunkInv
    <3> HIDE DEF N, A, F, r
    <3>4. full.count = A - F
      BY <3>1, <3>2, SMTT(30)
    <3> QED  BY <3>1, <3>2, <3>3, <3>4, SMTT(30)
  <2>2. \A i \in 1 .. n : cells["full"][writer.ptr + i - 1] = F + i
    <3> SUFFICES ASSUME NEW i \in 1 .. n
                 PROVE  cells["full"][writer.ptr + i - 1] = F + i
      OBVIOUS
    <3>1. cells["full"][Pos(i)] = A - full.count + i
      <4>1. i \in 1 .. full.count
        <5> HIDE DEF N, A, F, r
        <5> QED  BY <2>1, SMTT(30)
      <4> QED  BY <1>1, <4>1 DEF IInv, RingInv
    <3> DEFINE x == writer.ptr + i - 1
    <3>2. x \in Nat /\ x < N /\ x < N + N
      BY <2>1, SMTT(30)
    <3>3. Pos(i) = x % N
      BY <2>1 DEF Pos
    <3>4. A - full.count + i = F + i
      BY <2>1, SMTT(30)
    <3> HIDE DEF x, N, A, F
    <3>5. x % N = x
      BY <2>1, <3>2, RingIndex
    <3>6. cells["full"][x] = F + i
      BY <3>1, <3>3, <3>4, <3>5
    <3> QED  BY <3>6 DEF x
  <2> DEFINE more == [i \in 1 .. n |-> cells["full"][writer.ptr + i - 1]]
  <2>3. more \in Seq(Nat) /\ Len(more) = n /\ \A i \in 1 .. n : more[i] = F + i
    <3> HIDE DEF F, A
    <3>1. \A i \in 1 .. n : more[i] = F + i
      BY <2>2
    <3>2. more \in [1 .. n -> Nat]
      BY <2>1, <2>2, SMTT(30)
    <3> HIDE DEF more
    <3> QED  BY <2>1, <3>1, <3>2, SMTT(30)
  <2> HIDE DEF more
  <2>4. file["full"] \in Seq(Nat) /\ \A i \in 1 .. F : file["full"][i] = i
    BY <1>1 DEF IInv, RingInv, Logs
  <2>5. file' \in [Logs -> Seq(Nat)] /\ file'["full"] = file["full"] \o more
    <3>1. file["full"] \o more \in Seq(Nat)
      BY <2>3, <2>4, SMTT(30)
    <3> QED  BY <1>1, <1>5, <3>1 DEF Logs, more
  <2>6. Len(file'["full"]) = F + n /\ \A i \in 1 .. F + n : file'["full"][i] = i
    <3>1. Bytes(file["full"], 0, F)
      BY <2>4, SMTT(30) DEF Bytes
    <3>2. Bytes(more, F, n) /\ F \in Nat /\ n \in Nat
      BY <2>1, <2>3 DEF Bytes
    <3> HIDE DEF F
    <3>3. Bytes(file["full"] \o more, 0, F + n)
      BY <3>1, <3>2, SeqMore
    <3> QED  BY <2>5, <3>2, <3>3, SMTT(30) DEF Bytes
  <2>7. /\ writer' \in WriterRecord /\ writer'.pc = "relock" /\ writer'.i = 2 /\ writer'.written = n
        /\ writer'.ptr = writer.ptr /\ writer'.available = writer.available
        /\ writer'.is_part = writer.is_part /\ writer'.seen = writer.seen
    BY <1>1, <1>5, <2>1 DEF WriterRecord, Pcs, Scanning
  <2>8. Unmarked' = n
    BY <2>7 DEF Unmarked
  <2>9. RingInv'
    <3>1. \A j : Pos(j)' = Pos(j)
      BY <1>2 DEF Pos
    <3>2. full'.head < N /\ full'.count <= N /\ full'.fd # "none"
      BY <1>1, <1>2 DEF IInv, RingInv
    <3>3. Len(accepted["full"])' = A /\ Len(file["full"])' = F + n
      BY <1>1, <2>6
    <3>4. F + n <= A /\ full'.count = A - (F + n) + n
      <4> HIDE DEF F, A
      <4> QED  BY <1>2, <2>1, SMTT(30)
    <3>5. \A j \in 1 .. full'.count : cells'["full"][Pos(j)'] = A - full'.count + j
      BY <1>1, <1>2, <3>1 DEF IInv, RingInv
    <3>6. \A k \in 1 .. A : accepted'["full"][k] = k
      BY <1>1 DEF IInv, RingInv
    <3> HIDE DEF F, A
    <3> QED  BY <2>6, <2>8, <3>2, <3>3, <3>4, <3>5, <3>6 DEF RingInv
  <2>10. Typed'
    BY <1>1, <1>2, <2>5, <2>7 DEF IInv, Typed, WriterRecord
  <2>11. WriterInv'
    BY <1>1, <1>2, <2>7 DEF WriterInv, Scanning
  <2>12. ChunkInv'
    <3>1. ~writer.is_part => writer.seen = F - 0 + writer.available
      BY <1>1 DEF IInv, ChunkInv
    <3>2. F - 0 + writer.available = (F + n) - n + writer.available
      BY <2>1, SMTT(30)
    <3>3. ~writer'.is_part => writer'.seen = Len(file["full"])' - Unmarked' + writer'.available
      <4>1. ~writer.is_part => writer.seen = (F + n) - n + writer.available
        BY <3>1, <3>2
      <4>2. Len(file["full"])' = F + n
        BY <2>6
      <4> HIDE DEF F
      <4>3. writer'.is_part = writer.is_part /\ writer'.seen = writer.seen /\ writer'.available = writer.available
        BY <2>7
      <4>4. ~writer'.is_part => writer'.seen = (F + n) - n + writer'.available
        BY <4>1, <4>3
      <4> QED  BY <2>8, <4>2, <4>4
    <3>4. Current' = "full"
      BY <2>7, SMTT(30) DEF Current, Types
    <3>5. writer'.written <= writer'.available /\ writer'.available <= full'.count
          /\ writer'.ptr + writer'.available <= N /\ writer'.ptr = r'
      BY <1>2, <2>1, <2>7
    <3> QED  BY <2>7, <3>3, <3>4, <3>5 DEF ChunkInv
  <2> QED  BY <1>3, <2>9, <2>10, <2>11, <2>12 DEF IInv
<1>6. \/ Goto("failed") /\ file' = file
      \/ \E n \in 1 .. writer.available :
             /\ file' = [file EXCEPT ![Current] = @ \o [i \in 1 .. n |-> cells[Current][writer.ptr + i - 1]]]
             /\ writer' = [writer EXCEPT !.pc = "relock", !.written = n]
  BY DEF WriteToFile
<1> QED  BY <1>4, <1>5, <1>6

(* The writer after it has written all of a stopped log.                    *)
LEMMA ClosingRecord ==
    ASSUME NEW n \in Nat, NEW w,
           w = [pc |-> "close", i |-> 2, ptr |-> 0, available |-> 0, is_part |-> FALSE,
                written |-> 0, seen |-> n]
    PROVE  /\ w \in WriterRecord /\ w.pc = "close" /\ w.i = 2 /\ w.ptr = 0 /\ w.available = 0
           /\ ~w.is_part /\ w.seen = n
<1>1. "close" \in Pcs
  BY DEF Pcs, Scanning
<1> QED  BY <1>1, SMTT(30) DEF WriterRecord

(* What is read leaves the ring; the rest stays where it is.                *)
LEMMA MarkReadIInv ==
    ASSUME IInv, MarkRead
    PROVE  IInv'
<1> DEFINE N == Size["full"]
           A == Len(accepted["full"])
           F == Len(file["full"])
           w == writer.written
           r == ReadPtr("full")
           c == full.count
<1>1. /\ writer.pc = "relock" /\ writer.i = 2 /\ Current = "full" /\ writer \in WriterRecord
      /\ full.fd = "open" /\ mutex = "free" /\ mission.fd = "none" /\ Unmarked = w
      /\ buf \in [Logs -> Buffer] /\ writer.is_part \in BOOLEAN
  BY WriterFacts DEF MarkRead, IInv, WriterInv, Typed, Scanning, Unmarked, WriterRecord
<1>2. /\ buf' = [buf EXCEPT !["full"].count = @ - w]
      /\ UNCHANGED <<cells, exit, logger, accepted, file>>
      /\ \/ /\ Finished("full") /\ mutex' = mutex
            /\ writer' = [At("close", 2) EXCEPT !.seen = writer.seen]
         \/ Onward(buf', writer.is_part)
  BY <1>1 DEF MarkRead, Read
<1>3. /\ N \in Nat \ {0} /\ A \in Nat /\ F \in Nat /\ c \in Nat /\ full.head \in 0 .. N - 1 /\ c <= N
      /\ w \in Nat /\ writer.available \in Nat /\ writer.ptr \in Nat /\ writer.seen \in Nat
  <2>1. N \in Nat \ {0}
    BY ConstantsAssumption
  <2>2. A \in Nat /\ F \in Nat
    BY SMTT(30) DEF IInv, Typed, Logs
  <2>3. c \in Nat /\ full.head \in Nat
    BY <1>1 DEF Logs, Buffer, full
  <2>4. w \in Nat /\ writer.available \in Nat /\ writer.ptr \in Nat /\ writer.seen \in Nat
    BY <1>1 DEF WriterRecord
  <2>5. full.head < N /\ c <= N
    BY DEF IInv, RingInv
  <2> HIDE DEF N, A, F, w, c
  <2> QED  BY <2>1, <2>2, <2>3, <2>4, <2>5, SMTT(30)
<1>4. /\ c = (A - F) + w /\ F <= A /\ Holds(cells["full"], N, r, c, A - c)
  BY <1>1 DEF IInv, RingInv, Pos, Holds
<1>5. /\ writer.ptr = r /\ writer.available <= c /\ w <= writer.available
      /\ writer.ptr + writer.available <= N
      /\ ~writer.is_part => writer.seen = (F - w) + writer.available
  BY <1>1 DEF IInv, ChunkInv
<1>6. /\ buf' \in [Logs -> Buffer] /\ mission' = mission
      /\ full'.head = full.head /\ full'.count = c - w /\ full'.fd = full.fd
      /\ full'.had_write_error = full.had_write_error /\ full'.should_run = full.should_run
  <2>1. c - w \in Nat
    <3> HIDE DEF N, A, F, w, r, c
    <3> QED  BY <1>3, <1>5, SMTT(30)
  <2>2. buf' = [buf EXCEPT !["full"] = [full EXCEPT !.count = c - w]]
    BY <1>1, <1>2 DEF Logs, Buffer, full
  <2>3. full \in Buffer
    BY <1>1 DEF Logs, full
  <2>4. [full EXCEPT !.count = c - w] \in Buffer
    <3> HIDE DEF w, c
    <3> QED  BY <2>1, <2>3 DEF Buffer
  <2>5. full' = [full EXCEPT !.count = c - w]
    BY <1>1, <2>2 DEF Logs, full
  <2>6. buf' \in [Logs -> Buffer] /\ mission' = mission
    BY <1>1, <2>2, <2>4 DEF Logs, mission
  <2> HIDE DEF w, c
  <2> QED  BY <2>3, <2>5, <2>6 DEF Buffer
<1>7. Holds(cells["full"], N, r', c - w, A - (c - w)) /\ r' \in 0 .. N - 1
  <2>1. r = (IF full.head < c THEN full.head - c + N ELSE full.head - c)
    BY DEF ReadPtr, IsPart, full
  <2>2. r' = (IF full.head < c - w THEN full.head - (c - w) + N ELSE full.head - (c - w))
    <3>1. r' = (IF full'.head < full'.count THEN full'.head - full'.count + N ELSE full'.head - full'.count)
      BY DEF ReadPtr, IsPart, full
    <3> HIDE DEF r, c, w, N
    <3> QED  BY <1>6, <3>1
  <2> DEFINE s == r'
             h == full.head
  <2>3. r \in 0 .. N - 1 /\ s \in 0 .. N - 1 /\ w \in 0 .. c /\ r + w <= N /\ c \in 0 .. N
    <3> HIDE DEF N, A, F, w, r, c, s
    <3> QED  BY <1>3, <1>5, <2>1, <2>2, SMTT(30) DEF s
  <2>4. /\ s = (IF h < c - w THEN h - (c - w) + N ELSE h - (c - w)) /\ h \in 0 .. N - 1
        /\ r = (IF h < c THEN h - c + N ELSE h - c) /\ N \in Nat \ {0}
    BY <1>3, <2>1, <2>2
  <2> HIDE DEF N, A, F, w, r, c, s, h
  <2>5. \A j \in 1 .. c - w : (s + j - 1) % N = (r + (w + j) - 1) % N
    BY <2>3, <2>4, RingTake, SMTT(30)
  <2>6. ASSUME NEW j \in 1 .. c - w
        PROVE  cells["full"][(s + j - 1) % N] = (A - (c - w)) + j
    <3>1. w + j \in 1 .. c /\ (A - c) + (w + j) = (A - (c - w)) + j
      BY <1>3, <2>3, SMTT(30)
    <3>2. cells["full"][(r + (w + j) - 1) % N] = (A - c) + (w + j)
      BY <1>4, <3>1 DEF Holds
    <3> QED  BY <2>5, <3>1, <3>2
  <2>7. Holds(cells["full"], N, s, c - w, A - (c - w))
    BY <2>6 DEF Holds
  <2> QED  BY <2>3, <2>7 DEF s
<1>8. LoggerInv'
  <2>1. full'.should_run => full.should_run /\ full'.fd = "open"
    BY <1>1, <1>6
  <2> QED  BY <1>1, <1>2, <2>1, LoggerKept DEF Scanning
<1>9. /\ writer' \in WriterRecord /\ mutex' \in {"free", "writer"} /\ WriterInv' /\ ChunkInv' /\ Unmarked' = 0
  <2>1. CASE /\ Finished("full") /\ mutex' = mutex
             /\ writer' = [At("close", 2) EXCEPT !.seen = writer.seen]
    <3>1. /\ writer' \in WriterRecord /\ writer'.pc = "close" /\ writer'.i = 2
          /\ writer'.ptr = 0 /\ writer'.available = 0
          /\ ~writer'.is_part /\ writer'.seen = writer.seen
      <4>1. writer.seen \in Nat
        BY <1>3
      <4>2. writer' = [pc |-> "close", i |-> 2, ptr |-> 0, available |-> 0, is_part |-> FALSE,
                       written |-> 0, seen |-> writer.seen]
        BY <2>1 DEF At
      <4> QED  BY <4>1, <4>2, ClosingRecord
    <3>2. ~full.should_run /\ w = writer.available /\ ~writer.is_part
      BY <2>1 DEF Finished, full
    <3>3. WriterInv'
      BY <1>1, <1>6, <2>1, <3>1, <3>2 DEF WriterInv, Scanning
    <3>4. writer'.seen <= F
      <4>1. writer.seen = (F - w) + writer.available
        BY <1>5, <3>2
      <4>2. w = writer.available /\ writer'.seen = writer.seen
        BY <3>1, <3>2
      <4> HIDE DEF F, w
      <4> QED  BY <1>3, <4>1, <4>2, SMTT(30)
    <3>5. ChunkInv'
      <4>1. Len(file["full"])' = F /\ Size[Current'] \in Nat
        BY <1>2, <3>1, ConstantsAssumption, SMTT(30) DEF Current, Types
      <4> QED  BY <3>1, <3>4, <4>1, SMTT(30) DEF ChunkInv
    <3>6. Unmarked' = 0
      BY <3>1 DEF Unmarked
    <3> QED  BY <1>1, <2>1, <3>1, <3>3, <3>5, <3>6
  <2>2. CASE Onward(buf', writer.is_part)
    BY <1>1, <1>6, <2>2, OnwardFacts
  <2> QED  BY <1>2, <2>1, <2>2
<1>10. RingInv'
  <2>1. full'.head < N /\ full'.count <= N /\ full'.fd # "none"
    <3> HIDE DEF N, w, c
    <3> QED  BY <1>1, <1>3, <1>5, <1>6, SMTT(30)
  <2>2. /\ \A k \in 1 .. Len(accepted["full"])' : accepted'["full"][k] = k
        /\ \A k \in 1 .. Len(file["full"])' : file'["full"][k] = k
        /\ Len(file["full"])' <= Len(accepted["full"])'
    BY <1>2 DEF IInv, RingInv
  <2>3. full'.count = (Len(accepted["full"])' - Len(file["full"])') + Unmarked'
    <3>1. Len(accepted["full"])' = A /\ Len(file["full"])' = F
      BY <1>2
    <3>2. c - w = (A - F) + 0
      <4> HIDE DEF A, F, w, c
      <4> QED  BY <1>3, <1>4, SMTT(30)
    <3>3. Unmarked' = 0 /\ full'.count = c - w
      BY <1>6, <1>9
    <3> HIDE DEF A, F, w, c
    <3> QED  BY <3>1, <3>2, <3>3
  <2>4. \A j \in 1 .. full'.count : cells'["full"][Pos(j)'] = (Len(accepted["full"])' - full'.count) + j
    <3>1. Len(accepted["full"])' = A /\ cells' = cells /\ full'.count = c - w
      BY <1>2, <1>6
    <3>2. \A j : Pos(j)' = (r' + j - 1) % N
      BY DEF Pos
    <3>3. \A j \in 1 .. c - w : cells["full"][(r' + j - 1) % N] = (A - (c - w)) + j
      BY <1>7 DEF Holds
    <3> HIDE DEF N, A, F, w, r, c
    <3> QED  BY <3>1, <3>2, <3>3
  <2> QED  BY <2>1, <2>2, <2>3, <2>4 DEF RingInv
<1>11. Typed'
  BY <1>2, <1>6, <1>9 DEF IInv, Typed, WriterRecord
<1> QED  BY <1>8, <1>9, <1>10, <1>11 DEF IInv

-----------------------------------------------------------------------------
(* The invariant.                                                           *)

(* Nothing is logged at first.                                              *)
LEMMA InitIInv == Init => IInv
<1> SUFFICES ASSUME Init PROVE IInv
  OBVIOUS
<1>1. /\ buf = [b \in Logs |-> [head |-> 0, count |-> 0, fd |-> "none", should_run |-> FALSE,
                                had_write_error |-> FALSE]]
      /\ cells = [b \in Logs |-> [i \in 0 .. Size[b] - 1 |-> 0]]
      /\ mutex = "free" /\ exit = FALSE /\ logger = "ready" /\ writer = At("check", 1)
      /\ accepted = [b \in Logs |-> <<>>] /\ file = [b \in Logs |-> <<>>]
  BY DEF Init
<1>2. /\ buf \in [Logs -> Buffer] /\ full.head = 0 /\ full.count = 0 /\ full.fd = "none"
      /\ ~full.should_run /\ mission.head = 0 /\ mission.count = 0 /\ mission.fd = "none"
      /\ ~mission.should_run
  BY <1>1 DEF Logs, Buffer, full, mission
<1>3. <<>> \in Seq(Nat) /\ Len(<<>>) = 0
  BY SMTT(30)
<1>4. /\ accepted \in [Logs -> Seq(Nat)] /\ file \in [Logs -> Seq(Nat)]
      /\ accepted["full"] = <<>> /\ file["full"] = <<>>
  BY <1>1, <1>3 DEF Logs
<1>5. writer.pc = "check" /\ writer.i = 1 /\ writer.ptr = 0 /\ writer.available = 0 /\ writer \in WriterRecord
  BY <1>1, SMTT(30) DEF At, WriterRecord, Pcs, Scanning
<1>6. DOMAIN cells = Logs /\ cells["full"] \in [0 .. Size["full"] - 1 -> Nat]
  BY <1>1 DEF Logs
<1>7. Typed
  BY <1>1, <1>2, <1>4, <1>5, <1>6 DEF Typed, Loggers, WriterRecord
<1>8. WriterInv /\ LoggerInv
  BY <1>1, <1>2, <1>5 DEF WriterInv, LoggerInv, Scanning
<1>9. RingInv
  BY <1>2, <1>3, <1>4, ConstantsAssumption, SMTT(30) DEF RingInv
<1>10. ChunkInv
  BY <1>5, ConstantsAssumption, SMTT(30) DEF ChunkInv, Current, Types
<1> QED  BY <1>7, <1>8, <1>9, <1>10 DEF IInv

(* Only the full log runs, and takes messages.                              *)
LEMMA StepIInv ==
    ASSUME IInv, [Next]_vars
    PROVE  IInv'
<1>1. CASE UNCHANGED vars
  <2>1. Typed'
    BY <1>1, ZenonT(60) DEF vars, IInv, Typed, mission, full
  <2>2. WriterInv'
    BY <1>1, ZenonT(60) DEF vars, IInv, WriterInv, mission, full, Unmarked, Pos, ReadPtr, IsPart,
                            Current
  <2>3. LoggerInv'
    BY <1>1, ZenonT(60) DEF vars, IInv, LoggerInv, mission, full, Unmarked, Pos, ReadPtr, IsPart,
                            Current
  <2>4. RingInv'
    BY <1>1, ZenonT(60) DEF vars, IInv, RingInv, mission, full, Unmarked, Pos, ReadPtr, IsPart,
                            Current
  <2>5. ChunkInv'
    BY <1>1, ZenonT(60) DEF vars, IInv, ChunkInv, mission, full, Unmarked, Pos, ReadPtr, IsPart,
                            Current
  <2> QED  BY <2>1, <2>2, <2>3, <2>4, <2>5 DEF IInv
<1>2. CASE LoggerCall
  <2>1. ASSUME NEW b \in Logs, NEW n \in MsgSizes, WriteMessage(b, n)
        PROVE  IInv'
    <3>1. b = "full"
      BY <2>1 DEF WriteMessage, IInv, Typed, mission, Logs
    <3> QED  BY <2>1, <3>1, WriteMessageIInv
  <2> QED  BY <1>2, <2>1, StartLogIInv, StopIInv DEF LoggerCall
<1>3. CASE LoggerStep
  BY <1>3, FileClosedIInv, OpenIInv, ClearIInv, RunIInv, NotifyIInv DEF LoggerStep
<1>4. CASE Iterate
  BY <1>4, NotifyIInv
<1>5. CASE Writer
  BY <1>5, WakingIInv, ScanIInv, WriteToFileIInv, MarkReadIInv, WriteFailedIInv, FsyncIInv,
     CloseFileIInv, ResetIInv DEF Writer
<1> QED  BY <1>1, <1>2, <1>3, <1>4, <1>5 DEF Next

(* The invariant is one.                                                    *)
LEMMA Invariance == Spec => []IInv
  BY InitIInv, StepIInv, PTL DEF Spec

(* For any sizes of buffers, chunks and messages, what get_read_ptr() makes *)
(* readable lies inside the buffer, and so does what the writer is reading. *)
THEOREM TypeCorrect == Spec => []TypeOK
<1>1. ASSUME IInv
      PROVE  TypeOK
  <2>1. buf \in [Logs -> Buffer] /\ mutex \in {"free", "writer"} /\ exit \in BOOLEAN
    BY <1>1 DEF IInv, Typed
  <2>2. ASSUME NEW b \in Logs
        PROVE  buf[b].head < Size[b] /\ buf[b].count <= Size[b]
    <3>1. CASE b = "full"
      BY <1>1, <3>1 DEF IInv, RingInv, full
    <3>2. CASE b = "mission"
      BY <1>1, <3>2, ConstantsAssumption, SMTT(30) DEF IInv, Typed, mission
    <3> QED  BY <3>1, <3>2 DEF Logs
  <2>3. ASSUME NEW b \in Logs
        PROVE  ReadPtr(b) \in 0 .. Size[b] - 1 /\ ReadPtr(b) + Readable(b) <= Size[b]
    BY <2>1, <2>2, ReadPtrFacts
  <2>4. writer.ptr + writer.available <= Size[Current]
    BY <1>1 DEF IInv, ChunkInv
  <2> QED  BY <2>1, <2>2, <2>3, <2>4 DEF TypeOK
<1> QED  BY <1>1, Invariance, PTL

(* Sequences of the same length with the same elements are equal.           *)
LEMMA SeqEqual ==
    ASSUME NEW f \in Seq(Nat), NEW g \in Seq(Nat), NEW n, Len(f) = n, Len(g) = n,
           \A i \in 1 .. n : f[i] = g[i]
    PROVE  f = g
  BY SMTT(30)

(* For any sizes of buffers, chunks and messages: while a log runs, its     *)
(* file and its ring buffer together hold every byte that write_message()   *)
(* has accepted, once and in order.                                         *)
THEOREM NoByteLost == Spec => []NothingLost
<1>1. ASSUME IInv
      PROVE  NothingLost
  <2> SUFFICES ASSUME NEW b \in Logs, buf[b].fd = "open", buf[b].should_run
               PROVE  LET read == IF writer.pc = "relock" /\ Current = b THEN writer.written ELSE 0
                      IN accepted[b] = file[b] \o SubSeq(Buffered(b), read + 1, buf[b].count)
    BY DEF NothingLost
  <2> DEFINE A == Len(accepted["full"])
             F == Len(file["full"])
             c == full.count
             u == Unmarked
             ring == Buffered("full")
             rest == SubSeq(ring, u + 1, c)
  <2>1. b = "full" /\ full.fd = "open"
    BY <1>1 DEF IInv, Typed, Logs, mission, full
  <2>2. (IF writer.pc = "relock" /\ Current = b THEN writer.written ELSE 0) = u
    BY <1>1, <2>1, WriterFacts DEF IInv, WriterInv, Unmarked
  <2>3. /\ accepted["full"] \in Seq(Nat) /\ file["full"] \in Seq(Nat) /\ A \in Nat /\ F \in Nat
        /\ c \in Nat /\ u \in Nat
    <3>1. accepted["full"] \in Seq(Nat) /\ file["full"] \in Seq(Nat) /\ A \in Nat /\ F \in Nat
      BY <1>1, SMTT(30) DEF IInv, Typed, Logs
    <3>2. c \in Nat
      BY <1>1 DEF IInv, Typed, Logs, Buffer, full
    <3>3. u \in Nat
      BY <1>1 DEF IInv, Typed, Unmarked
    <3> QED  BY <3>1, <3>2, <3>3
  <2>4. /\ c = (A - F) + u /\ F <= A
        /\ \A i \in 1 .. A : accepted["full"][i] = i
        /\ \A i \in 1 .. F : file["full"][i] = i
        /\ \A j \in 1 .. c : cells["full"][Pos(j)] = (A - c) + j
    BY <1>1, <2>1 DEF IInv, RingInv
  <2>5. ring = [i \in 1 .. c |-> cells["full"][Pos(i)]]
    BY DEF Buffered, Pos, full
  <2>6. \A i \in 1 .. c : ring[i] = (A - c) + i /\ ring[i] \in Nat
    <3>1. ASSUME NEW i \in 1 .. c
          PROVE  cells["full"][Pos(i)] \in Nat
      <4> DEFINE x == ReadPtr("full") + i - 1
      <4>1. cells["full"] \in [0 .. Size["full"] - 1 -> Nat] /\ Size["full"] \in Nat \ {0}
        BY <1>1, ConstantsAssumption DEF IInv, Typed
      <4>2. x \in Int
        <5>1. ReadPtr("full") \in Int
          BY <1>1, <4>1, SMTT(60), SMTT(30) DEF IInv, Typed, Logs, Buffer, ReadPtr
        <5> QED  BY <2>3, <5>1, SMTT(30)
      <4>3. Pos(i) = x % Size["full"]
        BY DEF Pos
      <4> HIDE DEF x
      <4>4. x % Size["full"] \in 0 .. Size["full"] - 1
        BY <4>1, <4>2, SMTT(30)
      <4> QED  BY <4>1, <4>3, <4>4
    <3> HIDE DEF A, F, c, u, ring
    <3> QED  BY <2>4, <2>5, <3>1
  <2>7. ring \in Seq(Nat) /\ Len(ring) = c
    <3> HIDE DEF A, F, c, u, ring
    <3>1. ring \in [1 .. c -> Nat]
      BY <2>5, <2>6
    <3> QED  BY <2>3, <3>1, SMTT(30)
  <2>8. Bytes(rest, F, A - F)
    <3> HIDE DEF A, F, c, u, ring
    <3>1. u + 1 \in 1 .. c + 1 /\ c - u = A - F /\ A - F \in Nat
      BY <2>3, <2>4, SMTT(30)
    <3>2. rest \in Seq(Nat) /\ Len(rest) = A - F
      BY <2>3, <2>7, <3>1, SMTT(30)
    <3>3. ASSUME NEW i \in 1 .. A - F
          PROVE  rest[i] = F + i
      <4>1. u + i \in 1 .. c /\ (A - c) + (u + i) = F + i
        BY <2>3, <2>4, SMTT(30)
      <4>2. ring[u + i] = F + i
        BY <2>6, <4>1
      <4>3. rest[i] = ring[u + i]
        BY <2>3, <2>7, <3>1, SMTT(30)
      <4> QED  BY <4>2, <4>3
    <3> QED  BY <3>2, <3>3 DEF Bytes
  <2>9. Bytes(file["full"], 0, F)
    BY <2>3, <2>4, SMTT(30) DEF Bytes
  <2> HIDE DEF A, F, c, u, ring, rest
  <2>10. Bytes(file["full"] \o rest, 0, F + (A - F)) /\ F + (A - F) = A
    BY <2>3, <2>4, <2>8, <2>9, SeqMore, SMTT(30)
  <2>11. /\ file["full"] \o rest \in Seq(Nat) /\ Len(file["full"] \o rest) = A
         /\ \A i \in 1 .. A : (file["full"] \o rest)[i] = i
    BY <2>3, <2>10, SMTT(30) DEF Bytes
  <2>12. accepted["full"] = file["full"] \o rest
    <3>1. Len(accepted["full"]) = A
      BY DEF A
    <3>2. \A i \in 1 .. A : accepted["full"][i] = (file["full"] \o rest)[i]
      BY <2>4, <2>11
    <3> QED  BY <2>3, <2>11, <3>1, <3>2, SeqEqual
  <2> QED  BY <2>1, <2>2, <2>12 DEF rest, ring, c, full
<1> QED  BY <1>1, Invariance, PTL

(* For any sizes of buffers, chunks and messages: when the file of a        *)
(* stopped log is closed without a write error, it has, in order, all that  *)
(* the log had accepted before the writer's last look at the buffer.        *)
THEOREM StopKeepsData == Spec => []StopKeepsScanned
<1>1. ASSUME IInv
      PROVE  StopKeepsScanned
  <2> SUFFICES ASSUME NEW b \in Logs, writer.pc = "reset", Current = b, buf[b].fd = "closed",
                      ~buf[b].had_write_error
               PROVE  /\ Len(file[b]) >= writer.seen
                      /\ file[b] = SubSeq(accepted[b], 1, Len(file[b]))
    BY DEF StopKeepsScanned
  <2>1. b = "full" /\ writer.i = 2
    BY <1>1, WriterFacts, SMTT(30) DEF IInv, Typed, Logs, mission, WriterRecord
  <2>2. writer.seen <= Len(file["full"]) /\ writer.seen \in Nat
    BY <1>1, <2>1 DEF IInv, ChunkInv, Typed, full
  <2>3. accepted["full"] \in Seq(Nat) /\ file["full"] \in Seq(Nat)
    BY <1>1 DEF IInv, Typed, Logs
  <2>4. /\ Len(file["full"]) <= Len(accepted["full"])
        /\ \A i \in 1 .. Len(accepted["full"]) : accepted["full"][i] = i
        /\ \A i \in 1 .. Len(file["full"]) : file["full"][i] = i
    BY <1>1 DEF IInv, RingInv
  <2>5. file["full"] = SubSeq(accepted["full"], 1, Len(file["full"]))
    BY <2>3, <2>4, SMTT(30)
  <2> QED  BY <2>1, <2>2, <2>3, <2>5
<1> QED  BY <1>1, Invariance, PTL
=============================================================================
