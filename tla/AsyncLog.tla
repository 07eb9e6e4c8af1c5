------------------------------ MODULE AsyncLog ------------------------------
(***************************************************************************)
(* internal/platform/logging: the asynchronous slog handler, its writer    *)
(* goroutine and the shutdown of the logging runtime, which stops the      *)
(* handler and then closes the log file.                                   *)
(*                                                                         *)
(* Goroutines log records into a bounded channel; what does not fit is     *)
(* counted, and written at once if it is an error.  The mutex guards       *)
(* closed, dropped and the send.  The slog handler below, external here,   *)
(* writes one record at a time.                                            *)
(***************************************************************************)
EXTENDS Integers, Sequences, FiniteSets

CONSTANTS Loggers,   \* goroutines that log
          Levels,    \* Levels[l]: the levels of the records l logs, in order
          QueueSize

Nobody == "nobody"
None == {}

ASSUME AsyncLogAssumption ==
    /\ Nobody \notin Loggers
    /\ \A l \in Loggers : Levels[l] \in Seq({"info", "error"})
    /\ QueueSize \in Nat \ {0}

Records == UNION {{[by |-> l, n |-> n, level |-> Levels[l][n]] : n \in 1..Len(Levels[l])} :
                    l \in Loggers}

VARIABLES mu,       \* who holds the mutex: a logger or Nobody
          closed,   \* state.closed, and the queue is closed
          queue,    \* the channel
          dropped,  \* state.dropped
          logger,   \* per logger: [pc, n], n being its current record
          writer,   \* where asyncState.run is
          hand,     \* the entry the writer works on, as a set of at most one
          taken,    \* the drop count flushDropped has read and not yet reported
          done,     \* the done channel is closed
          shutdown, \* Runtime.Shutdown: "no", "waiting", then "ok" or "timeout"
          file,     \* records in the log file
          late,     \* records written after the file was closed
          reported, \* sum of the dropped_count values written, to the file or late
          refused,  \* history: records that found the queue full
          panicked  \* a send on the closed channel

vars == <<mu, closed, queue, dropped, logger, writer, hand, taken, done, shutdown,
          file, late, reported, refused, panicked>>

Init ==
    /\ mu = Nobody /\ closed = FALSE
    /\ queue = <<>> /\ dropped = 0
    /\ logger = [l \in Loggers |-> [pc |-> "idle", n |-> 0]]
    /\ writer = "receive" /\ hand = None /\ taken = 0 /\ done = FALSE
    /\ shutdown = "no"
    /\ file = {} /\ late = {} /\ reported = 0
    /\ refused = {} /\ panicked = FALSE

Current(l) == [by |-> l, n |-> logger[l].n, level |-> Levels[l][logger[l].n]]

FileOpen == shutdown \in {"no", "waiting"}

\* handler.Handle.
WriteRecords(records) ==
    IF FileOpen THEN file' = file \cup records /\ UNCHANGED late
                ELSE late' = late \cup records /\ UNCHANGED file

-----------------------------------------------------------------------------
(* asyncHandler.Handle *)

loggerOnly == UNCHANGED <<writer, hand, taken, done, shutdown, reported>>

\* Fault: closed is read before the mutex is taken.
BeginHandleUnlocked(l) ==
    /\ logger[l].pc = "idle" /\ logger[l].n < Len(Levels[l])
    /\ logger' = [logger EXCEPT ![l] = [pc |-> IF closed THEN "direct" ELSE "send", n |-> @.n + 1]]
    /\ UNCHANGED <<mu, closed, queue, dropped, file, late, refused, panicked>> /\ loggerOnly

\* Lock and look at closed; unlock if it is set.
BeginHandle(l) ==
    /\ logger[l].pc = "idle" /\ logger[l].n < Len(Levels[l])
    /\ mu = Nobody
    /\ mu' = IF closed THEN Nobody ELSE l
    /\ logger' = [logger EXCEPT ![l] = [pc |-> IF closed THEN "direct" ELSE "send", n |-> @.n + 1]]
    /\ UNCHANGED <<closed, queue, dropped, file, late, refused, panicked>> /\ loggerOnly

\* The level that is written when the queue is full.
Urgent(record) == record.level = "error"

\* The select with its default, and unlock.
SendOrDrop(l) ==
    /\ logger[l].pc = "send"
    /\ mu' = Nobody
    /\ panicked' = closed
    /\ \/ /\ Len(queue) < QueueSize
          /\ queue' = Append(queue, Current(l))
          /\ logger' = [logger EXCEPT ![l].pc = "idle"]
          /\ UNCHANGED <<dropped, refused>>
       \/ /\ Len(queue) >= QueueSize
          /\ dropped' = dropped + 1
          /\ refused' = refused \cup {Current(l)}
          /\ logger' = [logger EXCEPT ![l].pc = IF Urgent(Current(l)) THEN "direct" ELSE "idle"]
          /\ UNCHANGED queue
    /\ UNCHANGED <<closed, file, late>> /\ loggerOnly

\* The record is written by the goroutine that logs it.
WriteDirect(l) ==
    /\ logger[l].pc = "direct"
    /\ WriteRecords({Current(l)})
    /\ logger' = [logger EXCEPT ![l].pc = "idle"]
    /\ UNCHANGED <<mu, closed, queue, dropped, refused, panicked>> /\ loggerOnly

-----------------------------------------------------------------------------
(* asyncState.run *)

writerOnly == UNCHANGED <<mu, closed, logger, shutdown, refused, panicked>>

\* Fault: the writer leaves as soon as it finds the handler closed.
TakeEntryUnlessClosed ==
    /\ writer = "receive"
    /\ \/ /\ queue # <<>> /\ ~closed
          /\ hand' = {Head(queue)}
          /\ queue' = Tail(queue)
          /\ writer' = "flush"
       \/ /\ closed
          /\ writer' = "flush"
          /\ UNCHANGED <<hand, queue>>
    /\ UNCHANGED <<dropped, taken, done, file, late, reported>> /\ writerOnly

\* The range over the queue: an entry, or the end of the closed channel.
TakeEntry ==
    /\ writer = "receive"
    /\ \/ /\ queue # <<>>
          /\ hand' = {Head(queue)}
          /\ queue' = Tail(queue)
          /\ writer' = "flush"
       \/ /\ queue = <<>> /\ closed
          /\ writer' = "flush"
          /\ UNCHANGED <<hand, queue>>
    /\ UNCHANGED <<dropped, taken, done, file, late, reported>> /\ writerOnly

\* flushDropped up to its unlock.
ReadDropped ==
    /\ writer = "flush" /\ mu = Nobody
    /\ taken' = dropped
    /\ dropped' = 0
    /\ writer' = "report"
    /\ UNCHANGED <<queue, hand, done, file, late, reported>> /\ writerOnly

\* Fault: the counter is reset when the warning is out.
ReportDroppedThenReset ==
    /\ writer = "report"
    /\ reported' = reported + taken
    /\ taken' = 0 /\ dropped' = 0
    /\ writer' = "write"
    /\ UNCHANGED <<queue, hand, done, file, late>> /\ writerOnly

\* The warning with dropped_count.
ReportDropped ==
    /\ writer = "report"
    /\ reported' = reported + taken
    /\ taken' = 0
    /\ writer' = "write"
    /\ UNCHANGED <<queue, dropped, hand, done, file, late>> /\ writerOnly

\* Handle the entry; after the last one close(done).
WriteEntry ==
    /\ writer = "write"
    /\ WriteRecords(hand)
    /\ hand' = None
    /\ writer' = IF hand = None THEN "gone" ELSE "receive"
    /\ done' = (hand = None)
    /\ UNCHANGED <<queue, dropped, taken, reported>> /\ writerOnly

-----------------------------------------------------------------------------
(* Runtime.Shutdown *)

shutdownOnly == UNCHANGED <<mu, queue, dropped, logger, writer, hand, taken, done, file, late,
                            reported, refused, panicked>>

CloseQueue ==
    /\ shutdown = "no" /\ mu = Nobody
    /\ closed' = TRUE
    /\ shutdown' = "waiting"
    /\ shutdownOnly

\* Fault: Shutdown only closes the queue.
AwaitNothing ==
    /\ shutdown = "waiting"
    /\ shutdown' = "ok"
    /\ UNCHANGED closed /\ shutdownOnly

\* The writer is done or the flush timeout is over; then the file is closed.
AwaitDone ==
    /\ shutdown = "waiting"
    /\ \/ done /\ shutdown' = "ok"
       \/ shutdown' = "timeout"
    /\ UNCHANGED closed /\ shutdownOnly

-----------------------------------------------------------------------------
Writer == TakeEntry \/ ReadDropped \/ ReportDropped \/ WriteEntry
Logger(l) == BeginHandle(l) \/ SendOrDrop(l) \/ WriteDirect(l)

Next == (\E l \in Loggers : Logger(l)) \/ Writer \/ CloseQueue \/ AwaitDone

\* A goroutine inside Handle, the writer and the shutdown under way go on, and
\* the mutex does not starve the writer; nobody has to log or to
\* shut down.
Spec ==
    /\ Init /\ [][Next]_vars
    /\ \A l \in Loggers : WF_vars(SendOrDrop(l) \/ WriteDirect(l))
    /\ SF_vars(Writer)
    /\ WF_vars(AwaitDone)

-----------------------------------------------------------------------------
(* Properties *)

\* Every variable keeps its type, and the mutex is held only by a logger about
\* to send.
TypeOK ==
    /\ mu \in Loggers \cup {Nobody}
    /\ \A l \in Loggers : mu = l <=> logger[l].pc = "send"
    /\ closed \in BOOLEAN /\ done \in BOOLEAN /\ panicked \in BOOLEAN
    /\ queue \in Seq(Records) /\ Len(queue) <= QueueSize
    /\ dropped \in Nat /\ taken \in Nat /\ reported \in Nat
    /\ logger \in [Loggers -> [pc : {"idle", "send", "direct"}, n : Nat]]
    /\ \A l \in Loggers : logger[l].n <= Len(Levels[l])
    /\ writer \in {"receive", "flush", "report", "write", "gone"}
    /\ hand \subseteq Records /\ Cardinality(hand) <= 1
    /\ shutdown \in {"no", "waiting", "ok", "timeout"}
    /\ UNION {file, late, refused} \subseteq Records

\* A record logged while the runtime shuts down is never sent on the closed
\* channel, which would panic.
NoSendOnClosed == ~panicked

Queued == {queue[i] : i \in 1..Len(queue)}
Handled == {r \in Records : /\ r.n <= logger[r.by].n
                            /\ ~(r.n = logger[r.by].n /\ logger[r.by].pc # "idle")}

\* No record is lost in silence: once Handle has returned, the record is on
\* its way or written, or it was below error level and found the queue full;
\* and every record that found it full is in exactly one drop count, reported
\* or still to be reported.
NothingLostInSilence ==
    /\ \A r \in Handled : \/ r \in Queued \cup hand \cup file \cup late
                          \/ r \in refused /\ r.level # "error"
    /\ Cardinality(refused) = dropped + taken + reported

\* When Shutdown returns nil, every record that was queued is in the file and
\* every drop is reported: only records logged directly can come too late.
ShutdownFlushes ==
    shutdown = "ok" => queue = <<>> /\ hand = None /\ dropped + taken = 0

\* What is in the queue is written at some time, shutdown or not.
QueueDrains == \A r \in Records : r \in Queued ~> r \in file \cup late
=============================================================================
