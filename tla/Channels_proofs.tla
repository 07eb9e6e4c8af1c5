---------------------------- MODULE Channels_proofs ----------------------------
(***************************************************************************)
(* Proofs about the two components that are goroutines around a channel:   *)
(* AsyncLog, for any goroutines, records and queue size, and Backfill, for *)
(* any number of files and workers.                                        *)
(***************************************************************************)
EXTENDS AsyncLog, TLAPS, SequenceTheorems, FiniteSetTheorems

-----------------------------------------------------------------------------
(* Types and the mutex *)

\* The mutex is never held over a closed queue: it is taken for a send only
\* when closed is not set, and closed is set only when nobody holds it.
MutexInv ==
    /\ TypeOK
    /\ \A l \in Loggers : logger[l].pc # "idle" => logger[l].n >= 1
    /\ mu # Nobody => ~closed
    /\ ~panicked

\* A record is named by its goroutine and its number.
LEMMA RecordType ==
    ASSUME NEW r \in Records
    PROVE  /\ r.by \in Loggers /\ r.n \in 1..Len(Levels[r.by])
           /\ r = [by |-> r.by, n |-> r.n, level |-> Levels[r.by][r.n]]
BY DEF Records

\* What a goroutine inside Handle logs is a record.
LEMMA CurrentType ==
    ASSUME MutexInv, NEW l \in Loggers, logger[l].pc # "idle"
    PROVE  /\ Current(l) \in Records
           /\ Current(l).by = l /\ Current(l).n = logger[l].n
<1>1. logger[l].n \in 1..Len(Levels[l])
  BY AsyncLogAssumption DEF MutexInv, TypeOK
<1> QED
  BY <1>1 DEF Current, Records

\* Writing records keeps the files typed.
LEMMA WriteType ==
    ASSUME TypeOK, NEW R \in SUBSET Records, WriteRecords(R), UNCHANGED refused
    PROVE  UNION {file', late', refused'} \subseteq Records
BY DEF TypeOK, WriteRecords

\* A record that is refused is a record.
LEMMA RefusedType ==
    ASSUME TypeOK, NEW R \in SUBSET Records, refused' \subseteq refused \cup R,
           UNCHANGED <<file, late>>
    PROVE  UNION {file', late', refused'} \subseteq Records
BY DEF TypeOK

\* MutexInv holds initially.
LEMMA MutexInit == Init => MutexInv
<1> SUFFICES ASSUME Init PROVE MutexInv
  OBVIOUS
<1>1. <<>> \in Seq(Records) /\ Len(<<>>) = 0
  OBVIOUS
<1>2. queue \in Seq(Records) /\ Len(queue) <= QueueSize
  BY <1>1, AsyncLogAssumption DEF Init
<1>3. hand \subseteq Records /\ Cardinality(hand) <= 1
  BY FS_EmptySet DEF Init, None
<1>4. /\ logger \in [Loggers -> [pc : {"idle", "send", "direct"}, n : Nat]]
      /\ \A l \in Loggers : logger[l].pc = "idle" /\ logger[l].n = 0
  BY DEF Init
<1>5. \A l \in Loggers : logger[l].n <= Len(Levels[l])
  BY <1>4, AsyncLogAssumption
<1>6. mu = Nobody /\ \A l \in Loggers : mu # l
  BY AsyncLogAssumption DEF Init
<1>7. /\ closed = FALSE /\ done = FALSE /\ panicked = FALSE
      /\ UNION {file, late, refused} \subseteq Records
      /\ writer = "receive" /\ shutdown = "no"
  BY DEF Init
<1>8. dropped \in Nat /\ taken \in Nat /\ reported \in Nat
  BY DEF Init
<1>9. TypeOK
  BY <1>2, <1>3, <1>4, <1>5, <1>6, <1>7, <1>8 DEF TypeOK
<1> QED
  BY <1>4, <1>6, <1>7, <1>9 DEF MutexInv

\* Every step keeps MutexInv.
LEMMA MutexStep == MutexInv /\ [Next]_vars => MutexInv'
<1> SUFFICES ASSUME MutexInv, [Next]_vars PROVE MutexInv'
  OBVIOUS
<1>0. TypeOK
  BY DEF MutexInv
<1>1. ASSUME NEW l \in Loggers, BeginHandle(l) PROVE MutexInv'
  <2>1. logger[l].n \in Nat /\ logger[l].n < Len(Levels[l]) /\ Len(Levels[l]) \in Nat
    BY <1>0, <1>1, AsyncLogAssumption DEF BeginHandle, TypeOK
  <2>2. logger' = [logger EXCEPT ![l] = [pc |-> IF closed THEN "direct" ELSE "send",
                                         n |-> logger[l].n + 1]]
    BY <1>1 DEF BeginHandle
  <2>3. logger' \in [Loggers -> [pc : {"idle", "send", "direct"}, n : Nat]]
    BY <1>0, <2>1, <2>2 DEF TypeOK
  <2>4. \A k \in Loggers : /\ logger'[k].n <= Len(Levels[k])
                           /\ logger'[k].pc # "idle" => logger'[k].n >= 1
    BY <1>0, <2>1, <2>2 DEF TypeOK, MutexInv
  <2>5. CASE closed
    <3>1. mu' = Nobody /\ mu = Nobody /\ logger'[l].pc = "direct"
      BY <1>0, <1>1, <2>2, <2>5 DEF BeginHandle, TypeOK
    <3>2. \A k \in Loggers : mu' = k <=> logger'[k].pc = "send"
      BY <1>0, <2>2, <3>1, AsyncLogAssumption DEF TypeOK
    <3> QED
      BY <1>0, <1>1, <2>3, <2>4, <3>1, <3>2 DEF BeginHandle, loggerOnly, TypeOK, MutexInv
  <2>6. CASE ~closed
    <3>1. mu' = l /\ mu = Nobody /\ logger'[l].pc = "send"
      BY <1>0, <1>1, <2>2, <2>6 DEF BeginHandle, TypeOK
    <3>2. \A k \in Loggers : mu' = k <=> logger'[k].pc = "send"
      BY <1>0, <2>2, <3>1, AsyncLogAssumption DEF TypeOK
    <3> QED
      BY <1>0, <1>1, <2>3, <2>4, <2>6, <3>1, <3>2 DEF BeginHandle, loggerOnly, TypeOK, MutexInv
  <2> QED
    BY <2>5, <2>6
<1>2. ASSUME NEW l \in Loggers, SendOrDrop(l) PROVE MutexInv'
  <2>1. mu = l /\ mu' = Nobody /\ ~closed /\ logger[l].pc = "send"
    BY <1>0, <1>2, AsyncLogAssumption DEF SendOrDrop, TypeOK, MutexInv
  <2>2. Current(l) \in Records
    BY <1>2, <2>1, CurrentType
  <2>3. PICK p \in {"idle", "direct"} : logger' = [logger EXCEPT ![l].pc = p]
    BY <1>2 DEF SendOrDrop
  <2>4. /\ logger' \in [Loggers -> [pc : {"idle", "send", "direct"}, n : Nat]]
        /\ \A k \in Loggers : /\ logger'[k].n = logger[k].n
                              /\ k # l => logger'[k] = logger[k]
        /\ logger'[l].pc # "send"
    BY <1>0, <2>3 DEF TypeOK
  <2>5. \A k \in Loggers : /\ mu' = k <=> logger'[k].pc = "send"
                           /\ logger'[k].n <= Len(Levels[k])
                           /\ logger'[k].pc # "idle" => logger'[k].n >= 1
    BY <1>0, <2>1, <2>4, AsyncLogAssumption DEF TypeOK, MutexInv
  <2>6. queue' \in Seq(Records) /\ Len(queue') <= QueueSize
    <3>1. CASE queue' = Append(queue, Current(l)) /\ Len(queue) < QueueSize
      <4>1. queue' \in Seq(Records) /\ Len(queue') = Len(queue) + 1 /\ Len(queue) \in Nat
        BY <1>0, <2>2, <3>1, AppendProperties DEF TypeOK
      <4> QED
        BY <3>1, <4>1, AsyncLogAssumption
    <3>2. CASE UNCHANGED queue
      BY <1>0, <3>2 DEF TypeOK
    <3> QED
      BY <1>2, <3>1, <3>2 DEF SendOrDrop
  <2>7. dropped' \in Nat
    BY <1>0, <1>2 DEF SendOrDrop, TypeOK
  <2>8. refused' \subseteq refused \cup {Current(l)} /\ UNCHANGED <<file, late>>
    BY <1>2 DEF SendOrDrop
  <2>9. UNION {file', late', refused'} \subseteq Records
    BY <1>0, <2>2, <2>8, RefusedType
  <2>10. panicked' = FALSE /\ UNCHANGED <<closed, file, late, writer, hand, taken, done, shutdown, reported>>
    BY <1>2, <2>1 DEF SendOrDrop, loggerOnly, TypeOK
  <2>11. TypeOK'
    BY <1>0, <2>1, <2>4, <2>5, <2>6, <2>7, <2>9, <2>10 DEF TypeOK
  <2> QED
    BY <2>1, <2>5, <2>10, <2>11 DEF MutexInv
<1>3. ASSUME NEW l \in Loggers, WriteDirect(l) PROVE MutexInv'
  <2>1. logger[l].pc = "direct" /\ logger' = [logger EXCEPT ![l].pc = "idle"]
    BY <1>3 DEF WriteDirect
  <2>2. {Current(l)} \subseteq Records
    BY <2>1, CurrentType
  <2>3. UNION {file', late', refused'} \subseteq Records
    BY <1>0, <1>3, <2>2, WriteType DEF WriteDirect
  <2>4. /\ logger' \in [Loggers -> [pc : {"idle", "send", "direct"}, n : Nat]]
        /\ \A k \in Loggers : /\ logger'[k].n = logger[k].n
                              /\ k # l => logger'[k] = logger[k]
        /\ logger'[l].pc = "idle"
    BY <1>0, <2>1 DEF TypeOK
  <2>5. UNCHANGED <<mu, closed, queue, dropped, panicked, writer, hand, taken, done, shutdown, reported>>
    BY <1>3 DEF WriteDirect, loggerOnly
  <2>6. TypeOK'
    BY <1>0, <2>1, <2>3, <2>4, <2>5 DEF TypeOK
  <2> QED
    BY <2>1, <2>4, <2>5, <2>6 DEF MutexInv
<1>4. CASE TakeEntry
  <2>1. /\ queue' \in Seq(Records) /\ Len(queue') <= QueueSize
        /\ hand' \subseteq Records /\ Cardinality(hand') <= 1
    <3>1. CASE queue # <<>> /\ hand' = {Head(queue)} /\ queue' = Tail(queue)
      <4>1. Head(queue) \in Records /\ queue' \in Seq(Records) /\ Len(queue') = Len(queue) - 1
        BY <1>0, <3>1, HeadTailProperties DEF TypeOK
      <4>2. Len(queue) \in Nat /\ Len(queue) <= QueueSize
        BY <1>0 DEF TypeOK
      <4>3. Cardinality(hand') = 1
        BY <3>1, FS_Singleton
      <4> QED
        BY <3>1, <4>1, <4>2, <4>3, AsyncLogAssumption
    <3>2. CASE UNCHANGED <<hand, queue>>
      BY <1>0, <3>2 DEF TypeOK
    <3> QED
      BY <1>4, <3>1, <3>2 DEF TakeEntry
  <2>2. writer' = "flush" /\ UNCHANGED <<mu, closed, logger, shutdown, refused, panicked,
                                         dropped, taken, done, file, late, reported>>
    BY <1>4 DEF TakeEntry, writerOnly
  <2> QED
    BY <1>0, <2>1, <2>2 DEF TypeOK, MutexInv
<1>5. CASE ReadDropped
  BY <1>0, <1>5 DEF ReadDropped, writerOnly, TypeOK, MutexInv
<1>6. CASE ReportDropped
  BY <1>0, <1>6 DEF ReportDropped, writerOnly, TypeOK, MutexInv
<1>7. CASE WriteEntry
  <2>1. UNION {file', late', refused'} \subseteq Records
    BY <1>0, <1>7, WriteType DEF WriteEntry, writerOnly, TypeOK
  <2>2. hand' \subseteq Records /\ Cardinality(hand') <= 1
    BY <1>7, FS_EmptySet DEF WriteEntry, None
  <2>3. writer' \in {"gone", "receive"} /\ done' \in BOOLEAN
    BY <1>7 DEF WriteEntry
  <2>4. UNCHANGED <<mu, closed, logger, shutdown, refused, panicked, queue, dropped, taken, reported>>
    BY <1>7 DEF WriteEntry, writerOnly
  <2> QED
    BY <1>0, <2>1, <2>2, <2>3, <2>4 DEF TypeOK, MutexInv
<1>8. CASE CloseQueue
  BY <1>0, <1>8 DEF CloseQueue, shutdownOnly, TypeOK, MutexInv
<1>9. CASE AwaitDone
  BY <1>0, <1>9 DEF AwaitDone, shutdownOnly, TypeOK, MutexInv
<1>10. CASE UNCHANGED vars
  BY <1>0, <1>10 DEF vars, TypeOK, MutexInv
<1> QED
  BY <1>1, <1>2, <1>3, <1>4, <1>5, <1>6, <1>7, <1>8, <1>9, <1>10 DEF Next, Logger, Writer

\* The log keeps its types and its mutex discipline, whoever logs.
THEOREM TypeCorrect == Spec => []TypeOK
<1>1. MutexInv => TypeOK
  BY DEF MutexInv
<1> QED
  BY <1>1, MutexInit, MutexStep, PTL DEF Spec

\* No goroutine sends on the closed queue, however many log while the runtime
\* shuts down.
THEOREM NoSendOnClosedCorrect == Spec => []NoSendOnClosed
<1>1. MutexInv => NoSendOnClosed
  BY DEF MutexInv, NoSendOnClosed
<1> QED
  BY <1>1, MutexInit, MutexStep, PTL DEF Spec

-----------------------------------------------------------------------------
(* Shutdown *)

\* How far the writer is with the entry in its hand; without one it is past
\* the end of the closed queue, whose drops it reports before it goes.
WriterInv ==
    /\ writer = "receive" => hand = None
    /\ writer # "report" => taken = 0
    /\ writer \in {"flush", "report", "write", "gone"} /\ hand = None => closed /\ queue = <<>>
    /\ writer \in {"report", "write", "gone"} /\ hand = None => dropped = 0
    /\ done => writer = "gone" /\ hand = None
    /\ shutdown = "ok" => done
    /\ closed => shutdown # "no"

\* Every step keeps WriterInv.
LEMMA WriterStep == MutexInv /\ WriterInv /\ [Next]_vars => WriterInv'
<1> SUFFICES ASSUME MutexInv, WriterInv, [Next]_vars PROVE WriterInv'
  OBVIOUS
<1>1. ASSUME NEW l \in Loggers, BeginHandle(l) \/ WriteDirect(l) PROVE WriterInv'
  BY <1>1 DEF BeginHandle, WriteDirect, loggerOnly, WriterInv
<1>2. ASSUME NEW l \in Loggers, SendOrDrop(l) PROVE WriterInv'
  <2>1. ~closed
    BY <1>2, AsyncLogAssumption DEF SendOrDrop, MutexInv, TypeOK
  <2>2. UNCHANGED <<closed, writer, hand, taken, done, shutdown>>
    BY <1>2 DEF SendOrDrop, loggerOnly
  <2> QED
    BY <2>1, <2>2 DEF WriterInv
<1>3. CASE TakeEntry
  <2>1. UNCHANGED <<closed, dropped, taken, done, shutdown>> /\ writer = "receive" /\ writer' = "flush"
    BY <1>3 DEF TakeEntry, writerOnly
  <2>2. hand' = None => closed /\ queue' = <<>>
    BY <1>3 DEF TakeEntry, None
  <2> QED
    BY <2>1, <2>2 DEF WriterInv
<1>4. CASE ReadDropped
  BY <1>4 DEF ReadDropped, writerOnly, WriterInv
<1>5. CASE ReportDropped
  BY <1>5 DEF ReportDropped, writerOnly, WriterInv
<1>6. CASE WriteEntry
  BY <1>6 DEF WriteEntry, writerOnly, WriterInv
<1>7. CASE CloseQueue
  BY <1>7 DEF CloseQueue, shutdownOnly, WriterInv
<1>8. CASE AwaitDone
  BY <1>8 DEF AwaitDone, shutdownOnly, WriterInv
<1>9. CASE UNCHANGED vars
  BY <1>9 DEF vars, WriterInv
<1> QED
  BY <1>1, <1>2, <1>3, <1>4, <1>5, <1>6, <1>7, <1>8, <1>9 DEF Next, Logger, Writer

\* Shutdown returns nil only with the queue drained and every drop reported,
\* however many goroutines log during it.
THEOREM ShutdownFlushesCorrect == Spec => []ShutdownFlushes
<1>1. Init => WriterInv
  BY DEF Init, WriterInv, None
<1>2. WriterInv => ShutdownFlushes
  BY DEF WriterInv, ShutdownFlushes
<1> QED
  BY <1>1, <1>2, MutexInit, MutexStep, WriterStep, PTL DEF Spec

-----------------------------------------------------------------------------
(* Losses *)

\* Nothing is counted twice: a record is refused once, for it is refused
\* before its Handle goes on.
LossInv ==
    /\ NothingLostInSilence
    /\ IsFiniteSet(refused)
    /\ \A r \in refused : /\ r.n <= logger[r.by].n
                          /\ r.n = logger[r.by].n => logger[r.by].pc # "send"

Covered(r) == r \in Queued \cup hand \cup file \cup late \/ (r \in refused /\ r.level # "error")

\* What the loggers have handled, and how much was refused, in one formula.
LEMMA LossParts ==
    NothingLostInSilence <=> /\ \A r \in Handled : Covered(r)
                             /\ Cardinality(refused) = dropped + taken + reported
BY DEF NothingLostInSilence, Covered

\* A step in which no Handle makes progress and nothing leaves the queue, the
\* hand and the files.
LEMMA LossKept ==
    ASSUME MutexInv, LossInv, UNCHANGED <<logger, refused>>,
           dropped' + taken' + reported' = dropped + taken + reported,
           Queued \cup hand \cup file \cup late \subseteq Queued' \cup hand' \cup file' \cup late'
    PROVE  LossInv'
<1>1. Handled' = Handled
  BY DEF Handled
<1>2. \A r \in Handled' : Covered(r)'
  BY <1>1, LossParts DEF LossInv, Covered
<1>3. Cardinality(refused)' = dropped' + taken' + reported'
  BY LossParts DEF LossInv
<1>4. NothingLostInSilence'
  BY <1>2, <1>3 DEF NothingLostInSilence, Covered
<1> QED
  BY <1>4 DEF LossInv

\* What is appended to the queue is in it, with all that was in it before.
LEMMA QueuedAppend ==
    ASSUME TypeOK, NEW r \in Records, queue' = Append(queue, r)
    PROVE  Queued' = Queued \cup {r}
<1>1. /\ Len(queue') = Len(queue) + 1 /\ Len(queue) \in Nat
      /\ \A i \in 1..Len(queue) : queue'[i] = queue[i]
      /\ queue'[Len(queue) + 1] = r
  BY AppendProperties DEF TypeOK
<1>2. Queued' \subseteq Queued \cup {r}
  <2> SUFFICES ASSUME NEW i \in 1..Len(queue') PROVE queue'[i] \in Queued \cup {r}
    BY DEF Queued
  <2>1. CASE i \in 1..Len(queue)
    BY <1>1, <2>1 DEF Queued
  <2>2. CASE i = Len(queue) + 1
    BY <1>1, <2>2
  <2> QED
    BY <1>1, <2>1, <2>2
<1>3. Queued \cup {r} \subseteq Queued'
  BY <1>1 DEF Queued
<1> QED
  BY <1>2, <1>3

\* What is taken off the queue was its head.
LEMMA QueuedTail ==
    ASSUME TypeOK, queue # <<>>, queue' = Tail(queue)
    PROVE  Queued \subseteq Queued' \cup {Head(queue)}
<1>1. /\ Head(queue) = queue[1] /\ Len(queue') = Len(queue) - 1 /\ Len(queue) \in Nat
      /\ \A i \in 1..Len(queue') : queue'[i] = queue[i + 1]
  BY DEF TypeOK
<1> SUFFICES ASSUME NEW i \in 1..Len(queue) PROVE queue[i] \in Queued' \cup {Head(queue)}
  BY DEF Queued
<1>2. CASE i = 1
  BY <1>1, <1>2
<1>3. CASE i # 1
  <2>1. i - 1 \in 1..Len(queue') /\ (i - 1) + 1 = i
    BY <1>1, <1>3
  <2> QED
    BY <1>1, <2>1 DEF Queued
<1> QED
  BY <1>2, <1>3

\* A step in which one Handle moves on: only its record can be newly handled.
LEMMA HandledBy ==
    ASSUME MutexInv, NEW l \in Loggers, logger[l].pc # "idle",
           NEW p \in {"idle", "direct"}, logger' = [logger EXCEPT ![l].pc = p]
    PROVE  Handled' \subseteq Handled \cup IF p = "idle" THEN {Current(l)} ELSE {}
<1>1. \A k \in Loggers : /\ logger'[k].n = logger[k].n
                         /\ logger'[k].pc = IF k = l THEN p ELSE logger[k].pc
  BY DEF MutexInv, TypeOK
<1> SUFFICES ASSUME NEW r \in Records, r.n <= logger'[r.by].n,
                    ~(r.n = logger'[r.by].n /\ logger'[r.by].pc # "idle"),
                    r \notin Handled
             PROVE  p = "idle" /\ r = Current(l)
  BY DEF Handled
<1>2. r.by \in Loggers
  BY RecordType
<1>3. r.n = logger[r.by].n /\ logger[r.by].pc # "idle"
  BY <1>1, <1>2 DEF Handled
<1>4. r.by = l /\ p = "idle"
  BY <1>1, <1>2, <1>3
<1>5. r = [by |-> l, n |-> logger[l].n, level |-> Levels[l][logger[l].n]]
  BY <1>3, <1>4, RecordType
<1> QED
  BY <1>4, <1>5 DEF Current

\* Every step keeps LossInv.
LEMMA LossStep == MutexInv /\ WriterInv /\ LossInv /\ [Next]_vars => LossInv'
<1> SUFFICES ASSUME MutexInv, WriterInv, LossInv, [Next]_vars PROVE LossInv'
  OBVIOUS
<1>0. TypeOK
  BY DEF MutexInv
<1>1. /\ \A r \in Handled : Covered(r)
      /\ Cardinality(refused) = dropped + taken + reported
      /\ refused \subseteq Records
  BY <1>0, LossParts DEF LossInv, TypeOK
<1>2. ASSUME NEW l \in Loggers, BeginHandle(l) PROVE LossInv'
  <2>1. PICK p \in {"send", "direct"} :
             logger' = [logger EXCEPT ![l] = [pc |-> p, n |-> logger[l].n + 1]]
    BY <1>2 DEF BeginHandle
  <2>2. /\ \A k \in Loggers : k # l => logger'[k] = logger[k]
        /\ logger'[l].n = logger[l].n + 1 /\ logger'[l].pc # "idle"
        /\ logger[l].n \in Nat /\ logger[l].pc = "idle"
    BY <1>0, <1>2, <2>1 DEF BeginHandle, TypeOK
  <2>3. UNCHANGED <<queue, dropped, file, late, refused, hand, taken, reported>>
    BY <1>2 DEF BeginHandle, loggerOnly
  <2>4. Handled' \subseteq Handled
    <3> SUFFICES ASSUME NEW r \in Records, r.n <= logger'[r.by].n,
                        ~(r.n = logger'[r.by].n /\ logger'[r.by].pc # "idle")
                 PROVE  r \in Handled
      BY DEF Handled
    <3>1. r.by \in Loggers /\ r.n \in Int
      BY AsyncLogAssumption, RecordType
    <3>2. CASE r.by = l
      BY <2>2, <3>1, <3>2 DEF Handled
    <3>3. CASE r.by # l
      BY <2>2, <3>1, <3>3 DEF Handled
    <3> QED
      BY <3>2, <3>3
  <2>5. NothingLostInSilence'
    BY <1>1, <2>3, <2>4 DEF NothingLostInSilence, Covered, Queued
  <2>6. ASSUME NEW r \in refused
        PROVE  r.n <= logger'[r.by].n /\ (r.n = logger'[r.by].n => logger'[r.by].pc # "send")
    <3>1. r.by \in Loggers /\ r.n \in Int /\ r.n <= logger[r.by].n
      BY <1>1, AsyncLogAssumption, RecordType DEF LossInv
    <3>2. CASE r.by = l
      BY <2>2, <3>1, <3>2
    <3>3. CASE r.by # l
      BY <2>2, <3>1, <3>3 DEF LossInv
    <3> QED
      BY <3>2, <3>3
  <2> QED
    BY <2>3, <2>5, <2>6 DEF LossInv
<1>3. ASSUME NEW l \in Loggers, SendOrDrop(l) PROVE LossInv'
  <2>1. PICK p \in {"idle", "direct"} : logger' = [logger EXCEPT ![l].pc = p]
    BY <1>3 DEF SendOrDrop
  <2>2. logger[l].pc = "send" /\ Current(l) \in Records
    BY <1>3, CurrentType DEF SendOrDrop
  <2>3. Handled' \subseteq Handled \cup IF p = "idle" THEN {Current(l)} ELSE {}
    BY <2>1, <2>2, HandledBy
  <2>4. UNCHANGED <<hand, taken, reported, file, late>>
    BY <1>3 DEF SendOrDrop, loggerOnly
  <2>5. \A k \in Loggers : /\ logger'[k].n = logger[k].n
                           /\ logger'[k].pc = IF k = l THEN p ELSE logger[k].pc
    BY <1>0, <2>1 DEF TypeOK
  <2>6. ASSUME NEW r \in refused \cup {Current(l)}
        PROVE  r.n <= logger'[r.by].n /\ (r.n = logger'[r.by].n => logger'[r.by].pc # "send")
    <3>1. CASE r = Current(l)
      BY <1>0, <2>2, <2>5, <3>1, CurrentType DEF TypeOK
    <3>2. CASE r \in refused
      BY <1>1, <2>5, <3>2, RecordType DEF LossInv
    <3> QED
      BY <3>1, <3>2
  <2>7. CASE queue' = Append(queue, Current(l)) /\ UNCHANGED <<dropped, refused>>
    <3>1. Queued' = Queued \cup {Current(l)}
      BY <1>0, <2>2, <2>7, QueuedAppend
    <3>2. \A r \in Handled' : Covered(r)'
      BY <1>1, <2>3, <2>4, <2>7, <3>1 DEF Covered
    <3>3. NothingLostInSilence'
      BY <1>1, <2>4, <2>7, <3>2 DEF NothingLostInSilence, Covered
    <3> QED
      BY <2>6, <2>7, <3>3 DEF LossInv
  <2>8. CASE /\ dropped' = dropped + 1 /\ refused' = refused \cup {Current(l)} /\ UNCHANGED queue
             /\ p = "idle" => Current(l).level # "error"
    <3>1. Queued' = Queued
      BY <2>8 DEF Queued
    <3>2. \A r \in Handled' : Covered(r)'
      BY <1>1, <2>3, <2>4, <2>8, <3>1 DEF Covered
    <3>3. Current(l) \notin refused
      BY <2>2, CurrentType DEF LossInv
    <3>4. IsFiniteSet(refused') /\ Cardinality(refused') = Cardinality(refused) + 1
      BY <2>8, <3>3, FS_AddElement DEF LossInv
    <3>5. Cardinality(refused') = dropped' + taken' + reported'
      BY <1>0, <1>1, <2>4, <2>8, <3>4 DEF TypeOK
    <3>6. NothingLostInSilence'
      BY <3>2, <3>5 DEF NothingLostInSilence, Covered
    <3> QED
      BY <2>6, <2>8, <3>4, <3>6 DEF LossInv
  <2>9. \/ queue' = Append(queue, Current(l)) /\ UNCHANGED <<dropped, refused>>
        \/ /\ dropped' = dropped + 1 /\ refused' = refused \cup {Current(l)} /\ UNCHANGED queue
           /\ p = "idle" => Current(l).level # "error"
    <3>1. CASE queue' = Append(queue, Current(l)) /\ UNCHANGED <<dropped, refused>>
      BY <3>1
    <3>2. CASE /\ dropped' = dropped + 1 /\ refused' = refused \cup {Current(l)} /\ UNCHANGED queue
               /\ logger' = [logger EXCEPT ![l].pc = IF Urgent(Current(l)) THEN "direct" ELSE "idle"]
      <4>1. logger'[l].pc = IF Urgent(Current(l)) THEN "direct" ELSE "idle"
        BY <1>0, <3>2 DEF TypeOK
      <4> QED
        BY <2>5, <3>2, <4>1 DEF Urgent
    <3> QED
      BY <1>3, <3>1, <3>2 DEF SendOrDrop
  <2> QED
    BY <2>7, <2>8, <2>9
<1>4. ASSUME NEW l \in Loggers, WriteDirect(l) PROVE LossInv'
  <2>1. logger[l].pc # "idle" /\ logger' = [logger EXCEPT ![l].pc = "idle"]
    BY <1>4 DEF WriteDirect
  <2>2. Handled' \subseteq Handled \cup {Current(l)}
    BY <2>1, HandledBy
  <2>3. /\ UNCHANGED <<queue, hand, dropped, taken, reported, refused>>
        /\ file' \cup late' = file \cup late \cup {Current(l)}
    BY <1>4 DEF WriteDirect, loggerOnly, WriteRecords
  <2>4. \A r \in Handled' : Covered(r)'
    BY <1>1, <2>2, <2>3 DEF Covered, Queued
  <2>5. NothingLostInSilence'
    BY <1>1, <2>3, <2>4 DEF NothingLostInSilence, Covered
  <2>6. \A k \in Loggers : /\ logger'[k].n = logger[k].n
                           /\ logger'[k].pc = IF k = l THEN "idle" ELSE logger[k].pc
    BY <1>0, <2>1 DEF TypeOK
  <2>7. \A r \in refused : /\ r.n <= logger'[r.by].n
                           /\ r.n = logger'[r.by].n => logger'[r.by].pc # "send"
    BY <1>1, <2>6, RecordType DEF LossInv
  <2> QED
    BY <2>3, <2>5, <2>7 DEF LossInv
<1>5. CASE TakeEntry
  <2>1. Queued \cup hand \subseteq Queued' \cup hand'
    <3>1. CASE queue # <<>> /\ hand' = {Head(queue)} /\ queue' = Tail(queue)
      <4>1. hand = None
        BY <1>5 DEF TakeEntry, WriterInv
      <4> QED
        BY <1>0, <3>1, <4>1, QueuedTail DEF None
    <3>2. CASE UNCHANGED <<hand, queue>>
      BY <3>2 DEF Queued
    <3> QED
      BY <1>5, <3>1, <3>2 DEF TakeEntry
  <2>2. UNCHANGED <<logger, refused, dropped, taken, reported, file, late>>
    BY <1>5 DEF TakeEntry, writerOnly
  <2>3. Queued \cup hand \cup file \cup late \subseteq Queued' \cup hand' \cup file' \cup late'
    BY <2>1, <2>2
  <2> QED
    BY <2>2, <2>3, LossKept
<1>6. CASE ReadDropped
  <2>1. UNCHANGED <<logger, refused, queue, hand, reported, file, late>>
    BY <1>6 DEF ReadDropped, writerOnly
  <2>2. taken = 0 /\ taken' = dropped /\ dropped' = 0
    BY <1>6 DEF ReadDropped, WriterInv
  <2>3. dropped' + taken' + reported' = dropped + taken + reported
    BY <1>0, <2>1, <2>2 DEF TypeOK
  <2> QED
    BY <2>1, <2>3, LossKept DEF Queued
<1>7. CASE ReportDropped
  <2>1. UNCHANGED <<logger, refused, queue, hand, dropped, file, late>>
    BY <1>7 DEF ReportDropped, writerOnly
  <2>2. dropped' + taken' + reported' = dropped + taken + reported
    BY <1>0, <1>7, <2>1 DEF ReportDropped, TypeOK
  <2> QED
    BY <2>1, <2>2, LossKept DEF Queued
<1>8. CASE WriteEntry
  <2>1. UNCHANGED <<logger, refused, queue, dropped, taken, reported>>
    BY <1>8 DEF WriteEntry, writerOnly
  <2>2. file' \cup late' = file \cup late \cup hand /\ Queued' = Queued
    BY <1>8, <2>1 DEF WriteEntry, WriteRecords, Queued
  <2>3. Queued \cup hand \cup file \cup late \subseteq Queued' \cup hand' \cup file' \cup late'
    BY <2>2
  <2> QED
    BY <2>1, <2>3, LossKept
<1>9. CASE CloseQueue \/ AwaitDone \/ UNCHANGED vars
  <2>1. UNCHANGED <<logger, refused, queue, hand, dropped, taken, reported, file, late>>
    BY <1>9 DEF CloseQueue, AwaitDone, shutdownOnly, vars
  <2> QED
    BY <2>1, LossKept DEF Queued
<1> QED
  BY <1>2, <1>3, <1>4, <1>5, <1>6, <1>7, <1>8, <1>9 DEF Next, Logger, Writer

\* Every record is on its way, written, or counted as dropped, exactly once;
\* no error is dropped.
THEOREM NothingLostInSilenceCorrect == Spec => []NothingLostInSilence
<1>1. Init => LossInv
  <2> SUFFICES ASSUME Init PROVE LossInv
    OBVIOUS
  <2>1. Handled = {}
    <3> SUFFICES ASSUME NEW r \in Records, r.n <= logger[r.by].n PROVE FALSE
      BY DEF Handled
    <3>1. r.by \in Loggers /\ r.n >= 1
      BY AsyncLogAssumption, RecordType
    <3>2. logger[r.by].n = 0
      BY <3>1 DEF Init
    <3> QED
      BY AsyncLogAssumption, <3>1, <3>2, RecordType
  <2>2. Cardinality(refused) = dropped + taken + reported /\ IsFiniteSet(refused)
    BY FS_EmptySet DEF Init
  <2> QED
    BY <2>1, <2>2 DEF Init, LossInv, NothingLostInSilence
<1>2. LossInv => NothingLostInSilence
  BY DEF LossInv
<1>3. Init => WriterInv
  BY DEF Init, WriterInv, None
<1> QED
  BY <1>1, <1>2, <1>3, MutexInit, MutexStep, WriterStep, LossStep, PTL DEF Spec

-----------------------------------------------------------------------------
(* Backfill *)

CONSTANTS N, Good, Workers, MayFail
VARIABLES ctxDone, fed, jobsOpen, worker, results, shut, pending, out, main, answer

Fill == INSTANCE Backfill WITH closed <- shut

-----------------------------------------------------------------------------
(* Types *)

\* A worker that reads or sends has a job; this makes TypeOK inductive.  An
\* assumption of an instance is no fact here: the invariant carries it.
FillTypeInv ==
    /\ Fill!BackfillAssumption
    /\ Fill!TypeOK
    /\ \A w \in Workers : worker[w].pc \in {"read", "send"} => worker[w].job # Fill!NoJob

\* The buffer holds a result of each worker.
LEMMA CapacityType == Fill!BackfillAssumption => Fill!Capacity \in Nat
<1> SUFFICES ASSUME Fill!BackfillAssumption PROVE Fill!Capacity \in Nat
  OBVIOUS
<1>1. IsFiniteSet(Workers)
  BY DEF Fill!BackfillAssumption, Fill!IsFiniteSet, IsFiniteSet
<1>2. Fill!Capacity = Cardinality(Workers)
  BY DEF Fill!Capacity, Fill!Cardinality, Cardinality
<1> QED
  BY <1>1, <1>2, FS_CardinalityType

\* The type invariant holds initially.
LEMMA FillTypeInit == Fill!BackfillAssumption /\ Fill!Init => FillTypeInv
<1> SUFFICES ASSUME Fill!BackfillAssumption PROVE Fill!Init => FillTypeInv
  OBVIOUS
<1>1. <<>> \in Seq([index : 1..N, ok : BOOLEAN]) /\ <<>> \in Seq(1..N) /\ Len(<<>>) = 0
  OBVIOUS
<1>2. Fill!Init => /\ results \in Seq([index : 1..N, ok : BOOLEAN]) /\ Len(results) <= Fill!Capacity
              /\ out \in Seq(1..N)
  BY <1>1, CapacityType DEF Fill!Init
<1>3. Fill!Init => /\ worker \in [Workers -> [pc : {"select", "read", "send", "gone"},
                                        job : 0..N, ok : BOOLEAN]]
              /\ \A w \in Workers : worker[w].pc = "select"
  BY DEF Fill!BackfillAssumption, Fill!Init, Fill!NoJob
<1>4. Fill!Init => ctxDone \in BOOLEAN /\ jobsOpen \in BOOLEAN /\ shut \in BOOLEAN
  BY DEF Fill!Init
<1>5. Fill!Init => fed \in 0..N /\ pending \subseteq 1..N
  BY DEF Fill!BackfillAssumption, Fill!Init
<1>6. Fill!Init => /\ main \in {"receive", "flush", "returned"}
              /\ answer \in {"none", "ok", "error"}
  BY DEF Fill!Init
<1> QED
  BY <1>2, <1>3, <1>4, <1>5, <1>6 DEF FillTypeInv, Fill!TypeOK

\* Every action keeps the type invariant.
LEMMA FillTypeStep == FillTypeInv /\ [Fill!Next]_(Fill!vars) => FillTypeInv'
<1> SUFFICES ASSUME FillTypeInv, [Fill!Next]_(Fill!vars) PROVE FillTypeInv'
  OBVIOUS
<1> USE DEF FillTypeInv, Fill!NoJob
<1>0. N \in Nat /\ Fill!Capacity \in Nat
  BY CapacityType DEF Fill!BackfillAssumption
<1>1. ASSUME NEW w \in Workers, Fill!HandOut(w) PROVE FillTypeInv'
  BY <1>0, <1>1 DEF Fill!HandOut, Fill!TypeOK, Fill!mainVars, Fill!Capacity
<1>2. ASSUME NEW w \in Workers, Fill!ReadFile(w) PROVE FillTypeInv'
  <2>1. PICK ok \in BOOLEAN : worker' = [worker EXCEPT ![w].pc = "send", ![w].ok = ok]
    BY <1>2 DEF Fill!ReadFile
  <2> QED
    BY <1>0, <1>2, <2>1 DEF Fill!ReadFile, Fill!TypeOK, Fill!mainVars, Fill!Capacity
<1>3. ASSUME NEW w \in Workers, Fill!SendResult(w) PROVE FillTypeInv'
  <2>1. [index |-> worker[w].job, ok |-> worker[w].ok] \in [index : 1..N, ok : BOOLEAN]
    BY <1>0, <1>3 DEF Fill!SendResult, Fill!TypeOK
  <2>2. results' \in Seq([index : 1..N, ok : BOOLEAN]) /\ Len(results') = Len(results) + 1
    BY <1>3, <2>1 DEF Fill!SendResult, Fill!TypeOK
  <2>3. Len(results') <= Fill!Capacity
    BY <1>3, <2>2, CapacityType DEF Fill!SendResult, Fill!TypeOK
  <2> QED
    BY <1>0, <1>3, <2>2, <2>3 DEF Fill!SendResult, Fill!TypeOK, Fill!mainVars, Fill!Capacity
<1>4. ASSUME NEW w \in Workers, Fill!WorkerLeaves(w) PROVE FillTypeInv'
  BY <1>4 DEF Fill!WorkerLeaves, Fill!TypeOK, Fill!mainVars, Fill!Capacity
<1>5. CASE Fill!FeederLeaves
  BY <1>5 DEF Fill!FeederLeaves, Fill!TypeOK, Fill!mainVars, Fill!Capacity
<1>6. CASE Fill!CloseResults
  BY <1>6 DEF Fill!CloseResults, Fill!TypeOK, Fill!mainVars, Fill!Capacity
<1>7. CASE Fill!Receive
  <2>1. results # <<>> /\ results' = Tail(results)
    BY <1>7 DEF Fill!Receive
  <2>2. Head(results) \in [index : 1..N, ok : BOOLEAN]
    BY <2>1, HeadTailProperties DEF Fill!TypeOK
  <2>3. results' \in Seq([index : 1..N, ok : BOOLEAN]) /\ Len(results') = Len(results) - 1
    BY <2>1, HeadTailProperties DEF Fill!TypeOK
  <2>4. Len(results') <= Fill!Capacity
    BY <2>3, CapacityType DEF Fill!TypeOK
  <2>5. pending' \subseteq 1..N
    BY <1>7, <2>2 DEF Fill!Receive, Fill!TypeOK
  <2>6. UNCHANGED <<fed, jobsOpen, worker, shut, out>>
    BY <1>7 DEF Fill!Receive, Fill!poolVars
  <2>7. /\ ctxDone' \in BOOLEAN
        /\ main' \in {"receive", "flush", "returned"} /\ answer' \in {"none", "ok", "error"}
    BY <1>7 DEF Fill!Receive, Fill!Return, Fill!TypeOK
  <2> QED
    BY <2>3, <2>4, <2>5, <2>6, <2>7 DEF Fill!TypeOK, Fill!Capacity
<1>8. CASE Fill!Flush
  <2>1. out' \in Seq(1..N) /\ pending' \subseteq 1..N
    <3>1. CASE Fill!Next1 \in pending /\ out' = Append(out, Fill!Next1) /\ pending' = pending \ {Fill!Next1}
      <4>1. Fill!Next1 \in 1..N /\ out \in Seq(1..N) /\ pending \subseteq 1..N
        BY <3>1 DEF Fill!TypeOK
      <4>2. Append(out, Fill!Next1) \in Seq(1..N)
        BY <4>1
      <4> QED
        BY <3>1, <4>1, <4>2
    <3>2. CASE UNCHANGED <<out, pending>>
      BY <3>2 DEF Fill!TypeOK
    <3> QED
      BY <1>8, <3>1, <3>2 DEF Fill!Flush
  <2>2. UNCHANGED <<fed, jobsOpen, worker, shut, results>>
    BY <1>8 DEF Fill!Flush, Fill!poolVars
  <2>3. /\ ctxDone' \in BOOLEAN
        /\ main' \in {"receive", "flush", "returned"} /\ answer' \in {"none", "ok", "error"}
    BY <1>8 DEF Fill!Flush, Fill!Return, Fill!TypeOK
  <2> QED
    BY <2>1, <2>2, <2>3 DEF Fill!TypeOK, Fill!Capacity
<1>9. CASE Fill!Finish
  BY <1>9 DEF Fill!Finish, Fill!Return, Fill!poolVars, Fill!TypeOK, Fill!Capacity
<1>10. CASE Fill!Cancel
  BY <1>10 DEF Fill!Cancel, Fill!poolVars, Fill!mainVars, Fill!TypeOK, Fill!Capacity
<1>11. CASE UNCHANGED Fill!vars
  BY <1>11 DEF Fill!vars, Fill!TypeOK, Fill!Capacity
<1> QED
  BY <1>1, <1>2, <1>3, <1>4, <1>5, <1>6, <1>7, <1>8, <1>9, <1>10, <1>11
     DEF Fill!Next, Fill!Worker, Fill!RunBackfill

\* backfill keeps its types with any number of files and workers; its buffer
\* is never overfull and nothing is handed out after the last file.
THEOREM BackfillTypeCorrect == Fill!BackfillAssumption => (Fill!Spec => []Fill!TypeOK)
<1> SUFFICES ASSUME Fill!BackfillAssumption PROVE Fill!Spec => []Fill!TypeOK
  OBVIOUS
<1>1. FillTypeInv => Fill!TypeOK
  BY DEF FillTypeInv
<1> QED
  BY <1>1, FillTypeInit, FillTypeStep, PTL DEF Fill!Spec

-----------------------------------------------------------------------------
(* The refinement of SequentialReplay *)

\* What a step of the caller's goroutine relies on: whatever a worker, the
\* channel or pending holds as read was read from a file with a payload, and
\* runBackfill has an answer only when it is over.
ReplayInv ==
    /\ \A w \in Workers : worker[w].pc = "send" /\ worker[w].ok => worker[w].job \in Good
    /\ \A i \in 1..Len(results) : results[i].ok => results[i].index \in Good
    /\ pending \subseteq Good
    /\ main # "returned" => answer = "none"

\* ReplayInv holds initially.
LEMMA ReplayInit == Fill!Init => ReplayInv
BY DEF Fill!Init, ReplayInv

\* Every action keeps ReplayInv.
LEMMA ReplayStep == FillTypeInv /\ ReplayInv /\ [Fill!Next]_(Fill!vars) => ReplayInv'
<1> SUFFICES ASSUME FillTypeInv, ReplayInv, [Fill!Next]_(Fill!vars) PROVE ReplayInv'
  OBVIOUS
<1> USE DEF FillTypeInv
<1>1. ASSUME NEW w \in Workers, Fill!HandOut(w) PROVE ReplayInv'
  BY <1>1 DEF Fill!HandOut, Fill!mainVars, Fill!TypeOK, ReplayInv
<1>2. ASSUME NEW w \in Workers, Fill!ReadFile(w) PROVE ReplayInv'
  BY <1>2 DEF Fill!ReadFile, Fill!mainVars, Fill!TypeOK, ReplayInv
<1>3. ASSUME NEW w \in Workers, Fill!SendResult(w) PROVE ReplayInv'
  <2>1. results' = Append(results, [index |-> worker[w].job, ok |-> worker[w].ok])
    BY <1>3 DEF Fill!SendResult
  <2>2. worker[w].ok => worker[w].job \in Good
    BY <1>3 DEF Fill!SendResult, ReplayInv
  <2>3. ASSUME NEW i \in 1..Len(results'), results'[i].ok PROVE results'[i].index \in Good
    <3>1. CASE i \in 1..Len(results)
      BY <2>1, <2>3, <3>1 DEF Fill!TypeOK, ReplayInv
    <3>2. CASE i = Len(results) + 1
      <4>1. results'[i] = [index |-> worker[w].job, ok |-> worker[w].ok]
        BY <2>1, <3>2 DEF Fill!TypeOK
      <4> QED
        BY <2>2, <2>3, <4>1
    <3> QED
      BY <2>1, <3>1, <3>2 DEF Fill!TypeOK
  <2> QED
    BY <1>3, <2>3 DEF Fill!SendResult, Fill!mainVars, Fill!TypeOK, ReplayInv
<1>4. ASSUME NEW w \in Workers, Fill!WorkerLeaves(w) PROVE ReplayInv'
  BY <1>4 DEF Fill!WorkerLeaves, Fill!mainVars, Fill!TypeOK, ReplayInv
<1>5. CASE Fill!FeederLeaves
  BY <1>5 DEF Fill!FeederLeaves, Fill!mainVars, ReplayInv
<1>6. CASE Fill!CloseResults
  BY <1>6 DEF Fill!CloseResults, Fill!mainVars, ReplayInv
<1>7. CASE Fill!Receive
  <2>1. results # <<>> /\ results' = Tail(results) /\ UNCHANGED worker
    BY <1>7 DEF Fill!Receive, Fill!poolVars
  <2>2. Head(results) = results[1] /\ 1 \in 1..Len(results)
    BY <2>1 DEF Fill!TypeOK
  <2>3. \A i \in 1..Len(results') : i + 1 \in 1..Len(results) /\ results'[i] = results[i + 1]
    BY <2>1 DEF Fill!TypeOK
  <2>4. \A i \in 1..Len(results') : results'[i].ok => results'[i].index \in Good
    BY <2>3 DEF ReplayInv
  <2>5. pending' \subseteq Good
    BY <1>7, <2>2 DEF Fill!Receive, ReplayInv
  <2>6. main' # "returned" => answer' = "none"
    BY <1>7 DEF Fill!Receive, Fill!Return, ReplayInv
  <2> QED
    BY <2>1, <2>4, <2>5, <2>6 DEF ReplayInv
<1>8. CASE Fill!Flush
  BY <1>8 DEF Fill!Flush, Fill!Return, Fill!poolVars, ReplayInv
<1>9. CASE Fill!Finish
  BY <1>9 DEF Fill!Finish, Fill!Return, Fill!poolVars, ReplayInv
<1>10. CASE Fill!Cancel
  BY <1>10 DEF Fill!Cancel, Fill!poolVars, Fill!mainVars, ReplayInv
<1>11. CASE UNCHANGED Fill!vars
  BY <1>11 DEF Fill!vars, ReplayInv
<1> QED
  BY <1>1, <1>2, <1>3, <1>4, <1>5, <1>6, <1>7, <1>8, <1>9, <1>10, <1>11
     DEF Fill!Next, Fill!Worker, Fill!RunBackfill

\* Every step of backfill is one of the sequential program, or none of its
\* business.
LEMMA StepRefines ==
    ReplayInv /\ [Fill!Next]_(Fill!vars) => [Fill!Sequential!Next]_<<out, answer>>
<1> SUFFICES ASSUME ReplayInv, [Fill!Next]_(Fill!vars) PROVE [Fill!Sequential!Next]_<<out, answer>>
  OBVIOUS
<1>1. ASSUME NEW w \in Workers, Fill!Worker(w) PROVE UNCHANGED <<out, answer>>
  BY <1>1 DEF Fill!Worker, Fill!HandOut, Fill!ReadFile, Fill!SendResult, Fill!WorkerLeaves, Fill!mainVars
<1>2. CASE Fill!FeederLeaves \/ Fill!CloseResults \/ Fill!Cancel
  BY <1>2 DEF Fill!FeederLeaves, Fill!CloseResults, Fill!Cancel, Fill!mainVars
<1>3. CASE Fill!Receive
  <2>1. UNCHANGED <<out, answer>> \/ Fill!Sequential!GiveUp
    BY <1>3 DEF Fill!Receive, Fill!Return, ReplayInv, Fill!Sequential!GiveUp
  <2> QED
    BY <2>1 DEF Fill!Sequential!Next
<1>4. CASE Fill!Flush
  <2>1. answer = "none"
    BY <1>4 DEF Fill!Flush, ReplayInv
  <2>2. Fill!Next1 \in pending => Len(out) + 1 \in Good
    BY DEF Fill!Next1, ReplayInv
  <2>3. CASE Fill!Next1 \in pending /\ out' = Append(out, Fill!Next1) /\ UNCHANGED answer
    BY <2>1, <2>2, <2>3 DEF Fill!Next1, Fill!Sequential!Next, Fill!Sequential!Write
  <2>4. CASE UNCHANGED out /\ Fill!Return("error")
    BY <2>1, <2>4 DEF Fill!Return, Fill!Sequential!Next, Fill!Sequential!GiveUp
  <2>5. CASE UNCHANGED <<out, answer>>
    BY <2>5
  <2> QED
    BY <1>4, <2>3, <2>4, <2>5 DEF Fill!Flush
<1>5. CASE Fill!Finish
  <2>1. answer = "none" /\ UNCHANGED out
    BY <1>5 DEF Fill!Finish, ReplayInv
  <2>2. CASE Len(out) = N
    BY <1>5, <2>1, <2>2 DEF Fill!Finish, Fill!Return, Fill!Sequential!Next, Fill!Sequential!Finish
  <2>3. CASE Len(out) # N
    BY <1>5, <2>1, <2>3 DEF Fill!Finish, Fill!Return, Fill!Sequential!Next, Fill!Sequential!GiveUp
  <2> QED
    BY <2>2, <2>3
<1>6. CASE UNCHANGED Fill!vars
  BY <1>6 DEF Fill!vars
<1> QED
  BY <1>1, <1>2, <1>3, <1>4, <1>5, <1>6 DEF Fill!Next, Fill!RunBackfill

\* The safety half of ActsSequentially: whatever the number of workers and
\* however they race, runBackfill writes what one goroutine reading the files
\* in order would, and gives an answer once.
THEOREM SequentialSafety ==
    Fill!BackfillAssumption =>
        (Fill!Spec => Fill!Sequential!Init /\ [][Fill!Sequential!Next]_<<out, answer>>)
<1> SUFFICES ASSUME Fill!BackfillAssumption
             PROVE  Fill!Spec => Fill!Sequential!Init /\ [][Fill!Sequential!Next]_<<out, answer>>
  OBVIOUS
<1>1. Fill!Init => Fill!Sequential!Init
  BY DEF Fill!Init, Fill!Sequential!Init
<1> QED
  BY <1>1, FillTypeInit, FillTypeStep, ReplayInit, ReplayStep, StepRefines, PTL DEF Fill!Spec

-----------------------------------------------------------------------------
(* The answer *)

\* The records are the first files in path order, each once and with a
\* payload; without an error they are all the files.
OutputInOrder ==
    /\ \A i \in 1..Len(out) : out[i] = i /\ i \in Good
    /\ answer = "ok" => Len(out) = N

\* A step of the sequential program keeps the order of the output.
LEMMA OrderStep ==
    Fill!TypeOK /\ OutputInOrder /\ [Fill!Sequential!Next]_<<out, answer>> => OutputInOrder'
<1> SUFFICES ASSUME Fill!TypeOK, OutputInOrder, [Fill!Sequential!Next]_<<out, answer>>
             PROVE  OutputInOrder'
  OBVIOUS
<1>1. CASE Fill!Sequential!Write
  <2>1. /\ Len(out) + 1 \in Good /\ out' = Append(out, Len(out) + 1)
        /\ answer = "none" /\ UNCHANGED answer
    BY <1>1 DEF Fill!Sequential!Write
  <2>2. ASSUME NEW i \in 1..Len(out') PROVE out'[i] = i /\ i \in Good
    <3>1. CASE i \in 1..Len(out)
      BY <2>1, <3>1 DEF Fill!TypeOK, OutputInOrder
    <3>2. CASE i = Len(out) + 1
      BY <2>1, <3>2 DEF Fill!TypeOK
    <3> QED
      BY <2>1, <3>1, <3>2 DEF Fill!TypeOK
  <2> QED
    BY <2>1, <2>2 DEF OutputInOrder
<1>2. CASE Fill!Sequential!Finish
  BY <1>2 DEF Fill!Sequential!Finish, OutputInOrder
<1>3. CASE Fill!Sequential!GiveUp
  BY <1>3 DEF Fill!Sequential!GiveUp, OutputInOrder
<1>4. CASE UNCHANGED <<out, answer>>
  BY <1>4 DEF OutputInOrder
<1> QED
  BY <1>1, <1>2, <1>3, <1>4 DEF Fill!Sequential!Next

\* runBackfill writes the files in path order, none twice, none left out and
\* none without a payload; when it returns nil it has written them all.
THEOREM OutputInOrderCorrect == Fill!BackfillAssumption => (Fill!Spec => []OutputInOrder)
<1> SUFFICES ASSUME Fill!BackfillAssumption PROVE Fill!Spec => []OutputInOrder
  OBVIOUS
<1>1. Fill!Init => OutputInOrder
  BY DEF Fill!Init, OutputInOrder
<1>2. FillTypeInv => Fill!TypeOK
  BY DEF FillTypeInv
<1> QED
  BY <1>1, <1>2, FillTypeInit, FillTypeStep, ReplayInit, ReplayStep, StepRefines, OrderStep, PTL
     DEF Fill!Spec
=============================================================================
