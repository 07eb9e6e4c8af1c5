------------------------------ MODULE Backfill ------------------------------
(***************************************************************************)
(* cmd/backfill: runBackfill with its worker pool.  A feeder goroutine     *)
(* hands file indices to the workers over an unbuffered channel, workers   *)
(* send what they read into a buffered channel, a closer goroutine closes  *)
(* it when the last worker is gone, and the caller's goroutine puts the    *)
(* results back in order and writes them.  The first error cancels the     *)
(* context the others select on; so does SIGTERM.                          *)
(*                                                                         *)
(* Where a select has several ready cases Go picks any of them.            *)
(***************************************************************************)
EXTENDS Integers, Sequences, FiniteSets

CONSTANTS N,            \* number of files found
          Good,         \* the files, of 1..N, with a JSON payload
          Workers,      \* the worker goroutines
          MayFail       \* whether a read or a write can fail on I/O

ASSUME BackfillAssumption ==
    /\ N \in Nat \ {0}
    /\ Good \subseteq 1..N
    /\ IsFiniteSet(Workers) /\ Workers # {}
    /\ MayFail \in BOOLEAN

NoJob == 0

VARIABLES ctxDone,  \* the derived context is cancelled
          fed,      \* files the feeder has handed out
          jobsOpen, \* the feeder runs; it closes jobs when it leaves
          worker,   \* per worker: [pc, job, ok]
          results,  \* the buffered channel
          closed,   \* results is closed
          pending,  \* results read ahead of next
          out,      \* indices written so far; next is Len(out) + 1
          main,     \* where runBackfill is: "receive", "flush" or "returned"
          answer    \* its result: "none" yet, "ok" or "error"

vars == <<ctxDone, fed, jobsOpen, worker, results, closed, pending, out, main, answer>>

Capacity == Cardinality(Workers)
Next1 == Len(out) + 1

Init ==
    /\ ctxDone = FALSE
    /\ fed = 0 /\ jobsOpen = TRUE
    /\ worker = [w \in Workers |-> [pc |-> "select", job |-> NoJob, ok |-> FALSE]]
    /\ results = <<>> /\ closed = FALSE
    /\ pending = {} /\ out = <<>>
    /\ main = "receive" /\ answer = "none"

-----------------------------------------------------------------------------
(* The feeder and the workers *)

mainVars == <<pending, out, main, answer>>

\* The rendezvous on jobs.
HandOut(w) ==
    /\ jobsOpen /\ fed < N
    /\ worker[w].pc = "select"
    /\ fed' = fed + 1
    /\ worker' = [worker EXCEPT ![w] = [pc |-> "read", job |-> fed + 1, ok |-> FALSE]]
    /\ UNCHANGED <<ctxDone, jobsOpen, results, closed>> /\ UNCHANGED mainVars

FeederLeaves ==
    /\ jobsOpen /\ (fed = N \/ ctxDone)
    /\ jobsOpen' = FALSE
    /\ UNCHANGED <<ctxDone, fed, worker, results, closed>> /\ UNCHANGED mainVars

\* processFile.
ReadFile(w) ==
    /\ worker[w].pc = "read"
    /\ \E ok \in BOOLEAN :
        /\ ok => worker[w].job \in Good
        /\ ~ok => worker[w].job \notin Good \/ MayFail
        /\ worker' = [worker EXCEPT ![w].pc = "send", ![w].ok = ok]
    /\ UNCHANGED <<ctxDone, fed, jobsOpen, results, closed>> /\ UNCHANGED mainVars

SendResult(w) ==
    /\ worker[w].pc = "send" /\ Len(results) < Capacity
    /\ results' = Append(results, [index |-> worker[w].job, ok |-> worker[w].ok])
    /\ worker' = [worker EXCEPT ![w].pc = "select", ![w].job = NoJob]
    /\ UNCHANGED <<ctxDone, fed, jobsOpen, closed>> /\ UNCHANGED mainVars

\* Fault: the send of a result does not watch ctx.
WorkerLeavesBetweenJobs(w) ==
    /\ worker[w].pc = "select" /\ (ctxDone \/ ~jobsOpen)
    /\ worker' = [worker EXCEPT ![w].pc = "gone"]
    /\ UNCHANGED <<ctxDone, fed, jobsOpen, results, closed>> /\ UNCHANGED mainVars

\* ctx.Done(), in either select, or jobs is closed.
WorkerLeaves(w) ==
    /\ \/ worker[w].pc = "select" /\ (ctxDone \/ ~jobsOpen)
       \/ worker[w].pc = "send" /\ ctxDone
    /\ worker' = [worker EXCEPT ![w].pc = "gone"]
    /\ UNCHANGED <<ctxDone, fed, jobsOpen, results, closed>> /\ UNCHANGED mainVars

\* workerWG.Wait and close(results).
CloseResults ==
    /\ ~closed /\ \A w \in Workers : worker[w].pc = "gone"
    /\ closed' = TRUE
    /\ UNCHANGED <<ctxDone, fed, jobsOpen, worker, results>> /\ UNCHANGED mainVars

-----------------------------------------------------------------------------
(* The goroutine of runBackfill *)

poolVars == <<fed, jobsOpen, worker, closed>>

\* Return runs the deferred cancel.
Return(a) == main' = "returned" /\ answer' = a /\ ctxDone' = TRUE

\* One result off the channel.
Receive ==
    /\ main = "receive" /\ results # <<>>
    /\ results' = Tail(results)
    /\ \/ /\ Head(results).ok
          /\ pending' = pending \cup {Head(results).index}
          /\ main' = "flush"
          /\ UNCHANGED <<answer, ctxDone>>
       \/ /\ ~Head(results).ok
          /\ Return("error")
          /\ UNCHANGED pending
    /\ UNCHANGED out /\ UNCHANGED poolVars

\* Fault: whatever is pending is written.
FlushUnordered ==
    /\ main = "flush"
    /\ \/ /\ \E i \in pending : out' = Append(out, i) /\ pending' = pending \ {i}
          /\ UNCHANGED <<main, answer, ctxDone>>
       \/ /\ MayFail /\ pending # {}
          /\ Return("error")
          /\ UNCHANGED <<out, pending>>
       \/ /\ pending = {}
          /\ main' = "receive"
          /\ UNCHANGED <<out, pending, answer, ctxDone>>
    /\ UNCHANGED results /\ UNCHANGED poolVars

\* The inner loop: write records as long as the next one is there.
Flush ==
    /\ main = "flush"
    /\ \/ /\ Next1 \in pending
          /\ out' = Append(out, Next1)
          /\ pending' = pending \ {Next1}
          /\ UNCHANGED <<main, answer, ctxDone>>
       \/ /\ Next1 \in pending /\ MayFail
          /\ Return("error")
          /\ UNCHANGED <<out, pending>>
       \/ /\ Next1 \notin pending
          /\ main' = "receive"
          /\ UNCHANGED <<out, pending, answer, ctxDone>>
    /\ UNCHANGED results /\ UNCHANGED poolVars

\* results is drained and closed: done, or incomplete.
Finish ==
    /\ main = "receive" /\ results = <<>> /\ closed
    /\ Return(IF Len(out) = N THEN "ok" ELSE "error")
    /\ UNCHANGED <<pending, out, results>> /\ UNCHANGED poolVars

\* SIGINT or SIGTERM.
Cancel ==
    /\ ~ctxDone
    /\ ctxDone' = TRUE
    /\ UNCHANGED results /\ UNCHANGED poolVars /\ UNCHANGED mainVars

-----------------------------------------------------------------------------
Worker(w) == HandOut(w) \/ ReadFile(w) \/ SendResult(w) \/ WorkerLeaves(w)
RunBackfill == Receive \/ Flush \/ Finish

Next == (\E w \in Workers : Worker(w)) \/ FeederLeaves \/ CloseResults \/ RunBackfill \/ Cancel

\* Every goroutine is scheduled.
Spec ==
    /\ Init /\ [][Next]_vars
    /\ \A w \in Workers : WF_vars(Worker(w))
    /\ WF_vars(FeederLeaves) /\ WF_vars(CloseResults) /\ WF_vars(RunBackfill)

-----------------------------------------------------------------------------
(* Properties *)

\* Every variable keeps its type; the buffered channel holds no more results
\* than there are workers, and nothing is handed out after the last file.
TypeOK ==
    /\ ctxDone \in BOOLEAN /\ jobsOpen \in BOOLEAN /\ closed \in BOOLEAN
    /\ fed \in 0..N
    /\ worker \in [Workers -> [pc : {"select", "read", "send", "gone"},
                               job : 0..N, ok : BOOLEAN]]
    /\ results \in Seq([index : 1..N, ok : BOOLEAN]) /\ Len(results) <= Capacity
    /\ pending \subseteq 1..N
    /\ out \in Seq(1..N)
    /\ main \in {"receive", "flush", "returned"}
    /\ answer \in {"none", "ok", "error"}

\* However the workers race, what backfill writes and returns is what one
\* goroutine reading the files in order could have done, and it returns.
Sequential == INSTANCE SequentialReplay
ActsSequentially == Sequential!Spec

\* When backfill is over, so is every goroutine it started.
NobodyLeftBehind == main = "returned" ~> \A w \in Workers : worker[w].pc = "gone"
=============================================================================
