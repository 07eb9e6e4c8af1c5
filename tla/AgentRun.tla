------------------------------ MODULE AgentRun ------------------------------
(***************************************************************************)
(* One call of harness.RunInvestigation and the run store that outlives    *)
(* it.  The call walks a plan of evidence phases and a closing summary,    *)
(* asks the policy before each tool, and saves the whole record with       *)
(* runs.Upsert after every step.  Around it: the caller's context can end  *)
(* at any moment (30 s deadline of the chat and A2A handlers, client gone, *)
(* shutdown), a save or a search can fail, the process can die, and the    *)
(* wall clock that stamps UpdatedAt can stand still or step back.          *)
(*                                                                         *)
(* Calls share nothing but the file, whose lines Get filters by run id, so *)
(* one run is modelled.  Texts, evidence and step ids are left out.        *)
(***************************************************************************)
EXTENDS Integers, Sequences

CONSTANTS Requests,     \* the requests a caller may submit, see RequestShape
          Policies,     \* the evaluators deps.Policy may be: [Tools -> Verdicts]
          Ticks,        \* how far the wall clock may move between two readings
          ClockStart,   \* its first reading
          StoreMayFail, \* whether a save can fail on I/O
          SearchMayFail \* whether a search can fail on I/O

Phases == {"retrieve", "access", "sessions"}
Tools == Phases \cup {"explain"}
\* "error" stands for an evaluator error and for an unsupported decision state.
Verdicts == {"allow", "require_approval", "deny", "error"}
Goals == {"before_connect", "status", "membership", "disconnect", "other"}

DefaultMaxSteps == 4
MaxHarnessSteps == 5
NoTime == 0      \* a nil *time.Time, earlier than every reading

\* inputs: which of inputs.from/to and inputs.limit fail to parse.
RequestShape ==
    [goal : Goals, selectors : BOOLEAN, tenant : BOOLEAN, text : BOOLEAN,
     inputs : {"ok", "bad_window", "bad_limit"}, maxSteps : Int,
     access : BOOLEAN, sessions : BOOLEAN]

ASSUME ConstantsAssumption ==
    /\ Requests \subseteq RequestShape
    /\ Policies \subseteq [Tools -> Verdicts]
    /\ Ticks \subseteq Int
    /\ ClockStart \in Nat
    /\ StoreMayFail \in BOOLEAN
    /\ SearchMayFail \in BOOLEAN

Statuses == {"running", "awaiting_approval", "completed", "failed"}
Step == [tool : Tools, status : {"completed", "blocked", "failed"}]
Record == [status : Statuses, steps : Seq(Step), updatedAt : Int, completedAt : Int]

VARIABLES request,  \* the request under way, with MaxSteps as normalised
          policy,   \* the configured evaluator
          ctxDone,  \* ctx.Err() # nil
          clock,    \* last reading of the wall clock
          pc,       \* where RunInvestigation is
          plan,     \* phases still to run
          budget,   \* evidenceBudget
          failure,  \* the failing step's tool and error kind, for finishRunWithError
          run,      \* the record in memory
          file,     \* the lines of this run in the store, in append order
          result    \* what the caller got: "none" yet, "ok" or "error"

vars == <<request, policy, ctxDone, clock, pc, plan, budget, failure, run, file, result>>

-----------------------------------------------------------------------------
(* The run store *)

\* pickLatest replaces what it holds exactly when the candidate is Later.
Later(candidate, existing) ==
    \/ candidate.updatedAt > existing.updatedAt
    \/ /\ candidate.updatedAt = existing.updatedAt
       /\ candidate.completedAt > existing.completedAt

\* FileStore.Get scans the lines with pickLatest, which leaves the first
\* line that no line is Later than.
View(lines) ==
    lines[CHOOSE i \in DOMAIN lines :
            \A j \in DOMAIN lines : /\ ~Later(lines[j], lines[i])
                                    /\ j < i => Later(lines[i], lines[j])]

\* Upsert returns nil and the line is appended, or it returns an error.
UpsertOK(record) == /\ ~ctxDone
                    /\ file' = Append(file, record)
UpsertErr == /\ ctxDone \/ StoreMayFail
             /\ UNCHANGED file

-----------------------------------------------------------------------------
(* The plan *)

NormalizeMaxSteps(n) ==
    LET asked == IF n <= 0 THEN DefaultMaxSteps ELSE n
    IN  IF asked > MaxHarnessSteps THEN MaxHarnessSteps ELSE asked

\* Goal or inputs.query, and the tenant, are required.
RequestAccepted(r) == r.text /\ r.tenant

OrderedAvailablePhases(r, phase) ==
    IF \/ phase = "access" /\ ~r.access
       \/ phase = "sessions" /\ ~r.sessions
    THEN <<>> ELSE <<phase>>

BuildInvestigationPlan(r) ==
    LET retrieve == OrderedAvailablePhases(r, "retrieve")
        access   == OrderedAvailablePhases(r, "access")
        sessions == OrderedAvailablePhases(r, "sessions")
        ordered  == CASE r.goal = "status" /\ r.selectors     -> sessions \o access
                      [] r.goal = "membership" /\ r.selectors -> retrieve
                      [] r.goal = "disconnect" /\ r.selectors -> sessions
                      [] OTHER -> retrieve \o access \o sessions
    IN  IF ordered = <<>> THEN <<"retrieve">> ELSE ordered

RunSummary(r) == r.maxSteps > 1

-----------------------------------------------------------------------------
NewRun(now) == [status |-> "running", steps |-> <<>>, updatedAt |-> now, completedAt |-> NoTime]

NoFailure == [tool |-> "retrieve", kind |-> "none"]

Init ==
    /\ request \in Requests
    /\ policy \in Policies
    /\ ctxDone = FALSE
    /\ clock = ClockStart
    /\ pc = "new"
    /\ plan = <<>>
    /\ budget = 0
    /\ failure = NoFailure
    /\ run = NewRun(ClockStart)
    /\ file = <<>>
    /\ result = "none"

Return(r) == pc' = "returned" /\ result' = r

\* RunInvestigation up to the first save: normalizeRequest and the new record.
StartRun ==
    /\ pc = "new"
    /\ \/ /\ ~RequestAccepted(request)
          /\ Return("error")
          /\ UNCHANGED <<request, clock, plan, budget, run>>
       \/ /\ RequestAccepted(request)
          /\ pc' = "create"
          /\ \E d \in Ticks :
                /\ clock' = clock + d
                /\ run' = NewRun(clock')
          /\ request' = [request EXCEPT !.maxSteps = NormalizeMaxSteps(@)]
          /\ plan' = BuildInvestigationPlan(request)
          /\ budget' = IF RunSummary(request') THEN request'.maxSteps - 1 ELSE request'.maxSteps
          /\ UNCHANGED result
    /\ UNCHANGED <<policy, ctxDone, failure, file>>

\* The first Upsert; without it there is no run.
CreateRun ==
    /\ pc = "create"
    /\ \/ UpsertOK(run) /\ pc' = "phase" /\ UNCHANGED result
       \/ UpsertErr /\ Return("error")
    /\ UNCHANGED <<request, policy, ctxDone, clock, plan, budget, failure, run>>

\* inputs.from/to are parsed by all three queries, inputs.limit only by the
\* retrieval query.
QueryRejected(phase) ==
    \/ request.inputs = "bad_window"
    \/ request.inputs = "bad_limit" /\ phase = "retrieve"

\* With no selector in the inputs and none in the hits there is nothing to
\* ask, and the step completes without a store call.
MayAskNothing(phase) ==
    \/ phase = "sessions"
    \/ phase = "access" /\ ~request.selectors

\* Fault: the decision of the policy is logged and not obeyed.
PhaseOutcomesUngated(phase) ==
    IF QueryRejected(phase) THEN {"error"} ELSE {"ok"}

\* What a phase can end with.  The stores refuse a call once ctx is done.
PhaseOutcomes(phase) ==
    IF policy[phase] # "allow" THEN {policy[phase]}
    ELSE IF QueryRejected(phase) THEN {"error"}
    ELSE {o \in {"ok", "error"} :
            /\ o = "ok" => (ctxDone => MayAskNothing(phase))
            /\ o = "error" => ctxDone \/ SearchMayFail}

\* Fault: the new step replaces the ones before it.
StepCompletedOverwrites(tool) ==
    \E d \in Ticks :
        /\ clock' = clock + d
        /\ run' = [run EXCEPT !.steps = <<[tool |-> tool, status |-> "completed"]>>,
                              !.updatedAt = clock']

\* A tool call that completed: the step joins the record, UpdatedAt is its
\* completion time.
StepCompleted(tool) ==
    \E d \in Ticks :
        /\ clock' = clock + d
        /\ run' = [run EXCEPT !.steps = Append(@, [tool |-> tool, status |-> "completed"]),
                              !.updatedAt = clock']

StepRefused(tool, kind) ==
    /\ failure' = [tool |-> tool, kind |-> kind]
    /\ pc' = "fail"
    /\ UNCHANGED <<clock, run>>

\* One pass of the phase loop up to its save.
RunPhase ==
    /\ pc = "phase"
    /\ plan # <<>> /\ budget # 0
    /\ \E outcome \in PhaseOutcomes(Head(plan)) :
        \/ /\ outcome = "ok"
           /\ StepCompleted(Head(plan))
           /\ pc' = "persist"
           /\ UNCHANGED failure
        \/ /\ outcome # "ok"
           /\ StepRefused(Head(plan), outcome)
    /\ UNCHANGED <<request, policy, ctxDone, plan, budget, file, result>>

\* Fault: evidenceBudget-- is missing at the end of the loop.
PersistPhaseKeepsBudget ==
    /\ pc = "persist"
    /\ \/ /\ UpsertOK(run)
          /\ pc' = "phase"
          /\ plan' = Tail(plan)
          /\ UNCHANGED result
       \/ /\ UpsertErr
          /\ Return("error")
          /\ UNCHANGED plan
    /\ UNCHANGED <<request, policy, ctxDone, clock, budget, failure, run>>

PersistPhase ==
    /\ pc = "persist"
    /\ \/ /\ UpsertOK(run)
          /\ pc' = "phase"
          /\ plan' = Tail(plan)
          /\ budget' = budget - 1
          /\ UNCHANGED result
       \/ /\ UpsertErr
          /\ Return("error")
          /\ UNCHANGED <<plan, budget>>
    /\ UNCHANGED <<request, policy, ctxDone, clock, failure, run>>

PhasesDone == pc = "phase" /\ (plan = <<>> \/ budget = 0)

\* The summary reads no store: only the policy can stop it.
RunSummaryStep ==
    /\ PhasesDone /\ RunSummary(request)
    /\ \/ /\ policy["explain"] = "allow"
          /\ StepCompleted("explain")
          /\ pc' = "complete"
          /\ UNCHANGED failure
       \/ /\ policy["explain"] # "allow"
          /\ StepRefused("explain", policy["explain"])
    /\ UNCHANGED <<request, policy, ctxDone, plan, budget, file, result>>

\* Fault: the run is saved before its status is set.
CompleteRunSavesTooEarly ==
    /\ pc = "complete" \/ (PhasesDone /\ ~RunSummary(request))
    /\ \E d \in Ticks :
        /\ clock' = clock + d
        /\ run' = [run EXCEPT !.status = "completed", !.updatedAt = clock', !.completedAt = clock']
    /\ \/ UpsertOK(run) /\ Return("ok")
       \/ UpsertErr /\ Return("error")
    /\ UNCHANGED <<request, policy, ctxDone, plan, budget, failure>>

\* The tail of RunInvestigation: completed, saved with the caller's ctx.
CompleteRun ==
    /\ pc = "complete" \/ (PhasesDone /\ ~RunSummary(request))
    /\ \E d \in Ticks :
        /\ clock' = clock + d
        /\ run' = [run EXCEPT !.status = "completed", !.updatedAt = clock', !.completedAt = clock']
    /\ \/ UpsertOK(run') /\ Return("ok")
       \/ UpsertErr /\ Return("error")
    /\ UNCHANGED <<request, policy, ctxDone, plan, budget, failure>>

\* Fault: after saving the failure the loop goes on with the next phase.
FinishRunWithErrorGoesOn ==
    /\ pc = "fail"
    /\ \E d \in Ticks :
        /\ clock' = clock + d
        /\ run' = [run EXCEPT !.status = "failed", !.updatedAt = clock', !.completedAt = clock']
    /\ UpsertOK(run') \/ UpsertErr
    /\ pc' = "phase"
    /\ plan' = IF plan = <<>> THEN <<>> ELSE Tail(plan)
    /\ UNCHANGED <<request, policy, ctxDone, budget, failure, result>>

\* The failing step is recorded and the run saved, again with the caller's ctx.
FinishRunWithError ==
    /\ pc = "fail"
    /\ \E d \in Ticks :
        LET approval == failure.kind = "require_approval" IN
        /\ clock' = clock + d
        /\ run' = [status |-> IF approval THEN "awaiting_approval" ELSE "failed",
                   steps |-> Append(run.steps,
                                    [tool |-> failure.tool,
                                     status |-> IF approval THEN "blocked" ELSE "failed"]),
                   updatedAt |-> clock',
                   completedAt |-> IF approval THEN run.completedAt ELSE clock']
    /\ UpsertOK(run') \/ UpsertErr
    /\ Return("error")
    /\ UNCHANGED <<request, policy, ctxDone, plan, budget, failure>>

\* Deadline, client gone or shutdown: the caller's context ends.
CtxEnds ==
    /\ ~ctxDone
    /\ pc \notin {"returned", "crashed"}
    /\ ctxDone' = TRUE
    /\ UNCHANGED <<request, policy, clock, pc, plan, budget, failure, run, file, result>>

\* The process dies; the file stays.
Crash ==
    /\ pc \notin {"returned", "crashed"}
    /\ pc' = "crashed"
    /\ UNCHANGED <<request, policy, ctxDone, clock, plan, budget, failure, run, file, result>>

RunInvestigation ==
    \/ StartRun \/ CreateRun \/ RunPhase \/ PersistPhase
    \/ RunSummaryStep \/ CompleteRun \/ FinishRunWithError

Next == RunInvestigation \/ CtxEnds \/ Crash

Spec == Init /\ [][Next]_vars
-----------------------------------------------------------------------------
(* Properties *)

\* Every variable keeps its type through all seven steps of RunInvestigation.
TypeOK ==
    /\ request \in RequestShape
    /\ policy \in [Tools -> Verdicts]
    /\ ctxDone \in BOOLEAN
    /\ clock \in Int
    /\ pc \in {"new", "create", "phase", "persist", "complete", "fail", "returned", "crashed"}
    /\ plan \in Seq(Phases)
    /\ budget \in 0..MaxHarnessSteps
    /\ failure \in [tool : Tools, kind : Verdicts \cup {"none"}]
    /\ run \in Record
    /\ file \in Seq(Record)
    /\ result \in {"none", "ok", "error"}

Stored == file # <<>>
LastLine == file[Len(file)]
SettledStatuses == {"completed", "failed"}

\* On a clock that may stand still Get can show an older line of a run under
\* way, but never once the last line has a CompletedAt: the tie-break of
\* pickLatest lets a completed or failed line win.
SettledWriteWins == Stored /\ LastLine.completedAt # NoTime => View(file) = LastLine

\* What RunInvestigation answers with a nil error is what GetRun will return,
\* and it is a completed run.
AnswerIsStored == result = "ok" => Stored /\ View(file) = run /\ run.status = "completed"

\* A reader who has seen a run completed or failed never sees it change again.
SettledIsFinal ==
    [][Stored /\ View(file).status \in SettledStatuses => View(file') = View(file)]_vars

\* In every line ever saved, the run's status agrees with its steps: only the
\* last step can be refused, a blocked one means awaiting_approval and a failed
\* one means failed; so no tool runs after the policy or an error stopped one,
\* and every completed step was allowed.
RefusalEndsRun ==
    \A i \in DOMAIN file :
        LET line == file[i]  n == Len(line.steps) IN
        /\ \A k \in 1..n :
              /\ k < n => line.steps[k].status = "completed"
              /\ line.steps[k].status = "completed" => policy[line.steps[k].tool] = "allow"
        /\ line.status = "awaiting_approval" <=> n > 0 /\ line.steps[n].status = "blocked"
        /\ line.status = "failed" <=> n > 0 /\ line.steps[n].status = "failed"

\* The lines of a run are a history: each repeats the steps of the one before
\* and adds to them, and only the last can have left "running".
LinesAreAHistory ==
    \A i \in DOMAIN file :
        i > 1 => LET before == file[i-1]  n == Len(file[i-1].steps) IN
                 /\ before.status = "running"
                 /\ n <= Len(file[i].steps)
                 /\ \A k \in 1..n : file[i].steps[k] = before.steps[k]

\* What a completed run holds, said without the loop of RunInvestigation: the
\* phases its plan names, as many as fit in MaxSteps with one step kept for the
\* summary, in plan order, then the summary unless MaxSteps is 1.
CompletedRunFollowsPlan ==
    run.status = "completed" =>
        LET phases == BuildInvestigationPlan(request)
            room   == IF request.maxSteps > 1 THEN request.maxSteps - 1 ELSE 1
            n      == IF Len(phases) < room THEN Len(phases) ELSE room
            tools  == SubSeq(phases, 1, n) \o (IF request.maxSteps > 1 THEN <<"explain">> ELSE <<>>)
        IN  [k \in 1..Len(run.steps) |-> run.steps[k].tool] = tools

\* Once the call has returned, the stored run is no longer "running".
ReturnedRunIsSettled == pc = "returned" /\ Stored => View(file).status # "running"
=============================================================================
