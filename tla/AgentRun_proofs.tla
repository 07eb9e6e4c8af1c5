--------------------------- MODULE AgentRun_proofs ---------------------------
(***************************************************************************)
(* Proofs about AgentRun, for any requests, policies and clock, and about  *)
(* GatedRun, for any tenants.                                              *)
(***************************************************************************)
EXTENDS GatedRun, TLAPS, SequenceTheorems

-----------------------------------------------------------------------------
(* Types *)

\* NormalizeMaxSteps keeps what is asked for within 1..maxHarnessSteps.
LEMMA MaxStepsRange == ASSUME NEW n \in Int PROVE NormalizeMaxSteps(n) \in 1..MaxHarnessSteps
BY DEF NormalizeMaxSteps, MaxHarnessSteps, DefaultMaxSteps

\* Every plan is a sequence of phases.
LEMMA PlanType == ASSUME NEW r \in RequestShape PROVE BuildInvestigationPlan(r) \in Seq(Phases)
<1>1. \A p \in Phases : OrderedAvailablePhases(r, p) \in Seq(Phases)
  BY DEF OrderedAvailablePhases
<1>2. {"retrieve", "access", "sessions"} \subseteq Phases
  BY DEF Phases
<1> DEFINE ret == OrderedAvailablePhases(r, "retrieve")
           acc == OrderedAvailablePhases(r, "access")
           ses == OrderedAvailablePhases(r, "sessions")
<1>3. ret \in Seq(Phases) /\ acc \in Seq(Phases) /\ ses \in Seq(Phases)
  BY <1>1, <1>2
<1>4. <<"retrieve">> \in Seq(Phases)
  BY <1>2
<1> HIDE DEF ret, acc, ses
<1>5. ses \o acc \in Seq(Phases) /\ (ret \o acc) \o ses \in Seq(Phases)
  BY <1>3
<1> QED
  BY <1>3, <1>4, <1>5 DEF BuildInvestigationPlan, ret, acc, ses

\* A phase is entered only with a plan and a budget left; this makes TypeOK
\* inductive, for PersistPhase takes the head of the plan and one off the
\* budget.
TypeInv == TypeOK /\ (pc = "persist" => plan # <<>> /\ budget # 0)

\* An append of the record to the store, or none, keeps the file typed.
LEMMA UpsertType ==
    ASSUME TypeOK, NEW record \in Record, UpsertOK(record) \/ UpsertErr
    PROVE  file' \in Seq(Record)
BY DEF TypeOK, UpsertOK, UpsertErr

\* The record of a completed tool call.
LEMMA StepCompletedType ==
    ASSUME TypeOK, NEW tool \in Tools, StepCompleted(tool)
    PROVE  clock' \in Int /\ run' \in Record
<1>1. PICK d \in Ticks : /\ clock' = clock + d
                         /\ run' = [run EXCEPT !.steps = Append(@, [tool |-> tool, status |-> "completed"]),
                                               !.updatedAt = clock']
  BY DEF StepCompleted
<1>2. clock' \in Int
  BY <1>1, ConstantsAssumption DEF TypeOK
<1>3. run.steps \in Seq(Step) /\ [tool |-> tool, status |-> "completed"] \in Step
  BY DEF TypeOK, Record, Step
<1>4. Append(run.steps, [tool |-> tool, status |-> "completed"]) \in Seq(Step)
  BY <1>3
<1>5. run' = [status |-> run.status,
              steps |-> Append(run.steps, [tool |-> tool, status |-> "completed"]),
              updatedAt |-> clock', completedAt |-> run.completedAt]
  BY <1>1 DEF TypeOK, Record
<1> QED
  BY <1>2, <1>4, <1>5 DEF TypeOK, Record

\* The type invariant holds when the call arrives.
LEMMA TypeInit == Init => TypeInv
<1> SUFFICES ASSUME Init PROVE TypeInv
  OBVIOUS
<1>1. run \in Record
  BY ConstantsAssumption DEF Init, NewRun, Record, Statuses, NoTime
<1>2. failure \in [tool : Tools, kind : Verdicts \cup {"none"}]
  BY DEF Init, NoFailure, Tools, Phases
<1>3. request \in RequestShape /\ policy \in [Tools -> Verdicts]
  BY ConstantsAssumption DEF Init
<1>4. clock \in Int /\ budget \in 0..MaxHarnessSteps
  BY ConstantsAssumption DEF Init, MaxHarnessSteps
<1>5. plan \in Seq(Phases) /\ file \in Seq(Record)
  <2>1. <<>> \in Seq(Phases) /\ <<>> \in Seq(Record)
    OBVIOUS
  <2> QED
    BY <2>1 DEF Init
<1>6. /\ ctxDone \in BOOLEAN
      /\ pc \in {"new", "create", "phase", "persist", "complete", "fail", "returned", "crashed"}
      /\ result \in {"none", "ok", "error"}
      /\ pc # "persist"
  BY DEF Init
<1> QED
  BY <1>1, <1>2, <1>3, <1>4, <1>5, <1>6 DEF TypeInv, TypeOK

\* Every action keeps the type invariant.
LEMMA TypeStep == TypeInv /\ [Next]_vars => TypeInv'
<1> SUFFICES ASSUME TypeInv, [Next]_vars PROVE TypeInv'
  OBVIOUS
<1> USE DEF TypeInv
<1>1. CASE StartRun
  <2>1. CASE RequestAccepted(request) /\ pc' = "create"
    <3>1. PICK d \in Ticks : clock' = clock + d /\ run' = NewRun(clock')
      BY <1>1, <2>1 DEF StartRun, Return
    <3>2. clock' \in Int
      BY <3>1, ConstantsAssumption DEF TypeOK
    <3>3. run' \in Record
      BY <3>1, <3>2 DEF NewRun, Record, Statuses, NoTime
    <3>4. request' = [request EXCEPT !.maxSteps = NormalizeMaxSteps(request.maxSteps)]
      BY <1>1, <2>1 DEF StartRun, Return
    <3>5. request' \in RequestShape /\ request'.maxSteps \in 1..MaxHarnessSteps
      BY <3>4, MaxStepsRange DEF TypeOK, RequestShape, MaxHarnessSteps
    <3>6. plan' \in Seq(Phases)
      BY <1>1, <2>1, PlanType DEF StartRun, Return, TypeOK
    <3>7. budget' \in 0..MaxHarnessSteps
      BY <1>1, <2>1, <3>5 DEF StartRun, Return, RunSummary, MaxHarnessSteps
    <3> QED
      BY <1>1, <2>1, <3>2, <3>3, <3>5, <3>6, <3>7 DEF StartRun, Return, TypeOK
  <2>2. CASE Return("error") /\ UNCHANGED <<request, clock, plan, budget, run>>
    BY <1>1, <2>2 DEF StartRun, Return, TypeOK
  <2> QED
    BY <1>1, <2>1, <2>2 DEF StartRun
<1>2. CASE CreateRun
  <2>1. file' \in Seq(Record)
    BY <1>2, UpsertType DEF CreateRun, TypeOK
  <2> QED
    BY <1>2, <2>1 DEF CreateRun, Return, TypeOK
<1>3. CASE RunPhase
  <2>1. Head(plan) \in Phases
    BY <1>3 DEF RunPhase, TypeOK
  <2>2. PICK outcome \in PhaseOutcomes(Head(plan)) :
          \/ outcome = "ok" /\ StepCompleted(Head(plan)) /\ pc' = "persist" /\ UNCHANGED failure
          \/ outcome # "ok" /\ StepRefused(Head(plan), outcome)
    BY <1>3 DEF RunPhase
  <2>3. outcome # "ok" => outcome \in Verdicts
    BY <2>1, <2>2 DEF PhaseOutcomes, TypeOK, Verdicts, Tools
  <2>4. CASE outcome = "ok"
    BY <1>3, <2>1, <2>2, <2>4, StepCompletedType DEF RunPhase, TypeOK, Tools
  <2>5. CASE outcome # "ok"
    BY <1>3, <2>1, <2>2, <2>3, <2>5 DEF RunPhase, StepRefused, TypeOK, Tools
  <2> QED
    BY <2>4, <2>5
<1>4. CASE PersistPhase
  <2>1. file' \in Seq(Record)
    BY <1>4, UpsertType DEF PersistPhase, TypeOK
  <2>2. plan' \in Seq(Phases) /\ budget' \in 0..MaxHarnessSteps
    <3>1. plan # <<>> /\ Tail(plan) \in Seq(Phases)
      BY <1>4, HeadTailProperties DEF PersistPhase, TypeOK
    <3>2. budget \in 0..MaxHarnessSteps /\ budget # 0
      BY <1>4 DEF PersistPhase, TypeOK
    <3>3. CASE plan' = Tail(plan) /\ budget' = budget - 1
      BY <3>1, <3>2, <3>3 DEF MaxHarnessSteps
    <3>4. CASE UNCHANGED <<plan, budget>>
      BY <3>4 DEF TypeOK
    <3> QED
      BY <1>4, <3>3, <3>4 DEF PersistPhase
  <2> QED
    BY <1>4, <2>1, <2>2 DEF PersistPhase, Return, TypeOK
<1>5. CASE RunSummaryStep
  <2>1. CASE policy["explain"] = "allow"
    BY <1>5, <2>1, StepCompletedType DEF RunSummaryStep, TypeOK, Tools
  <2>2. CASE policy["explain"] # "allow"
    BY <1>5, <2>2 DEF RunSummaryStep, StepRefused, TypeOK, Tools
  <2> QED
    BY <2>1, <2>2
<1>6. CASE CompleteRun
  <2>1. clock' \in Int /\ run' \in Record
    <3>1. PICK d \in Ticks :
            /\ clock' = clock + d
            /\ run' = [run EXCEPT !.status = "completed", !.updatedAt = clock', !.completedAt = clock']
      BY <1>6 DEF CompleteRun
    <3>2. clock' \in Int
      BY <3>1, ConstantsAssumption DEF TypeOK
    <3>3. run' = [status |-> "completed", steps |-> run.steps,
                  updatedAt |-> clock', completedAt |-> clock']
      BY <3>1 DEF TypeOK, Record
    <3> QED
      BY <3>2, <3>3 DEF TypeOK, Record, Statuses
  <2>2. file' \in Seq(Record)
    BY <1>6, <2>1, UpsertType DEF CompleteRun
  <2> QED
    BY <1>6, <2>1, <2>2 DEF CompleteRun, Return, TypeOK
<1>7. CASE FinishRunWithError
  <2>1. clock' \in Int
    BY <1>7, ConstantsAssumption DEF FinishRunWithError, TypeOK
  <2>2. \A s \in {"blocked", "failed"} :
          Append(run.steps, [tool |-> failure.tool, status |-> s]) \in Seq(Step)
    BY DEF TypeOK, Record, Step
  <2>3. run' \in Record
    BY <1>7, <2>1, <2>2 DEF FinishRunWithError, TypeOK, Record, Statuses
  <2>4. file' \in Seq(Record)
    BY <1>7, <2>3, UpsertType DEF FinishRunWithError
  <2> QED
    BY <1>7, <2>1, <2>3, <2>4 DEF FinishRunWithError, Return, TypeOK
<1>8. CASE CtxEnds
  BY <1>8 DEF CtxEnds, TypeOK
<1>9. CASE Crash
  BY <1>9 DEF Crash, TypeOK
<1>10. CASE UNCHANGED vars
  BY <1>10 DEF vars, TypeOK
<1> QED
  BY <1>1, <1>2, <1>3, <1>4, <1>5, <1>6, <1>7, <1>8, <1>9, <1>10 DEF Next, RunInvestigation

\* The type invariant of AgentRun, for every request and policy.
THEOREM TypeCorrect == Spec => []TypeOK
<1>1. TypeInv => TypeOK
  BY DEF TypeInv
<1> QED
  BY TypeInit, TypeStep, <1>1, PTL DEF Spec
-----------------------------------------------------------------------------
(* The history of a run *)

Active == pc \notin {"returned", "crashed"}

\* RefusalEndsRun and LinesAreAHistory, said of one line and of two.
Sound(line, p) ==
    LET n == Len(line.steps) IN
        /\ \A k \in 1..n :
              /\ k < n => line.steps[k].status = "completed"
              /\ line.steps[k].status = "completed" => p[line.steps[k].tool] = "allow"
        /\ line.status = "awaiting_approval" <=> n > 0 /\ line.steps[n].status = "blocked"
        /\ line.status = "failed" <=> n > 0 /\ line.steps[n].status = "failed"

AllAllowed(line, p) ==
    \A k \in 1..Len(line.steps) :
        line.steps[k].status = "completed" /\ p[line.steps[k].tool] = "allow"

Continues(before, after) ==
    /\ Len(before.steps) <= Len(after.steps)
    /\ \A k \in 1..Len(before.steps) : after.steps[k] = before.steps[k]

\* As long as the call is under way nothing in memory or in the store has left
\* "running", and the record in memory is ahead of the last line.
ActiveInv ==
    Active =>
        /\ run.status = "running" /\ run.completedAt = NoTime
        /\ AllAllowed(run, policy)
        /\ result = "none"
        /\ \A i \in 1..Len(file) : file[i].status = "running" /\ file[i].completedAt = NoTime
        /\ Stored => Continues(LastLine, run)
        /\ pc \in {"new", "create"} => file = <<>>

LinesInv ==
    /\ \A i \in 1..Len(file) : Sound(file[i], policy)
    /\ \A i \in 2..Len(file) : file[i-1].status = "running" /\ Continues(file[i-1], file[i])

HistoryInv == TypeInv /\ ActiveInv /\ LinesInv

\* A record whose steps were all allowed is sound unless its status says
\* otherwise.
LEMMA AllowedIsSound ==
    ASSUME NEW r \in Record, NEW p, AllAllowed(r, p), r.status \in {"running", "completed"}
    PROVE  Sound(r, p)
BY DEF AllAllowed, Sound, Record, Step

\* A completed tool call keeps the record running, allowed and ahead of what
\* is stored.
LEMMA StepCompletedHistory ==
    ASSUME HistoryInv, Active, NEW tool \in Tools, policy[tool] = "allow",
           StepCompleted(tool), UNCHANGED <<policy, file, result>>,
           pc' \in {"persist", "complete"}
    PROVE  ActiveInv' /\ LinesInv'
<1>1. PICK d \in Ticks :
        run' = [run EXCEPT !.steps = Append(@, [tool |-> tool, status |-> "completed"]),
                           !.updatedAt = clock']
  BY DEF StepCompleted
<1>2. /\ run'.status = run.status /\ run'.completedAt = run.completedAt
      /\ run'.steps = Append(run.steps, [tool |-> tool, status |-> "completed"])
  BY <1>1 DEF HistoryInv, TypeInv, TypeOK, Record
<1>3. run.steps \in Seq(Step)
  BY DEF HistoryInv, TypeInv, TypeOK, Record
<1>4. /\ Len(run'.steps) = Len(run.steps) + 1 /\ Len(run.steps) \in Nat
      /\ \A k \in 1..Len(run.steps) : run'.steps[k] = run.steps[k]
      /\ run'.steps[Len(run.steps) + 1] = [tool |-> tool, status |-> "completed"]
  BY <1>2, <1>3
<1>5. AllAllowed(run, policy)
  BY DEF HistoryInv, ActiveInv
<1>6. AllAllowed(run', policy')
  BY <1>4, <1>5 DEF AllAllowed
<1>7. ASSUME Stored PROVE Continues(LastLine, run')
  <2>1. LastLine \in Record
    BY <1>7 DEF HistoryInv, TypeInv, TypeOK, Stored, LastLine
  <2>2. Len(LastLine.steps) \in Nat
    BY <2>1 DEF Record
  <2>3. Continues(LastLine, run)
    BY <1>7 DEF HistoryInv, ActiveInv
  <2> QED
    BY <1>4, <2>2, <2>3 DEF Continues
<1>8. ActiveInv'
  BY <1>2, <1>6, <1>7 DEF HistoryInv, ActiveInv, Active, Stored, LastLine
<1>9. LinesInv'
  BY DEF HistoryInv, LinesInv
<1> QED
  BY <1>8, <1>9

\* A sound record that continues the one in memory continues the file.
LEMMA UpsertHistory ==
    ASSUME HistoryInv, Active, NEW record \in Record, Sound(record, policy),
           Continues(run, record), UNCHANGED policy,
           UpsertOK(record) \/ UpsertErr
    PROVE  LinesInv'
<1>1. CASE UpsertErr
  BY <1>1 DEF UpsertErr, HistoryInv, LinesInv
<1>2. CASE UpsertOK(record)
  <2>1. file \in Seq(Record) /\ file' = Append(file, record)
    BY <1>2 DEF UpsertOK, HistoryInv, TypeInv, TypeOK
  <2>2. /\ Len(file) \in Nat /\ Len(file') = Len(file) + 1
        /\ \A i \in 1..Len(file) : file'[i] = file[i]
        /\ file'[Len(file) + 1] = record
    BY <2>1
  <2>3. \A i \in 1..Len(file') : Sound(file'[i], policy')
    BY <2>2 DEF HistoryInv, LinesInv
  <2>4. \A i \in 2..Len(file) : file'[i-1].status = "running" /\ Continues(file'[i-1], file'[i])
    <3> SUFFICES ASSUME NEW i \in 2..Len(file)
                 PROVE  file'[i-1].status = "running" /\ Continues(file'[i-1], file'[i])
      OBVIOUS
    <3>1. file'[i-1] = file[i-1] /\ file'[i] = file[i]
      BY <2>2
    <3> QED
      BY <3>1 DEF HistoryInv, LinesInv
  <2>5. ASSUME Len(file) > 0
        PROVE  file'[Len(file)].status = "running" /\ Continues(file'[Len(file)], record)
    <3>1. file'[Len(file)] = LastLine /\ LastLine \in Record /\ Stored
      BY <2>1, <2>2, <2>5 DEF LastLine, Stored
    <3>2. LastLine.status = "running" /\ Continues(LastLine, run)
      BY <2>2, <2>5, <3>1 DEF HistoryInv, ActiveInv, LastLine
    <3>3. /\ Len(LastLine.steps) \in Nat /\ Len(run.steps) \in Nat /\ Len(record.steps) \in Nat
      BY <3>1 DEF Record, HistoryInv, TypeInv, TypeOK
    <3>4. Continues(LastLine, record)
      BY <3>2, <3>3 DEF Continues
    <3> QED
      BY <3>1, <3>2, <3>4
  <2>6. \A i \in 2..Len(file') : file'[i-1].status = "running" /\ Continues(file'[i-1], file'[i])
    <3> SUFFICES ASSUME NEW i \in 2..Len(file')
                 PROVE  file'[i-1].status = "running" /\ Continues(file'[i-1], file'[i])
      OBVIOUS
    <3>1. CASE i \in 2..Len(file)
      BY <2>4, <3>1
    <3>2. CASE i = Len(file) + 1
      BY <2>2, <2>5, <3>2
    <3> QED
      BY <2>2, <3>1, <3>2
  <2> QED
    BY <2>3, <2>6 DEF LinesInv
<1> QED
  BY <1>1, <1>2

\* The history invariant holds when the call arrives.
LEMMA HistoryInit == Init => HistoryInv
<1> SUFFICES ASSUME Init PROVE HistoryInv
  OBVIOUS
<1>1. TypeInv
  BY TypeInit
<1>2. run.status = "running" /\ run.completedAt = NoTime /\ run.steps = <<>>
  BY DEF Init, NewRun
<1>3. Len(file) = 0 /\ Len(run.steps) = 0
  BY <1>2 DEF Init
<1> QED
  BY <1>1, <1>2, <1>3 DEF Init, HistoryInv, ActiveInv, LinesInv, AllAllowed, Stored

\* Every action keeps the history invariant.
LEMMA HistoryStep == HistoryInv /\ [Next]_vars => HistoryInv'
<1> SUFFICES ASSUME HistoryInv, [Next]_vars PROVE ActiveInv' /\ LinesInv'
  BY TypeStep DEF HistoryInv
<1>r. /\ run \in Record /\ run.steps \in Seq(Step) /\ Len(run.steps) \in Nat
      /\ file \in Seq(Record) /\ policy \in [Tools -> Verdicts]
  BY DEF HistoryInv, TypeInv, TypeOK, Record
<1>c. Continues(run, run)
  BY <1>r DEF Continues
<1>1. CASE StartRun
  <2>1. Active /\ file = <<>> /\ result = "none" /\ UNCHANGED <<policy, file>>
    BY <1>1 DEF StartRun, HistoryInv, ActiveInv, Active
  <2>2. CASE RequestAccepted(request) /\ pc' = "create"
    <3>1. \E now : run' = NewRun(now)
      BY <1>1, <2>2 DEF StartRun, Return
    <3>2. run'.status = "running" /\ run'.completedAt = NoTime /\ run'.steps = <<>>
      BY <3>1 DEF NewRun
    <3>3. UNCHANGED result
      BY <1>1, <2>2 DEF StartRun, Return
    <3>4. Len(run'.steps) = 0 /\ Len(file) = 0
      BY <2>1, <3>2
    <3> QED
      BY <2>1, <2>2, <3>2, <3>3, <3>4 DEF HistoryInv, ActiveInv, LinesInv, AllAllowed, Stored
  <2>3. CASE Return("error")
    BY <2>1, <2>3 DEF Return, HistoryInv, ActiveInv, LinesInv, Active
  <2> QED
    BY <1>1, <2>2, <2>3 DEF StartRun
<1>2. CASE CreateRun
  <2>1. Active /\ UNCHANGED <<policy, run>>
    BY <1>2 DEF CreateRun, Active
  <2>2. Sound(run, policy)
    BY <1>r, <2>1, AllowedIsSound DEF HistoryInv, ActiveInv
  <2>3. LinesInv'
    BY <1>2, <1>r, <1>c, <2>1, <2>2, UpsertHistory DEF CreateRun
  <2>4. CASE UpsertOK(run) /\ pc' = "phase" /\ UNCHANGED result
    <3>1. file' = Append(file, run)
      BY <2>4 DEF UpsertOK
    <3>2. /\ Len(file) \in Nat /\ Len(file') = Len(file) + 1
          /\ \A i \in 1..Len(file) : file'[i] = file[i]
          /\ file'[Len(file) + 1] = run
      BY <1>r, <3>1
    <3> QED
      BY <1>c, <2>1, <2>3, <2>4, <3>2 DEF HistoryInv, ActiveInv, LastLine, Stored
  <2>5. CASE Return("error")
    BY <2>3, <2>5 DEF Return, ActiveInv, Active
  <2> QED
    BY <1>2, <2>4, <2>5 DEF CreateRun
<1>3. CASE RunPhase
  <2>1. Head(plan) \in Phases /\ Head(plan) \in Tools
    BY <1>3 DEF RunPhase, HistoryInv, TypeInv, TypeOK, Tools
  <2>2. /\ Active /\ UNCHANGED <<policy, file, result>>
    BY <1>3 DEF RunPhase, Active
  <2>3. PICK outcome \in PhaseOutcomes(Head(plan)) :
          \/ outcome = "ok" /\ StepCompleted(Head(plan)) /\ pc' = "persist"
          \/ outcome # "ok" /\ StepRefused(Head(plan), outcome)
    BY <1>3 DEF RunPhase
  <2>4. CASE outcome = "ok"
    <3>1. policy[Head(plan)] = "allow"
      BY <1>r, <2>1, <2>3, <2>4 DEF PhaseOutcomes, Verdicts
    <3> QED
      BY <2>1, <2>2, <2>3, <2>4, <3>1, StepCompletedHistory
  <2>5. CASE outcome # "ok"
    BY <2>2, <2>3, <2>5 DEF StepRefused, HistoryInv, ActiveInv, LinesInv, Active, Stored, LastLine
  <2> QED
    BY <2>4, <2>5
<1>4. CASE PersistPhase
  <2>1. Active /\ UNCHANGED <<policy, run>>
    BY <1>4 DEF PersistPhase, Active
  <2>2. Sound(run, policy)
    BY <1>r, <2>1, AllowedIsSound DEF HistoryInv, ActiveInv
  <2>3. LinesInv'
    BY <1>4, <1>r, <1>c, <2>1, <2>2, UpsertHistory DEF PersistPhase
  <2>4. CASE UpsertOK(run) /\ pc' = "phase" /\ UNCHANGED result
    <3>1. file' = Append(file, run)
      BY <2>4 DEF UpsertOK
    <3>2. /\ Len(file) \in Nat /\ Len(file') = Len(file) + 1
          /\ \A i \in 1..Len(file) : file'[i] = file[i]
          /\ file'[Len(file) + 1] = run
      BY <1>r, <3>1
    <3> QED
      BY <1>c, <2>1, <2>3, <2>4, <3>2 DEF HistoryInv, ActiveInv, LastLine, Stored
  <2>5. CASE Return("error")
    BY <2>3, <2>5 DEF Return, ActiveInv, Active
  <2> QED
    BY <1>4, <2>4, <2>5 DEF PersistPhase
<1>5. CASE RunSummaryStep
  <2>1. Active /\ UNCHANGED <<policy, file, result>> /\ "explain" \in Tools
    BY <1>5 DEF RunSummaryStep, PhasesDone, Active, Tools
  <2>2. CASE policy["explain"] = "allow"
    BY <1>5, <2>1, <2>2, StepCompletedHistory DEF RunSummaryStep
  <2>3. CASE policy["explain"] # "allow"
    BY <1>5, <2>1, <2>3 DEF RunSummaryStep, StepRefused, HistoryInv, ActiveInv, LinesInv,
                            Active, Stored, LastLine
  <2> QED
    BY <2>2, <2>3
<1>6. CASE CompleteRun
  <2>1. Active /\ UNCHANGED policy /\ ~Active'
    BY <1>6 DEF CompleteRun, PhasesDone, Active, Return
  <2>2. run'.status = "completed" /\ run'.steps = run.steps
    BY <1>6, <1>r DEF CompleteRun, Record
  <2>3. run' \in Record
    BY TypeStep DEF HistoryInv, TypeInv, TypeOK
  <2>4. Sound(run', policy) /\ Continues(run, run')
    <3>1. AllAllowed(run', policy)
      BY <2>1, <2>2 DEF HistoryInv, ActiveInv, AllAllowed
    <3> QED
      BY <1>r, <2>2, <2>3, <3>1, AllowedIsSound DEF Continues
  <2>5. LinesInv'
    BY <1>6, <2>1, <2>3, <2>4, UpsertHistory DEF CompleteRun
  <2> QED
    BY <2>1, <2>5 DEF ActiveInv
<1>7. CASE FinishRunWithError
  <2> DEFINE approval == failure.kind = "require_approval"
             refused == [tool |-> failure.tool, status |-> IF approval THEN "blocked" ELSE "failed"]
  <2>1. Active /\ UNCHANGED policy /\ ~Active'
    BY <1>7 DEF FinishRunWithError, Active, Return
  <2>2. /\ run'.status = IF approval THEN "awaiting_approval" ELSE "failed"
        /\ run'.steps = Append(run.steps, refused)
    BY <1>7 DEF FinishRunWithError
  <2>3. run' \in Record
    BY TypeStep DEF HistoryInv, TypeInv, TypeOK
  <2>4. refused \in Step
    BY DEF HistoryInv, TypeInv, TypeOK, Step
  <2>5. /\ Len(run'.steps) = Len(run.steps) + 1
        /\ \A k \in 1..Len(run.steps) : run'.steps[k] = run.steps[k]
        /\ run'.steps[Len(run.steps) + 1] = refused
    BY <1>r, <2>2, <2>4
  <2>6. AllAllowed(run, policy)
    BY <2>1 DEF HistoryInv, ActiveInv
  <2>7. Sound(run', policy) /\ Continues(run, run')
    BY <1>r, <2>2, <2>5, <2>6 DEF Sound, Continues, AllAllowed
  <2>8. LinesInv'
    BY <1>7, <2>1, <2>3, <2>7, UpsertHistory DEF FinishRunWithError
  <2> QED
    BY <2>1, <2>8 DEF ActiveInv
<1>8. CASE CtxEnds
  BY <1>8 DEF CtxEnds, HistoryInv, ActiveInv, LinesInv, Active, Stored, LastLine
<1>9. CASE Crash
  BY <1>9 DEF Crash, HistoryInv, ActiveInv, LinesInv, Active
<1>10. CASE UNCHANGED vars
  BY <1>10 DEF vars, HistoryInv, ActiveInv, LinesInv, Active, Stored, LastLine
<1> QED
  BY <1>1, <1>2, <1>3, <1>4, <1>5, <1>6, <1>7, <1>8, <1>9, <1>10 DEF Next, RunInvestigation

\* The history invariant, of which the two properties below are parts.
THEOREM History == Spec => []HistoryInv
BY HistoryInit, HistoryStep, PTL DEF Spec

\* No tool runs after the policy or an error stopped one, and the status saved
\* is the one the steps call for, whatever the policy and the plan.
THEOREM RefusalEndsRunCorrect == Spec => []RefusalEndsRun
<1>1. HistoryInv => RefusalEndsRun
  BY DEF HistoryInv, TypeInv, TypeOK, LinesInv, Sound, RefusalEndsRun
<1> QED
  BY <1>1, History, PTL

\* Saved lines only ever add steps, and nothing is saved after a final status.
THEOREM LinesAreAHistoryCorrect == Spec => []LinesAreAHistory
<1>1. HistoryInv => LinesAreAHistory
  BY DEF HistoryInv, TypeInv, TypeOK, LinesInv, Continues, LinesAreAHistory
<1> QED
  BY <1>1, History, PTL

-----------------------------------------------------------------------------
(* What Get returns *)

\* The line View chooses: no line is Later, and it is Later than those before.
FirstLatest(lines, i) ==
    \A j \in DOMAIN lines : /\ ~Later(lines[j], lines[i])
                            /\ j < i => Later(lines[i], lines[j])

\* Later orders any three records like their two times do.
LEMMA LaterIsOrder ==
    ASSUME NEW a \in Record, NEW b \in Record, NEW c \in Record
    PROVE  /\ ~Later(a, a)
           /\ Later(a, b) => ~Later(b, a)
           /\ ~Later(a, b) /\ Later(c, b) => ~Later(a, c) /\ Later(c, a)
BY DEF Later, Record

\* One more line leaves a line to choose.
LEMMA LatestOfAppend ==
    ASSUME NEW lines \in Seq(Record), NEW r \in Record,
           lines = <<>> \/ \E i \in DOMAIN lines : FirstLatest(lines, i)
    PROVE  \E i \in DOMAIN Append(lines, r) : FirstLatest(Append(lines, r), i)
<1> DEFINE more == Append(lines, r)
           n == Len(lines)
<1>1. /\ n \in Nat /\ DOMAIN lines = 1..n /\ DOMAIN more = 1..(n + 1)
      /\ \A j \in 1..n : more[j] = lines[j] /\ lines[j] \in Record
      /\ more[n + 1] = r
  OBVIOUS
<1> HIDE DEF more, n
<1>2. CASE lines = <<>>
  <2>1. n = 0
    BY <1>2 DEF n
  <2>2. FirstLatest(more, 1)
    BY <1>1, <2>1, LaterIsOrder DEF FirstLatest
  <2> QED
    BY <1>1, <2>1, <2>2 DEF more
<1>3. ASSUME NEW i \in 1..n, FirstLatest(lines, i)
      PROVE  \E k \in DOMAIN more : FirstLatest(more, k)
  <2>1. CASE Later(r, lines[i])
    <3>1. \A j \in 1..n : ~Later(lines[j], r) /\ Later(r, lines[j])
      BY <1>1, <1>3, <2>1, LaterIsOrder DEF FirstLatest
    <3>2. FirstLatest(more, n + 1)
      BY <1>1, <3>1, LaterIsOrder DEF FirstLatest
    <3> QED
      BY <1>1, <3>2
  <2>2. CASE ~Later(r, lines[i])
    <3>1. FirstLatest(more, i)
      BY <1>1, <1>3, <2>2 DEF FirstLatest
    <3> QED
      BY <1>1, <3>1
  <2> QED
    BY <2>1, <2>2
<1> QED
  BY <1>1, <1>2, <1>3 DEF more

\* When the last line is Later than every other, it is what Get returns.
LEMMA ViewIsLast ==
    ASSUME NEW lines \in Seq(Record), lines # <<>>,
           \A j \in 1..(Len(lines) - 1) : Later(lines[Len(lines)], lines[j])
    PROVE  View(lines) = lines[Len(lines)]
<1> DEFINE n == Len(lines)
<1>1. n \in Nat \ {0} /\ DOMAIN lines = 1..n /\ \A j \in 1..n : lines[j] \in Record
  OBVIOUS
<1> HIDE DEF n
<1>2. \A j \in 1..n : ~Later(lines[j], lines[n])
  <2> SUFFICES ASSUME NEW j \in 1..n PROVE ~Later(lines[j], lines[n])
    OBVIOUS
  <2>1. CASE j = n
    BY <1>1, <2>1, LaterIsOrder
  <2>2. CASE j # n
    <3>1. j \in 1..(n - 1)
      BY <1>1, <2>2
    <3>2. Later(lines[n], lines[j])
      BY <3>1 DEF n
    <3> QED
      BY <1>1, <3>2, LaterIsOrder
  <2> QED
    BY <2>1, <2>2
<1>3. FirstLatest(lines, n)
  BY <1>1, <1>2 DEF FirstLatest, n
<1>4. \A i \in DOMAIN lines : FirstLatest(lines, i) => i = n
  <2> SUFFICES ASSUME NEW i \in 1..n, FirstLatest(lines, i), i # n PROVE FALSE
    BY <1>1
  <2>1. i \in 1..(n - 1)
    BY <1>1
  <2>2. Later(lines[n], lines[i])
    BY <2>1 DEF n
  <2>3. ~Later(lines[n], lines[i])
    BY <1>1 DEF FirstLatest
  <2> QED
    BY <2>2, <2>3
<1>5. (CHOOSE i \in DOMAIN lines : FirstLatest(lines, i)) = n
  BY <1>1, <1>3, <1>4
<1> QED
  BY <1>5 DEF View, FirstLatest, n

\* Get has a line to return, and only a call that is over can have it final.
ViewInv == HistoryInv /\ (Stored => \E i \in DOMAIN file : FirstLatest(file, i))

\* A step leaves the file alone or appends a record to it.
LEMMA FileStep ==
    ASSUME HistoryInv, [Next]_vars
    PROVE  \/ file' = file
           \/ Active /\ \E r \in Record : file' = Append(file, r)
<1>1. run \in Record /\ run' \in Record
  BY TypeStep DEF HistoryInv, TypeInv, TypeOK
<1>2. CASE CreateRun
  BY <1>1, <1>2 DEF CreateRun, UpsertOK, UpsertErr, Active
<1>3. CASE PersistPhase
  BY <1>1, <1>3 DEF PersistPhase, UpsertOK, UpsertErr, Active
<1>4. CASE CompleteRun
  <2>1. Active /\ (UpsertOK(run') \/ UpsertErr)
    BY <1>4 DEF CompleteRun, PhasesDone, Active
  <2> QED
    BY <1>1, <2>1 DEF UpsertOK, UpsertErr
<1>5. CASE FinishRunWithError
  <2>1. Active /\ (UpsertOK(run') \/ UpsertErr)
    BY <1>5 DEF FinishRunWithError, Active
  <2> QED
    BY <1>1, <2>1 DEF UpsertOK, UpsertErr
<1>6. CASE StartRun
  BY <1>6 DEF StartRun
<1>7. CASE RunPhase
  BY <1>7 DEF RunPhase
<1>8. CASE RunSummaryStep
  BY <1>8 DEF RunSummaryStep
<1>9. CASE CtxEnds
  BY <1>9 DEF CtxEnds
<1>10. CASE Crash
  BY <1>10 DEF Crash
<1>11. CASE UNCHANGED vars
  BY <1>11 DEF vars
<1> QED
  BY <1>2, <1>3, <1>4, <1>5, <1>6, <1>7, <1>8, <1>9, <1>10, <1>11 DEF Next, RunInvestigation

\* Get always has a line to return.
THEOREM ViewDefined == Spec => []ViewInv
<1>1. Init => ViewInv
  BY HistoryInit DEF Init, ViewInv, Stored
<1>2. ViewInv /\ [Next]_vars => ViewInv'
  <2> SUFFICES ASSUME ViewInv, [Next]_vars PROVE ViewInv'
    OBVIOUS
  <2>1. HistoryInv'
    BY HistoryStep DEF ViewInv
  <2>2. CASE file' = file
    BY <2>1, <2>2 DEF ViewInv, Stored
  <2>3. ASSUME NEW r \in Record, file' = Append(file, r) PROVE ViewInv'
    <3>1. file \in Seq(Record)
      BY DEF ViewInv, HistoryInv, TypeInv, TypeOK
    <3>2. \E i \in DOMAIN file' : FirstLatest(file', i)
      BY <2>3, <3>1, LatestOfAppend DEF ViewInv, Stored
    <3> QED
      BY <2>1, <3>2 DEF ViewInv
  <2> QED
    BY <2>2, <2>3, FileStep DEF ViewInv
<1> QED
  BY <1>1, <1>2, PTL DEF Spec

\* A run once seen completed or failed stays as it is, however the clock moves.
THEOREM SettledIsFinalCorrect == Spec => SettledIsFinal
<1>1. ViewInv /\ [Next]_vars =>
        (Stored /\ View(file).status \in SettledStatuses => View(file') = View(file))
  <2> SUFFICES ASSUME ViewInv, [Next]_vars, Stored, View(file).status \in SettledStatuses
               PROVE  View(file') = View(file)
    OBVIOUS
  <2>1. PICK i \in DOMAIN file : FirstLatest(file, i)
    BY DEF ViewInv
  <2>2. \E k \in DOMAIN file : View(file) = file[k]
    BY <2>1 DEF View, FirstLatest
  <2>3. DOMAIN file = 1..Len(file)
    BY DEF ViewInv, HistoryInv, TypeInv, TypeOK
  <2>4. ~Active
    BY <2>2, <2>3 DEF ViewInv, HistoryInv, ActiveInv, SettledStatuses
  <2>5. file' = file
    BY <2>4, FileStep DEF ViewInv
  <2> QED
    BY <2>5
<1> QED
  BY <1>1, ViewDefined, PTL DEF Spec, SettledIsFinal

-----------------------------------------------------------------------------
(* On a clock that does not step back *)

\* No line is stamped after the last reading, and a last line with a
\* CompletedAt is Later than the others.
LinesClock ==
    /\ \A i \in 1..Len(file) : file[i].updatedAt <= clock
    /\ Stored /\ LastLine.completedAt # NoTime =>
         \A j \in 1..(Len(file) - 1) : Later(LastLine, file[j])

ClockInv ==
    /\ HistoryInv
    /\ clock > 0 /\ run.updatedAt <= clock
    /\ LinesClock
    /\ result = "ok" => /\ Stored /\ LastLine = run
                        /\ run.status = "completed" /\ run.completedAt # NoTime

\* The types of the lines under the clock invariant.
LEMMA ClockTypes ==
    ASSUME ClockInv
    PROVE  /\ file \in Seq(Record) /\ Len(file) \in Nat /\ clock \in Int
           /\ \A i \in 1..Len(file) : /\ file[i] \in Record
                                      /\ file[i].updatedAt \in Int /\ file[i].updatedAt <= clock
<1>1. file \in Seq(Record) /\ clock \in Int
  BY DEF ClockInv, HistoryInv, TypeInv, TypeOK
<1>2. Len(file) \in Nat /\ \A i \in 1..Len(file) : file[i] \in Record
  BY <1>1
<1>3. \A i \in 1..Len(file) : file[i].updatedAt \in Int
  BY <1>2 DEF Record
<1> QED
  BY <1>1, <1>2, <1>3 DEF ClockInv, LinesClock

\* Moving the clock on keeps LinesClock.
LEMMA TickClock ==
    ASSUME ClockInv, clock' \in Int, clock <= clock', UNCHANGED file
    PROVE  LinesClock'
<1>1. \A i \in 1..Len(file) : file[i].updatedAt <= clock'
  BY ClockTypes
<1> QED
  BY <1>1 DEF ClockInv, LinesClock, Stored, LastLine

\* Saving a record keeps LinesClock, when its CompletedAt, if it has one, is
\* the reading it is saved under.
LEMMA UpsertClock ==
    ASSUME ClockInv, Active, NEW record \in Record, clock' \in Int, clock <= clock',
           record.updatedAt <= clock',
           record.completedAt # NoTime => record.updatedAt = clock' /\ record.completedAt = clock',
           UpsertOK(record) \/ UpsertErr
    PROVE  LinesClock'
<1>1. /\ file \in Seq(Record) /\ Len(file) \in Nat /\ clock \in Int
      /\ \A i \in 1..Len(file) : /\ file[i] \in Record
                                 /\ file[i].updatedAt \in Int /\ file[i].updatedAt <= clock
                                 /\ file[i].completedAt = NoTime
  BY ClockTypes DEF ClockInv, HistoryInv, ActiveInv
<1>2. CASE UpsertErr
  BY <1>2, TickClock DEF UpsertErr
<1>3. CASE UpsertOK(record)
  <2>1. /\ Len(file') = Len(file) + 1
        /\ \A i \in 1..Len(file) : file'[i] = file[i]
        /\ file'[Len(file) + 1] = record
    BY <1>1, <1>3 DEF UpsertOK
  <2>2. \A i \in 1..Len(file') : file'[i].updatedAt <= clock'
    BY <1>1, <2>1
  <2>3. ASSUME record.completedAt # NoTime, NEW j \in 1..Len(file)
        PROVE  Later(record, file[j])
    <3>1. record.updatedAt = clock' /\ record.completedAt = clock' /\ clock' > 0
      BY <1>1, <2>3 DEF ClockInv
    <3>2. file[j].updatedAt \in Int /\ file[j].updatedAt <= clock' /\ file[j].completedAt = NoTime
      BY <1>1
    <3> QED
      BY <3>1, <3>2 DEF Later, NoTime
  <2>4. LastLine' = record
    BY <2>1 DEF LastLine
  <2>5. LastLine'.completedAt # NoTime => \A j \in 1..(Len(file') - 1) : Later(LastLine', file'[j])
    BY <1>1, <2>1, <2>3, <2>4
  <2> QED
    BY <2>2, <2>5 DEF LinesClock
<1> QED
  BY <1>2, <1>3

\* The clock invariant holds when the call arrives.
LEMMA ClockInit == ASSUME ClockStart > 0 PROVE Init => ClockInv
<1> SUFFICES ASSUME Init PROVE ClockInv
  OBVIOUS
<1>1. HistoryInv
  BY HistoryInit
<1>2. clock = ClockStart /\ run.updatedAt = ClockStart /\ ClockStart \in Int
  BY ConstantsAssumption DEF Init, NewRun
<1>3. file = <<>> /\ result = "none"
  BY DEF Init
<1> QED
  BY <1>1, <1>2, <1>3 DEF ClockInv, LinesClock, Stored

\* Every action keeps the clock invariant.
LEMMA ClockStep == ASSUME Ticks \subseteq Nat PROVE ClockInv /\ [Next]_vars => ClockInv'
<1> SUFFICES ASSUME ClockInv, [Next]_vars PROVE ClockInv'
  OBVIOUS
<1>1. HistoryInv'
  BY HistoryStep DEF ClockInv
<1>2. clock \in Int /\ run \in Record /\ run' \in Record /\ run.updatedAt \in Int
  BY <1>1 DEF ClockInv, HistoryInv, TypeInv, TypeOK, Record
<1>3. Active => result = "none" /\ run.completedAt = NoTime
  BY DEF ClockInv, HistoryInv, ActiveInv
<1>4. CASE StartRun
  <2>1. Active /\ file' = file /\ result' # "ok"
    BY <1>3, <1>4 DEF StartRun, Return, Active
  <2>2. clock' \in Int /\ clock <= clock' /\ run'.updatedAt <= clock'
    BY <1>2, <1>4 DEF StartRun, NewRun, ClockInv
  <2>3. LinesClock'
    BY <2>1, <2>2, TickClock
  <2> QED
    BY <1>1, <1>2, <2>1, <2>2, <2>3 DEF ClockInv
<1>5. CASE CreateRun
  <2>1. Active /\ UNCHANGED <<clock, run>> /\ (UpsertOK(run) \/ UpsertErr) /\ result' # "ok"
    BY <1>3, <1>5 DEF CreateRun, Return, Active
  <2>2. LinesClock'
    BY <1>2, <1>3, <2>1, UpsertClock DEF ClockInv
  <2> QED
    BY <1>1, <1>2, <2>1, <2>2 DEF ClockInv
<1>6. CASE PersistPhase
  <2>1. Active /\ UNCHANGED <<clock, run>> /\ (UpsertOK(run) \/ UpsertErr) /\ result' # "ok"
    BY <1>3, <1>6 DEF PersistPhase, Return, Active
  <2>2. LinesClock'
    BY <1>2, <1>3, <2>1, UpsertClock DEF ClockInv
  <2> QED
    BY <1>1, <1>2, <2>1, <2>2 DEF ClockInv
<1>7. ASSUME Active, NEW tool \in Tools, StepCompleted(tool) \/ UNCHANGED <<clock, run>>,
             UNCHANGED <<file, result>>
      PROVE  ClockInv'
  <2>1. clock' \in Int /\ clock <= clock' /\ run'.updatedAt <= clock'
    <3>1. CASE UNCHANGED <<clock, run>>
      BY <1>2, <3>1 DEF ClockInv
    <3>2. CASE StepCompleted(tool)
      <4>1. PICK d \in Ticks :
              /\ clock' = clock + d
              /\ run' = [run EXCEPT !.steps = Append(@, [tool |-> tool, status |-> "completed"]),
                                    !.updatedAt = clock']
        BY <3>2 DEF StepCompleted
      <4>2. clock' \in Int /\ clock <= clock'
        BY <1>2, <4>1
      <4>3. run'.updatedAt = clock'
        BY <1>2, <4>1 DEF Record
      <4> QED
        BY <4>2, <4>3
    <3> QED
      BY <1>7, <3>1, <3>2
  <2>2. LinesClock'
    BY <1>7, <2>1, TickClock
  <2> QED
    BY <1>1, <1>2, <1>3, <1>7, <2>1, <2>2 DEF ClockInv
<1>8. CASE RunPhase
  <2>1. plan \in Seq(Phases) /\ plan # <<>>
    BY <1>8 DEF RunPhase, ClockInv, HistoryInv, TypeInv, TypeOK
  <2>2. Head(plan) \in Tools
    BY <2>1 DEF Tools
  <2>3. StepCompleted(Head(plan)) \/ UNCHANGED <<clock, run>>
    BY <1>8 DEF RunPhase, StepRefused
  <2> QED
    BY <1>7, <1>8, <2>2, <2>3 DEF RunPhase, Active
<1>9. CASE RunSummaryStep
  <2>1. StepCompleted("explain") \/ UNCHANGED <<clock, run>>
    BY <1>9 DEF RunSummaryStep, StepRefused
  <2> QED
    BY <1>7, <1>9, <2>1 DEF RunSummaryStep, PhasesDone, Active, Tools
<1>10. CASE CompleteRun
  <2>1. Active
    BY <1>10 DEF CompleteRun, PhasesDone, Active
  <2>2. PICK d \in Ticks :
          /\ clock' = clock + d
          /\ run' = [run EXCEPT !.status = "completed", !.updatedAt = clock', !.completedAt = clock']
    BY <1>10 DEF CompleteRun
  <2>3. clock' \in Int /\ clock <= clock' /\ clock' > 0
    BY <1>2, <2>2 DEF ClockInv
  <2>4. run'.updatedAt = clock' /\ run'.completedAt = clock' /\ run'.status = "completed"
    BY <1>2, <2>2 DEF Record
  <2>5. \/ UpsertOK(run') /\ result' = "ok"
        \/ UpsertErr /\ result' = "error"
    BY <1>10 DEF CompleteRun, Return
  <2>6. LinesClock'
    BY <1>2, <2>1, <2>3, <2>4, <2>5, UpsertClock
  <2>7. result' = "ok" => Stored' /\ LastLine' = run'
    <3> SUFFICES ASSUME UpsertOK(run') PROVE Stored' /\ LastLine' = run'
      BY <2>5
    <3>1. file \in Seq(Record) /\ file' = Append(file, run')
      BY DEF UpsertOK, ClockInv, HistoryInv, TypeInv, TypeOK
    <3> QED
      BY <1>2, <3>1 DEF Stored, LastLine
  <2> QED
    BY <1>1, <2>3, <2>4, <2>6, <2>7 DEF ClockInv, NoTime
<1>11. CASE FinishRunWithError
  <2>1. Active /\ result' = "error" /\ (UpsertOK(run') \/ UpsertErr)
    BY <1>11 DEF FinishRunWithError, Return, Active
  <2>2. PICK d \in Ticks :
          /\ clock' = clock + d /\ run'.updatedAt = clock'
          /\ run'.completedAt \in {run.completedAt, clock'}
    BY <1>11 DEF FinishRunWithError
  <2>3. clock' \in Int /\ clock <= clock' /\ clock' > 0
    BY <1>2, <2>2 DEF ClockInv
  <2>4. LinesClock'
    BY <1>2, <1>3, <2>1, <2>2, <2>3, UpsertClock
  <2> QED
    BY <1>1, <2>1, <2>2, <2>3, <2>4 DEF ClockInv
<1>12. CASE CtxEnds
  BY <1>1, <1>12 DEF CtxEnds, ClockInv, LinesClock, Stored, LastLine
<1>13. CASE Crash
  BY <1>1, <1>13 DEF Crash, ClockInv, LinesClock, Stored, LastLine
<1>14. CASE UNCHANGED vars
  BY <1>1, <1>14 DEF vars, ClockInv, LinesClock, Stored, LastLine
<1> QED
  BY <1>4, <1>5, <1>6, <1>8, <1>9, <1>10, <1>11, <1>12, <1>13, <1>14 DEF Next, RunInvestigation

\* A saved completion or failure is what Get returns, though the clock may
\* stand still between saves.
THEOREM SettledWriteWinsCorrect ==
    ASSUME Ticks \subseteq Nat, ClockStart > 0 PROVE Spec => []SettledWriteWins
<1>1. ClockInv => SettledWriteWins
  BY ViewIsLast
     DEF ClockInv, LinesClock, HistoryInv, TypeInv, TypeOK, SettledWriteWins, Stored, LastLine
<1> QED
  BY <1>1, ClockInit, ClockStep, PTL DEF Spec

\* A nil error means the answer is the completed run that Get returns.
THEOREM AnswerIsStoredCorrect ==
    ASSUME Ticks \subseteq Nat, ClockStart > 0 PROVE Spec => []AnswerIsStored
<1>1. ClockInv => AnswerIsStored
  <2> SUFFICES ASSUME ClockInv, result = "ok"
               PROVE  Stored /\ View(file) = run /\ run.status = "completed"
    BY DEF AnswerIsStored
  <2>1. View(file) = LastLine
    BY ViewIsLast
       DEF ClockInv, LinesClock, HistoryInv, TypeInv, TypeOK, Stored, LastLine
  <2> QED
    BY <2>1 DEF ClockInv
<1> QED
  BY <1>1, ClockInit, ClockStep, PTL DEF Spec
-----------------------------------------------------------------------------
(* The plan of a completed run *)

\* The steps left for phases once the summary has its own.
Room(r) == IF r.maxSteps > 1 THEN r.maxSteps - 1 ELSE 1

\* How many phases a run that completes has gone through.
PhaseCount(r) ==
    IF Len(BuildInvestigationPlan(r)) < Room(r) THEN Len(BuildInvestigationPlan(r)) ELSE Room(r)

\* The first n steps are the first n phases of the request's plan.
StepsFollow(steps, r, n) == \A i \in 1..n : steps[i].tool = BuildInvestigationPlan(r)[i]

\* What is left to do when n phases of the plan are behind: the rest of the
\* plan, and the rest of the budget.
LeftToDo(n) ==
    LET phases == BuildInvestigationPlan(request) IN
    /\ n <= Len(phases) /\ n <= Room(request)
    /\ Len(plan) = Len(phases) - n
    /\ \A j \in 1..Len(plan) : plan[j] = phases[n + j]
    /\ budget = Room(request) - n
    /\ StepsFollow(run.steps, request, n)

\* The steps of a run that went through its plan.
AllDone(steps, r) ==
    /\ Len(steps) = PhaseCount(r) + (IF RunSummary(r) THEN 1 ELSE 0)
    /\ StepsFollow(steps, r, PhaseCount(r))
    /\ RunSummary(r) => steps[PhaseCount(r) + 1].tool = "explain"

\* Between two phases the loop has done as many as the record has steps; while
\* the last one waits to be saved the loop is one behind the record.
PlanInv ==
    /\ TypeInv
    /\ pc \notin {"new", "returned", "crashed"} => request.maxSteps \in 1..MaxHarnessSteps
    /\ pc = "create" => run.steps = <<>>
    /\ pc \in {"create", "phase"} => LeftToDo(Len(run.steps))
    /\ pc = "persist" => /\ Len(run.steps) > 0
                         /\ LeftToDo(Len(run.steps) - 1)
                         /\ StepsFollow(run.steps, request, Len(run.steps))
    /\ pc = "complete" => RunSummary(request) /\ AllDone(run.steps, request)
    /\ pc \in {"new", "create", "phase", "persist", "complete", "fail"} => run.status = "running"
    /\ run.status = "completed" => AllDone(run.steps, request)

\* The plan does not look at MaxSteps.
LEMMA PlanWithoutMaxSteps ==
    ASSUME NEW r \in RequestShape, NEW n \in Int
    PROVE  BuildInvestigationPlan([r EXCEPT !.maxSteps = n]) = BuildInvestigationPlan(r)
<1> DEFINE s == [r EXCEPT !.maxSteps = n]
<1>1. /\ s.goal = r.goal /\ s.selectors = r.selectors
      /\ s.access = r.access /\ s.sessions = r.sessions
  BY DEF RequestShape
<1> HIDE DEF s
<1>2. \A p : OrderedAvailablePhases(s, p) = OrderedAvailablePhases(r, p)
  BY <1>1 DEF OrderedAvailablePhases
<1>3. BuildInvestigationPlan(s) = BuildInvestigationPlan(r)
  BY <1>1, <1>2 DEF BuildInvestigationPlan
<1> QED
  BY <1>3 DEF s

\* What a completed tool call leaves in the record.
LEMMA StepCompletedSteps ==
    ASSUME TypeOK, NEW tool \in Tools, StepCompleted(tool)
    PROVE  /\ Len(run'.steps) = Len(run.steps) + 1
           /\ \A i \in 1..Len(run.steps) : run'.steps[i] = run.steps[i]
           /\ run'.steps[Len(run.steps) + 1].tool = tool
           /\ run'.status = run.status
           /\ Len(run.steps) \in Nat
<1>1. PICK d \in Ticks :
        run' = [run EXCEPT !.steps = Append(@, [tool |-> tool, status |-> "completed"]),
                           !.updatedAt = clock']
  BY DEF StepCompleted
<1>2. run.steps \in Seq(Step) /\ [tool |-> tool, status |-> "completed"] \in Step
  BY DEF TypeOK, Record, Step
<1>3. run'.steps = Append(run.steps, [tool |-> tool, status |-> "completed"])
      /\ run'.status = run.status
  BY <1>1 DEF TypeOK, Record
<1> QED
  BY <1>2, <1>3

\* The phase loop stops after PhaseCount phases.
LEMMA LoopEnds ==
    ASSUME PlanInv, PhasesDone
    PROVE  Len(run.steps) = PhaseCount(request) /\ StepsFollow(run.steps, request, Len(run.steps))
<1>1. LeftToDo(Len(run.steps)) /\ request.maxSteps \in 1..MaxHarnessSteps
  BY DEF PlanInv, PhasesDone
<1>2. plan \in Seq(Phases) /\ run.steps \in Seq(Step) /\ request \in RequestShape
  BY DEF PlanInv, TypeInv, TypeOK, Record
<1>3. BuildInvestigationPlan(request) \in Seq(Phases)
  BY <1>2, PlanType
<1>4. plan = <<>> \/ budget = 0
  BY DEF PhasesDone
<1>5. Room(request) \in Nat
  BY <1>1 DEF Room, MaxHarnessSteps
<1>6. Len(plan) = 0 \/ budget = 0
  BY <1>2, <1>4
<1> QED
  BY <1>1, <1>2, <1>3, <1>5, <1>6 DEF LeftToDo, PhaseCount

\* The plan invariant holds when the call arrives.
LEMMA PlanInit == Init => PlanInv
<1> SUFFICES ASSUME Init PROVE PlanInv
  OBVIOUS
<1>1. TypeInv
  BY TypeInit
<1>2. run.status = "running" /\ pc = "new"
  BY DEF Init, NewRun
<1> QED
  BY <1>1, <1>2 DEF PlanInv

\* Every action keeps it.
LEMMA PlanStep == PlanInv /\ [Next]_vars => PlanInv'
<1> SUFFICES ASSUME PlanInv, [Next]_vars PROVE PlanInv'
  OBVIOUS
<1>1. TypeInv /\ TypeInv' /\ TypeOK
  BY TypeStep DEF PlanInv, TypeInv
<1>2. /\ run.steps \in Seq(Step) /\ plan \in Seq(Phases) /\ request \in RequestShape
      /\ Len(run.steps) \in Nat
  BY <1>1 DEF TypeOK, Record
<1>3. CASE StartRun
  <2>1. CASE RequestAccepted(request) /\ pc' = "create"
    <3>1. PICK d \in Ticks : run' = NewRun(clock')
      BY <1>3, <2>1 DEF StartRun, Return
    <3>2. run'.steps = <<>> /\ run'.status = "running" /\ Len(run'.steps) = 0
      BY <3>1 DEF NewRun
    <3>3. request' = [request EXCEPT !.maxSteps = NormalizeMaxSteps(request.maxSteps)]
      BY <1>3, <2>1 DEF StartRun, Return
    <3>4. NormalizeMaxSteps(request.maxSteps) \in 1..MaxHarnessSteps
      BY <1>2, MaxStepsRange DEF RequestShape
    <3>5. request'.maxSteps \in 1..MaxHarnessSteps
      BY <1>2, <3>3, <3>4 DEF RequestShape
    <3>6. BuildInvestigationPlan(request') = BuildInvestigationPlan(request)
      <4> DEFINE m == NormalizeMaxSteps(request.maxSteps)
      <4>1. m \in Int
        BY <3>4 DEF MaxHarnessSteps
      <4> HIDE DEF m
      <4>2. BuildInvestigationPlan([request EXCEPT !.maxSteps = m]) = BuildInvestigationPlan(request)
        BY <1>2, <4>1, PlanWithoutMaxSteps
      <4>3. request' = [request EXCEPT !.maxSteps = m]
        BY <3>3 DEF m
      <4> QED
        BY <4>2, <4>3
    <3>7. plan' = BuildInvestigationPlan(request')
      BY <1>3, <2>1, <3>6 DEF StartRun, Return
    <3>8. budget' = Room(request') /\ budget' \in Nat
      BY <1>3, <2>1, <3>5 DEF StartRun, Return, RunSummary, Room, MaxHarnessSteps
    <3>9. plan' \in Seq(Phases)
      BY <1>1 DEF TypeInv, TypeOK
    <3>10. LeftToDo(0)'
      BY <3>7, <3>8, <3>9 DEF LeftToDo, StepsFollow
    <3>11. LeftToDo(Len(run.steps))'
      BY <3>2, <3>10
    <3> QED
      BY <1>1, <2>1, <3>2, <3>5, <3>11 DEF PlanInv
  <2>2. CASE Return("error") /\ UNCHANGED <<request, run>>
    <3>1. run.status = "running"
      BY <1>3 DEF StartRun, PlanInv
    <3> QED
      BY <1>1, <2>2, <3>1 DEF Return, PlanInv
  <2> QED
    BY <1>3, <2>1, <2>2 DEF StartRun
<1>4. CASE CreateRun
  BY <1>1, <1>4 DEF CreateRun, Return, PlanInv, LeftToDo
<1>5. CASE RunPhase
  <2>1. /\ pc = "phase" /\ plan # <<>> /\ budget # 0 /\ run.status = "running"
        /\ LeftToDo(Len(run.steps)) /\ request.maxSteps \in 1..MaxHarnessSteps
        /\ UNCHANGED <<request, plan, budget>>
    BY <1>5 DEF RunPhase, PlanInv
  <2>2. CASE StepCompleted(Head(plan)) /\ pc' = "persist"
    <3>1. Head(plan) \in Tools /\ Len(plan) > 0 /\ Head(plan) = plan[1]
      BY <1>2, <2>1 DEF Tools
    <3>2. Head(plan) = BuildInvestigationPlan(request)[Len(run.steps) + 1]
      BY <1>2, <2>1, <3>1 DEF LeftToDo
    <3>3. /\ Len(run'.steps) = Len(run.steps) + 1
          /\ \A i \in 1..Len(run.steps) : run'.steps[i] = run.steps[i]
          /\ run'.steps[Len(run.steps) + 1].tool = Head(plan)
          /\ run'.status = run.status
      BY <1>1, <2>2, <3>1, StepCompletedSteps
    <3>4. StepsFollow(run'.steps, request, Len(run.steps))
      BY <1>2, <2>1, <3>3 DEF LeftToDo, StepsFollow
    <3>5. StepsFollow(run'.steps, request, Len(run.steps) + 1)
      BY <1>2, <3>2, <3>3, <3>4 DEF StepsFollow
    <3>6. LeftToDo(Len(run.steps) - 1)'
      BY <1>2, <2>1, <3>3, <3>4 DEF LeftToDo
    <3> QED
      BY <1>1, <1>2, <2>1, <2>2, <3>3, <3>5, <3>6 DEF PlanInv
  <2>3. CASE pc' = "fail" /\ UNCHANGED run
    BY <1>1, <2>1, <2>3 DEF PlanInv
  <2> QED
    BY <1>5, <2>2, <2>3 DEF RunPhase, StepRefused
<1>6. CASE PersistPhase
  <2>1. /\ pc = "persist" /\ plan # <<>> /\ run.status = "running"
        /\ Len(run.steps) > 0 /\ LeftToDo(Len(run.steps) - 1)
        /\ StepsFollow(run.steps, request, Len(run.steps))
        /\ request.maxSteps \in 1..MaxHarnessSteps
        /\ UNCHANGED <<request, run>>
        /\ budget # 0 /\ budget \in 0..MaxHarnessSteps
    BY <1>1, <1>6 DEF PersistPhase, PlanInv, TypeInv, TypeOK
  <2>2. CASE pc' = "phase" /\ plan' = Tail(plan) /\ budget' = budget - 1
    <3> DEFINE n == Len(run.steps)
               phases == BuildInvestigationPlan(request)
    <3>1. Len(plan') = Len(plan) - 1 /\ Len(plan) \in Nat \ {0}
          /\ \A j \in 1..Len(plan') : plan'[j] = plan[j + 1]
      BY <1>2, <2>1, <2>2
    <3>2. phases \in Seq(Phases) /\ Len(phases) \in Nat
      BY <1>2, PlanType
    <3>3. Room(request) \in Nat
      BY <2>1 DEF Room, MaxHarnessSteps
    <3>4. /\ n - 1 <= Len(phases) /\ n - 1 <= Room(request)
          /\ Len(plan) = Len(phases) - (n - 1) /\ budget = Room(request) - (n - 1)
          /\ \A j \in 1..Len(plan) : plan[j] = phases[n - 1 + j]
      BY <2>1 DEF LeftToDo
    <3>5. n \in Nat
      BY <1>2
    <3> HIDE DEF n, phases
    <3>6. /\ n <= Len(phases) /\ n <= Room(request)
          /\ Len(plan') = Len(phases) - n /\ budget' = Room(request) - n
      BY <2>1, <2>2, <3>1, <3>2, <3>3, <3>4, <3>5 DEF MaxHarnessSteps
    <3>7. \A j \in 1..Len(plan') : plan'[j] = phases[n + j]
      BY <3>1, <3>2, <3>4, <3>5
    <3>8. LeftToDo(Len(run.steps))'
      BY <2>1, <3>6, <3>7 DEF LeftToDo, n, phases
    <3> QED
      BY <1>1, <2>1, <2>2, <3>8 DEF PlanInv
  <2>3. CASE pc' = "returned"
    BY <1>1, <2>1, <2>3 DEF PlanInv
  <2> QED
    BY <1>6, <2>2, <2>3 DEF PersistPhase, Return
<1>7. CASE RunSummaryStep
  <2>1. /\ PhasesDone /\ RunSummary(request) /\ pc = "phase" /\ run.status = "running"
        /\ request.maxSteps \in 1..MaxHarnessSteps /\ UNCHANGED request
    BY <1>7 DEF RunSummaryStep, PhasesDone, PlanInv
  <2>2. Len(run.steps) = PhaseCount(request) /\ StepsFollow(run.steps, request, Len(run.steps))
    BY <2>1, LoopEnds
  <2>3. CASE StepCompleted("explain") /\ pc' = "complete"
    <3>1. /\ Len(run'.steps) = Len(run.steps) + 1
          /\ \A i \in 1..Len(run.steps) : run'.steps[i] = run.steps[i]
          /\ run'.steps[Len(run.steps) + 1].tool = "explain"
          /\ run'.status = run.status
      BY <1>1, <2>3, StepCompletedSteps DEF Tools
    <3>2. AllDone(run'.steps, request)
      BY <2>1, <2>2, <3>1 DEF AllDone, StepsFollow
    <3> QED
      BY <1>1, <2>1, <2>3, <3>1, <3>2 DEF PlanInv
  <2>4. CASE pc' = "fail" /\ UNCHANGED run
    BY <1>1, <2>1, <2>4 DEF PlanInv
  <2> QED
    BY <1>7, <2>3, <2>4 DEF RunSummaryStep, StepRefused
<1>8. CASE CompleteRun
  <2>1. run'.steps = run.steps /\ pc' = "returned" /\ UNCHANGED request
    BY <1>1, <1>8 DEF CompleteRun, Return, TypeOK, Record
  <2>2. AllDone(run.steps, request)
    <3>1. CASE pc = "complete"
      BY <3>1 DEF PlanInv
    <3>2. CASE PhasesDone /\ ~RunSummary(request)
      BY <3>2, LoopEnds DEF AllDone, PhasesDone, PlanInv
    <3> QED
      BY <1>8, <3>1, <3>2 DEF CompleteRun
  <2> QED
    BY <1>1, <2>1, <2>2 DEF PlanInv
<1>9. CASE FinishRunWithError
  <2>1. run'.status # "completed" /\ pc' = "returned"
    BY <1>9 DEF FinishRunWithError, Return
  <2> QED
    BY <1>1, <2>1 DEF PlanInv
<1>10. CASE CtxEnds
  BY <1>1, <1>10 DEF CtxEnds, PlanInv, LeftToDo
<1>11. CASE Crash
  BY <1>1, <1>11 DEF Crash, PlanInv
<1>12. CASE UNCHANGED vars
  BY <1>1, <1>12 DEF vars, PlanInv, LeftToDo
<1> QED
  BY <1>3, <1>4, <1>5, <1>6, <1>7, <1>8, <1>9, <1>10, <1>11, <1>12 DEF Next, RunInvestigation

\* A completed run went through its plan, phase by phase, as far as MaxSteps
\* allows, and closed with the summary.
THEOREM CompletedRunFollowsPlanCorrect == Spec => []CompletedRunFollowsPlan
<1>1. PlanInv => CompletedRunFollowsPlan
  <2> SUFFICES ASSUME PlanInv, run.status = "completed" PROVE CompletedRunFollowsPlan
    BY DEF CompletedRunFollowsPlan
  <2> DEFINE phases == BuildInvestigationPlan(request)
             n == PhaseCount(request)
             front == SubSeq(phases, 1, n)
             last == IF request.maxSteps > 1 THEN <<"explain">> ELSE <<>>
             done == [k \in 1..Len(run.steps) |-> run.steps[k].tool]
             Names == Phases \cup {"explain"}
  <2>1. AllDone(run.steps, request)
    BY DEF PlanInv
  <2>2. request \in RequestShape /\ request.maxSteps \in Int /\ run.steps \in Seq(Step)
    BY DEF PlanInv, TypeInv, TypeOK, RequestShape, Record
  <2>3. phases \in Seq(Phases) /\ Len(phases) \in Nat
    BY <2>2, PlanType
  <2>4. n \in 0..Len(phases)
    BY <2>2, <2>3 DEF PhaseCount, Room
  <2>5. /\ front \in Seq(Names) /\ Len(front) = n
        /\ \A i \in 1..n : front[i] = phases[i]
    BY <2>3, <2>4
  <2>6. done \in Seq(Names) /\ Len(done) = Len(run.steps)
    <3>1. Len(run.steps) \in Nat /\ \A i \in 1..Len(run.steps) : run.steps[i].tool \in Names
      <4>1. Len(run.steps) \in Nat /\ \A i \in 1..Len(run.steps) : run.steps[i] \in Step
        BY <2>2
      <4>2. \A step \in Step : step.tool \in Names
        BY DEF Step, Tools
      <4> QED
        BY <4>1, <4>2
    <3> QED
      BY <3>1
  <2>7. /\ \A i \in 1..n : run.steps[i].tool = phases[i]
        /\ Len(run.steps) = n + (IF request.maxSteps > 1 THEN 1 ELSE 0)
        /\ request.maxSteps > 1 => run.steps[n + 1].tool = "explain"
    BY <2>1 DEF AllDone, StepsFollow, RunSummary
  <2>8. n \in Nat
    BY <2>3, <2>4
  <2>9. CASE request.maxSteps > 1
    <3> DEFINE tail == <<"explain">>
    <3>1. tail \in Seq(Names) /\ Len(tail) = 1 /\ tail[1] = "explain"
      OBVIOUS
    <3>2. last = tail
      BY <2>9
    <3>3. \A i \in 1..Len(run.steps) : done[i] = run.steps[i].tool
      OBVIOUS
    <3>4. Len(run.steps) = n + 1 /\ run.steps[n + 1].tool = "explain"
      BY <2>7, <2>9
    <3> HIDE DEF phases, n, front, tail, last, done
    <3>5. /\ front \o tail \in Seq(Names) /\ Len(front \o tail) = n + 1
          /\ \A i \in 1..(n + 1) : (front \o tail)[i] = IF i <= n THEN front[i] ELSE tail[i - n]
      BY <2>5, <3>1, ConcatProperties
    <3>6. \A i \in 1..(n + 1) : done[i] = (front \o tail)[i]
      BY <2>5, <2>7, <2>8, <3>1, <3>3, <3>4, <3>5
    <3>7. done = front \o tail
      BY <2>6, <3>4, <3>5, <3>6, SeqEqual
    <3> QED
      BY <2>9, <3>2, <3>7 DEF CompletedRunFollowsPlan, PhaseCount, Room, phases, n, front, last, done
  <2>10. CASE ~(request.maxSteps > 1)
    <3>1. last = <<>>
      BY <2>10
    <3>2. Len(run.steps) = n /\ \A i \in 1..n : done[i] = front[i]
      BY <2>5, <2>7, <2>8, <2>10
    <3> HIDE DEF phases, n, front, last, done
    <3>3. done = front
      BY <2>5, <2>6, <3>2, SeqEqual
    <3>4. front \o <<>> = front
      BY <2>5, ConcatEmptySeq
    <3> QED
      BY <2>10, <3>1, <3>3, <3>4 DEF CompletedRunFollowsPlan, PhaseCount, Room, phases, n, front, last, done
  <2> QED
    BY <2>9, <2>10
<1> QED
  BY <1>1, PlanInit, PlanStep, PTL DEF Spec

-----------------------------------------------------------------------------
(* The rules of internal/agents/policy *)

\* Evaluate gives the decision of the first rule that matches.
LEMMA FirstMatchDecides ==
    ASSUME NEW rules, DOMAIN rules \subseteq Int, NEW fallback, NEW call, NEW k \in DOMAIN rules,
           Static!Matches(rules[k], call),
           \A j \in DOMAIN rules : j < k => ~Static!Matches(rules[j], call)
    PROVE  Static!Evaluate(rules, fallback, call) = rules[k].decision
<1> DEFINE matching == {i \in DOMAIN rules : Static!Matches(rules[i], call)}
           least == CHOOSE i \in matching : \A j \in matching : i <= j
<1>1. k \in matching /\ \A j \in matching : k <= j
  OBVIOUS
<1>2. least \in matching /\ \A j \in matching : least <= j
  BY <1>1
<1>3. least = k
  <2>1. least <= k /\ k <= least
    BY <1>1, <1>2
  <2>2. least \in Int /\ k \in Int
    BY <1>1, <1>2
  <2> HIDE DEF least
  <2> QED
    BY <2>1, <2>2
<1>4. matching # {}
  BY <1>1
<1>5. Static!Evaluate(rules, fallback, call) = IF matching = {} THEN fallback ELSE rules[least].decision
  BY DEF Static!Evaluate
<1> QED
  BY <1>3, <1>4, <1>5

\* With no match the fallback decides.
LEMMA NoMatchFallsBack ==
    ASSUME NEW rules, NEW fallback, NEW call,
           \A j \in DOMAIN rules : ~Static!Matches(rules[j], call)
    PROVE  Static!Evaluate(rules, fallback, call) = fallback
BY DEF Static!Evaluate

\* What each of the four default rules asks of a call, and what it decides.
LEMMA DefaultRuleMatches ==
    ASSUME NEW call \in Static!ToolCalls
    PROVE  /\ DOMAIN Static!DefaultRules = 1..4
           /\ Static!Matches(Static!DefaultRules[1], call) <=> Static!IsCrossTenant(call)
           /\ Static!Matches(Static!DefaultRules[2], call) <=>
                call.prefix \in Static!StateChangePrefixes
           /\ Static!Matches(Static!DefaultRules[3], call) <=> call.flagged
           /\ Static!Matches(Static!DefaultRules[4], call) <=>
                Static!IsSameTenant(call) /\ call.prefix \in Static!ReadOnlyPrefixes
           /\ Static!DefaultRules[1].decision = "deny"
           /\ Static!DefaultRules[2].decision = "require_approval"
           /\ Static!DefaultRules[3].decision = "require_approval"
           /\ Static!DefaultRules[4].decision = "allow"
<1> DEFINE r1 == [Static!AnyCall("deny") EXCEPT !.crossTenant = TRUE]
           r2 == [Static!AnyCall("require_approval") EXCEPT !.prefixes = Static!StateChangePrefixes]
           r3 == [Static!AnyCall("require_approval") EXCEPT !.toolRequiresApproval = TRUE]
           r4 == [Static!AnyCall("allow") EXCEPT !.prefixes = Static!ReadOnlyPrefixes,
                                                 !.sameTenantOnly = TRUE]
<1>1. Static!DefaultRules = <<r1, r2, r3, r4>>
  BY DEF Static!DefaultRules
<1>2. Static!StateChangePrefixes # {} /\ Static!ReadOnlyPrefixes # {}
  BY DEF Static!StateChangePrefixes, Static!ReadOnlyPrefixes
<1>3. /\ r1.crossTenant /\ ~r1.sameTenantOnly /\ ~r1.toolRequiresApproval
      /\ r1.names = {} /\ r1.prefixes = {} /\ r1.decision = "deny"
  BY DEF Static!AnyCall
<1>4. /\ ~r2.crossTenant /\ ~r2.sameTenantOnly /\ ~r2.toolRequiresApproval
      /\ r2.names = {} /\ r2.prefixes = Static!StateChangePrefixes
      /\ r2.decision = "require_approval"
  BY DEF Static!AnyCall
<1>5. /\ ~r3.crossTenant /\ ~r3.sameTenantOnly /\ r3.toolRequiresApproval
      /\ r3.names = {} /\ r3.prefixes = {} /\ r3.decision = "require_approval"
  BY DEF Static!AnyCall
<1>6. /\ ~r4.crossTenant /\ r4.sameTenantOnly /\ ~r4.toolRequiresApproval
      /\ r4.names = {} /\ r4.prefixes = Static!ReadOnlyPrefixes /\ r4.decision = "allow"
  BY DEF Static!AnyCall
<1> HIDE DEF r1, r2, r3, r4
<1>7. /\ DOMAIN Static!DefaultRules = 1..4
      /\ Static!DefaultRules[1] = r1 /\ Static!DefaultRules[2] = r2
      /\ Static!DefaultRules[3] = r3 /\ Static!DefaultRules[4] = r4
  BY <1>1
<1>8. Static!Matches(r1, call) <=> Static!IsCrossTenant(call)
  BY <1>3, Zenon DEF Static!Matches
<1>9. Static!Matches(r2, call) <=> call.prefix \in Static!StateChangePrefixes
  BY <1>2, <1>4, Zenon DEF Static!Matches
<1>10. Static!Matches(r3, call) <=> call.flagged
  BY <1>5, Zenon DEF Static!Matches
<1>11. Static!Matches(r4, call) <=>
         Static!IsSameTenant(call) /\ call.prefix \in Static!ReadOnlyPrefixes
  BY <1>2, <1>6, Zenon DEF Static!Matches
<1> QED
  BY <1>3, <1>4, <1>5, <1>6, <1>7, <1>8, <1>9, <1>10, <1>11, Zenon

\* The four rules in order, and the fallback.
LEMMA DefaultDecides ==
    ASSUME NEW call \in Static!ToolCalls
    PROVE  Static!DefaultEvaluate(call) =
             IF Static!IsCrossTenant(call) THEN "deny"
             ELSE IF call.prefix \in Static!StateChangePrefixes THEN "require_approval"
             ELSE IF call.flagged THEN "require_approval"
             ELSE IF Static!IsSameTenant(call) /\ call.prefix \in Static!ReadOnlyPrefixes THEN "allow"
             ELSE "require_approval"
<1> DEFINE rules == Static!DefaultRules
           M(k) == Static!Matches(rules[k], call)
<1>1. /\ DOMAIN rules = 1..4
      /\ M(1) <=> Static!IsCrossTenant(call)
      /\ M(2) <=> call.prefix \in Static!StateChangePrefixes
      /\ M(3) <=> call.flagged
      /\ M(4) <=> Static!IsSameTenant(call) /\ call.prefix \in Static!ReadOnlyPrefixes
      /\ rules[1].decision = "deny"
      /\ rules[2].decision = "require_approval"
      /\ rules[3].decision = "require_approval"
      /\ rules[4].decision = "allow"
  BY DefaultRuleMatches
<1> HIDE DEF rules
<1>2. ASSUME NEW k \in 1..4, M(k), \A j \in 1..4 : j < k => ~M(j)
      PROVE  Static!Evaluate(rules, "require_approval", call) = rules[k].decision
  BY <1>1, <1>2, FirstMatchDecides
<1>3. ASSUME \A j \in 1..4 : ~M(j)
      PROVE  Static!Evaluate(rules, "require_approval", call) = "require_approval"
  BY <1>1, <1>3, NoMatchFallsBack
<1>4. Static!DefaultEvaluate(call) = Static!Evaluate(rules, "require_approval", call)
  BY DEF Static!DefaultEvaluate, Static!DefaultDecision, rules
<1> DEFINE decided == Static!Evaluate(rules, "require_approval", call)
<1>5. M(1) => decided = "deny"
  BY <1>1, <1>2
<1>6. ~M(1) /\ M(2) => decided = "require_approval"
  <2>1. \A j \in 1..4 : j < 2 => j = 1
    OBVIOUS
  <2> QED
    BY <1>1, <1>2, <2>1
<1>7. ~M(1) /\ ~M(2) /\ M(3) => decided = "require_approval"
  <2>1. \A j \in 1..4 : j < 3 => j = 1 \/ j = 2
    OBVIOUS
  <2> QED
    BY <1>1, <1>2, <2>1
<1>8. ~M(1) /\ ~M(2) /\ ~M(3) /\ M(4) => decided = "allow"
  <2>1. \A j \in 1..4 : j < 4 => j = 1 \/ j = 2 \/ j = 3
    OBVIOUS
  <2> QED
    BY <1>1, <1>2, <2>1
<1>9. ~M(1) /\ ~M(2) /\ ~M(3) /\ ~M(4) => decided = "require_approval"
  <2>1. \A j \in 1..4 : j = 1 \/ j = 2 \/ j = 3 \/ j = 4
    OBVIOUS
  <2> QED
    BY <1>3, <2>1
<1> HIDE DEF M, decided
<1>10. decided = IF M(1) THEN "deny" ELSE IF M(2) THEN "require_approval"
                 ELSE IF M(3) THEN "require_approval" ELSE IF M(4) THEN "allow"
                 ELSE "require_approval"
  BY <1>5, <1>6, <1>7, <1>8, <1>9, Zenon
<1> QED
  BY <1>1, <1>4, <1>10, Zenon DEF decided

\* The rules in their order say what they mean read together, for any tenants.
THEOREM DecisionMeansWhatTheRulesSayCorrect == Spec => []DecisionMeansWhatTheRulesSay
<1>1. ASSUME NEW call \in Static!ToolCalls
      PROVE  LET otherTenant == NoTenant \notin {call.run, call.target} /\ call.run # call.target
                 readOnly    == call.prefix \in Static!ReadOnlyPrefixes /\ ~call.flagged
                 sameTenant  == call.target \in {NoTenant, call.run}
             IN  Static!DefaultEvaluate(call) =
                   CASE otherTenant            -> "deny"
                     [] readOnly /\ sameTenant -> "allow"
                     [] OTHER                  -> "require_approval"
  <2> DEFINE otherTenant == NoTenant \notin {call.run, call.target} /\ call.run # call.target
             readOnly    == call.prefix \in Static!ReadOnlyPrefixes /\ ~call.flagged
             sameTenant  == call.target \in {NoTenant, call.run}
  <2>1. otherTenant <=> Static!IsCrossTenant(call)
    BY DEF Static!IsCrossTenant
  <2>2. ~otherTenant => (sameTenant <=> Static!IsSameTenant(call))
    BY DEF Static!IsSameTenant
  <2>3. ~otherTenant \/ ~sameTenant
    OBVIOUS
  <2>4. call.prefix \notin Static!ReadOnlyPrefixes \/ call.prefix \notin Static!StateChangePrefixes
    BY DEF Static!ReadOnlyPrefixes, Static!StateChangePrefixes
  <2>5. Static!DefaultEvaluate(call) =
             IF Static!IsCrossTenant(call) THEN "deny"
             ELSE IF call.prefix \in Static!StateChangePrefixes THEN "require_approval"
             ELSE IF call.flagged THEN "require_approval"
             ELSE IF Static!IsSameTenant(call) /\ call.prefix \in Static!ReadOnlyPrefixes THEN "allow"
             ELSE "require_approval"
    BY DefaultDecides
  <2>6. otherTenant => Static!DefaultEvaluate(call) = "deny"
    BY <2>1, <2>5, Zenon
  <2>7. ~otherTenant /\ readOnly /\ sameTenant => Static!DefaultEvaluate(call) = "allow"
    BY <2>1, <2>2, <2>4, <2>5, Zenon
  <2>8. ~otherTenant /\ ~(readOnly /\ sameTenant) =>
          Static!DefaultEvaluate(call) = "require_approval"
    BY <2>1, <2>2, <2>5, Zenon
  <2> QED
    BY <2>3, <2>6, <2>7, <2>8
<1>2. DecisionMeansWhatTheRulesSay
  BY <1>1 DEF DecisionMeansWhatTheRulesSay
<1> QED
  BY <1>2, PTL

\* The default rules allow every tool of the harness, for every tenant.
LEMMA DefaultPolicyAllows ==
    ASSUME NEW tenant \in Tenants, NEW t \in Tools PROVE DefaultPolicy(tenant)[t] = "allow"
<1> DEFINE call == HarnessCall(tenant, t)
<1>1. ToolPrefix[t] \in {"retrieve", "explain", "query"}
  BY DEF ToolPrefix
<1>2. /\ call.run = tenant /\ call.target = tenant /\ call.prefix = ToolPrefix[t]
      /\ call.flagged = FALSE
  BY DEF HarnessCall
<1>3. call \in Static!ToolCalls
  BY <1>1 DEF HarnessCall, Static!ToolCalls, Static!Prefixes, Static!ReadOnlyPrefixes
<1>4. ToolPrefix[t] \in Static!ReadOnlyPrefixes /\ ToolPrefix[t] \notin Static!StateChangePrefixes
  BY <1>1 DEF Static!ReadOnlyPrefixes, Static!StateChangePrefixes
<1> HIDE DEF call
<1>5. ~Static!IsCrossTenant(call) /\ Static!IsSameTenant(call)
  BY <1>2, TenantAssumption DEF Static!IsCrossTenant, Static!IsSameTenant
<1>6. Static!DefaultEvaluate(call) =
             IF Static!IsCrossTenant(call) THEN "deny"
             ELSE IF call.prefix \in Static!StateChangePrefixes THEN "require_approval"
             ELSE IF call.flagged THEN "require_approval"
             ELSE IF Static!IsSameTenant(call) /\ call.prefix \in Static!ReadOnlyPrefixes THEN "allow"
             ELSE "require_approval"
  BY <1>3, DefaultDecides
<1>7. Static!DefaultEvaluate(call) = "allow"
  BY <1>2, <1>4, <1>5, <1>6, Zenon
<1>8. DefaultPolicy(tenant)[t] = Static!DefaultEvaluate(call)
  BY DEF DefaultPolicy, StaticPolicyOf, Static!DefaultEvaluate, call
<1> QED
  BY <1>7, <1>8

\* Under a policy that allows every tool, nothing is stopped by it.
UnstoppedInv ==
    (\A t \in Tools : policy[t] = "allow") =>
        /\ \A i \in 1..Len(file) : file[i].status # "awaiting_approval"
        /\ run.status # "awaiting_approval"
        /\ pc = "fail" => failure.kind = "error"

\* A save of a record that does not wait leaves no line that does.
LEMMA UpsertUnstopped ==
    ASSUME TypeOK, NEW record \in Record, UpsertOK(record) \/ UpsertErr,
           \A i \in 1..Len(file) : file[i].status # "awaiting_approval",
           record.status # "awaiting_approval"
    PROVE  \A i \in 1..Len(file') : file'[i].status # "awaiting_approval"
<1>1. file \in Seq(Record)
  BY DEF TypeOK
<1>2. CASE UpsertOK(record)
  <2>1. file' = Append(file, record)
    BY <1>2 DEF UpsertOK
  <2> QED
    BY <1>1, <2>1
<1>3. CASE UpsertErr
  BY <1>3 DEF UpsertErr
<1> QED
  BY <1>2, <1>3

\* Every action keeps it: with every tool allowed a phase can fail in its query
\* only, and the summary cannot fail.
LEMMA UnstoppedStep == TypeInv /\ UnstoppedInv /\ [Next]_vars => UnstoppedInv'
<1> SUFFICES ASSUME TypeInv, UnstoppedInv, [Next]_vars, \A t \in Tools : policy'[t] = "allow"
             PROVE  /\ \A i \in 1..Len(file') : file'[i].status # "awaiting_approval"
                    /\ run'.status # "awaiting_approval"
                    /\ pc' = "fail" => failure'.kind = "error"
  BY DEF UnstoppedInv
<1>1. policy' = policy
  BY DEF Next, RunInvestigation, StartRun, CreateRun, RunPhase, PersistPhase, RunSummaryStep,
         CompleteRun, FinishRunWithError, CtxEnds, Crash, vars
<1>2. \A t \in Tools : policy[t] = "allow"
  BY <1>1
<1>3. /\ \A i \in 1..Len(file) : file[i].status # "awaiting_approval"
      /\ run.status # "awaiting_approval"
      /\ pc = "fail" => failure.kind = "error"
  BY <1>2 DEF UnstoppedInv
<1>4. TypeOK /\ run \in Record /\ run' \in Record
  BY TypeStep DEF TypeInv, TypeOK
<1>5. CASE StartRun
  BY <1>3, <1>5 DEF StartRun, Return, NewRun
<1>6. CASE CreateRun
  <2>1. UpsertOK(run) \/ UpsertErr
    BY <1>6 DEF CreateRun
  <2>2. pc' # "fail" /\ run' = run
    BY <1>6 DEF CreateRun, Return
  <2> QED
    BY <1>3, <1>4, <2>1, <2>2, UpsertUnstopped
<1>7. CASE RunPhase
  <2>1. PICK outcome \in PhaseOutcomes(Head(plan)) :
          \/ StepCompleted(Head(plan)) /\ pc' = "persist"
          \/ outcome # "ok" /\ StepRefused(Head(plan), outcome)
    BY <1>7 DEF RunPhase
  <2>2. Head(plan) \in Tools
    <3>1. plan \in Seq(Phases) /\ plan # <<>>
      BY <1>4, <1>7 DEF RunPhase, TypeOK
    <3> QED
      BY <3>1 DEF Tools
  <2>3. outcome \in {"ok", "error"}
    BY <1>2, <2>2 DEF PhaseOutcomes
  <2>4. file' = file
    BY <1>7 DEF RunPhase
  <2>5. CASE StepCompleted(Head(plan)) /\ pc' = "persist"
    BY <1>3, <1>4, <2>2, <2>4, <2>5, StepCompletedSteps
  <2>6. CASE outcome # "ok" /\ StepRefused(Head(plan), outcome)
    BY <1>3, <2>3, <2>4, <2>6 DEF StepRefused
  <2> QED
    BY <2>1, <2>5, <2>6
<1>8. CASE PersistPhase
  <2>1. (UpsertOK(run) \/ UpsertErr) /\ pc' # "fail" /\ run' = run
    BY <1>8 DEF PersistPhase, Return
  <2> QED
    BY <1>3, <1>4, <2>1, UpsertUnstopped
<1>9. CASE RunSummaryStep
  <2>1. "explain" \in Tools /\ policy["explain"] = "allow"
    BY <1>2 DEF Tools
  <2>2. StepCompleted("explain") /\ pc' = "complete" /\ file' = file
    BY <1>9, <2>1 DEF RunSummaryStep
  <2> QED
    BY <1>3, <1>4, <2>1, <2>2, StepCompletedSteps
<1>10. CASE CompleteRun
  <2>1. (UpsertOK(run') \/ UpsertErr) /\ pc' # "fail" /\ run'.status = "completed"
    BY <1>4, <1>10 DEF CompleteRun, Return, Record
  <2> QED
    BY <1>3, <1>4, <2>1, UpsertUnstopped
<1>11. CASE FinishRunWithError
  <2>1. failure.kind = "error"
    BY <1>3, <1>11 DEF FinishRunWithError
  <2>2. (UpsertOK(run') \/ UpsertErr) /\ pc' # "fail" /\ run'.status = "failed"
    BY <1>11, <2>1 DEF FinishRunWithError, Return
  <2> QED
    BY <1>3, <1>4, <2>2, UpsertUnstopped
<1>12. CASE CtxEnds
  BY <1>3, <1>12 DEF CtxEnds
<1>13. CASE Crash
  BY <1>3, <1>13 DEF Crash
<1>14. CASE UNCHANGED vars
  BY <1>3, <1>14 DEF vars
<1> QED
  BY <1>5, <1>6, <1>7, <1>8, <1>9, <1>10, <1>11, <1>12, <1>13, <1>14 DEF Next, RunInvestigation

\* Under the default rules no saved run waits for an approval, and only a query
\* can end one early.
THEOREM DefaultPolicyNeverStopsCorrect == Spec => []DefaultPolicyNeverStops
<1>1. Init => UnstoppedInv
  <2>1. Init => Len(file) = 0 /\ run.status = "running" /\ pc = "new"
    BY DEF Init, NewRun
  <2> QED
    BY <2>1 DEF UnstoppedInv
<1>2. TypeInv /\ UnstoppedInv => DefaultPolicyNeverStops
  <2> SUFFICES ASSUME TypeInv, UnstoppedInv, NEW tenant \in Tenants, policy = DefaultPolicy(tenant)
               PROVE  /\ \A i \in DOMAIN file : file[i].status # "awaiting_approval"
                      /\ pc = "fail" => failure.kind = "error"
    BY DEF DefaultPolicyNeverStops
  <2>1. \A t \in Tools : policy[t] = "allow"
    BY DefaultPolicyAllows
  <2>2. DOMAIN file = 1..Len(file)
    BY DEF TypeInv, TypeOK
  <2> QED
    BY <2>1, <2>2 DEF UnstoppedInv
<1> QED
  BY TypeInit, TypeStep, UnstoppedStep, <1>1, <1>2, PTL DEF Spec

=============================================================================
