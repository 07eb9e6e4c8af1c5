# A TLA+ model of the semantic intelligence layer (SIL)

SIL ingests network evidence (RADIUS accounting, access decisions), turns it
into unified events and retrieval documents, and answers investigation
requests over them with a policy-gated agent harness. These modules model its
own core logic: the order of effects, the error paths, and what survives a
failure. TLC checks them on small instances; TLAPS proves what matters most for
every value of the constants. Paths below are relative to the repository.

## The system

All state that outlives a process is in append-only JSON-lines files, one per
store, plus the unified event file, which is rewritten. There are no
transactions between files. `PROJECT.json` lists every component with its
status; this is the map of those with behaviour.

| Component | State | Operations | Talks to |
| --- | --- | --- | --- |
| `ingestd` (`internal/services/ingest`, `accessingest`) | - | `Run`: for each file Adapt, Append, publish | raw store, JetStream |
| raw store (`internal/storage/raw`) | a file per source | `Append`, `Replay` | - |
| `normalizerd` (`internal/services/normalize`, `accessnormalize`) | - | `Run`: truncate the output, Replay, for each record write, project, publish | raw store, unified file, projections, JetStream |
| session and access projections (`internal/storage/metadata/sessions`, `access`) | append-only file | `Append`, `Search` (newest first, cut off at a limit, no deduplication) | - |
| `indexerd` (`internal/services/index`) | - | `Run`: scan the unified file, append documents | unified file, retrieval store |
| retrieval store (`internal/storage/metadata/retrieval`) | append-only file | `Append`, `Search` (the newest ingestion of each document) | - |
| harness (`internal/agents/harness`) | one record per run | `RunInvestigation`, `GetRun`, `ContinueRun` (which only reads) | policy, run store, query services |
| run store (`internal/storage/metadata/agents/store.go`) | all versions of all runs | `Upsert`, `Get` (the latest by UpdatedAt, then CompletedAt) | - |
| policy (`internal/agents/policy`) | - | `Evaluate`: first matching rule | - |
| watcher (`internal/agents/runtime`) | in memory: the cycle | `Run`, `RunCycle` | session and access queries, harness, watcher state |
| watcher state store (`.../agents/watcher_state.go`) | a checkpoint per tenant and subscriber | `UpsertWatcherState`, `GetWatcherState` | - |
| transports (`internal/transport`) | a conversation per WebSocket | chat, A2A and HTTP handlers: run an investigation under the request's context, with a 30 s deadline for chat and A2A, and answer | harness |
| `apid` (`cmd/apid`) | - | start, serve, exit on a signal | transports, stores |
| configuration (`internal/platform/config`) | - | `LoadFrom`: base file, environment file, environment variables, defaults; `validate` | every command |
| messaging (`internal/platform/messaging`) | the stream (on the server) | `Connect`, `EnsureConfiguredStream`, `PublishEnvelope` | JetStream |
| `backfill` (`cmd/backfill`) | channels of a worker pool | `runBackfill` | fixture files, output |
| logging (`internal/platform/logging`) | bounded queue, drop count | `Handle`, `Shutdown` | log file |

What is hard in it, by component; `PROJECT.json` has the full list of hazards
with their lines and the properties that cover them:

* *harness*: saves after every step, with the caller's context, which can end at
  any point; refusals by the policy; a step budget; a run store that orders
  versions by wall clock. Correct when the stored record is always truthful (its
  status agrees with its steps), final once final, and agrees with the answer.
* *watcher*: work and its checkpoint are two steps; errors of one candidate or
  tenant must not stop the rest; events that come late, are replayed, or are
  ingested again with a new stamp. Correct when checkpointed work was done, when
  it is done again only for an event that another of its moment had replaced,
  and when a pass leaves nothing behind.
* *pipeline*: three programs that run when they like and share only files, one
  of which is truncated under its reader. Correct when each derived file is a
  prefix of the raw store, whatever happened before, and nothing is announced
  that is not stored.
* *reads of an investigation*: three stores read one after the other while they
  grow, rows repeated by earlier replays, a limit of five, several versions of
  one event, and queries narrowed to the NAS and the client of the first hits.
  Correct when what is found is what the stores held, and when an answer that
  denies something ("no session start followed") denies nothing that was stored
  and asked for.
* *backfill*: goroutines race and the first error cancels the others. Correct
  when its output is that of a sequential program and no goroutine is left.
* *logging*: a full queue, a mutex, and a shutdown during all of it.
* *stores of runs and watcher states*: one file for all keys, written by two
  processes, read from its first line at each Get; torn and oversized lines, a
  wall clock that steps back, two calls with one run id. Correct when the newest
  record of a key is the answer for as long as there are answers at all.
* *transports*: questions sent ahead of their answers, clients that leave,
  deadlines of the server and of the run, an exit that waits for nobody. Correct
  when a client is never told what the store contradicts.
* *start*: four layers of settings, two lists of what a backend needs, two
  commands that set up one stream, a log file that cannot be opened. Correct when
  what is accepted can be used.

## Modules

| Module | Models | Correspondence |
| --- | --- | --- |
| `StaticPolicy` | `policy/static.go` | operators `Matches`, `Evaluate` and the rules, as in the code |
| `AgentRun` | one `RunInvestigation` call with the run store | one action per stretch of code up to a save: `StartRun`, `CreateRun`, `RunPhase`, `PersistPhase`, `RunSummaryStep`, `CompleteRun`, `FinishRunWithError`; environment: `CtxEnds`, `Crash` |
| `GatedRun` | `Service.evaluate` and the fallback of `NewService` | composes the two above: `HarnessCall` is the call each step makes, `DefaultPolicy` what the default rules decide of it |
| `Watcher` | `Run`/`RunCycle`, watcher states, the session search | one action per call that touches a store: `SearchTenant`, `CheckCandidate`, `Investigate`, `Checkpoint`, and the loop ends; environment: `Project` (a row with its own stamp of ingestion, new or repeated), `Cancel`, `Crash` |
| `EvidencePipeline` | ingestd, normalizerd, indexerd and their files | one action per store call of each command; errors end a command, and stand for its crash as well |
| `EvidenceReads` | what an investigation reads and concludes: the three stores' `Append` and `Search`, the queries, the merged results, the answers, `SummarizeCrossSourceCorrelation` | one action per write to the unified file (`WriteRow`), to a projection (`StoreRow`) and to the retrieval store (`IndexRow`), and per step of an investigation (`Retrieve`, `ReadAccess`, `ReadSessions`, `Explain`); operators for filters, order, score, window and answers |
| `SequentialReplay` | what backfill promises | abstract specification |
| `Backfill` | `runBackfill` | one action per channel operation, read and write |
| `AsyncLog` | the async handler, its writer, `Runtime.Shutdown` | one action per critical section or write |
| `RunStore` | `metadata/agents/store.go` and `watcher_state.go`, file and memory | one action per `Stamp` (a record is made), `Upsert`, `UpsertFails` and `Crash`; `Get` as an operator on the lines of a file |
| `NewestWins` | what these stores promise | abstract specification |
| `Configuration` | `platform/config/config.go` | no state: `Merge`, `Resolve`, `Accepts` and their helpers; one rule for the lines of all settings |
| `Startup` | the start of apid, ingestd, normalizerd, indexerd and agentd, from `LoadFrom` to their work; `Connect` and `EnsureConfiguredStream` | one action per stretch between two calls that can fail or see the server: `Load`, `OpenStores`, `Connect`, `Inspect`, `Configure`, `OpenSource`; environment: `Outage` |
| `Serving` | the chat, A2A and agent run handlers, and apid's shutdown | one action per message read (`TakeGood`, `TakeBad`, `ReadFails`), write (`Welcome`, `Echo`, `Answer`) and save of the run (`Begin`, `Complete`, `Fail`); `Shutdown`, `Exit`; environment: `Connect`, `Ask`, `Post`, `Leave`, `Tick` |
| `MC*` | small instances of the above | - |
| `AgentRun_proofs` (with `GatedRun` and `StaticPolicy`), `Watcher_proofs`, `EvidencePipeline_proofs`, `EvidenceReads_proofs`, `Startup_proofs`, `Serving_proofs`, `RunStore_proofs` | theorems about the module named | - |
| `Channels_proofs` | theorems about `AsyncLog` and, as an instance, `Backfill` | - |

`GatedRun` composes `StaticPolicy` with `AgentRun`; the policies of the runs
that `MCAgentRun` checks are the default evaluator, evaluators with one extra
rule, and evaluators that fail. In `Watcher` an investigation is one step with the outcomes that
`AgentRun` shows a call can have: nil, approval required (done, for the
watcher), another error, or none because the process died. `Serving` reduces an
investigation to what `AgentRun` shows a client of it: a first save, then a last
one or an error, either of which may fail. `RunStore` takes up what `AgentRun`
leaves out of the store: other calls, other processes, and writes that are cut
off. `Startup` ends where `EvidencePipeline`, `Watcher` and `Serving` begin.

Data is abstracted to what properties can tell apart. A question is its goal
class and whether the inputs hold a selector or fail to parse; evidence and
texts are left out of `AgentRun`; `EvidenceReads` fills in what its steps read
and answer, with every step allowed and successful. Events, documents and
questions have the five selectors there (subscriber, session, request, NAS,
client); what a question leaves open of subscriber, NAS and client is taken from
the first hit that has it (`Sought`), and all of it is asked for at once.
Documents always carry a subscriber (`Document.Validate`), so as soon as there
are hits the harness asks by subscriber: its lookups by several session ids
(`topSessionIDs`) and by a hit's session or request id cannot be reached and are
not modelled. In `Watcher` a row of the projection is an event with its
IngestedAt, which decides between rows of one OccurredAt; a raw record that is
replayed keeps its stamp, a source that is ingested again gets another, and no
two payloads get the same. An event of the pipeline is the raw record it
comes from, with the id the adapters compose. Whole-line writes are atomic but
in `RunStore`. `EvidencePipeline` assumes that the stream is enabled and that
one instance of each command runs at a time. The default policy that
`NewServer` builds refuses nothing a plan calls (`DefaultPolicyNeverStops`,
checked and proved), so `Serving` has no refused runs; its clients share nothing but the process. In `Configuration` a setting is
a number, a truth value, a list or a word; what no guard tells apart is one
word, and the case and space of words are left out. The code merges, overrides
and defaults each setting in lines of its own; the model has one rule for all of
them. That the lines follow the rule was read, setting by setting, and is not
checked: a line that is forgotten or crossed cannot be seen in the model. `Startup` takes from
JetStream (external) that a stream has one owner for each subject, that an
addition equal to the stream of its name succeeds and a different one fails, and
that the storage of a stream cannot be updated.

Definitions commented *Fault* are not part of any specification: each is a
plausible bug in the code, the operator that replaces a definition to
show that a property notices it.

## Runs

| Run | Question and bounds |
| --- | --- |
| `agent_run_steps` | All goals, selectors, parse errors, optional stores and MaxSteps 0, 1, 2, 3, 9 (default, boundary, below and above the plan, above the cap) under 13 policies; saves and searches may fail; a clock that may stand still. In its first states, every tool call over two tenants and all prefixes, flagged or not, against the default rules; and no run under these is ever stopped by them. 650 000 states. |
| `agent_run_timeout` | *Violation.* The context ends during a step: the call returns and the stored run stays `running`. |
| `watcher_cycles` | Two tenants, three subscribers, one of them with two events of one moment and an older one, three stamps of ingestion and three rows, so that an event is ingested, replaced by the other and ingested again; at most one run per cycle, two rows per search, three clock readings, any failure, restart and shutdown. 620 000 states. |
| `watcher_reingested` | *Violation.* Two events of one moment, the first ingested again after the second was checkpointed: it is investigated again. |
| `watcher_collision` | *Violation.* Two subscribers with one sanitized key: processed candidates are investigated again. |
| `evidence_pipeline` | RADIUS: two files, the second not normalisable, each command started twice in any interleaving; access: two files with one event id, each command started once. 270 000 states. |
| `evidence_reads` | Five goals, with and without a subscriber, an outcome, a status and a window; up to three access rows and three session rows of six events with two shared ids, two subscribers, and a NAS or a client that differs or is missing, repeated and ingested again, each written before it is projected and indexed before or after, two documents, a limit of two rows: the third is cut off. 1 500 000 states. |
| `backfill` | Four files, two workers, failures and cancellation anywhere. Two workers and a buffer of two are enough for every reordering by one; four files make the buffer fill and drain twice. |
| `async_log` | Two goroutines with two records each, one an error, and a queue of one: full on the second record. |
| `run_store` | Two calls in two processes that share a run id, a watcher, three records over two clock readings and a clock that steps back; cut writes, oversized lines, crashes. Three records are one settled, one that ties or precedes it and one by another saver. 213 000 states. |
| `serving` | One client that asks twice, by every route, the second time before or after its first answer, with `max_steps` below and above the plan; one failing save; a write timeout shorter than the deadline of the run. Clients share only the process, so a second one adds no behaviour of the first. 160 000 states. |
| `startup` | Each setting alone with every kind of value in both files and the environment; missing, broken and misnamed files; three commands that start at once over one stream, with an environment that changes one of them, three backends and three source types, a log directory that can be used or not; one outage. 94 000 states. |

Deadlock is checked in `evidence_reads` only, where another question can always
be asked. Elsewhere it is not: every run of a command, call or daemon ends, and the
bounds on clock, restarts and events end the environment.

The three violations are findings, described with the sentence of the
repository they contradict in `PROJECT.json`.

`evidence_reads` states what can be relied on and what cannot. The limit is
applied before duplicates are removed, and of several versions of an event an
investigation uses the one ingested first, whereas the retrieval store answers
with the one ingested last. `NothingOverlooked` and `HitsAreExplained`
therefore excuse rows that enough others are as recent as (`MayBeCut`), rows
that an older version hides (`MayBeHidden`), and rows on another NAS or of
another client than the first hits that name one (`Elsewhere`): a question that
names neither is narrowed to those, and "no session start followed" then says
nothing of a start on another NAS. `normalizerd` writes an event to the
unified file before it projects it, and `indexerd` reads that file: a document
can be found whose row does not exist yet. `ProjectionKeepsUp` of the pipeline
says that this is one event of each source at most, `ahead` makes it happen
here, and `HitsAreExplained` excuses no more than that one; nothing else is ever
overlooked.
`NewestInstantDecides` needs no excuse for the limit: the newest moment is never
cut off. Two answers are outside these properties and listed as hazards: a
newest interim update makes the status answer say that no start is visible,
and membership is denied to a subscriber that indexerd has not reached.

`run_store` and `serving` state promises with their exceptions, and the
exceptions are what a reader should know. A cut write makes a whole file
unreadable, at once or when the next line continues it, although the saves in
between returned nil (`NewestWins!Spoil`); the memory backend, where the last
save wins, differs from the file when a stamp ties or steps back
(`AgreesWithMemory`). A run left `running` in the store was left so by a failing
save, by the deadline of chat or A2A, by the client of a post that went away, or
by the exit of apid, which returns from `main` as soon as `Shutdown` has closed
the listener (`AbandonedRunHasACause`); a client of the chat that leaves is not
among the causes, because its request context does not end with it. And
`ToldIsStored` claims no more than it can of errors: an answer that
says `completed` with an error may belong to a run stored as `running`.

Two of the passing runs say something one might not expect. `SettledIsFinal`
holds even when the clock steps back: a final version of a run is written last
and once, so nothing can replace it; what a regressing clock costs is that
a final version may not be *seen* (`SettledWriteWins`, which is proved, needs one
that does not step back). With several savers `RunStore` shows the limit of
this: a settled run gives way only to another call with the same run id
(`SettledGivesWayToAnotherOnly`). And `IndexRunIsReplay`
holds although normalizerd truncates the file that indexerd is reading: the
rewritten file is the same sequence again, as raw records are never removed, so
a reader that goes on at its offset finds the right line there.

## Fairness

Weak fairness is assumed of code that is already running, never of the
environment: the watcher's goroutine, a pipeline command once started, the
goroutines of backfill, a goroutine inside `Handle`, and the handler of each
connection in `Serving`, whose investigation has at most five steps. Nobody is
obliged to make a request, to start a command, to log, to let a context end or a
clock move. `AgentRun`, `RunStore` and `Startup` state no liveness and have no
fairness. The select of `Run` gets no
fairness between its branches; `DaemonReturns` holds all the same because the
clock readings are bounded and because a cycle under a cancelled context fails.
The log writer has strong fairness: it needs the mutex, which goroutines that
log can take again and again, and Go's mutex does not starve a waiter (a waiter
gets it after a millisecond at the latest).

## Proofs

`AgentRun_proofs` proves, for all requests, policies and constants:

* `TypeCorrect`. Inductive with one conjunct more: a phase is being persisted
  only while the plan and the budget have something left.
* `RefusalEndsRunCorrect` and `LinesAreAHistoryCorrect`. The inductive invariant
  `HistoryInv` is about a call under way: its record is `running`, all its steps
  were allowed, no saved line has left `running`, and the record continues the
  last line. From that follows what the properties say of each line saved.
* `SettledIsFinalCorrect`, on any clock. `FirstLatest` names the line Get picks;
  such a line always exists (an append either supersedes it or does not, by
  `LaterIsOrder`), and when it is final the call is over, so the file no
  longer changes.
* `CompletedRunFollowsPlanCorrect`: a completed run has gone through its plan, for
  any budget and any refusals. `PlanInv` counts: between two phases the loop has
  done as many as the record has steps, what is left of the plan is the plan
  without these (`LeftToDo`), and a phase that waits to be saved puts the record
  one ahead.
* `DecisionMeansWhatTheRulesSayCorrect`: the ordered rules and their fallback
  decide every tool call, of any tenants, tools and prefixes, as the table in the
  property says. `DefaultPolicyNeverStopsCorrect`: as no call of the harness is
  flagged or leaves its tenant, the rules allow each, whatever the request.
* `SettledWriteWinsCorrect` and `AnswerIsStoredCorrect`, assuming that `Ticks`
  holds no negative number and the first reading is not 0, the nil time. The
  invariant `ClockInv`: no line is stamped after the last reading and a line
  with a CompletedAt is Later than all before it.

`EvidencePipeline_proofs` proves all the safety properties of its module, for any
sources and files and any number of runs. `EvidencePipeline`'s `MaxRuns` and
`Ticks` then hold any natural numbers, and the payloads any records.

* `TypeCorrect`, `UnifiedIsReplayCorrect`, `IndexRunIsReplayCorrect` share one
  inductive invariant, `ReplayInv`: none is inductive alone, since the offset of
  indexerd is bounded by the raw store only because the unified file is.
  `PositionInv` says how long the unified file is at each step of normalizerd,
  `ScanInv` that what indexerd has read ahead is the stretch of the raw store
  that ends at its offset. That stretch does not depend on the unified
  file any more, which is why truncating the file does no harm.
* `AnnouncedIsStoredCorrect`: normalizerd announces the event it projected last.
* `ProjectionKeepsUpCorrect`: at every moment there is an `m` such that the
  first `m` raw records are projected and nothing derived is further than record
  `m + 1` (`KeepsUpTo`); only a successful projection of that record moves `m`.
* `OkMeansDoneCorrect`: each command has delivered what is before its position
  (`DoneInv`).
* `SearchNeverGoesBackCorrect`, an action property: of the lines with an id one
  replaces all before it and is replaced by none behind it, because an order on
  finitely many lines has a greatest (`FiniteMaximal`, `FoundIsLatest`); a line
  more can only add a later one, and no command removes a line (`DocsGrow`).

`EvidenceReads_proofs` proves the three properties of its module, for any events,
requests, limits, windows and ticks of the clock, from one inductive invariant,
`ReadsInv`. The stores grow while a run reads them, so the invariant says what
stays true of a store that was read earlier: the hits were written and match the
question (`HitsInv`), and what is sought follows from them and does not change
between the reads; of the hits a store did not have when it was read there is
one, because at most one event of a source is written and not yet projected, and
the next is written only when that one is (`LateInv`); what was read are, of the
most recent rows up to the limit, the version of each event that stays
(`WellRead`), and rows are never removed. The rest is about orders on finite
sets: the window reaches from the first hit to the last, so it contains every hit, and
the queries find those that are of the subscriber, NAS and client sought
(`HitAskedFor`, for `HitsAreExplained`); a row that the limit left out has as
many others as recent (`ReadFacts`); no cut leaves out the newest moment
(`NewestRead`). No clock assumption is needed: `Ticks` may contain 0.

`Channels_proofs` is about the two components made of goroutines around a
channel. Of `Backfill`, an instance there (what an instance assumes of its
constants is no fact, so `BackfillAssumption` stands in the theorems as their
hypothesis): `BackfillTypeCorrect`, for any number of files and workers, and
`SequentialSafety`, that the initial state and every step of `Backfill` map to
`SequentialReplay`; `ReplayInv` there says that whatever a worker, the channel
or `pending` holds as read was read. `OutputInOrderCorrect` follows from the
refinement alone.

Of `AsyncLog`, assuming only that no logger is called "nobody":
`NoSendOnClosedCorrect` (the mutex is never held while `closed` is set),
`ShutdownFlushesCorrect` (`WriterInv`: what the writer still owes at each of its
steps) and `NothingLostInSilenceCorrect` (`LossInv`: a record is refused at most
once, so the counts add up to the refused).

`Watcher_proofs`: `CheckpointFollowsRunCorrect`, with crashes and shutdowns
anywhere, and `RunsWithinCapCorrect`. `CapInv`: in a pass without an error the
checkpoints saved count the investigations run, but for the one whose checkpoint
is next; after an error in the pass nothing is said, and nothing can be.
`RepeatedOnlyIfOvertakenCorrect` and `PassLeavesNothingBehindCorrect` hold for any
tenants, events, stamps, replays, failures, crashes, cap and search limit under
two hypotheses. `KeysDistinct`: the sanitized keys of two subscribers differ;
`watcher_collision` shows what happens when they do not. `ClockAdvances`: the wall
clock moves forward between two cycles, without which `GetWatcherState` may take
an earlier checkpoint. The first also rests on the guard of `Project` that one
stamp is the stamp of one payload. It says when checkpointed work is repeated:
only when the event was ingested once more, and another event of the same moment,
ingested between the two, was checkpointed in its place. `watcher_reingested` shows
that this one case happens. Their invariant, `WatchInv`, relates the saved states to
the pass under way: what a cycle may still save is stamped before now
(`FreshInv`), so a new checkpoint is the version that is read back; the latest
event of a candidate that waits is at least as new as its checkpoints, by its time
and then its stamp, and newer than all of them once it is investigated
(`UpToDateInv`), so that one of these that names the same event has a later one
behind it (`OvertakenInv`); a candidate that is
dealt with is checkpointed or its tenant has an error (`DealtInv`).

`Startup_proofs`, assuming of files and environments only that a number is a
number, a text that is none, or nothing (`ScenarioAssumption`):

* `AcceptedComesUpCorrect`. `AcceptedInv`: a command under way was started and
  its configuration accepted; `QueueSizeIsNumber` follows one setting through the
  layers, because the logger compares it. What is accepted may still be refused
  in two ways, which the theorem names by leaving them out: a log file that
  cannot be created or opened (`SinkFails`), and a backend that is not
  implemented. apid needs no store to start: it answers `/readyz` all the same,
  and the routes of a missing store answer 501.
* `PublishersAreHeardCorrect`. `StreamInv`: when all that publish agree, every
  stream on the server is theirs. So a stale answer to `StreamInfo` does no harm:
  the addition it leads to equals the stream that has come between.

`Serving_proofs`, for any clients, questions, timeouts and failures, from one
inductive invariant in four parts: `PlaceInv` (types, and where a handler can be
for its route and link), `AnswersInv` (a question that was answered is not in
work any more; gives `OneAnswerEachCorrect`), `WorkInv` (what the store holds of
the question in work at each place, and what may still change of an answered
one; gives `ToldIsStoredCorrect` and `NoPhaseDroppedCorrect`) and `CauseInv` (a
stored run that is not in work and still running has its cause recorded; gives
`AbandonedRunHasACauseCorrect`).

`RunStore_proofs`, for any keys, savers and processes, any clock and any number
of cut or oversized lines, proves the four properties of its run and the types.
`StoreStep` sorts the steps by what they do to one store: nothing, a record more
in a readable file, or a file that is unreadable for good. The inductive
invariant says of a readable file that the scan for any key with lines ends at
one of them (`PickInv`; `GetAppend`: a record more replaces the answer to its
key if it is newer, and no other) and that it holds every acknowledged record
(`AckInv`); of any file that a settled record's saver is over (`RecordInv`); and
of a store without mishap that the memory backend holds the last line of each
key (`MemInv`). It gives `AckedIsKeptCorrect`, `AgreesWithMemoryCorrect`,
`SettledGivesWayCorrect` (the new answer is a record of a saver that was not over)
and `ActsAsNewestWinsCorrect`: both files implement `NewestWins`. That
specification states no fairness, so the whole refinement is proved.

The type invariants of `AgentRun`, `EvidencePipeline`, `Backfill`, `AsyncLog`,
`Serving` and `RunStore` are proved, and no run spends time on them.

Every safety property that a passing run checks is stated by a theorem. Only
model-checked: the liveness properties (`DaemonReturns`, `RunsEnd`,
`NobodyLeftBehind`, `QueueDrains`, `AskedIsAnswered` and the liveness half of
`ActsSequentially`), since the prover does not handle ENABLED, which fairness is
made of. What a recursive definition computes for every input is out of reach
too, as the library's induction theorems cannot be instantiated; where a property
needed such a fact the definition is stated without recursion (`Found` in
`EvidencePipeline` and `EvidenceReads` picks the line that the loop in the code
ends with).

## Plan

The order is by how much of the system's behaviour depends on a part. Done:
policy, agent run, watcher, pipeline, an investigation's reads, backfill,
logging, the stores of runs and states, configuration and start, the transports
and apid; proofs as above. Next:

1. Proofs of the types of the watcher, the reads and the start, and lemmas about
   `Merge` and `Resolve` as operators.
2. Composition of `EvidencePipeline` and `Watcher`: the projection fed by real
   normaliser runs, a restart of each, an event that leads to an investigation.
3. The memory variants of the evidence stores, and torn lines in their files.

Not modelled, and why: contracts and the search routes of the HTTP API check and
convert records and keep no state; the webhooks validate and acknowledge without
storing; channels, cases, identity, automation, approvals, executor and modeld
are interfaces or placeholders; the agent's memory and tool registry are held and
never called; the flags of agentd are constants here; NATS is external (a
publish may fail before or after delivery, the server may go away between two
calls); SQL migrations are not used by any code.
