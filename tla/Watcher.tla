------------------------------ MODULE Watcher ------------------------------
(***************************************************************************)
(* The agentd watcher: runtime.Service.Run and RunCycle over the session   *)
(* projection and the file-backed watcher state store.                     *)
(*                                                                         *)
(* A cycle looks, tenant by tenant, for subscribers with repeated short    *)
(* sessions, starts an investigation for each one whose latest qualifying  *)
(* event differs from the checkpoint, and then saves the checkpoint.       *)
(* Around it: events are projected (more than once, too: the projection is *)
(* append-only and does not deduplicate), stores and runs fail, the daemon *)
(* is told to stop, or dies between two steps and is started again.        *)
(*                                                                         *)
(* Events are records, and a projected row is an event with the stamp of   *)
(* its ingestion, which sortEvents breaks ties of OccurredAt by.  A source *)
(* that is ingested again gives its events new stamps.  Subscribers are    *)
(* numbers, for the string order of sortCandidates.  The investigation is  *)
(* module AgentRun; here it returns nil, approval required or an error.    *)
(***************************************************************************)
EXTENDS Integers, Sequences, FiniteSets

CONSTANTS Tenants,         \* the configured tenants, in order
          Pool,            \* the events that may be projected, see EventShape
          Keys, StateKey,  \* watcherStateKey: StateKey[tenant][subscriber]
          Stamps,          \* readings of the clock of ingestion, IngestedAt
          MaxRows,         \* bound: rows of the projection
          Window, MinEvents, MaxRunsPerCycle, SearchLimit,
          Ticks, MaxTime,  \* clock movement between cycles; bound: last reading
          QueriesMayFail, RunsMayFail, StatesMayFail

TenantSet == {Tenants[i] : i \in 1..Len(Tenants)}
Subscribers == {e.sub : e \in Pool}

EventShape == [id : Nat, tenant : TenantSet, sub : Nat, at : Int, short : BOOLEAN]

ASSUME WatcherAssumption ==
    /\ Tenants \in Seq(TenantSet) /\ Len(Tenants) > 0
    /\ \A i, j \in 1..Len(Tenants) : Tenants[i] = Tenants[j] => i = j   \* normalizeTenants
    /\ Pool \subseteq EventShape
    /\ \A e, f \in Pool : e.id = f.id => e = f
    /\ \A t \in TenantSet, s \in Subscribers : StateKey[t][s] \in Keys
    /\ Stamps \subseteq Int /\ MaxRows \in Nat /\ Window \in Nat /\ SearchLimit \in Nat
    /\ MinEvents \in Nat \ {0} /\ MaxRunsPerCycle \in Nat \ {0}
    /\ Ticks \subseteq Int /\ MaxTime \in Int
    /\ {QueriesMayFail, RunsMayFail, StatesMayFail} \subseteq BOOLEAN

VARIABLES rows,       \* the session projection: [event, seen, copy] records
          states,     \* the lines of the watcher state file
          pc,         \* where the daemon is
          ctxDone,    \* shutdown was requested
          now,        \* the cycle's time
          left,       \* tenants of this cycle still to do, the current one first
          pending,    \* candidates of the tenant not looked at yet
          current,    \* the candidate being worked on, as a set of at most one
          triggered,  \* triggeredForTenant
          errs,       \* tenants of this cycle with an entry in errs
          found,      \* history: the candidates of this tenant's pass
          ran,        \* history: investigations this tenant's pass got through
          investigated \* history: every <<tenant, sub, event>> ever investigated

vars == <<rows, states, pc, ctxDone, now, left, pending, current, triggered, errs,
          found, ran, investigated>>
cycleVars == <<now, left, pending, current, triggered, errs, found, ran>>

Tenant == Head(left)

-----------------------------------------------------------------------------
(* The session projection *)

Matched(t) ==
    {r \in rows : r.event.tenant = t /\ now - Window <= r.event.at /\ r.event.at <= now}

\* sortEvents: newest first, of one OccurredAt the one ingested last.  Rows that
\* a replay repeated are equal, and it does not matter in which order.
Newer(q, r) ==
    \/ q.event.at > r.event.at
    \/ q.event.at = r.event.at /\ q.seen > r.seen
    \/ q.event.at = r.event.at /\ q.seen = r.seen /\ q.copy > r.copy

\* SearchNetworkSessions: the matching rows, cut off at SearchLimit.
Returned(t) ==
    {r \in Matched(t) : Cardinality({q \in Matched(t) : Newer(q, r)}) < SearchLimit}

\* A row as an event and its stamp.
Stop(r) == [event |-> r.event, seen |-> r.seen]

\* detectCandidates: every returned row counts; Latest is the newest, as it
\* keeps the first of those with one OccurredAt.
Qualifying(t, s) == {r \in Returned(t) : r.event.sub = s /\ r.event.short}
Latest(t, s) ==
    Stop(CHOOSE r \in Qualifying(t, s) : \A q \in Qualifying(t, s) : q = r \/ Newer(r, q))

\* enrichCandidatesWithAccess only sets how a candidate ranks: 2 when a
\* correlation was found, 1 when there are access events, 0 otherwise or when
\* the search for it failed.
DetectCandidates(t, level) ==
    {[sub |-> s, count |-> Cardinality(Qualifying(t, s)), latest |-> Latest(t, s), level |-> level[s]] :
        s \in {s \in Subscribers : Cardinality(Qualifying(t, s)) >= MinEvents}}

\* sortCandidates.
Before(c, d) ==
    \/ c.level > d.level
    \/ c.level = d.level /\ c.count > d.count
    \/ c.level = d.level /\ c.count = d.count /\ c.latest.event.at > d.latest.event.at
    \/ /\ c.level = d.level /\ c.count = d.count
       /\ c.latest.event.at = d.latest.event.at /\ c.sub < d.sub

First(cands) == CHOOSE c \in cands : \A d \in cands : d = c \/ Before(c, d)

-----------------------------------------------------------------------------
(* The watcher state store *)

LinesOf(key) == {i \in 1..Len(states) : states[i].key = key}

\* Fault: the first line of the key is returned and never replaced.
GetWatcherStateFirst(key) ==
    {states[i] : i \in {i \in LinesOf(key) : \A j \in LinesOf(key) : i <= j}}

\* FileWatcherStateStore.Get keeps a line until one with a later UpdatedAt
\* comes: the first of the latest.  {} is ErrNotFound.
GetWatcherState(key) ==
    {states[i] : i \in {i \in LinesOf(key) :
                          \A j \in LinesOf(key) :
                             /\ states[j].updatedAt <= states[i].updatedAt
                             /\ j < i => states[j].updatedAt < states[i].updatedAt}}

Checkpointed(t, c) ==
    \E s \in GetWatcherState(StateKey[t][c.sub]) : s.last.event.id = c.latest.event.id

\* The stamp in last is history: a state names the event only.
NewState(t, c) == [key |-> StateKey[t][c.sub], tenant |-> t, sub |-> c.sub,
                   last |-> c.latest, updatedAt |-> now]

-----------------------------------------------------------------------------
Init ==
    /\ rows = {}
    /\ states = <<>>
    /\ pc = "idle"
    /\ ctxDone = FALSE
    /\ now = 0
    /\ left = <<>>
    /\ pending = {} /\ current = {}
    /\ triggered = 0
    /\ errs = {}
    /\ found = {} /\ ran = 0 /\ investigated = {}

\* A tick, or the first cycle at start.  A tick can win over ctx.Done().
BeginCycle ==
    /\ pc = "idle"
    /\ \E d \in Ticks : now' = now + d /\ now' <= MaxTime
    /\ pc' = "tenant"
    /\ left' = Tenants
    /\ UNCHANGED <<rows, states, ctxDone, pending, current, triggered, errs, found, ran, investigated>>

\* SearchNetworkSessions, detectCandidates and enrichCandidatesWithAccess.  A
\* failed access search is an error of the cycle, but its candidate stays.
SearchTenant ==
    /\ pc = "tenant" /\ left # <<>>
    /\ \/ /\ ~ctxDone
          /\ \E level \in [Subscribers -> 0..2] : pending' = DetectCandidates(Tenant, level)
          /\ found' = pending'
          /\ pc' = "candidates"
          /\ UNCHANGED left
          /\ \/ UNCHANGED errs
             \/ /\ QueriesMayFail
                /\ \E c \in pending' : c.level = 0
                /\ errs' = errs \cup {Tenant}
       \/ /\ ctxDone \/ QueriesMayFail
          /\ errs' = errs \cup {Tenant}
          /\ left' = Tail(left)
          /\ UNCHANGED <<pending, found, pc>>
    /\ UNCHANGED <<rows, states, ctxDone, now, current, triggered, ran, investigated>>

\* continue: on to the next candidate.
NextCandidate == pc' = "candidates" /\ current' = {}

\* Fault: the cap is not looked at.
CheckCandidateUncapped ==
    /\ pc = "candidates" /\ pending # {}
    /\ LET c == First(pending) IN
        /\ pending' = pending \ {c}
        /\ ~ctxDone /\ ~Checkpointed(Tenant, c)
        /\ pc' = "investigate"
        /\ current' = {c}
    /\ UNCHANGED <<rows, states, ctxDone, now, left, triggered, errs, found, ran, investigated>>

\* Fault: break instead of continue when the checkpoint is current.
CheckCandidateBreaks ==
    /\ pc = "candidates" /\ pending # {} /\ triggered < MaxRunsPerCycle
    /\ ~ctxDone
    /\ LET c == First(pending) IN
        \/ /\ Checkpointed(Tenant, c)
           /\ pending' = {}
           /\ NextCandidate
        \/ /\ ~Checkpointed(Tenant, c)
           /\ pending' = pending \ {c}
           /\ pc' = "investigate"
           /\ current' = {c}
    /\ UNCHANGED <<rows, states, ctxDone, now, left, triggered, errs, found, ran, investigated>>

\* Fault: the checkpoint of a candidate is asked for again until it can be read.
CheckCandidateInsists ==
    /\ pc = "candidates" /\ pending # {} /\ triggered < MaxRunsPerCycle
    /\ ~ctxDone
    /\ LET c == First(pending) IN
        /\ pending' = pending \ {c}
        /\ \/ Checkpointed(Tenant, c) /\ NextCandidate
           \/ ~Checkpointed(Tenant, c) /\ pc' = "investigate" /\ current' = {c}
    /\ UNCHANGED <<rows, states, ctxDone, now, left, triggered, errs, found, ran, investigated>>

\* The checkpoint of the best candidate left is read.
CheckCandidate ==
    /\ pc = "candidates" /\ pending # {} /\ triggered < MaxRunsPerCycle
    /\ LET c == First(pending) IN
        /\ pending' = pending \ {c}
        /\ \/ /\ ~ctxDone /\ Checkpointed(Tenant, c)
              /\ NextCandidate
              /\ UNCHANGED errs
           \/ /\ ctxDone \/ StatesMayFail
              /\ NextCandidate
              /\ errs' = errs \cup {Tenant}
           \/ /\ ~ctxDone /\ ~Checkpointed(Tenant, c)
              /\ pc' = "investigate"
              /\ current' = {c}
              /\ UNCHANGED errs
    /\ UNCHANGED <<rows, states, ctxDone, now, left, triggered, found, ran, investigated>>

\* Fault: an investigation that failed is checkpointed like one that ran.
InvestigateIgnoresError ==
    /\ pc = "investigate"
    /\ pc' = "checkpoint"
    /\ \/ /\ ~ctxDone
          /\ ran' = ran + 1
          /\ investigated' = investigated \cup {<<Tenant, c.sub, c.latest.event>> : c \in current}
       \/ UNCHANGED <<ran, investigated>>
    /\ UNCHANGED <<rows, states, ctxDone, now, left, pending, current, triggered, errs, found>>

\* harness.RunInvestigation; a run that awaits approval counts as done.
Investigate ==
    /\ pc = "investigate"
    /\ \/ /\ ~ctxDone
          /\ pc' = "checkpoint"
          /\ ran' = ran + 1
          /\ investigated' = investigated \cup {<<Tenant, c.sub, c.latest.event>> : c \in current}
          /\ UNCHANGED <<current, errs>>
       \/ /\ ctxDone \/ RunsMayFail
          /\ NextCandidate
          /\ errs' = errs \cup {Tenant}
          /\ UNCHANGED <<ran, investigated>>
    /\ UNCHANGED <<rows, states, ctxDone, now, left, pending, triggered, found>>

\* UpsertWatcherState; only then does the run count against the cap.
Checkpoint ==
    /\ pc = "checkpoint"
    /\ \/ /\ ~ctxDone
          /\ \E c \in current : states' = Append(states, NewState(Tenant, c))
          /\ triggered' = triggered + 1
          /\ UNCHANGED errs
       \/ /\ ctxDone \/ StatesMayFail
          /\ errs' = errs \cup {Tenant}
          /\ UNCHANGED <<states, triggered>>
    /\ NextCandidate
    /\ UNCHANGED <<rows, ctxDone, now, left, pending, found, ran, investigated>>

PassOver == pc = "candidates" /\ (pending = {} \/ triggered >= MaxRunsPerCycle)

EndTenant ==
    /\ PassOver
    /\ pc' = "tenant"
    /\ left' = Tail(left)
    /\ pending' = {} /\ found' = {}
    /\ triggered' = 0 /\ ran' = 0
    /\ UNCHANGED <<rows, states, ctxDone, now, current, errs, investigated>>

\* RunCycle returns.  Run stops if the cycle failed and ctx is done.
EndCycle ==
    /\ pc = "tenant" /\ left = <<>>
    /\ pc' = IF errs # {} /\ ctxDone THEN "stopped" ELSE "idle"
    /\ errs' = {}
    /\ UNCHANGED <<rows, states, ctxDone, now, left, pending, current, triggered, found, ran, investigated>>

\* The select of Run picks ctx.Done().
StopRun ==
    /\ pc = "idle" /\ ctxDone
    /\ pc' = "stopped"
    /\ UNCHANGED <<rows, states, ctxDone, investigated>> /\ UNCHANGED cycleVars

-----------------------------------------------------------------------------
(* The environment *)

\* normalizerd appends an event to the session projection: with a stamp of its
\* own, for the first time or because its source was ingested again, or with a
\* stamp it had before, because the raw store was replayed.  Two payloads are
\* never stamped with one reading.
Project(e) ==
    /\ Cardinality(rows) < MaxRows
    /\ \E s \in Stamps :
        /\ \A r \in rows : r.seen = s => r.event = e
        /\ LET same == {r \in rows : r.seen = s} IN
            rows' = rows \cup {[event |-> e, seen |-> s, copy |-> 1 + Cardinality(same)]}
    /\ UNCHANGED <<states, pc, ctxDone, investigated>> /\ UNCHANGED cycleVars

Cancel ==
    /\ ~ctxDone /\ pc # "stopped"
    /\ ctxDone' = TRUE
    /\ UNCHANGED <<rows, states, pc, investigated>> /\ UNCHANGED cycleVars

\* agentd dies and is started again: only the files are left.
Crash ==
    /\ pc \notin {"idle", "stopped"} /\ ~ctxDone
    /\ pc' = "idle"
    /\ left' = <<>> /\ pending' = {} /\ current' = {} /\ triggered' = 0
    /\ errs' = {} /\ found' = {} /\ ran' = 0
    /\ UNCHANGED <<rows, states, ctxDone, now, investigated>>

RunCycle == BeginCycle \/ SearchTenant \/ CheckCandidate \/ Investigate \/ Checkpoint
            \/ EndTenant \/ EndCycle

Daemon == RunCycle \/ StopRun

Next == Daemon \/ (\E e \in Pool : Project(e)) \/ Cancel \/ Crash

\* The daemon goroutine is scheduled; the select of Run is not promised to
\* pick either branch.
Spec == Init /\ [][Next]_vars /\ WF_vars(Daemon)

-----------------------------------------------------------------------------
(* Properties *)

\* RunCycle saves a checkpoint only for what it has investigated: a crash, a
\* failed run or a shutdown in between repeats the work and never loses it.
CheckpointFollowsRun ==
    \A i \in 1..Len(states) :
        <<states[i].tenant, states[i].sub, states[i].last.event>> \in investigated

\* What the watcher is about to investigate, though line i checkpointed it.
Repeats(c, i) ==
    /\ states[i].tenant = Tenant /\ states[i].sub = c.sub
    /\ states[i].last.event = c.latest.event

\* The plain claim: an investigation whose checkpoint was saved is not started
\* again, in this cycle or a later one.  It fails when two subscribers share a
\* key, and when one event takes the place of another of the same moment.
CheckpointedNotRepeated ==
    pc = "investigate" => \A c \in current, i \in 1..Len(states) : ~Repeats(c, i)

\* Line i of tenant t is overtaken by another event of the subscriber and of the
\* same moment, ingested after the one of line i and before candidate c's.
Overtaken(t, c, i) ==
    \E j \in i + 1..Len(states) :
        LET by == states[j] IN
        /\ by.tenant = t /\ by.sub = c.sub
        /\ by.last.event # c.latest.event
        /\ by.last.event.at = c.latest.event.at
        /\ states[i].last.seen < by.last.seen /\ by.last.seen < c.latest.seen

\* An event is investigated after it was checkpointed only if it was ingested
\* once more since, and if in the meantime another event of the subscriber, of
\* the same moment and ingested between the two, was checkpointed in its place.
\* Nothing else repeats work that was checkpointed: no restart, no failure, no
\* replay of the raw store, no older event that comes late.
RepeatedOnlyIfOvertaken ==
    pc = "investigate" =>
        \A c \in current, i \in 1..Len(states) : Repeats(c, i) => Overtaken(Tenant, c, i)

\* When a tenant's pass ends without an error and below the cap, every
\* candidate it found has its latest event checkpointed, whatever went wrong
\* for the tenants before it in the same cycle.
PassLeavesNothingBehind ==
    PassOver /\ Tenant \notin errs /\ triggered < MaxRunsPerCycle =>
        \A c \in found : Checkpointed(Tenant, c)

\* A pass over a tenant runs no more investigations than the cap allows unless
\* one of its steps failed: a failed checkpoint alone does not count against it.
RunsWithinCap == left # <<>> /\ Tenant \notin errs => ran <= MaxRunsPerCycle

\* RunCycle always returns: the daemon comes back to its select, or stops.  And
\* once ctx is cancelled Run returns, even if a tick wins over ctx.Done() and
\* another cycle is started.
DaemonReturns ==
    /\ pc \notin {"idle", "stopped"} ~> pc \in {"idle", "stopped"}
    /\ ctxDone ~> pc = "stopped"

=============================================================================
