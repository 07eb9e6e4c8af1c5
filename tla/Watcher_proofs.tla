--------------------------- MODULE Watcher_proofs ---------------------------
(***************************************************************************)
(* Proofs about Watcher, for any tenants, events, keys and bounds.         *)
(***************************************************************************)
EXTENDS Watcher, TLAPS, SequenceTheorems, FiniteSetTheorems, WellFoundedInduction

\* The work behind every checkpoint is done: those saved, and the one that is
\* about to be saved.
DoneInv ==
    /\ states \in Seq(Range(states))
    /\ CheckpointFollowsRun
    /\ pc = "checkpoint" => \A c \in current : <<Tenant, c.sub, c.latest.event>> \in investigated

\* DoneInv holds initially.
LEMMA DoneInit == Init => DoneInv
<1>1. <<>> \in Seq(Range(<<>>)) /\ Len(<<>>) = 0
  OBVIOUS
<1> QED
  BY <1>1 DEF Init, DoneInv, CheckpointFollowsRun

\* A step that saves nothing keeps what is saved covered.
LEMMA DoneKept ==
    ASSUME DoneInv, UNCHANGED states, investigated \subseteq investigated'
    PROVE  states' \in Seq(Range(states')) /\ CheckpointFollowsRun'
BY DEF DoneInv, CheckpointFollowsRun

\* Every step keeps DoneInv.
LEMMA DoneStep == DoneInv /\ [Next]_vars => DoneInv'
<1> SUFFICES ASSUME DoneInv, [Next]_vars PROVE DoneInv'
  OBVIOUS
<1>1. CASE BeginCycle \/ SearchTenant \/ CheckCandidate \/ EndTenant \/ EndCycle \/ StopRun \/ Crash
  <2>1. UNCHANGED <<states, investigated>>
    BY <1>1 DEF BeginCycle, SearchTenant, CheckCandidate, EndTenant, EndCycle, StopRun, Crash
  <2>2. pc' # "checkpoint"
    BY <1>1 DEF BeginCycle, SearchTenant, CheckCandidate, NextCandidate, EndTenant, EndCycle,
                StopRun, Crash
  <2> QED
    BY <2>1, <2>2, DoneKept DEF DoneInv
<1>2. CASE Investigate
  <2>1. UNCHANGED <<states, left>> /\ investigated \subseteq investigated'
    BY <1>2 DEF Investigate
  <2>2. pc' = "checkpoint" =>
          /\ UNCHANGED current
          /\ investigated' = investigated \cup {<<Tenant, c.sub, c.latest.event>> : c \in current}
    BY <1>2 DEF Investigate, NextCandidate
  <2>3. pc' = "checkpoint" => \A c \in current' : <<Tenant', c.sub, c.latest.event>> \in investigated'
    BY <2>1, <2>2 DEF Tenant
  <2> QED
    BY <2>1, <2>3, DoneKept DEF DoneInv
<1>3. CASE Checkpoint
  <2>1. pc = "checkpoint" /\ pc' = "candidates" /\ UNCHANGED investigated
    BY <1>3 DEF Checkpoint, NextCandidate
  <2>2. CASE UNCHANGED states
    BY <2>1, <2>2, DoneKept DEF DoneInv
  <2>3. CASE \E c \in current : states' = Append(states, NewState(Tenant, c))
    <3>1. PICK c \in current : states' = Append(states, NewState(Tenant, c))
      BY <2>3
    <3> DEFINE new == NewState(Tenant, c)
               S == Range(states) \cup {new}
    <3>2. states \in Seq(S) /\ new \in S
      BY SeqMonotonic DEF DoneInv
    <3>3. /\ states' \in Seq(S) /\ Len(states') = Len(states) + 1 /\ Len(states) \in Nat
          /\ \A i \in 1..Len(states) : states'[i] = states[i]
          /\ states'[Len(states) + 1] = new
      BY <3>1, <3>2, AppendProperties
    <3>4. states' \in Seq(Range(states'))
      BY <3>3 DEF Range
    <3>5. /\ new.tenant = Tenant /\ new.sub = c.sub /\ new.last = c.latest
          /\ <<Tenant, c.sub, c.latest.event>> \in investigated
      BY <2>1, <3>1 DEF NewState, DoneInv
    <3>6. ASSUME NEW i \in 1..Len(states')
          PROVE  <<states'[i].tenant, states'[i].sub, states'[i].last.event>> \in investigated
      <4>1. CASE i \in 1..Len(states)
        BY <3>3, <4>1 DEF DoneInv, CheckpointFollowsRun
      <4>2. CASE i = Len(states) + 1
        BY <3>3, <3>5, <4>2
      <4> QED
        BY <3>3, <4>1, <4>2
    <3> QED
      BY <2>1, <3>4, <3>6 DEF DoneInv, CheckpointFollowsRun
  <2> QED
    BY <1>3, <2>2, <2>3 DEF Checkpoint
<1>4. CASE (\E e \in Pool : Project(e)) \/ Cancel \/ UNCHANGED vars
  <2>1. UNCHANGED <<states, investigated, pc, current, left>>
    BY <1>4 DEF Project, Cancel, cycleVars, vars
  <2> QED
    BY <2>1, DoneKept DEF DoneInv, Tenant
<1> QED
  BY <1>1, <1>2, <1>3, <1>4 DEF Next, Daemon, RunCycle

\* Every checkpoint ever saved is of an investigation that was run, through
\* failures, shutdowns and restarts between the two.
THEOREM CheckpointFollowsRunCorrect == Spec => []CheckpointFollowsRun
<1>1. DoneInv => CheckpointFollowsRun
  BY DEF DoneInv
<1> QED
  BY <1>1, DoneInit, DoneStep, PTL DEF Spec

\* In a pass without an error the checkpoints saved count the investigations
\* run, but for the one whose checkpoint is about to be saved.
CapInv ==
    /\ triggered \in Nat /\ ran \in Nat /\ triggered <= MaxRunsPerCycle
    /\ pc \notin {"candidates", "investigate", "checkpoint"} => triggered = 0 /\ ran = 0
    /\ pc \in {"investigate", "checkpoint"} => triggered < MaxRunsPerCycle
    /\ pc \in {"candidates", "investigate", "checkpoint"} /\ Tenant \notin errs =>
           ran = triggered + (IF pc = "checkpoint" THEN 1 ELSE 0)

\* Every step keeps CapInv.
LEMMA CapStep == CapInv /\ [Next]_vars => CapInv'
<1> SUFFICES ASSUME CapInv, [Next]_vars PROVE CapInv'
  OBVIOUS
<1>0. MaxRunsPerCycle \in Nat
  BY WatcherAssumption
<1>1. CASE BeginCycle \/ EndTenant \/ EndCycle \/ StopRun \/ Crash
  <2>1. /\ pc' \notin {"candidates", "investigate", "checkpoint"}
        /\ triggered' = 0 /\ ran' = 0
    BY <1>1 DEF CapInv, BeginCycle, EndTenant, EndCycle, StopRun, Crash, PassOver, cycleVars
  <2> QED
    BY <1>0, <2>1 DEF CapInv
<1>2. CASE SearchTenant
  <2>1. pc' \in {"tenant", "candidates"} /\ triggered' = 0 /\ ran' = 0
    BY <1>2 DEF CapInv, SearchTenant
  <2> QED
    BY <1>0, <2>1 DEF CapInv
<1>3. CASE CheckCandidate
  <2>1. /\ triggered < MaxRunsPerCycle /\ pc = "candidates"
        /\ pc' \in {"candidates", "investigate"} /\ UNCHANGED <<triggered, ran, left>>
        /\ errs \subseteq errs'
    BY <1>3 DEF CheckCandidate, NextCandidate
  <2> QED
    BY <2>1 DEF CapInv, Tenant
<1>4. CASE Investigate
  <2>1. /\ pc = "investigate" /\ UNCHANGED <<triggered, left>>
        /\ \/ pc' = "checkpoint" /\ ran' = ran + 1 /\ UNCHANGED errs
           \/ pc' = "candidates" /\ ran' = ran /\ Tenant \in errs'
    BY <1>4 DEF Investigate, NextCandidate
  <2> QED
    BY <2>1 DEF CapInv, Tenant
<1>5. CASE Checkpoint
  <2>1. /\ pc = "checkpoint" /\ pc' = "candidates" /\ UNCHANGED <<ran, left>>
        /\ \/ triggered' = triggered + 1 /\ UNCHANGED errs
           \/ triggered' = triggered /\ Tenant \in errs'
    BY <1>5 DEF Checkpoint, NextCandidate
  <2> QED
    BY <1>0, <2>1 DEF CapInv, Tenant
<1>6. CASE (\E e \in Pool : Project(e)) \/ Cancel \/ UNCHANGED vars
  <2>1. UNCHANGED <<pc, triggered, ran, left, errs>>
    BY <1>6 DEF Project, Cancel, cycleVars, vars
  <2> QED
    BY <2>1 DEF CapInv, Tenant
<1> QED
  BY <1>1, <1>2, <1>3, <1>4, <1>5, <1>6 DEF Next, Daemon, RunCycle

\* A pass over a tenant in which no step failed stays within the cap, for any
\* cap, any number of candidates and any failures of other tenants.
THEOREM RunsWithinCapCorrect == Spec => []RunsWithinCap
<1>1. Init => CapInv
  BY WatcherAssumption DEF Init, CapInv
<1>2. CapInv => RunsWithinCap
  BY WatcherAssumption DEF CapInv, RunsWithinCap
<1> QED
  BY <1>1, <1>2, CapStep, PTL DEF Spec

-----------------------------------------------------------------------------
(* The events a pass finds *)

\* watcherStateKey tells the tenants and subscribers apart: sanitizeWatcherIDPart
\* does not map two of their names to one.
KeysDistinct ==
    \A t, u \in TenantSet, s, v \in Subscribers :
        StateKey[t][s] = StateKey[u][v] => t = u /\ s = v

\* The wall clock moves forward between two cycles.
ClockAdvances == Ticks \subseteq Nat \ {0}

\* A row of the projection without its number among the copies, and their order.
Stops == [event : Pool, seen : Stamps]
NewerStop(p, q) == p.event.at > q.event.at \/ (p.event.at = q.event.at /\ p.seen > q.seen)

Projected(p) == \E r \in rows : Stop(r) = p

RowsInv ==
    /\ IsFiniteSet(rows) /\ rows \subseteq [event : Pool, seen : Stamps, copy : Nat]
    /\ \A q, r \in rows : q.seen = r.seen => q.event = r.event

\* What the events are made of.
LEMMA Events ==
    \A e \in Pool : /\ e.id \in Nat /\ e.at \in Int
                    /\ e.tenant \in TenantSet /\ e.sub \in Nat /\ e.sub \in Subscribers
BY WatcherAssumption DEF EventShape, Subscribers

\* An irreflexive, transitive and total order on a finite set has a largest
\* element: one with no subset of elements above it that is smaller.
LEMMA FiniteMaximum ==
    ASSUME NEW S, IsFiniteSet(S), S # {}, NEW R,
           \A a \in S : <<a, a>> \notin R,
           \A a, b, c \in S : <<a, b>> \in R /\ <<b, c>> \in R => <<a, c>> \in R,
           \A a, b \in S : a = b \/ <<a, b>> \in R \/ <<b, a>> \in R
    PROVE  \E a \in S : \A b \in S : b = a \/ <<a, b>> \in R
<1> DEFINE Above(a) == {b \in S : <<b, a>> \in R}
           T == {Above(a) : a \in S}
           Order == StrictSubsetOrdering(S)
<1>1. \A a \in S : Above(a) \in FiniteSubsetsOf(S)
  BY FS_Subset DEF FiniteSubsetsOf
<1>2. T \subseteq FiniteSubsetsOf(S) /\ T # {}
  <2> HIDE DEF Above
  <2> QED
    BY <1>1
<1>3. IsWellFoundedOn(Order, FiniteSubsetsOf(S))
  BY FS_StrictSubsetOrderingWellFounded
<1>4. PICK x \in T : \A y \in T : <<y, x>> \notin Order
  <2> HIDE DEF T, Order
  <2> QED
    BY <1>2, <1>3, WFMin
<1>5. PICK a \in S : x = Above(a)
  OBVIOUS
<1>6. ASSUME NEW b \in S, <<b, a>> \in R PROVE FALSE
  <2>1. Above(b) \subseteq Above(a) /\ b \in Above(a) /\ b \notin Above(b)
    BY <1>6
  <2>2. <<Above(b), Above(a)>> \in Order
    BY <2>1 DEF StrictSubsetOrdering
  <2> QED
    BY <1>4, <1>5, <2>2
<1> QED
  BY <1>6

\* Newer orders the rows of the projection.
LEMMA NewerOrders ==
    ASSUME RowsInv
    PROVE  /\ \A q \in rows : ~Newer(q, q)
           /\ \A p, q, r \in rows : Newer(p, q) /\ Newer(q, r) => Newer(p, r)
           /\ \A p, q \in rows : p = q \/ Newer(p, q) \/ Newer(q, p)
<1>1. \A q \in rows : /\ q.event \in Pool /\ q.event.at \in Int
                      /\ q.seen \in Int /\ q.copy \in Nat
  BY Events, WatcherAssumption DEF RowsInv
<1>2. \A q \in rows : ~Newer(q, q)
  BY <1>1 DEF Newer
<1>3. ASSUME NEW p \in rows, NEW q \in rows, NEW r \in rows, Newer(p, q), Newer(q, r)
      PROVE  Newer(p, r)
  BY <1>1, <1>3 DEF Newer
<1>4. ASSUME NEW p \in rows, NEW q \in rows, p # q PROVE Newer(p, q) \/ Newer(q, p)
  <2>1. p.event # q.event \/ p.seen # q.seen \/ p.copy # q.copy
    BY <1>4 DEF RowsInv
  <2>2. p.event # q.event => p.seen # q.seen
    BY DEF RowsInv
  <2> QED
    BY <1>1, <2>1, <2>2 DEF Newer
<1> QED
  BY <1>2, <1>3, <1>4

\* Latest is the newest of a subscriber's short sessions among all the rows the
\* query matched, although only SearchLimit of them are returned.
LEMMA LatestIsNewest ==
    ASSUME RowsInv, NEW t \in TenantSet, NEW s \in Subscribers, Qualifying(t, s) # {}
    PROVE  /\ \E r \in Qualifying(t, s) : Stop(r) = Latest(t, s)
           /\ \A q \in Matched(t) : q.event.sub = s /\ q.event.short =>
                Stop(q) = Latest(t, s) \/ NewerStop(Latest(t, s), Stop(q))
<1> DEFINE Q == Qualifying(t, s)
           M == Matched(t)
           R == {p \in rows \X rows : Newer(p[1], p[2])}
           Above(r) == {q \in M : Newer(q, r)}
           l == CHOOSE r \in Q : \A q \in Q : q = r \/ Newer(r, q)
<1>1. Q # {} /\ Q \subseteq M /\ M \subseteq rows /\ IsFiniteSet(Q) /\ IsFiniteSet(M)
  <2>1. Q \subseteq M /\ M \subseteq rows
    BY DEF Qualifying, Returned, Matched
  <2> QED
    BY <2>1, FS_Subset DEF RowsInv
<1>2. \A p, q \in rows : <<p, q>> \in R <=> Newer(p, q)
  OBVIOUS
<1>3. \E a \in Q : \A b \in Q : b = a \/ <<a, b>> \in R
  <2>1. \A a \in Q : <<a, a>> \notin R
    BY <1>1, <1>2, NewerOrders
  <2>2. \A a, b, c \in Q : <<a, b>> \in R /\ <<b, c>> \in R => <<a, c>> \in R
    <3> HIDE DEF Q, M, R
    <3> QED
      BY <1>1, <1>2, NewerOrders
  <2>3. \A a, b \in Q : a = b \/ <<a, b>> \in R \/ <<b, a>> \in R
    BY <1>1, <1>2, NewerOrders
  <2> HIDE DEF Q, R
  <2> QED
    BY <1>1, <2>1, <2>2, <2>3, FiniteMaximum
<1>4. \E a \in Q : \A b \in Q : b = a \/ Newer(a, b)
  <2> HIDE DEF Q, M, R
  <2> QED
    BY <1>1, <1>2, <1>3
<1>5. l \in Q /\ \A b \in Q : b = l \/ Newer(l, b)
  <2> HIDE DEF Q
  <2> QED
    BY <1>4
<1>6. Latest(t, s) = Stop(l)
  BY DEF Latest
<1>7. ASSUME NEW q \in M, q.event.sub = s, q.event.short
      PROVE  q = l \/ Newer(l, q)
  <2>1. SUFFICES ASSUME Newer(q, l) PROVE q = l \/ Newer(l, q)
    <3> HIDE DEF l, Q, M
    <3> QED
      BY <1>1, <1>5, <1>7, NewerOrders
  <2>2. Above(q) \subseteq Above(l)
    <3> HIDE DEF l, Q, M
    <3> QED
      BY <1>1, <1>5, <2>1, NewerOrders
  <2>3. Cardinality(Above(q)) <= Cardinality(Above(l)) /\ Cardinality(Above(q)) \in Nat
        /\ Cardinality(Above(l)) \in Nat
    <3>1. Above(l) \in SUBSET M /\ Above(q) \in SUBSET M
      OBVIOUS
    <3>2. IsFiniteSet(Above(l)) /\ IsFiniteSet(Above(q))
      <4> HIDE DEF Above, M
      <4> QED
        BY <1>1, <3>1, FS_Subset
    <3> HIDE DEF Above
    <3> QED
      BY <2>2, <3>2, FS_Subset, FS_CardinalityType
  <2>4. Cardinality(Above(l)) < SearchLimit
    <3> HIDE DEF l
    <3> QED
      BY <1>5 DEF Qualifying, Returned
  <2>5. Cardinality(Above(q)) < SearchLimit
    <3> HIDE DEF l, Above
    <3> QED
      BY <2>3, <2>4, WatcherAssumption
  <2>6. q \in Returned(t)
    BY <2>5, <1>7 DEF Returned
  <2>7. q \in Q
    BY <1>7, <2>6 DEF Qualifying
  <2> QED
    <3> HIDE DEF l, Q
    <3> QED
      BY <1>5, <2>7
<1>8. ASSUME NEW q \in M, q.event.sub = s, q.event.short
      PROVE  Stop(q) = Stop(l) \/ NewerStop(Stop(l), Stop(q))
  <2> HIDE DEF l, Q, M
  <2>1. q = l \/ Newer(l, q)
    BY <1>7, <1>8
  <2>2. q.seen = l.seen => q.event = l.event
    BY <1>1, <1>5 DEF RowsInv
  <2>3. /\ Stop(q).event = q.event /\ Stop(q).seen = q.seen
        /\ Stop(l).event = l.event /\ Stop(l).seen = l.seen
    BY DEF Stop
  <2>4. q.seen = l.seen => Stop(q) = Stop(l)
    BY <2>2 DEF Stop
  <2> QED
    BY <2>1, <2>3, <2>4 DEF Newer, NewerStop
<1> HIDE DEF l
<1> QED
  BY <1>5, <1>6, <1>8

Candidate == [sub : Subscribers, count : Nat, latest : Stops, level : 0..2]

OneEach(C) == \A c, d \in C : c.sub = d.sub => c = d

\* What a pass over tenant t knows of a candidate: its latest event is a short
\* session of the tenant and subscriber that the projection holds.
Known(t, c) ==
    /\ c.latest.event.tenant = t /\ c.latest.event.sub = c.sub /\ c.latest.event.short
    /\ c.latest.event.at <= now /\ Projected(c.latest)

\* detectCandidates finds finitely many candidates, one a subscriber, each with
\* the newest short session the projection holds of it, whatever the limit cut.
LEMMA Detected ==
    ASSUME RowsInv, now \in Int, NEW t \in TenantSet, NEW level \in [Subscribers -> 0..2]
    PROVE  /\ IsFiniteSet(DetectCandidates(t, level))
           /\ DetectCandidates(t, level) \subseteq Candidate
           /\ OneEach(DetectCandidates(t, level))
           /\ \A c \in DetectCandidates(t, level) :
                /\ Known(t, c)
                /\ \A q \in rows :
                     q.event.tenant = t /\ q.event.sub = c.sub /\ q.event.short /\ q.event.at <= now
                       => Stop(q) = c.latest \/ NewerStop(c.latest, Stop(q))
<1> DEFINE C == DetectCandidates(t, level)
           S == {s \in Subscribers : Cardinality(Qualifying(t, s)) >= MinEvents}
           cand(s) == [sub |-> s, count |-> Cardinality(Qualifying(t, s)),
                       latest |-> Latest(t, s), level |-> level[s]]
<1>1. C = {cand(s) : s \in S}
  BY DEF DetectCandidates
<1>2. \A r \in rows : r.event \in Pool /\ r.event.at \in Int /\ r.event.sub \in Subscribers
  BY Events DEF RowsInv
<1>3. \A s \in S : Qualifying(t, s) # {} /\ Cardinality(Qualifying(t, s)) \in Nat
  <2> SUFFICES ASSUME NEW s \in S
               PROVE  Qualifying(t, s) # {} /\ Cardinality(Qualifying(t, s)) \in Nat
    OBVIOUS
  <2>1. Qualifying(t, s) \subseteq rows
    BY DEF Qualifying, Returned, Matched
  <2>2. Cardinality(Qualifying(t, s)) \in Nat
    BY <2>1, FS_Subset, FS_CardinalityType DEF RowsInv
  <2>3. Cardinality({}) = 0
    BY FS_EmptySet
  <2>4. Cardinality(Qualifying(t, s)) >= MinEvents
    OBVIOUS
  <2>5. MinEvents \in Nat /\ MinEvents > 0
    BY WatcherAssumption
  <2>6. Qualifying(t, s) # {}
    <3> SUFFICES ASSUME Qualifying(t, s) = {} PROVE FALSE
      OBVIOUS
    <3>1. Cardinality(Qualifying(t, s)) = 0
      BY <2>3
    <3> HIDE DEF S
    <3> QED
      BY <2>4, <2>5, <3>1
  <2> QED
    BY <2>2, <2>6
<1>4. \A s \in S : /\ \E r \in Qualifying(t, s) : Stop(r) = Latest(t, s)
                   /\ \A q \in Matched(t) : q.event.sub = s /\ q.event.short =>
                        Stop(q) = Latest(t, s) \/ NewerStop(Latest(t, s), Stop(q))
  BY <1>3, LatestIsNewest
<1>5. \A s \in S : \A r \in Qualifying(t, s) :
        /\ r \in rows /\ r.event.tenant = t /\ r.event.sub = s /\ r.event.short
        /\ now - Window <= r.event.at /\ r.event.at <= now
  BY DEF Qualifying, Returned, Matched
<1>6. \A s \in S : /\ Latest(t, s) \in Stops /\ Latest(t, s).event.tenant = t /\ Latest(t, s).event.sub = s
                   /\ Latest(t, s).event.short /\ Latest(t, s).event.at \in Int
                   /\ now - Window <= Latest(t, s).event.at /\ Latest(t, s).event.at <= now
                   /\ Projected(Latest(t, s))
  <2> SUFFICES ASSUME NEW s \in S
               PROVE  /\ Latest(t, s) \in Stops /\ Latest(t, s).event.tenant = t /\ Latest(t, s).event.sub = s
                      /\ Latest(t, s).event.short /\ Latest(t, s).event.at \in Int
                      /\ now - Window <= Latest(t, s).event.at /\ Latest(t, s).event.at <= now
                      /\ Projected(Latest(t, s))
    OBVIOUS
  <2>1. PICK r \in Qualifying(t, s) : Stop(r) = Latest(t, s)
    BY <1>4
  <2>2. Latest(t, s).event = r.event /\ Latest(t, s).seen = r.seen
    BY <2>1 DEF Stop
  <2>3. r \in rows /\ r.seen \in Stamps /\ r.event \in Pool
    BY <1>2, <1>5 DEF RowsInv
  <2>4. Latest(t, s) \in Stops /\ Projected(Latest(t, s))
    BY <2>1, <2>3 DEF Stop, Stops, Projected
  <2> QED
    BY <1>2, <1>5, <2>2, <2>3, <2>4
<1>7. \A s \in S, q \in rows :
        q.event.tenant = t /\ q.event.sub = s /\ q.event.short /\ q.event.at <= now
          => Stop(q) = Latest(t, s) \/ NewerStop(Latest(t, s), Stop(q))
  <2> SUFFICES ASSUME NEW s \in S, NEW q \in rows,
                      q.event.tenant = t, q.event.sub = s, q.event.short, q.event.at <= now
               PROVE  Stop(q) = Latest(t, s) \/ NewerStop(Latest(t, s), Stop(q))
    OBVIOUS
  <2>1. CASE now - Window <= q.event.at
    BY <1>4, <2>1 DEF Matched
  <2>2. CASE ~(now - Window <= q.event.at)
    <3>1. q.event.at \in Int /\ Latest(t, s).event.at \in Int /\ now - Window \in Int
      BY <1>2, <1>6, WatcherAssumption
    <3>2. now - Window <= Latest(t, s).event.at
      BY <1>6
    <3>3. Latest(t, s).event.at > q.event.at
      BY <2>2, <3>1, <3>2
    <3>4. Stop(q).event = q.event
      BY DEF Stop
    <3> QED
      BY <3>3, <3>4 DEF NewerStop
  <2> QED
    BY <2>1, <2>2
<1>8. IsFiniteSet(S)
  <2> DEFINE T == {r.event.sub : r \in rows}
             f == [r \in rows |-> r.event.sub]
  <2>1. f \in Surjection(rows, T)
    BY DEF Surjection
  <2>2. IsFiniteSet(T)
    <3> HIDE DEF f, T
    <3> QED
      BY <2>1, FS_Surjection DEF RowsInv
  <2>3. S \subseteq T
    BY <1>3, <1>4, <1>5
  <2> HIDE DEF S, T
  <2> QED
    BY <2>2, <2>3, FS_Subset
<1>9. IsFiniteSet(C)
  <2> DEFINE g == [s \in S |-> cand(s)]
  <2> HIDE DEF S, cand, C
  <2>1. g \in Surjection(S, C)
    BY <1>1 DEF Surjection
  <2> HIDE DEF g
  <2> QED
    BY <1>8, <2>1, FS_Surjection
<1>10. C \subseteq Candidate /\ OneEach(C)
  <2> HIDE DEF S, C
  <2>1. \A s \in S : s \in Subscribers /\ level[s] \in 0..2
    BY DEF S
  <2> QED
    BY <1>1, <1>3, <1>6, <2>1 DEF Candidate, OneEach
<1>11. ASSUME NEW c \in C
       PROVE  /\ Known(t, c)
              /\ \A q \in rows :
                   q.event.tenant = t /\ q.event.sub = c.sub /\ q.event.short /\ q.event.at <= now
                     => Stop(q) = c.latest \/ NewerStop(c.latest, Stop(q))
  <2> HIDE DEF S, C
  <2>1. PICK s \in S : c = cand(s)
    BY <1>1
  <2>2. c.sub = s /\ c.latest = Latest(t, s)
    BY <2>1
  <2> HIDE DEF cand
  <2>3. Known(t, c)
    BY <1>6, <2>2, Zenon DEF Known
  <2> QED
    BY <1>7, <2>2, <2>3
<1> QED
  BY <1>9, <1>10, <1>11

\* sortCandidates puts one of the candidates first.
LEMMA FirstIsOne ==
    ASSUME NEW C, IsFiniteSet(C), C # {}, C \subseteq Candidate, OneEach(C)
    PROVE  First(C) \in C
<1> DEFINE R == {p \in C \X C : Before(p[1], p[2])}
<1>1. \A a, b \in C : <<a, b>> \in R <=> Before(a, b)
  OBVIOUS
<1>2. \A c \in C : c.sub \in Nat /\ c.count \in Nat /\ c.level \in Nat /\ c.latest.event.at \in Int
  BY Events DEF Candidate, Stops, Subscribers
<1>3. \A a \in C : ~Before(a, a)
  BY <1>2 DEF Before
<1>4. ASSUME NEW a \in C, NEW b \in C, NEW c \in C, Before(a, b), Before(b, c)
      PROVE  Before(a, c)
  BY <1>2, <1>4 DEF Before
<1>5. ASSUME NEW a \in C, NEW b \in C, a # b PROVE Before(a, b) \/ Before(b, a)
  <2>1. a.sub # b.sub
    BY <1>5 DEF OneEach
  <2> QED
    BY <1>2, <2>1 DEF Before
<1>6. \E a \in C : \A b \in C : b = a \/ <<a, b>> \in R
  <2>1. \A a \in C : <<a, a>> \notin R
    BY <1>1, <1>3
  <2>2. \A a, b, c \in C : <<a, b>> \in R /\ <<b, c>> \in R => <<a, c>> \in R
    <3> HIDE DEF R
    <3> QED
      BY <1>1, <1>4
  <2>3. \A a, b \in C : a = b \/ <<a, b>> \in R \/ <<b, a>> \in R
    BY <1>1, <1>5
  <2> HIDE DEF R
  <2> QED
    BY <2>1, <2>2, <2>3, FiniteMaximum
<1> HIDE DEF R
<1>7. \E a \in C : \A b \in C : b = a \/ Before(a, b)
  BY <1>1, <1>6
<1> QED
  BY <1>7 DEF First

-----------------------------------------------------------------------------
(* The lines of the watcher state file *)

StateLine == [key : Keys, tenant : TenantSet, sub : Subscribers, last : Stops, updatedAt : Int]

\* Line i is a checkpoint of the tenant's subscriber.
About(i, t, s) == i \in 1..Len(states) /\ states[i].tenant = t /\ states[i].sub = s

\* A line is saved under its subscriber's key and holds a short session of the
\* subscriber that had happened, and was projected, when it was saved.
LineInv ==
    \A i \in 1..Len(states) :
        LET l == states[i] IN
        /\ l.key = StateKey[l.tenant][l.sub]
        /\ l.updatedAt <= now /\ l.last.event.at <= l.updatedAt
        /\ l.last.event.tenant = l.tenant /\ l.last.event.sub = l.sub /\ l.last.event.short
        /\ Projected(l.last)

\* The lines of a subscriber get newer: each was saved in a later cycle than
\* the one before it, for a newer event.
OrderInv ==
    \A i, j \in 1..Len(states) :
        i < j /\ states[i].tenant = states[j].tenant /\ states[i].sub = states[j].sub =>
            /\ states[i].updatedAt < states[j].updatedAt
            /\ NewerStop(states[j].last, states[i].last)

StoreInv == states \in Seq(StateLine) /\ now \in Int /\ LineInv /\ OrderInv

\* With distinct keys the lines of a key are those of one subscriber.
LEMMA LinesOfSubscriber ==
    ASSUME StoreInv, KeysDistinct, NEW t \in TenantSet, NEW s \in Subscribers, NEW i
    PROVE  i \in LinesOf(StateKey[t][s]) <=> About(i, t, s)
<1>1. i \in 1..Len(states) => /\ states[i].tenant \in TenantSet /\ states[i].sub \in Subscribers
                              /\ states[i].key = StateKey[states[i].tenant][states[i].sub]
  <2>1. i \in 1..Len(states) => states[i] \in StateLine
    BY ElementOfSeq DEF StoreInv
  <2> QED
    BY <2>1 DEF StoreInv, LineInv, StateLine
<1> QED
  BY <1>1 DEF LinesOf, About, KeysDistinct

\* The last line of a subscriber is the one GetWatcherState returns.
LEMMA LastLineDecides ==
    ASSUME StoreInv, KeysDistinct, NEW t \in TenantSet, NEW c, c.sub \in Subscribers,
           NEW i, About(i, t, c.sub), \A j : About(j, t, c.sub) => j <= i,
           states[i].last.event = c.latest.event
    PROVE  Checkpointed(t, c)
<1> DEFINE L == LinesOf(StateKey[t][c.sub])
<1>1. \A j : j \in L <=> About(j, t, c.sub)
  BY LinesOfSubscriber
<1>2. i \in L /\ \A j \in L : j \in 1..Len(states) /\ j <= i
  BY <1>1 DEF About
<1>3. \A j \in L : j = i \/ j < i
  BY <1>2, LenProperties DEF StoreInv
<1>4. \A j \in L : j < i => states[j].updatedAt < states[i].updatedAt
  BY <1>1, <1>2 DEF About, StoreInv, OrderInv
<1>5. \A j \in L : states[j].updatedAt \in Int
  <2>1. \A j \in L : states[j] \in StateLine
    BY <1>2, ElementOfSeq DEF StoreInv
  <2> QED
    BY <2>1 DEF StateLine
<1>6. \A j \in L : states[j].updatedAt <= states[i].updatedAt
  BY <1>2, <1>3, <1>4, <1>5
<1>7. states[i] \in GetWatcherState(StateKey[t][c.sub])
  BY <1>2, <1>4, <1>6 DEF GetWatcherState
<1> QED
  BY <1>7 DEF Checkpointed

\* A candidate whose event is not checkpointed, and that no checkpoint is newer
\* than, was overtaken if the event was checkpointed before.
LEMMA CheckpointOvertaken ==
    ASSUME StoreInv, KeysDistinct, NEW t \in TenantSet,
           NEW c, c.sub \in Subscribers, c.latest \in Stops, ~Checkpointed(t, c),
           \A i : About(i, t, c.sub) =>
             c.latest = states[i].last \/ NewerStop(c.latest, states[i].last),
           NEW i, About(i, t, c.sub), states[i].last.event = c.latest.event
    PROVE  Overtaken(t, c, i)
<1> DEFINE S == {j \in 1..Len(states) : About(j, t, c.sub)}
           R == {p \in S \X S : p[1] > p[2]}
<1>1. Len(states) \in Nat /\ i \in S
  BY LenProperties DEF About, StoreInv
<1>2. PICK k \in S : \A j \in S : j = k \/ <<k, j>> \in R
  <2>1. IsFiniteSet(S) /\ S # {}
    <3>1. IsFiniteSet(1..Len(states))
      BY <1>1, FS_Interval
    <3> QED
      BY <1>1, <3>1, FS_Subset
  <2>2. \A a, b \in S : <<a, b>> \in R <=> a > b
    OBVIOUS
  <2>3. \A a \in S : a \in Int
    BY <1>1
  <2> HIDE DEF S, R
  <2>4. \A a \in S : <<a, a>> \notin R
    BY <2>2, <2>3
  <2>5. \A a, b, d \in S : <<a, b>> \in R /\ <<b, d>> \in R => <<a, d>> \in R
    BY <2>2, <2>3
  <2>6. ASSUME NEW a \in S, NEW b \in S PROVE a = b \/ <<a, b>> \in R \/ <<b, a>> \in R
    <3>1. a \in Int /\ b \in Int
      BY <2>3
    <3>2. a = b \/ a > b \/ b > a
      BY <3>1
    <3> QED
      BY <2>2, <3>2
  <2> QED
    BY <2>1, <2>4, <2>5, <2>6, FiniteMaximum
<1>3. About(k, t, c.sub) /\ \A j : About(j, t, c.sub) => j <= k
  <2>1. \A j \in S : j = k \/ k > j
    BY <1>2
  <2>2. \A j : About(j, t, c.sub) => j \in S
    BY DEF About
  <2>3. \A j \in S : j \in Int
    BY <1>1
  <2>4. About(k, t, c.sub)
    OBVIOUS
  <2>5. k \in S
    OBVIOUS
  <2> HIDE DEF S, R
  <2> QED
    BY <2>1, <2>2, <2>3, <2>4, <2>5
<1>4. states[k].last.event # c.latest.event
  BY <1>3, LastLineDecides
<1>5. i \in 1..Len(states) /\ k \in i + 1..Len(states)
  BY <1>1, <1>3, <1>4 DEF About
<1>6. NewerStop(states[k].last, states[i].last)
  BY <1>1, <1>3, <1>5 DEF About, StoreInv, OrderInv
<1>7. NewerStop(c.latest, states[k].last)
  BY <1>3, <1>4
<1>8. /\ states[i].last.event.at \in Int /\ states[i].last.seen \in Int
      /\ states[k].last.event.at \in Int /\ states[k].last.seen \in Int
      /\ c.latest.event.at \in Int /\ c.latest.seen \in Int
  <2>1. states[i] \in StateLine /\ states[k] \in StateLine
    BY <1>1, <1>5, ElementOfSeq DEF StoreInv
  <2>2. states[i].last \in Stops /\ states[k].last \in Stops
    BY <2>1 DEF StateLine
  <2> QED
    BY <2>2, Events, WatcherAssumption DEF Stops
<1>9. /\ states[k].last.event.at = c.latest.event.at
      /\ states[i].last.seen < states[k].last.seen /\ states[k].last.seen < c.latest.seen
  BY <1>6, <1>7, <1>8 DEF NewerStop
<1> QED
  BY <1>3, <1>4, <1>5, <1>9 DEF Overtaken, About

\* Such a candidate is newer than every checkpoint.
LEMMA NewerThanCheckpoints ==
    ASSUME StoreInv, KeysDistinct, NEW t \in TenantSet,
           NEW c, c.sub \in Subscribers, c.latest \in Stops, ~Checkpointed(t, c),
           \A i : About(i, t, c.sub) =>
             c.latest = states[i].last \/ NewerStop(c.latest, states[i].last)
    PROVE  \A i : About(i, t, c.sub) => NewerStop(c.latest, states[i].last)
<1> SUFFICES ASSUME NEW i, About(i, t, c.sub), c.latest = states[i].last PROVE FALSE
  OBVIOUS
<1>1. Overtaken(t, c, i)
  BY CheckpointOvertaken
<1>2. PICK j \in i + 1..Len(states) :
        c.latest.seen < states[j].last.seen /\ states[j].last.seen < c.latest.seen
        /\ states[j].tenant = t /\ states[j].sub = c.sub
  BY <1>1 DEF Overtaken
<1>3. i \in 1..Len(states) /\ Len(states) \in Nat
  BY LenProperties DEF About, StoreInv
<1>4. states[j].last.seen \in Int /\ c.latest.seen \in Int
  <2>1. states[j] \in StateLine
    BY <1>2, <1>3, ElementOfSeq DEF StoreInv
  <2>2. states[j].last \in Stops
    BY <2>1 DEF StateLine
  <2> QED
    BY <2>2, WatcherAssumption DEF Stops
<1> QED
  BY <1>2, <1>4

\* A checkpoint of another subscriber leaves a checkpoint current.
LEMMA OtherCheckpointed ==
    ASSUME StoreInv, NEW t, NEW c, NEW l \in StateLine, states' = Append(states, l),
           l.key # StateKey[t][c.sub], Checkpointed(t, c)
    PROVE  Checkpointed(t, c)'
<1> DEFINE L == LinesOf(StateKey[t][c.sub])
<1>1. /\ Len(states') = Len(states) + 1 /\ Len(states) \in Nat
      /\ \A i \in 1..Len(states) : states'[i] = states[i]
      /\ states'[Len(states) + 1] = l
  BY AppendProperties, LenProperties DEF StoreInv
<1>2. L' = L /\ \A i \in L : states'[i] = states[i]
  BY <1>1 DEF LinesOf
<1>3. PICK i \in L : /\ \A j \in L : /\ states[j].updatedAt <= states[i].updatedAt
                                     /\ j < i => states[j].updatedAt < states[i].updatedAt
                     /\ states[i].last.event.id = c.latest.event.id
  BY DEF Checkpointed, GetWatcherState
<1>4. states'[i] \in GetWatcherState(StateKey[t][c.sub])'
  <2> HIDE DEF L
  <2>1. i \in L' /\ \A j \in L' : /\ states'[j].updatedAt <= states'[i].updatedAt
                                  /\ j < i => states'[j].updatedAt < states'[i].updatedAt
    BY <1>2, <1>3
  <2> USE DEF L
  <2> QED
    BY <2>1 DEF GetWatcherState
<1> QED
  BY <1>2, <1>3, <1>4 DEF Checkpointed

\* A checkpoint later than those of its subscriber is current.
LEMMA NowCheckpointed ==
    ASSUME StoreInv, KeysDistinct, NEW t \in TenantSet, NEW c, c.sub \in Subscribers,
           NEW l \in StateLine, states' = Append(states, l),
           l.key = StateKey[t][c.sub], l.last = c.latest,
           \A i : About(i, t, c.sub) => states[i].updatedAt < l.updatedAt
    PROVE  Checkpointed(t, c)'
<1> DEFINE L == LinesOf(StateKey[t][c.sub])
           n == Len(states) + 1
<1>1. /\ Len(states') = n /\ Len(states) \in Nat
      /\ \A i \in 1..Len(states) : states'[i] = states[i]
      /\ states'[n] = l
  BY AppendProperties, LenProperties DEF StoreInv
<1>2. \A i : i \in L => About(i, t, c.sub)
  BY LinesOfSubscriber
<1>3. L' = L \cup {n}
  BY <1>1 DEF LinesOf
<1>4. \A i \in L : states'[i] = states[i] /\ states[i].updatedAt < l.updatedAt /\ i < n
  BY <1>1, <1>2 DEF About
<1>5. \A i \in L : states[i].updatedAt \in Int
  <2>1. \A i \in L : states[i] \in StateLine
    BY <1>2, ElementOfSeq DEF StoreInv, About
  <2> QED
    BY <2>1 DEF StateLine
<1>6. l.updatedAt \in Int
  BY DEF StateLine
<1>7. \A j \in L' : /\ states'[j].updatedAt <= states'[n].updatedAt
                    /\ j < n => states'[j].updatedAt < states'[n].updatedAt
  <2> SUFFICES ASSUME NEW j \in L'
               PROVE  /\ states'[j].updatedAt <= states'[n].updatedAt
                      /\ j < n => states'[j].updatedAt < states'[n].updatedAt
    OBVIOUS
  <2>1. n \in Nat /\ ~(n < n)
    BY <1>1
  <2>2. CASE j = n
    <3>1. states'[j] = l /\ states'[n] = l
      BY <1>1, <2>2
    <3>2. l.updatedAt <= l.updatedAt
      BY <1>6
    <3>3. ~(j < n)
      BY <2>1, <2>2
    <3> HIDE DEF L, n
    <3> QED
      BY <3>1, <3>2, <3>3
  <2>3. CASE j \in L
    <3>1. states'[j] = states[j] /\ states'[n] = l
      BY <1>1, <1>4, <2>3
    <3>2. states[j].updatedAt < l.updatedAt /\ states[j].updatedAt \in Int
      BY <1>4, <1>5, <2>3
    <3> HIDE DEF L, n
    <3> QED
      BY <1>6, <3>1, <3>2
  <2> QED
    BY <1>3, <2>2, <2>3
<1>8. states'[n] \in GetWatcherState(StateKey[t][c.sub])'
  <2>1. n \in L'
    <3> HIDE DEF L, n
    <3> QED
      BY <1>3
  <2> HIDE DEF n
  <2> QED
    BY <1>7, <2>1 DEF GetWatcherState
<1> QED
  BY <1>1, <1>8 DEF Checkpointed

-----------------------------------------------------------------------------
(* The tenants and candidates of a cycle *)

InPass == pc \in {"candidates", "investigate", "checkpoint"}

LeftInv ==
    /\ left \in Seq(TenantSet)
    /\ \A i, j \in 1..Len(left) : left[i] = left[j] => i = j
    /\ InPass => left # <<>>

CandidatesInv ==
    /\ found \subseteq Candidate /\ IsFiniteSet(found) /\ OneEach(found)
    /\ ~InPass => found = {}
    /\ pending \subseteq found /\ current \subseteq found /\ pending \cap current = {}
    /\ pc = "candidates" => current = {}
    /\ pc \in {"investigate", "checkpoint"} => \E c \in found : current = {c}

\* The tenant that is being looked at and the others of the cycle.
LEMMA Others ==
    ASSUME LeftInv, left # <<>>
    PROVE  /\ Tenant \in TenantSet /\ Tenant = left[1] /\ Len(left) \in Nat \ {0}
           /\ Tail(left) \in Seq(TenantSet) /\ Len(Tail(left)) = Len(left) - 1
           /\ \A i \in 1..Len(Tail(left)) : Tail(left)[i] = left[i + 1]
           /\ \A i, j \in 1..Len(Tail(left)) : Tail(left)[i] = Tail(left)[j] => i = j
<1>1. /\ Head(left) \in TenantSet /\ Head(left) = left[1] /\ Len(left) \in Nat \ {0}
      /\ Tail(left) \in Seq(TenantSet) /\ Len(Tail(left)) = Len(left) - 1
      /\ \A i \in 1..Len(Tail(left)) : Tail(left)[i] = left[i + 1]
  BY HeadTailProperties, LenProperties, EmptySeq DEF LeftInv
<1>2. \A i, j \in 1..Len(Tail(left)) : Tail(left)[i] = Tail(left)[j] => i = j
  <2> SUFFICES ASSUME NEW i \in 1..Len(Tail(left)), NEW j \in 1..Len(Tail(left)),
                      Tail(left)[i] = Tail(left)[j]
               PROVE  i = j
    OBVIOUS
  <2>1. i + 1 \in 1..Len(left) /\ j + 1 \in 1..Len(left) /\ left[i + 1] = left[j + 1]
    BY <1>1
  <2> QED
    BY <2>1 DEF LeftInv
<1> QED
  BY <1>1, <1>2 DEF Tenant

\* Every step keeps LeftInv.
LEMMA LeftStep == LeftInv /\ [Next]_vars => LeftInv'
<1> SUFFICES ASSUME LeftInv, [Next]_vars PROVE LeftInv'
  OBVIOUS
<1>1. CASE BeginCycle
  BY <1>1, WatcherAssumption DEF BeginCycle, LeftInv, InPass
<1>2. CASE SearchTenant \/ EndTenant
  <2>1. CASE UNCHANGED left
    <3>1. left # <<>>
      BY <1>2 DEF SearchTenant, EndTenant, PassOver, LeftInv, InPass
    <3> QED
      BY <2>1, <3>1 DEF LeftInv
  <2>2. CASE left' = Tail(left) /\ pc' = "tenant"
    <3>1. left # <<>>
      BY <1>2 DEF SearchTenant, EndTenant, PassOver, LeftInv, InPass
    <3> QED
      BY <2>2, <3>1, Others DEF LeftInv, InPass
  <2> QED
    BY <1>2, <2>1, <2>2 DEF SearchTenant, EndTenant
<1>3. CASE CheckCandidate \/ Investigate \/ Checkpoint
  <2>1. UNCHANGED left /\ InPass
    BY <1>3 DEF CheckCandidate, Investigate, Checkpoint, InPass
  <2> QED
    BY <2>1 DEF LeftInv
<1>4. CASE EndCycle \/ StopRun \/ Crash
  <2>1. left' \in {left, <<>>} /\ pc' \in {"idle", "stopped"}
    BY <1>4 DEF EndCycle, StopRun, Crash, cycleVars
  <2>2. CASE left' = <<>>
    <3>1. left' \in Seq(TenantSet) /\ Len(left') = 0
      BY <2>2, EmptySeq
    <3> QED
      BY <2>1, <3>1 DEF LeftInv, InPass
  <2>3. CASE UNCHANGED left
    BY <2>1, <2>3 DEF LeftInv, InPass
  <2> QED
    BY <2>1, <2>2, <2>3
<1>5. CASE (\E e \in Pool : Project(e)) \/ Cancel \/ UNCHANGED vars
  <2>1. UNCHANGED <<left, pc>>
    BY <1>5 DEF Project, Cancel, cycleVars, vars
  <2> QED
    BY <2>1 DEF LeftInv, InPass
<1> QED
  BY <1>1, <1>2, <1>3, <1>4, <1>5 DEF Next, Daemon, RunCycle

\* Every step keeps the rows a finite set.
LEMMA RowsStep == RowsInv /\ [Next]_vars => RowsInv' /\ rows \subseteq rows'
<1> SUFFICES ASSUME RowsInv, [Next]_vars PROVE RowsInv' /\ rows \subseteq rows'
  OBVIOUS
<1>1. CASE UNCHANGED rows
  BY <1>1 DEF RowsInv
<1>2. ASSUME NEW e \in Pool, Project(e) PROVE RowsInv' /\ rows \subseteq rows'
  <2>1. PICK s \in Stamps :
          /\ \A r \in rows : r.seen = s => r.event = e
          /\ LET same == {r \in rows : r.seen = s} IN
              rows' = rows \cup {[event |-> e, seen |-> s, copy |-> 1 + Cardinality(same)]}
    BY <1>2 DEF Project
  <2> DEFINE n == 1 + Cardinality({r \in rows : r.seen = s})
             new == [event |-> e, seen |-> s, copy |-> n]
  <2>2. n \in Nat
    <3>1. IsFiniteSet({r \in rows : r.seen = s})
      BY FS_Subset DEF RowsInv
    <3> QED
      BY <3>1, FS_CardinalityType
  <2>3. rows' = rows \cup {new}
    BY <2>1
  <2> HIDE DEF n
  <2>4. new \in [event : Pool, seen : Stamps, copy : Nat] /\ new.event = e /\ new.seen = s
    BY <2>2
  <2> HIDE DEF new
  <2>5. IsFiniteSet(rows')
    BY <2>3, FS_AddElement DEF RowsInv
  <2>6. \A q, r \in rows' : q.seen = r.seen => q.event = r.event
    BY <2>1, <2>3, <2>4 DEF RowsInv
  <2> QED
    BY <2>3, <2>4, <2>5, <2>6 DEF RowsInv
<1> QED
  BY <1>1, <1>2 DEF Next, Daemon, RunCycle, BeginCycle, SearchTenant, CheckCandidate, Investigate,
                    Checkpoint, EndTenant, EndCycle, StopRun, Cancel, Crash, vars

\* Every step keeps CandidatesInv.
LEMMA CandidatesStep ==
    RowsInv /\ now \in Int /\ LeftInv /\ CandidatesInv /\ [Next]_vars => CandidatesInv'
<1> SUFFICES ASSUME RowsInv, now \in Int, LeftInv, CandidatesInv, [Next]_vars
             PROVE  CandidatesInv'
  OBVIOUS
<1>1. CASE BeginCycle \/ EndTenant \/ EndCycle \/ StopRun \/ Crash
  <2>1. found' = {} /\ pending' = {} /\ current' = {}
    BY <1>1 DEF BeginCycle, EndTenant, EndCycle, StopRun, Crash, cycleVars, PassOver,
                CandidatesInv, InPass
  <2>2. pc' \in {"tenant", "idle", "stopped"}
    BY <1>1 DEF BeginCycle, EndTenant, EndCycle, StopRun, Crash
  <2> QED
    BY <2>1, <2>2, FS_EmptySet DEF CandidatesInv, OneEach, InPass
<1>2. CASE SearchTenant
  <2>1. found = {} /\ pending = {} /\ current' = {} /\ Tenant \in TenantSet
    BY <1>2, Others DEF SearchTenant, CandidatesInv, InPass
  <2>2. CASE pc' = "tenant" /\ UNCHANGED <<pending, found>>
    BY <2>1, <2>2, FS_EmptySet DEF CandidatesInv, OneEach, InPass
  <2>3. ASSUME NEW level \in [Subscribers -> 0..2], pending' = DetectCandidates(Tenant, level),
               found' = pending', pc' = "candidates"
        PROVE  CandidatesInv'
    <3>1. /\ IsFiniteSet(DetectCandidates(Tenant, level))
          /\ DetectCandidates(Tenant, level) \subseteq Candidate
          /\ OneEach(DetectCandidates(Tenant, level))
      BY <2>1, Detected
    <3> QED
      BY <2>1, <2>3, <3>1 DEF CandidatesInv, OneEach, InPass
  <2> QED
    BY <1>2, <2>2, <2>3 DEF SearchTenant
<1>3. CASE CheckCandidate
  <2> DEFINE c == First(pending)
  <2>1. c \in pending
    <3>1. /\ pending # {} /\ IsFiniteSet(pending) /\ pending \subseteq Candidate
          /\ OneEach(pending)
      BY <1>3, FS_Subset DEF CheckCandidate, CandidatesInv, OneEach
    <3> QED
      BY <3>1, FirstIsOne
  <2>2. /\ pc = "candidates" /\ pending' = pending \ {c} /\ UNCHANGED found
        /\ \/ pc' = "candidates" /\ current' = {}
           \/ pc' = "investigate" /\ current' = {c}
    BY <1>3 DEF CheckCandidate, NextCandidate
  <2> HIDE DEF c
  <2> QED
    BY <2>1, <2>2 DEF CandidatesInv, OneEach, InPass
<1>4. CASE Investigate \/ Checkpoint
  <2>1. /\ pc \in {"investigate", "checkpoint"} /\ UNCHANGED <<pending, found>>
        /\ \/ pc' = "candidates" /\ current' = {}
           \/ pc' = "checkpoint" /\ UNCHANGED current
    BY <1>4 DEF Investigate, Checkpoint, NextCandidate
  <2> QED
    BY <2>1 DEF CandidatesInv, OneEach, InPass
<1>5. CASE (\E e \in Pool : Project(e)) \/ Cancel \/ UNCHANGED vars
  <2>1. UNCHANGED <<pc, found, pending, current>>
    BY <1>5 DEF Project, Cancel, cycleVars, vars
  <2> QED
    BY <2>1 DEF CandidatesInv, OneEach, InPass
<1> QED
  BY <1>1, <1>2, <1>3, <1>4, <1>5 DEF Next, Daemon, RunCycle

-----------------------------------------------------------------------------
(* What a cycle does with the candidates *)

\* The subscribers a cycle may still save a checkpoint of.
Untouched(t, s) ==
    \/ pc = "tenant" /\ \E i \in 1..Len(left) : left[i] = t
    \/ InPass /\ \E i \in 2..Len(left) : left[i] = t
    \/ InPass /\ t = Tenant /\ \E c \in pending \cup current : c.sub = s

\* A cycle has saved nothing yet of what it may still save.
FreshInv ==
    \A i \in 1..Len(states) :
        Untouched(states[i].tenant, states[i].sub) => states[i].updatedAt < now

KnownInv == \A c \in found : Known(Tenant, c)

\* The latest event of a candidate that is not dealt with is at least as new as
\* its checkpoints, and newer than all of them once it is to be investigated.
UpToDateInv ==
    \A c \in pending \cup current : \A i : About(i, Tenant, c.sub) =>
        \/ NewerStop(c.latest, states[i].last)
        \/ c \in pending /\ c.latest = states[i].last

\* What is investigated again was overtaken.
OvertakenInv ==
    \A c \in current : \A i :
        About(i, Tenant, c.sub) /\ states[i].last.event = c.latest.event => Overtaken(Tenant, c, i)

\* What a pass has dealt with is checkpointed, or the tenant has an error.
DealtInv ==
    \A c \in found \ (pending \cup current) : Checkpointed(Tenant, c) \/ Tenant \in errs

WatchInv ==
    /\ RowsInv /\ StoreInv /\ LeftInv /\ CandidatesInv
    /\ FreshInv /\ KnownInv /\ UpToDateInv /\ OvertakenInv /\ DealtInv

\* WatchInv holds initially.
LEMMA WatchInit == Init => WatchInv
<1> SUFFICES ASSUME Init PROVE WatchInv
  OBVIOUS
<1>1. /\ rows = {} /\ states = <<>> /\ pc = "idle" /\ now = 0 /\ left = <<>>
      /\ pending = {} /\ current = {} /\ found = {}
  BY DEF Init
<1>2. states \in Seq(StateLine) /\ Len(states) = 0 /\ left \in Seq(TenantSet) /\ Len(left) = 0
  BY <1>1, EmptySeq
<1>3. RowsInv /\ LeftInv /\ CandidatesInv
  BY <1>1, <1>2, FS_EmptySet DEF RowsInv, LeftInv, CandidatesInv, OneEach, InPass
<1>4. StoreInv
  BY <1>1, <1>2 DEF StoreInv, LineInv, OrderInv
<1>5. FreshInv /\ KnownInv /\ UpToDateInv /\ OvertakenInv /\ DealtInv
  BY <1>1, <1>2 DEF FreshInv, KnownInv, UpToDateInv, OvertakenInv, DealtInv
<1> QED
  BY <1>3, <1>4, <1>5 DEF WatchInv

\* A step that saves no checkpoint keeps the lines as they should be.
LEMMA StoreKept ==
    ASSUME StoreInv, UNCHANGED states, rows \subseteq rows', now' \in Int, now <= now'
    PROVE  StoreInv'
<1>1. LineInv'
  <2> SUFFICES ASSUME NEW i \in 1..Len(states)
               PROVE  LET l == states[i] IN
                      /\ l.key = StateKey[l.tenant][l.sub]
                      /\ l.updatedAt <= now' /\ l.last.event.at <= l.updatedAt
                      /\ l.last.event.tenant = l.tenant /\ l.last.event.sub = l.sub /\ l.last.event.short
                      /\ Projected(l.last)'
    BY DEF LineInv
  <2> DEFINE l == states[i]
  <2>1. l \in StateLine
    BY ElementOfSeq DEF StoreInv
  <2>2. /\ l.key = StateKey[l.tenant][l.sub]
        /\ l.updatedAt <= now /\ l.last.event.at <= l.updatedAt
        /\ l.last.event.tenant = l.tenant /\ l.last.event.sub = l.sub /\ l.last.event.short
        /\ Projected(l.last)
    BY DEF StoreInv, LineInv
  <2>3. l.updatedAt <= now'
    <3>1. l.updatedAt \in Int /\ now \in Int
      BY <2>1 DEF StateLine, StoreInv
    <3> HIDE DEF l
    <3> QED
      BY <2>2, <3>1
  <2>4. Projected(l.last)'
    BY <2>2 DEF Projected
  <2> QED
    BY <2>2, <2>3, <2>4, Zenon
<1> QED
  BY <1>1 DEF StoreInv, OrderInv

\* A step that leaves the file and the time alone and widens nothing of what the
\* cycle may still save keeps FreshInv.
LEMMA FreshKept ==
    ASSUME FreshInv, UNCHANGED <<states, now>>,
           \A t, s : Untouched(t, s)' => Untouched(t, s)
    PROVE  FreshInv'
BY DEF FreshInv

\* A step within a pass that saves no checkpoint and finds nothing new keeps the
\* candidates it leaves alone as they should be.
LEMMA KnownKept ==
    ASSUME KnownInv, UNCHANGED <<left, found, now>>, rows \subseteq rows'
    PROVE  KnownInv'
<1> SUFFICES ASSUME NEW c \in found PROVE Known(Tenant, c)'
  BY DEF KnownInv
<1>1. Known(Tenant, c)
  BY DEF KnownInv
<1>2. Projected(c.latest)'
  BY <1>1 DEF Known, Projected
<1>3. Tenant' = Tenant
  BY DEF Tenant
<1> QED
  BY <1>1, <1>2, <1>3, Zenon DEF Known

\* A checkpoint stays what it is while the file does.
LEMMA CheckpointedKept ==
    ASSUME UNCHANGED <<states, left>>, NEW c
    PROVE  Checkpointed(Tenant, c)' <=> Checkpointed(Tenant, c)
BY DEF Checkpointed, GetWatcherState, LinesOf, Tenant

\* Outside a pass there is no candidate to say anything about.
LEMMA NoCandidates ==
    ASSUME found' = {}, pending' = {}, current' = {}
    PROVE  KnownInv' /\ UpToDateInv' /\ OvertakenInv' /\ DealtInv'
BY DEF KnownInv, UpToDateInv, OvertakenInv, DealtInv

CycleInv == StoreInv /\ FreshInv /\ KnownInv /\ UpToDateInv /\ OvertakenInv /\ DealtInv

\* A new cycle has a later time than every checkpoint.
LEMMA BeginCycleStep ==
    ASSUME WatchInv, ClockAdvances, BeginCycle
    PROVE  CycleInv'
<1>1. UNCHANGED <<states, rows>> /\ found' = {} /\ pending' = {} /\ current' = {}
  BY DEF BeginCycle, WatchInv, CandidatesInv, InPass
<1>2. now \in Int /\ now' \in Int /\ now < now'
  BY DEF BeginCycle, ClockAdvances, WatchInv, StoreInv
<1>3. StoreInv'
  BY <1>1, <1>2, StoreKept DEF WatchInv
<1>4. FreshInv'
  <2> SUFFICES ASSUME NEW i \in 1..Len(states) PROVE states[i].updatedAt < now'
    BY <1>1 DEF FreshInv
  <2>1. states[i] \in StateLine
    BY ElementOfSeq DEF WatchInv, StoreInv
  <2>2. states[i].updatedAt \in Int /\ states[i].updatedAt <= now
    BY <2>1 DEF StateLine, WatchInv, StoreInv, LineInv
  <2> QED
    BY <1>2, <2>2
<1> QED
  BY <1>1, <1>3, <1>4, NoCandidates DEF CycleInv

\* The end of a pass, of a cycle or of the daemon.
LEMMA EndStep ==
    ASSUME WatchInv, EndTenant \/ EndCycle \/ StopRun \/ Crash
    PROVE  CycleInv'
<1>1. /\ UNCHANGED <<states, rows, now>> /\ found' = {} /\ pending' = {} /\ current' = {}
      /\ pc' \in {"idle", "stopped", "tenant"}
  BY DEF EndTenant, EndCycle, StopRun, Crash, PassOver, cycleVars, WatchInv, CandidatesInv, InPass
<1>2. now \in Int
  BY DEF WatchInv, StoreInv
<1>3. StoreInv'
  BY <1>1, <1>2, StoreKept DEF WatchInv
<1>4. \A t, s : Untouched(t, s)' => Untouched(t, s)
  <2> SUFFICES ASSUME NEW t, NEW s, Untouched(t, s)' PROVE Untouched(t, s)
    OBVIOUS
  <2>1. ~InPass' /\ pc' = "tenant" /\ \E i \in 1..Len(left') : left'[i] = t
    BY <1>1 DEF Untouched, InPass
  <2>2. PassOver /\ left' = Tail(left) /\ InPass
    BY <2>1 DEF EndTenant, EndCycle, StopRun, Crash, PassOver, InPass
  <2>3. left # <<>>
    BY <2>2 DEF WatchInv, LeftInv
  <2>4. PICK i \in 1..Len(Tail(left)) : Tail(left)[i] = t
    BY <2>1, <2>2
  <2>5. i + 1 \in 2..Len(left) /\ left[i + 1] = t
    BY <2>3, <2>4, Others DEF WatchInv
  <2> QED
    BY <2>2, <2>5 DEF Untouched
<1>5. FreshInv'
  BY <1>1, <1>4, FreshKept DEF WatchInv
<1> QED
  BY <1>1, <1>3, <1>5, NoCandidates DEF CycleInv

\* A search finds events at least as new as every checkpoint of its subscriber.
LEMMA SearchStep ==
    ASSUME WatchInv, SearchTenant
    PROVE  CycleInv'
<1>1. /\ UNCHANGED <<states, rows, now>> /\ found = {} /\ pending = {} /\ current = {}
      /\ current' = {} /\ pc = "tenant" /\ left # <<>> /\ Tenant \in TenantSet
  BY Others DEF SearchTenant, WatchInv, CandidatesInv, InPass
<1>2. now \in Int
  BY DEF WatchInv, StoreInv
<1>3. StoreInv'
  BY <1>1, <1>2, StoreKept DEF WatchInv
<1>4. CASE pc' = "tenant" /\ left' = Tail(left) /\ UNCHANGED <<pending, found>>
  <2>1. \A t, s : Untouched(t, s)' => Untouched(t, s)
    <3> SUFFICES ASSUME NEW t, NEW s, Untouched(t, s)' PROVE Untouched(t, s)
      OBVIOUS
    <3>1. PICK i \in 1..Len(Tail(left)) : Tail(left)[i] = t
      BY <1>4 DEF Untouched, InPass
    <3>2. i + 1 \in 1..Len(left) /\ left[i + 1] = t
      BY <1>1, <3>1, Others DEF WatchInv
    <3> QED
      BY <1>1, <3>2 DEF Untouched
  <2>2. FreshInv'
    BY <1>1, <2>1, FreshKept DEF WatchInv
  <2> QED
    BY <1>1, <1>3, <1>4, <2>2, NoCandidates DEF CycleInv
<1>5. ASSUME NEW level \in [Subscribers -> 0..2], pending' = DetectCandidates(Tenant, level),
             found' = pending', pc' = "candidates", UNCHANGED left
      PROVE  CycleInv'
  <2> PICK t \in TenantSet : t = Tenant
    BY <1>1
  <2> DEFINE C == DetectCandidates(t, level)
  <2>1. /\ C \subseteq Candidate
        /\ \A c \in C :
             /\ Known(t, c)
             /\ \A q \in rows :
                  q.event.tenant = t /\ q.event.sub = c.sub /\ q.event.short /\ q.event.at <= now
                    => Stop(q) = c.latest \/ NewerStop(c.latest, Stop(q))
    BY <1>2, Detected DEF WatchInv
  <2> HIDE DEF C
  <2>2. pending' = C /\ found' = C /\ Tenant' = t
    BY <1>5 DEF Tenant, C
  <2>3. KnownInv'
    <3> SUFFICES ASSUME NEW c \in C PROVE Known(t, c)'
      BY <2>2 DEF KnownInv, Known
    <3>1. Known(t, c)
      BY <2>1
    <3>2. Projected(c.latest)'
      BY <1>1, <3>1 DEF Known, Projected
    <3> QED
      BY <1>1, <3>1, <3>2, Zenon DEF Known
  <2>4. UpToDateInv'
    <3> SUFFICES ASSUME NEW c \in C, NEW i, About(i, t, c.sub)
                 PROVE  c.latest = states[i].last \/ NewerStop(c.latest, states[i].last)
      BY <1>1, <2>2 DEF UpToDateInv, About
    <3> DEFINE l == states[i]
    <3>1. i \in 1..Len(states) /\ l.tenant = t /\ l.sub = c.sub
      BY DEF About
    <3>2. l \in StateLine
      BY <3>1, ElementOfSeq DEF WatchInv, StoreInv
    <3>3. /\ l.updatedAt <= now /\ l.last.event.at <= l.updatedAt
          /\ l.last.event.tenant = t /\ l.last.event.sub = c.sub /\ l.last.event.short
          /\ Projected(l.last)
      BY <3>1 DEF WatchInv, StoreInv, LineInv
    <3>4. l.last.event.at <= now
      <4>1. l.updatedAt \in Int /\ l.last.event.at \in Int
        BY <3>2, Events DEF StateLine, Stops
      <4> HIDE DEF l
      <4> QED
        BY <1>2, <3>3, <4>1
    <3>5. PICK q \in rows : Stop(q) = l.last
      BY <3>3 DEF Projected
    <3> HIDE DEF l
    <3>6. q.event.tenant = t /\ q.event.sub = c.sub /\ q.event.short /\ q.event.at <= now
      <4>1. q.event = l.last.event
        BY <3>5 DEF Stop
      <4> QED
        BY <3>3, <3>4, <4>1
    <3>7. Stop(q) = c.latest \/ NewerStop(c.latest, Stop(q))
      BY <2>1, <3>6
    <3> QED
      BY <3>5, <3>7 DEF l
  <2>5. DealtInv'
    BY <2>2 DEF DealtInv
  <2>6. \A u, s : Untouched(u, s)' => Untouched(u, s)
    <3>1. \A u, s : Untouched(u, s)' =>
            u = t \/ \E i \in 2..Len(left) : left[i] = u
      BY <1>5, <2>2 DEF Untouched, InPass
    <3>2. 1 \in 1..Len(left) /\ left[1] = t /\ 2..Len(left) \subseteq 1..Len(left)
      BY <1>1, Others DEF WatchInv
    <3>3. \A u, s : Untouched(u, s) <=> \E i \in 1..Len(left) : left[i] = u
      BY <1>1 DEF Untouched, InPass
    <3> QED
      BY <3>1, <3>2, <3>3
  <2>7. FreshInv'
    BY <1>1, <2>6, FreshKept DEF WatchInv
  <2>8. OvertakenInv'
    BY <1>1 DEF OvertakenInv
  <2> QED
    BY <1>3, <2>3, <2>4, <2>5, <2>7, <2>8 DEF CycleInv
<1> QED
  BY <1>1, <1>4, <1>5 DEF SearchTenant

\* A candidate is checked: dealt with, given up with an error, or newer than
\* every checkpoint of its subscriber.
LEMMA CheckCandidateStep ==
    ASSUME WatchInv, KeysDistinct, CheckCandidate
    PROVE  CycleInv'
<1> DEFINE c == First(pending)
<1>1. c \in pending
  <2>1. /\ pending # {} /\ IsFiniteSet(pending) /\ pending \subseteq Candidate
        /\ OneEach(pending)
    BY FS_Subset DEF CheckCandidate, WatchInv, CandidatesInv, OneEach
  <2> QED
    BY <2>1, FirstIsOne
<1>2. /\ pc = "candidates" /\ current = {} /\ pending' = pending \ {c}
      /\ UNCHANGED <<states, rows, now, left, found>> /\ errs \subseteq errs'
      /\ \/ pc' = "candidates" /\ current' = {} /\ Checkpointed(Tenant, c)
         \/ pc' = "candidates" /\ current' = {} /\ Tenant \in errs'
         \/ pc' = "investigate" /\ current' = {c} /\ ~Checkpointed(Tenant, c)
  BY DEF CheckCandidate, NextCandidate, WatchInv, CandidatesInv
<1> HIDE DEF c
<1> PICK t \in TenantSet : t = Tenant
  <2>1. left # <<>>
    BY <1>2 DEF WatchInv, LeftInv, InPass
  <2> QED
    BY <2>1, Others DEF WatchInv
<1>3. now \in Int /\ Tenant' = t
  BY <1>2 DEF WatchInv, StoreInv, Tenant
<1>4. StoreInv' /\ KnownInv'
  BY <1>2, <1>3, StoreKept, KnownKept DEF WatchInv
<1>5. FreshInv'
  <2>1. pending' \cup current' \subseteq pending \cup current
    BY <1>1, <1>2
  <2>2. InPass /\ InPass' /\ pc' # "tenant"
    BY <1>2 DEF InPass
  <2>3. \A u, s : Untouched(u, s)' => Untouched(u, s)
    BY <1>2, <1>3, <2>1, <2>2 DEF Untouched
  <2> QED
    BY <1>2, <2>3, FreshKept DEF WatchInv
<1>6. UpToDateInv'
  <2> SUFFICES ASSUME NEW d \in pending' \cup current', NEW i, About(i, t, d.sub)
               PROVE  \/ NewerStop(d.latest, states[i].last)
                      \/ d \in pending' /\ d.latest = states[i].last
    BY <1>2, <1>3 DEF UpToDateInv, About
  <2>1. d \in pending
    BY <1>1, <1>2
  <2>2. d \notin current
    BY <1>2
  <2>3. d.latest = states[i].last \/ NewerStop(d.latest, states[i].last)
    BY <2>1 DEF WatchInv, UpToDateInv
  <2>4. CASE d \in pending'
    BY <2>3, <2>4
  <2>5. CASE d \notin pending'
    <3>1. d = c /\ ~Checkpointed(t, c)
      BY <1>2, <2>1, <2>5
    <3>2. c.sub \in Subscribers /\ c.latest \in Stops
      BY <1>1 DEF WatchInv, CandidatesInv, Candidate
    <3>3. \A j : About(j, t, c.sub) => c.latest = states[j].last \/ NewerStop(c.latest, states[j].last)
      BY <1>1 DEF WatchInv, UpToDateInv
    <3>4. \A j : About(j, t, c.sub) => NewerStop(c.latest, states[j].last)
      BY <3>1, <3>2, <3>3, NewerThanCheckpoints DEF WatchInv
    <3> QED
      BY <3>1, <3>4
  <2> QED
    BY <2>4, <2>5
<1>7. DealtInv'
  <2> SUFFICES ASSUME NEW d \in found, d \notin pending', d \notin current'
               PROVE  Checkpointed(Tenant, d)' \/ Tenant' \in errs'
    BY <1>2 DEF DealtInv
  <2>1. Checkpointed(Tenant, d)' <=> Checkpointed(Tenant, d)
    BY <1>2, CheckpointedKept
  <2>2. CASE d \in pending
    <3>1. d = c
      BY <1>2, <2>2
    <3> QED
      BY <1>2, <1>3, <2>1, <3>1
  <2>3. CASE d \notin pending
    BY <1>2, <1>3, <2>1, <2>3 DEF WatchInv, DealtInv
  <2> QED
    BY <2>2, <2>3
<1>8. OvertakenInv'
  <2> SUFFICES ASSUME current' = {c}, ~Checkpointed(t, c), NEW i, About(i, t, c.sub),
                      states[i].last.event = c.latest.event
               PROVE  Overtaken(t, c, i)
    BY <1>2, <1>3 DEF OvertakenInv, About, Overtaken
  <2>1. c.sub \in Subscribers /\ c.latest \in Stops
    BY <1>1 DEF WatchInv, CandidatesInv, Candidate
  <2>2. \A j : About(j, t, c.sub) => c.latest = states[j].last \/ NewerStop(c.latest, states[j].last)
    BY <1>1 DEF WatchInv, UpToDateInv
  <2> QED
    BY <2>1, <2>2, CheckpointOvertaken DEF WatchInv
<1> QED
  BY <1>4, <1>5, <1>6, <1>7, <1>8 DEF CycleInv

\* A step of a pass that leaves the files and the candidates not dealt with
\* alone, but for some that it gives up with an error.
LEMMA PassKept ==
    ASSUME WatchInv, UNCHANGED <<states, now, left, found, pending>>, rows \subseteq rows',
           InPass' <=> InPass, pc' = "tenant" => pc = "tenant", errs \subseteq errs',
           current' = current \/ (current' = {} /\ Tenant \in errs')
    PROVE  CycleInv'
<1>1. now \in Int /\ now <= now'
  BY DEF WatchInv, StoreInv
<1>2. StoreInv' /\ KnownInv'
  BY <1>1, StoreKept, KnownKept DEF WatchInv
<1>3. Tenant' = Tenant
  BY DEF Tenant
<1>4. FreshInv'
  <2>1. \A u, s : Untouched(u, s)' => Untouched(u, s)
    BY <1>3 DEF Untouched
  <2> QED
    BY <2>1, FreshKept DEF WatchInv
<1>5. UpToDateInv'
  BY <1>3 DEF WatchInv, UpToDateInv, About
<1>6. DealtInv'
  <2> SUFFICES ASSUME NEW d \in found, d \notin pending, d \notin current', Tenant \notin errs'
               PROVE  Checkpointed(Tenant, d)'
    BY <1>3 DEF DealtInv
  <2>1. current' = current /\ Tenant \notin errs
    OBVIOUS
  <2>2. Checkpointed(Tenant, d)
    BY <2>1 DEF WatchInv, DealtInv
  <2> QED
    BY <2>2, CheckpointedKept
<1>7. OvertakenInv'
  BY <1>3 DEF WatchInv, OvertakenInv, About, Overtaken
<1> QED
  BY <1>2, <1>4, <1>5, <1>6, <1>7 DEF CycleInv

\* A checkpoint is saved once in a cycle for its subscriber, for an event newer
\* than those checkpointed before, or not at all and with an error.
LEMMA CheckpointStep ==
    ASSUME WatchInv, KeysDistinct, Checkpoint
    PROVE  CycleInv'
<1>1. /\ pc = "checkpoint" /\ pc' = "candidates" /\ current' = {}
      /\ UNCHANGED <<rows, now, left, pending, found>> /\ errs \subseteq errs'
      /\ \/ \E c \in current : states' = Append(states, NewState(Tenant, c))
         \/ UNCHANGED states /\ Tenant \in errs'
  BY DEF Checkpoint, NextCandidate
<1>2. CASE UNCHANGED states /\ Tenant \in errs'
  BY <1>1, <1>2, PassKept DEF InPass
<1>3. ASSUME NEW c \in current, states' = Append(states, NewState(Tenant, c)) PROVE CycleInv'
  <2> PICK t \in TenantSet : t = Tenant
    <3>1. left # <<>>
      BY <1>1 DEF WatchInv, LeftInv, InPass
    <3> QED
      BY <3>1, Others DEF WatchInv
  <2> DEFINE l == NewState(t, c)
             n == Len(states) + 1
  <2>1. c \in found /\ current = {c} /\ c \notin pending /\ c \in Candidate /\ Known(t, c)
    BY <1>1 DEF WatchInv, CandidatesInv, KnownInv
  <2>2. now \in Int /\ Tenant' = t
    BY <1>1 DEF WatchInv, StoreInv, Tenant
  <2>3. /\ l.key = StateKey[t][c.sub] /\ l.tenant = t /\ l.sub = c.sub
        /\ l.last = c.latest /\ l.updatedAt = now /\ l \in StateLine
    <3>1. c.sub \in Subscribers /\ c.latest \in Stops /\ StateKey[t][c.sub] \in Keys
      BY <2>1, WatcherAssumption DEF Candidate
    <3> QED
      BY <2>2, <3>1 DEF NewState, StateLine
  <2> HIDE DEF l
  <2>4. /\ Len(states') = n /\ Len(states) \in Nat /\ states' \in Seq(StateLine)
        /\ \A i \in 1..Len(states) : states'[i] = states[i]
        /\ states'[n] = l
    BY <1>3, <2>3, AppendProperties, LenProperties DEF WatchInv, StoreInv, l
  <2>5. \A i : i \in 1..Len(states') <=> i \in 1..Len(states) \/ i = n
    BY <2>4
  <2>6. \A i : About(i, t, c.sub) => /\ states[i].updatedAt < now
                                     /\ NewerStop(c.latest, states[i].last)
    <3>1. Untouched(t, c.sub)
      BY <1>1, <2>1 DEF Untouched, InPass
    <3> QED
      BY <2>1, <3>1 DEF WatchInv, FreshInv, UpToDateInv, About
  <2>7. LineInv'
    <3> SUFFICES ASSUME NEW i \in 1..Len(states')
                 PROVE  LET k == states'[i] IN
                        /\ k.key = StateKey[k.tenant][k.sub]
                        /\ k.updatedAt <= now /\ k.last.event.at <= k.updatedAt
                        /\ k.last.event.tenant = k.tenant /\ k.last.event.sub = k.sub /\ k.last.event.short
                        /\ Projected(k.last)
      BY <1>1 DEF LineInv, Projected
    <3>1. CASE i \in 1..Len(states)
      BY <2>4, <3>1, Zenon DEF WatchInv, StoreInv, LineInv
    <3>2. CASE i = n
      <4>1. /\ c.latest.event.tenant = t /\ c.latest.event.sub = c.sub /\ c.latest.event.short
            /\ c.latest.event.at <= now /\ Projected(c.latest)
        BY <2>1 DEF Known
      <4>2. now <= now
        BY <2>2
      <4> HIDE DEF n
      <4> QED
        BY <2>3, <2>4, <3>2, <4>1, <4>2, Zenon
    <3> QED
      BY <2>5, <3>1, <3>2
  <2>8. OrderInv'
    <3> SUFFICES ASSUME NEW i \in 1..Len(states'), NEW j \in 1..Len(states'), i < j,
                        states'[i].tenant = states'[j].tenant, states'[i].sub = states'[j].sub
                 PROVE  /\ states'[i].updatedAt < states'[j].updatedAt
                        /\ NewerStop(states'[j].last, states'[i].last)
      BY DEF OrderInv
    <3>1. i \in 1..Len(states) /\ states'[i] = states[i]
      BY <2>4
    <3>2. CASE j \in 1..Len(states)
      BY <2>4, <3>1, <3>2 DEF WatchInv, StoreInv, OrderInv
    <3>3. CASE j = n
      <4>1. About(i, t, c.sub)
        BY <2>3, <2>4, <3>1, <3>3 DEF About
      <4> QED
        BY <2>3, <2>4, <2>6, <3>1, <3>3, <4>1
    <3> QED
      BY <2>5, <3>2, <3>3
  <2>9. StoreInv'
    BY <1>1, <2>2, <2>4, <2>7, <2>8 DEF StoreInv
  <2>10. KnownInv'
    BY <1>1, KnownKept DEF WatchInv
  <2>11. \A d \in found : d.sub = c.sub => d = c
    BY <2>1 DEF WatchInv, CandidatesInv, OneEach
  <2>12. FreshInv'
    <3> SUFFICES ASSUME NEW i \in 1..Len(states'),
                        Untouched(states[i].tenant, states[i].sub)'
                 PROVE  states'[i].updatedAt < now
      BY <1>1 DEF FreshInv
    <3>1. CASE i \in 1..Len(states)
      <4>1. Untouched(states[i].tenant, states[i].sub)
        BY <1>1, <2>2, <2>4, <3>1 DEF Untouched, InPass
      <4> QED
        BY <2>4, <3>1, <4>1 DEF WatchInv, FreshInv
    <3>2. CASE i = n
      <4>1. Untouched(t, c.sub)'
        BY <2>3, <2>4, <3>2 DEF Untouched
      <4>2. ASSUME NEW k \in 2..Len(left), left[k] = t PROVE FALSE
        <5>1. left # <<>>
          BY <1>1 DEF WatchInv, LeftInv, InPass
        <5>2. left[1] = t /\ Len(left) \in Nat \ {0}
          BY <5>1, Others DEF WatchInv
        <5>3. k \in 1..Len(left) /\ 1 \in 1..Len(left) /\ k # 1
          BY <5>2
        <5> QED
          BY <4>2, <5>2, <5>3 DEF WatchInv, LeftInv
      <4>3. ASSUME NEW d \in pending, d.sub = c.sub PROVE FALSE
        BY <2>1, <2>11, <4>3 DEF WatchInv, CandidatesInv
      <4> QED
        BY <1>1, <4>1, <4>2, <4>3 DEF Untouched, InPass
    <3> QED
      BY <2>5, <3>1, <3>2
  <2>13. UpToDateInv'
    <3> SUFFICES ASSUME NEW d \in pending, NEW i, About(i, t, d.sub)'
                 PROVE  d.latest = states'[i].last \/ NewerStop(d.latest, states'[i].last)
      BY <1>1, <2>2 DEF UpToDateInv, About
    <3>1. d.sub # c.sub
      BY <2>1, <2>11 DEF WatchInv, CandidatesInv
    <3>2. i # n /\ i \in 1..Len(states')
      BY <2>3, <2>4, <3>1 DEF About
    <3>3. i \in 1..Len(states) /\ states'[i] = states[i]
      BY <2>4, <2>5, <3>2
    <3>4. About(i, t, d.sub)
      BY <3>3 DEF About
    <3> QED
      BY <3>3, <3>4 DEF WatchInv, UpToDateInv
  <2>14. DealtInv'
    <3> SUFFICES ASSUME NEW d \in found, d \notin pending
                 PROVE  Checkpointed(t, d)' \/ Tenant \in errs'
      BY <1>1, <2>2 DEF DealtInv, Checkpointed, GetWatcherState, LinesOf
    <3>1. d.sub \in Subscribers /\ c.sub \in Subscribers
      BY <2>1 DEF WatchInv, CandidatesInv, Candidate
    <3>2. CASE d = c
      <4>1. \A i : About(i, t, c.sub) => states[i].updatedAt < l.updatedAt
        BY <2>3, <2>6
      <4>2. states' = Append(states, l)
        BY <1>3 DEF l
      <4>3. Checkpointed(t, c)'
        BY <2>3, <3>1, <4>1, <4>2, NowCheckpointed DEF WatchInv
      <4> QED
        BY <3>2, <4>3
    <3>3. CASE d # c
      <4>1. d.sub # c.sub
        BY <2>11, <3>3
      <4>2. l.key # StateKey[t][d.sub]
        BY <2>3, <3>1, <4>1 DEF KeysDistinct
      <4>3. Checkpointed(t, d) \/ Tenant \in errs
        BY <2>1, <3>3 DEF WatchInv, DealtInv
      <4>4. states' = Append(states, l)
        BY <1>3 DEF l
      <4>5. Checkpointed(t, d) => Checkpointed(t, d)'
        BY <2>3, <4>2, <4>4, OtherCheckpointed DEF WatchInv
      <4> QED
        BY <1>1, <4>3, <4>5
    <3> QED
      BY <3>2, <3>3
  <2>15. OvertakenInv'
    BY <1>1 DEF OvertakenInv
  <2> QED
    BY <2>9, <2>10, <2>12, <2>13, <2>14, <2>15 DEF CycleInv
<1> QED
  BY <1>1, <1>2, <1>3

\* Every step keeps WatchInv.
LEMMA WatchStep == KeysDistinct /\ ClockAdvances /\ WatchInv /\ [Next]_vars => WatchInv'
<1> SUFFICES ASSUME KeysDistinct, ClockAdvances, WatchInv, [Next]_vars PROVE WatchInv'
  OBVIOUS
<1>1. RowsInv' /\ rows \subseteq rows' /\ LeftInv' /\ CandidatesInv'
  BY RowsStep, LeftStep, CandidatesStep DEF WatchInv, StoreInv
<1>2. CASE BeginCycle
  BY <1>1, <1>2, BeginCycleStep DEF WatchInv, CycleInv
<1>3. CASE EndTenant \/ EndCycle \/ StopRun \/ Crash
  BY <1>1, <1>3, EndStep DEF WatchInv, CycleInv
<1>4. CASE SearchTenant
  BY <1>1, <1>4, SearchStep DEF WatchInv, CycleInv
<1>5. CASE CheckCandidate
  BY <1>1, <1>5, CheckCandidateStep DEF WatchInv, CycleInv
<1>6. CASE Checkpoint
  BY <1>1, <1>6, CheckpointStep DEF WatchInv, CycleInv
<1>7. CASE Investigate
  <2>1. /\ UNCHANGED <<states, now, left, found, pending>> /\ errs \subseteq errs'
        /\ InPass /\ InPass' /\ pc' # "tenant"
        /\ current' = current \/ (current' = {} /\ Tenant \in errs')
    BY <1>7 DEF Investigate, NextCandidate, InPass
  <2> QED
    BY <1>1, <2>1, PassKept DEF WatchInv, CycleInv
<1>8. CASE (\E e \in Pool : Project(e)) \/ Cancel \/ UNCHANGED vars
  <2>1. UNCHANGED <<states, now, left, found, pending, current, errs, pc>>
    BY <1>8 DEF Project, Cancel, cycleVars, vars
  <2> QED
    BY <1>1, <2>1, PassKept DEF WatchInv, CycleInv, InPass
<1> QED
  BY <1>2, <1>3, <1>4, <1>5, <1>6, <1>7, <1>8 DEF Next, Daemon, RunCycle

\* An event whose investigation was checkpointed is investigated again only if
\* it was ingested once more and another event of its moment was checkpointed in
\* between: not in a later pass, after a crash, when the raw store is replayed or
\* when older events come late, for any search limit, as long as the keys tell
\* subscribers apart and the clock does not go back between two cycles.
THEOREM RepeatedOnlyIfOvertakenCorrect ==
    KeysDistinct /\ ClockAdvances => (Spec => []RepeatedOnlyIfOvertaken)
<1> SUFFICES ASSUME KeysDistinct, ClockAdvances PROVE Spec => []RepeatedOnlyIfOvertaken
  OBVIOUS
<1>1. WatchInv => RepeatedOnlyIfOvertaken
  BY DEF WatchInv, OvertakenInv, RepeatedOnlyIfOvertaken, Repeats, About
<1>2. WatchInv /\ [Next]_vars => WatchInv'
  BY WatchStep
<1> QED
  BY <1>1, <1>2, WatchInit, PTL DEF Spec

\* A pass that ends without an error and below the cap leaves every candidate
\* checkpointed with its latest event, for any number of them and whatever went
\* wrong for the other tenants, under the same two conditions.
THEOREM PassLeavesNothingBehindCorrect ==
    KeysDistinct /\ ClockAdvances => (Spec => []PassLeavesNothingBehind)
<1> SUFFICES ASSUME KeysDistinct, ClockAdvances PROVE Spec => []PassLeavesNothingBehind
  OBVIOUS
<1>1. WatchInv /\ CapInv => PassLeavesNothingBehind
  <2> SUFFICES ASSUME WatchInv, CapInv, PassOver, Tenant \notin errs, triggered < MaxRunsPerCycle,
                      NEW c \in found
               PROVE  Checkpointed(Tenant, c)
    BY DEF PassLeavesNothingBehind
  <2>1. ASSUME triggered >= MaxRunsPerCycle PROVE FALSE
    BY <2>1, WatcherAssumption DEF CapInv
  <2>2. pending = {} /\ current = {}
    BY <2>1 DEF PassOver, WatchInv, CandidatesInv
  <2> QED
    BY <2>2 DEF WatchInv, DealtInv
<1>2. WatchInv /\ [Next]_vars => WatchInv'
  BY WatchStep
<1>3. Init => CapInv
  BY WatcherAssumption DEF Init, CapInv
<1> QED
  BY <1>1, <1>2, <1>3, CapStep, WatchInit, PTL DEF Spec
=============================================================================
