---------------------------- MODULE EvidenceReads ----------------------------
(***************************************************************************)
(* What an investigation reads, and what it concludes: the searches of the *)
(* retrieval, access and session stores, made one after the other while    *)
(* the stores grow, and the answer and the cross-source correlation built  *)
(* from their results.                                                     *)
(*                                                                         *)
(* AgentRun models the run around these reads: its record, its budget, its *)
(* policy and its failures.  Here every step is allowed and succeeds, the  *)
(* budget suffices, and both optional stores are configured.  One tenant.  *)
(*                                                                         *)
(* A pointer that may be nil is a set of at most one element.  sort.Slice  *)
(* is not stable and map iteration has no order: where rows compare equal, *)
(* any of them comes first.                                                *)
(***************************************************************************)
EXTENDS Integers, FiniteSets, Sequences, SequencesExt

CONSTANTS Events,      \* access decisions and session events: see EventShape
          Requests,    \* what may be asked: see RequestShape
          Nil,         \* an input that is not given
          Limit,       \* maxEvidencePerStep
          Pad,         \* correlationWindowPad
          Ticks,       \* how far the clock moves between two ingested events
          MaxRows,     \* bounds: how many rows of each store there may be together
          MaxDocs      \* bound: documents appended

Goals == {"before_connect", "status", "membership", "disconnect", "question"}
Statuses == {"start", "interim_update", "stop"}
Outcomes == {"accepted", "rejected", "challenged"}

\* What an event is found by, and what a question may name: subscriber_id,
\* session_id, request_id, nas_ip_address and client_ip.
Selectors == {"subscriber", "session", "request", "nas", "client"}

\* what is the outcome of a decision or the status of a session event, terms the
\* words its document is found by, says the query texts its document contains.
EventShape(e) ==
    /\ DOMAIN e = {"kind", "id", "by", "at", "what", "terms", "says"}
    /\ \/ e.kind = "access" /\ e.what \in Outcomes
       \/ e.kind = "session" /\ e.what \in Statuses /\ e.by["request"] = Nil
    /\ e.at \in Int
    /\ DOMAIN e.by = Selectors /\ e.by["subscriber"] # Nil

RequestShape(r) ==
    /\ DOMAIN r = {"goal", "by", "outcome", "status", "terms", "text", "from", "to", "limit"}
    /\ DOMAIN r.by = Selectors
    /\ r.goal \in Goals /\ r.outcome \in Outcomes \cup {Nil} /\ r.status \in Statuses \cup {Nil}
    /\ r.terms # {} /\ r.limit \in Nat \ {0}
    /\ (r.from # Nil /\ r.to # Nil) => r.from <= r.to

\* An event id names its source, its session or request, and its time.
ASSUME ReadsAssumption ==
    /\ \A e \in Events : EventShape(e)
    /\ \A e, f \in Events : e.id = f.id => e.at = f.at /\ e.kind = f.kind
    /\ Requests # {} /\ \A r \in Requests : RequestShape(r)
    /\ Limit \in Nat \ {0}
    /\ {Pad, MaxDocs} \cup Ticks \subseteq Nat
    /\ MaxRows \subseteq [{"access", "session"} -> Nat]

VARIABLES clock,    \* by kind, the wall clock that stamps seen (IngestedAt)
          rows,     \* the access store and the session store, in append order
          ahead,    \* by kind, the event in the unified file that is not projected
          docs,     \* the retrieval store, in append order
          run       \* the investigation

vars == <<clock, rows, ahead, docs, run>>

Kinds == {"access", "session"}

-----------------------------------------------------------------------------
(* Order and filter *)

\* The order of every store and of searchAccess and searchSessions: newest first.
Newer(a, b) == a.at > b.at \/ (a.at = b.at /\ a.seen > b.seen)

\* matches: an empty field of the query filters nothing.  A session event has no
\* outcome and an access decision no status, and neither is one of the other.
Matches(q, r) ==
    /\ \A s \in Selectors : q.by[s] \in {Nil, r.by[s]}
    /\ q.outcome \in {Nil, r.what} /\ q.status \in {Nil, r.what}
    /\ q.from = Nil \/ r.at >= q.from
    /\ q.to = Nil \/ r.at <= q.to

\* What remains of S when it is sorted and cut at n.
Cuts(S, Before(_, _), n) ==
    { T \in SUBSET S :
        /\ Cardinality(T) = IF Cardinality(S) < n THEN Cardinality(S) ELSE n
        /\ \A x \in S \ T, y \in T : ~Before(x, y) }

\* The first of S in an order, or nil.
First(S, Before(_, _)) == IF S = {} THEN {{}} ELSE Cuts(S, Before, 1)

-----------------------------------------------------------------------------
(* The retrieval store *)

\* pickLatest, which keeps the version it has when the two are as recent.
Replaces(candidate, existing) ==
    \/ candidate.seen > existing.seen
    \/ candidate.seen = existing.seen /\ candidate.at > existing.at

\* FileStore.Search: each line is filtered before it meets the other versions
\* of its document.
Found(q) ==
    LET matching == {i \in DOMAIN docs : Matches(q, docs[i])} IN
    { docs[i] : i \in { k \in matching :
        \A j \in matching : docs[j].id = docs[k].id =>
            IF j < k THEN Replaces(docs[k], docs[j]) ELSE ~Replaces(docs[j], docs[k]) } }

\* scoreDocument, doubled: 2 for each term, 1.5 for the literal query text, 1
\* when every term matched.
Score(q, d) ==
    LET matched == Cardinality(q.terms \cap d.terms) IN
    4 * matched + (IF q.text \in d.says THEN 3 ELSE 0)
                + (IF matched = Cardinality(q.terms) THEN 2 ELSE 0)

Ranks(q, a, b) == Score(q, a) > Score(q, b) \/ (Score(q, a) = Score(q, b) /\ Newer(a, b))

\* scoreResults: the best documents, best first.
SearchDocs(q) ==
    LET Better(a, b) == Ranks(q, a, b)
        best == Cuts({d \in Found(q) : q.terms \cap d.terms # {}}, Better, q.limit)
    IN  UNION { {hits \in SetToSeqs(T) : \A i, j \in DOMAIN hits : i < j => ~Better(hits[j], hits[i])}
                : T \in best }

-----------------------------------------------------------------------------
(* The access and the session store *)

Selected(store, q) == {i \in DOMAIN store : Matches(q, store[i])}

\* Fault: sorted oldest first, the limit cuts the newest rows.
SearchRowsOldestFirst(store, q) ==
    Cuts(Selected(store, q), LAMBDA i, j : Newer(store[j], store[i]), Limit)

\* Search: duplicates of a row count against the limit.
SearchRows(store, q) ==
    Cuts(Selected(store, q), LAMBDA i, j : Newer(store[i], store[j]), Limit)

\* eventsByID: the rows come newest first and each replaces the version of its
\* event before it, so the one ingested first stays.
ByID(S) ==
    { K \in SUBSET S :
        /\ {r.id : r \in K} = {r.id : r \in S}
        /\ \A k \in K, r \in S : r.id = k.id => ~Newer(k, r) /\ (r \in K => r = k) }

\* searchAccess and searchSessions: the only query has the same limit, so the
\* merge of several never cuts again.
Fetch(store, q) == UNION { ByID({store[i] : i \in T}) : T \in SearchRows(store, q) }

-----------------------------------------------------------------------------
(* The queries of an investigation *)

\* buildInvestigationPlan with every store available.
Plan(request) ==
    LET structured == \E s \in Selectors : request.by[s] # Nil IN
    CASE request.goal = "status" /\ structured     -> <<"sessions", "access">>
      [] request.goal = "membership" /\ structured -> <<"retrieve">>
      [] request.goal = "disconnect" /\ structured -> <<"sessions">>
      [] OTHER                                     -> <<"retrieve", "access", "sessions">>

\* firstHitSubscriberID, firstHitNASIPAddress and firstHitClientIPAddress: each is
\* taken from the first hit that has one, which need not be the same hit.
FirstHit(s) ==
    LET given == {i \in DOMAIN run.hits : run.hits[i].by[s] # Nil}
    IN  IF given = {} THEN Nil
        ELSE run.hits[CHOOSE i \in given : \A j \in given : i <= j].by[s]

\* Every hit gives a subscriber, so its session and request id are never taken.
Sought == [s \in Selectors |->
              IF run.request.by[s] = Nil /\ s \in {"subscriber", "nas", "client"}
              THEN FirstHit(s) ELSE run.request.by[s]]

\* resolveInvestigationWindow around hitWindow.
From == IF run.request.from # Nil \/ run.hits = <<>> THEN run.request.from
        ELSE (CHOOSE d \in Range(run.hits) : \A h \in Range(run.hits) : d.at <= h.at).at - Pad

\* Fault: the window ends around the best hit, not the latest.
ToOfTopHit == IF run.request.to # Nil \/ run.hits = <<>> THEN run.request.to
              ELSE run.hits[1].at + Pad

To == IF run.request.to # Nil \/ run.hits = <<>> THEN run.request.to
      ELSE (CHOOSE d \in Range(run.hits) : \A h \in Range(run.hits) : d.at >= h.at).at + Pad

\* buildAccessQueries and buildSessionQueries: all that is sought is asked for at
\* once, but a session is asked for no request id, outcome or status.
AccessQuery == [by |-> Sought, outcome |-> run.request.outcome, status |-> Nil, from |-> From, to |-> To]
SessionQuery == [AccessQuery EXCEPT !.outcome = Nil, !.by = [@ EXCEPT !["request"] = Nil]]
Asks(q) == q.outcome # Nil \/ \E s \in Selectors : q.by[s] # Nil

-----------------------------------------------------------------------------
(* Answers *)

\* Fault: the loop stops at the first event it meets.
EarliestBefore(outcome, start) ==
    First({r \in run.access : r.what = outcome /\ \A s \in start : r.at <= s.at},
          LAMBDA a, b : Newer(b, a))

\* latestAccessOutcomeBefore, with sortAccessAscending.
LatestBefore(outcome, start) ==
    First({r \in run.access : r.what = outcome /\ \A s \in start : r.at <= s.at}, Newer)

WithStatus(status) == {r \in run.sessions : r.what = status}
FirstStarts == First(WithStatus("start"), LAMBDA a, b : Newer(b, a))
LastStops == First(WithStatus("stop"), Newer)
LatestSessions == First(run.sessions, Newer)

\* SummarizeCrossSourceCorrelation.
Correlation(c) ==
    IF c.accepted = {}
    THEN IF c.start = {} /\ c.rejected # {} THEN "rejected_no_start" ELSE "none"
    ELSE IF c.start = {}      THEN "accepted_no_start"
    ELSE IF c.rejected # {}   THEN "rejected_accepted_started"
    ELSE IF c.challenged # {} THEN "challenged_accepted_started"
    ELSE "accepted_started"

\* summarizeStatusAnswer.
StatusAnswer(latest) ==
    IF \E s \in latest : s.what = "start"             THEN "connected"
    ELSE IF \E s \in latest : s.what = "stop"         THEN "not_connected"
    ELSE IF \E r \in run.access : r.what = "accepted" THEN "accepted_no_start_visible"
    ELSE IF \E r \in run.access : r.what = "rejected" THEN "rejected"
    ELSE "none"

MembershipAnswer == IF run.hits # <<>> \/ run.access \cup run.sessions # {} THEN "yes" ELSE "no"

DisconnectAnswer(stop) == IF stop # {} THEN "stop" ELSE "no_stop"

\* summarizeGoalAnswer.
Answer(c, stop, latest) ==
    CASE run.request.goal = "before_connect" ->
            IF c.rejected # {} THEN IF c.start # {} THEN "yes" ELSE "partially"
            ELSE IF c.start # {} THEN "no" ELSE "none"
      [] run.request.goal = "status"     -> StatusAnswer(latest)
      [] run.request.goal = "membership" -> MembershipAnswer
      [] run.request.goal = "disconnect" -> DisconnectAnswer(stop)
      [] run.request.goal = "question"   -> "no_template"

-----------------------------------------------------------------------------
(* Behaviour *)

\* Rows and documents keep the event's id, times and fields.
Row(e, t) == [kind |-> e.kind, id |-> e.id, by |-> e.by, at |-> e.at, what |-> e.what,
              terms |-> e.terms, says |-> e.says, seen |-> t]

Untold == [start |-> {}, rejected |-> {}, challenged |-> {}, accepted |-> {}]

\* readAt is history: how many rows of each store there were when it was read.
Asked(request) ==
    [pc |-> "reading", request |-> request, todo |-> Plan(request),
     hits |-> <<>>, access |-> {}, sessions |-> {},
     claim |-> Untold, finding |-> "none", answer |-> "none",
     readAt |-> [access |-> 0, session |-> 0]]

Init ==
    /\ clock = [kind \in Kinds |-> 1]
    /\ rows = [kind \in Kinds |-> <<>>]
    /\ ahead = [kind \in Kinds |-> {}]
    /\ docs = <<>>
    /\ run = [Asked(CHOOSE r \in Requests : TRUE) EXCEPT !.pc = "idle"]

\* Bound on the writers: between an answer and the next question they rest.
Quiet == run.pc = "explained"

RowsWithinBound ==
    \E max \in MaxRows : \A kind \in Kinds : Len(rows[kind]) + Cardinality(ahead[kind]) <= max[kind]

\* normalizerd writes the next event of a source to the unified file.
WriteRow ==
    /\ ~Quiet
    /\ \E e \in Events, d \in Ticks :
         /\ ahead[e.kind] = {}
         /\ clock' = [clock EXCEPT ![e.kind] = @ + d]
         /\ ahead' = [ahead EXCEPT ![e.kind] = {Row(e, clock'[e.kind])}]
    /\ UNCHANGED <<rows, docs, run>>
    /\ RowsWithinBound'

\* normalizerd projects the event it has written, or again a row that a replay
\* of the raw store brings back.
StoreRow ==
    /\ ~Quiet
    /\ \E kind \in Kinds : \E row \in ahead[kind] \cup Range(rows[kind]) :
         /\ rows' = [rows EXCEPT ![kind] = Append(@, row)]
         /\ ahead' = [ahead EXCEPT ![kind] = @ \ {row}]
    /\ RowsWithinBound'
    /\ UNCHANGED <<clock, docs, run>>

\* indexerd appends the document of an event of the unified file, in any order
\* over its runs: of one that is projected, or of the one that is not yet.
IndexRow ==
    /\ ~Quiet
    /\ Len(docs) < MaxDocs
    /\ \E kind \in Kinds : \E row \in ahead[kind] \cup Range(rows[kind]) : docs' = Append(docs, row)
    /\ UNCHANGED <<clock, rows, ahead, run>>

Ask ==
    /\ run.pc \in {"idle", "explained"}
    /\ \E r \in Requests : run' = Asked(r)
    /\ UNCHANGED <<clock, rows, ahead, docs>>

At(phase) == run.pc = "reading" /\ run.todo # <<>> /\ Head(run.todo) = phase

Retrieve ==
    /\ At("retrieve")
    /\ \E hits \in SearchDocs(run.request) : run' = [run EXCEPT !.hits = hits, !.todo = Tail(@)]
    /\ UNCHANGED <<clock, rows, ahead, docs>>

ReadAccess ==
    /\ At("access")
    /\ \E found \in IF Asks(AccessQuery) THEN Fetch(rows.access, AccessQuery) ELSE {{}} :
           run' = [run EXCEPT !.access = found, !.todo = Tail(@),
                              !.readAt.access = Len(rows.access)]
    /\ UNCHANGED <<clock, rows, ahead, docs>>

ReadSessions ==
    /\ At("sessions")
    /\ \E found \in IF Asks(SessionQuery) THEN Fetch(rows.session, SessionQuery) ELSE {{}} :
           run' = [run EXCEPT !.sessions = found, !.todo = Tail(@),
                              !.readAt.session = Len(rows.session)]
    /\ UNCHANGED <<clock, rows, ahead, docs>>

\* summarizeInvestigation.
Explain ==
    /\ run.pc = "reading" /\ run.todo = <<>>
    /\ \E start \in FirstStarts, stop \in LastStops, latest \in LatestSessions :
       \E rejected \in LatestBefore("rejected", start),
          challenged \in LatestBefore("challenged", start),
          accepted \in LatestBefore("accepted", start) :
         LET c == [start |-> start, rejected |-> rejected, challenged |-> challenged,
                   accepted |-> accepted]
         IN  run' = [run EXCEPT !.pc = "explained", !.claim = c, !.finding = Correlation(c),
                                !.answer = Answer(c, stop, latest)]
    /\ UNCHANGED <<clock, rows, ahead, docs>>

Next == WriteRow \/ StoreRow \/ IndexRow \/ Ask \/ Retrieve \/ ReadAccess \/ ReadSessions \/ Explain

Spec == Init /\ [][Next]_vars

-----------------------------------------------------------------------------
(* Properties *)

\* The phase of the plan that reads the store of a kind.
Phase(kind) == IF kind = "access" THEN "access" ELSE "sessions"

QueryOf(kind) == IF kind = "access" THEN AccessQuery ELSE SessionQuery

\* The rows that were stored when the investigation read them and that a query finds.
Stored(kind, q) == {i \in Selected(rows[kind], q) : i <= run.readAt[kind] /\ Asks(QueryOf(kind))}

\* The rows an investigation chose from.
Chosen(kind) == Stored(kind, QueryOf(kind))

\* The rows of the subscriber in the window that the question leaves open: on
\* any NAS and of any client, unless the question names one.
Open(kind) ==
    Stored(kind, [QueryOf(kind) EXCEPT
                     !.by = [@ EXCEPT !["nas"] = run.request.by["nas"],
                                      !["client"] = run.request.by["client"]]])

\* An event on another NAS, or of another client, than the first hit that names
\* one: the queries narrow the question to those.
Elsewhere(r) ==
    \E s \in {"nas", "client"} : run.request.by[s] = Nil /\ FirstHit(s) \notin {Nil, r.by[s]}

\* A row the limit may have left out: enough others are as recent.
MayBeCut(kind, i) ==
    Cardinality({j \in Chosen(kind) \ {i} : ~Newer(rows[kind][i], rows[kind][j])}) >= Limit

\* A row that another version of its event hides: one with another outcome or
\* status, ingested no later.
MayBeHidden(kind, i) ==
    \E j \in Chosen(kind) :
        /\ rows[kind][j].id = rows[kind][i].id
        /\ rows[kind][j].what # rows[kind][i].what
        /\ rows[kind][j].seen <= rows[kind][i].seen

RowsRead(kind) == IF kind = "access" THEN run.access ELSE run.sessions

\* Hits of the subscriber, on the NAS and of the client the run narrowed the
\* question to, whose event is not among the rows the run read, though the limit
\* did not cut it off.
Missed(kind) ==
    { h \in Range(run.hits) :
        /\ h.kind = kind /\ h.by["subscriber"] = Sought["subscriber"] /\ ~Elsewhere(h)
        /\ \A r \in RowsRead(kind) : r.id # h.id
        /\ ~\E i \in Chosen(kind) : rows[kind][i] = h /\ MayBeCut(kind, i) }

\* The event behind a hit is among the rows the run reads next, because indexing
\* lags behind the stores and the window spans the hits: but for hits of another
\* subscriber, NAS or client than the first ones that name one, and for one event
\* of each source, which was not projected when it was read.
HitsAreExplained ==
    run.pc = "explained" =>
        \A kind \in Kinds : Phase(kind) \in Range(Plan(run.request)) =>
            \A h \in Missed(kind) :
                /\ \A i \in 1..run.readAt[kind] : rows[kind][i] # h
                /\ \A other \in Missed(kind) : other = h

\* "currently connected" and "not currently connected" are said of the newest
\* moment the session store had of what the run asked for (the window, and the
\* subscriber, NAS and client of the question or else of the first hits), whatever
\* the limit cut and however often rows repeat; and are said whenever that moment
\* is one of start or stop.
NewestInstantDecides ==
    run.pc = "explained" /\ run.request.goal = "status" =>
        LET S == {rows.session[i] : i \in Chosen("session")}
            newest == {r \in S : \A s \in S : s.at <= r.at}
        IN  /\ run.answer = "connected" => \E r \in newest : r.what = "start"
            /\ run.answer = "not_connected" => \E r \in newest : r.what = "stop"
            /\ (newest # {} /\ \A r \in newest : r.what = "start") => run.answer = "connected"
            /\ (newest # {} /\ \A r \in newest : r.what = "stop") => run.answer = "not_connected"

\* What an answer or a finding says did not happen to the subscriber in the window
\* was not stored when the run read the store: "no session start followed", and no
\* rejection (later than the one named) before the start named.  Three things can
\* make it say so in error: the NAS or the client of the first hits is another, the
\* limit cuts the row, or an older version of the same event hides it.
NothingOverlooked ==
    run.pc = "explained" =>
        LET c == run.claim
            excused(kind, i) == Elsewhere(rows[kind][i]) \/ MayBeCut(kind, i) \/ MayBeHidden(kind, i)
        IN  /\ c.start = {} => \A i \in Open("session") :
                  rows.session[i].what = "start" => excused("session", i)
            /\ \A i \in Open("access") :
                  LET r == rows.access[i] IN
                  /\ r.what = "rejected"
                  /\ \A s \in c.start : r.at <= s.at
                  /\ \A named \in c.rejected : r.at > named.at
                  => excused("access", i)
            /\ run.finding = "rejected_accepted_started" =>
                  \A s \in c.start : \A r \in c.rejected \cup c.accepted : r.at <= s.at
=============================================================================
