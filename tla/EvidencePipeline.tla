-------------------------- MODULE EvidencePipeline --------------------------
(***************************************************************************)
(* The evidence pipeline of one source: ingestd copies fixture files into  *)
(* the raw store and announces them, normalizerd rewrites the unified file *)
(* from a replay of the raw store, projects and announces each event,      *)
(* indexerd turns the lines of the unified file into retrieval documents.  *)
(*                                                                         *)
(* The three are commands of their own that share only files.  Each can be *)
(* started again, at any moment and while the others run; one instance of  *)
(* each at a time is assumed.  A command that meets an error returns at    *)
(* once, so a crash or a shutdown between two steps is the same step as a  *)
(* failure.  Writes of whole lines are atomic.                             *)
(*                                                                         *)
(* The sources share no file (names carry the source) and no document id   *)
(* (ids start with it), so one source is modelled at a time: radius or     *)
(* access, whose commands differ in what the adapters accept and name.     *)
(***************************************************************************)
EXTENDS Integers, Sequences, SequencesExt

CONSTANTS Inputs,        \* sources and the payloads under their input directory, in
                         \* path order: see InputShape
          Empty,         \* an empty field of a payload
          Ticks,         \* how far the clock moves between two ingested files
          MaxRuns        \* bound, by kind of source: how often each command is started

\* A payload: the fields that decide whether it is accepted and what its ids
\* are.  status is acct_status_type or the access decision.
PayloadShape(p) ==
    /\ DOMAIN p = {"user", "session", "request", "status", "at"}
    /\ p.at \in Int

InputShape(i) ==
    /\ i.kind \in {"radius", "access"}
    /\ i.files \in Seq(Range(i.files)) \ {<<>>}
    /\ \A n \in 1..Len(i.files) : PayloadShape(i.files[n])

\* EnsureConfiguredStream, nats and the encoder are external to the model.
ASSUME PipelineAssumption ==
    /\ \A i \in Inputs : InputShape(i)
    /\ Ticks \subseteq Nat
    /\ MaxRuns \in [{"radius", "access"} -> Nat]

VARIABLES input,      \* the source, with its files
          clock,      \* the wall clock that stamps IngestedAt
          raw,        \* the raw store, in append order
          published,  \* records announced on the raw subject
          unified,    \* the unified event file
          projection, \* the session or access projection, in append order
          announced,  \* events announced on the unified subject
          docs,       \* the retrieval store, in append order
          ingest,     \* ingestd: [pc, next]
          norm,       \* normalizerd: [pc, next, limit]
          idx,        \* indexerd: [pc, offset, buffer]
          base,       \* history: length of docs when indexerd was started last
          disturbed,  \* history: normalizerd was at work since indexerd's last start
          runs        \* how often each command was started

vars == <<input, clock, raw, published, unified, projection, announced, docs,
          ingest, norm, idx, base, disturbed, runs>>

Idle == {"never", "ok", "error"}   \* not running, and how the last run ended

-----------------------------------------------------------------------------
(* The adapters *)

RadiusAdapts(p) == Empty \notin {p.user, p.session, p.status}
AccessAdapts(p) == Empty \notin {p.user, p.status}

RadiusStatuses == {"start", "interim_update", "stop"}
AccessOutcomes == {"accepted", "rejected", "challenged"}

\* effectiveRequestID falls back to the session, then to the decision itself.
EffectiveRequestID(p) ==
    IF p.request # Empty THEN p.request
    ELSE IF p.session # Empty THEN p.session ELSE p.status

RadiusEventID(p) == <<p.session, p.at>>
AccessEventID(p) == <<EffectiveRequestID(p), p.at>>

Adapts(p) == IF input.kind = "radius" THEN RadiusAdapts(p) ELSE AccessAdapts(p)
EventID(p) == IF input.kind = "radius" THEN RadiusEventID(p) ELSE AccessEventID(p)

\* Adapt does not look at the status: a record NormalizeRecord refuses can be
\* in the raw store.
Normalizes(record) ==
    record.payload.status \in IF input.kind = "radius" THEN RadiusStatuses ELSE AccessOutcomes

\* NormalizeRecord and buildDocument keep the id, the times and the payload's
\* fields, so one record stands for the raw record, its event and its document.
Record(p, now) == [id |-> EventID(p), payload |-> p, ingestedAt |-> now]

-----------------------------------------------------------------------------
Start(command) ==
    /\ runs[command] < MaxRuns[input.kind]
    /\ runs' = [runs EXCEPT ![command] = @ + 1]

Init ==
    /\ input \in Inputs
    /\ clock = 1
    /\ raw = <<>> /\ published = {}
    /\ unified = <<>> /\ projection = <<>> /\ announced = {}
    /\ docs = <<>>
    /\ ingest = [pc |-> "never", next |-> 1]
    /\ norm = [pc |-> "never", next |-> 1, limit |-> 0]
    /\ idx = [pc |-> "never", offset |-> 0, buffer |-> <<>>]
    /\ base = 0
    /\ disturbed = FALSE
    /\ runs = [c \in {"ingest", "normalize", "index"} |-> 0]

-----------------------------------------------------------------------------
(* ingestd *)

IngestOnly == UNCHANGED <<input, unified, projection, announced, docs, norm, idx, base, disturbed>>

StartIngest ==
    /\ ingest.pc \in Idle /\ Start("ingest")
    /\ ingest' = [pc |-> "file", next |-> 1]
    /\ UNCHANGED <<clock, raw, published>> /\ IngestOnly

\* Read, Adapt and Append one file.
IngestFile ==
    /\ ingest.pc = "file" /\ ingest.next <= Len(input.files)
    /\ LET p == input.files[ingest.next] IN
        \/ /\ Adapts(p)
           /\ \E d \in Ticks : clock' = clock + d
           /\ raw' = Append(raw, Record(p, clock'))
           /\ ingest' = [ingest EXCEPT !.pc = "publish"]
        \/ /\ ingest' = [ingest EXCEPT !.pc = "error"]
           /\ UNCHANGED <<clock, raw>>
    /\ UNCHANGED <<published, runs>> /\ IngestOnly

\* Fault: a failed publish is logged and the run goes on.
PublishRawIgnoresError ==
    /\ ingest.pc = "publish"
    /\ published' = published \cup {Last(raw)} \/ UNCHANGED published
    /\ ingest' = [pc |-> "file", next |-> ingest.next + 1]
    /\ UNCHANGED <<clock, raw, runs>> /\ IngestOnly

\* PublishEnvelope; on an error the message may have been delivered.
PublishRaw ==
    /\ ingest.pc = "publish"
    /\ \/ /\ published' = published \cup {Last(raw)}
          /\ ingest' = [pc |-> "file", next |-> ingest.next + 1]
       \/ /\ published' = published \cup {Last(raw)} \/ UNCHANGED published
          /\ ingest' = [ingest EXCEPT !.pc = "error"]
    /\ UNCHANGED <<clock, raw, runs>> /\ IngestOnly

EndIngest ==
    /\ ingest.pc = "file" /\ ingest.next > Len(input.files)
    /\ ingest' = [ingest EXCEPT !.pc = "ok"]
    /\ UNCHANGED <<clock, raw, published, runs>> /\ IngestOnly

Ingest == StartIngest \/ IngestFile \/ PublishRaw \/ EndIngest

-----------------------------------------------------------------------------
(* normalizerd *)

NormalizeOnly == UNCHANGED <<input, clock, raw, published, docs, ingest, idx, base>>

NormalizeFails == norm' = [norm EXCEPT !.pc = "error"]

\* Fault: the output is opened for appending.
StartNormalizeAppends ==
    /\ norm.pc \in Idle /\ Start("normalize")
    /\ norm' = [norm EXCEPT !.pc = "replay"]
    /\ disturbed' = TRUE
    /\ UNCHANGED <<unified, projection, announced>> /\ NormalizeOnly

\* openOutput truncates the unified file before anything else is tried.
StartNormalize ==
    /\ norm.pc \in Idle /\ Start("normalize")
    /\ unified' = <<>>
    /\ norm' = [norm EXCEPT !.pc = "replay"]
    /\ disturbed' = TRUE
    /\ UNCHANGED <<projection, announced>> /\ NormalizeOnly

\* Replay reads the whole raw file; what is appended later is not seen.
Replay ==
    /\ norm.pc = "replay"
    /\ \/ /\ raw # <<>>
          /\ norm' = [pc |-> "record", next |-> 1, limit |-> Len(raw)]
       \/ NormalizeFails
    /\ UNCHANGED <<unified, projection, announced, disturbed, runs>> /\ NormalizeOnly

\* NormalizeRecord and Encode.
WriteUnified ==
    /\ norm.pc = "record" /\ norm.next <= norm.limit
    /\ \/ /\ Normalizes(raw[norm.next])
          /\ unified' = Append(unified, raw[norm.next])
          /\ norm' = [norm EXCEPT !.pc = "project"]
       \/ NormalizeFails /\ UNCHANGED unified
    /\ UNCHANGED <<projection, announced, disturbed, runs>> /\ NormalizeOnly

\* Fault: a failed projection is logged and the run goes on.
ProjectIgnoresError ==
    /\ norm.pc = "project"
    /\ projection' = Append(projection, raw[norm.next]) \/ UNCHANGED projection
    /\ norm' = [norm EXCEPT !.pc = "announce"]
    /\ UNCHANGED <<unified, announced, disturbed, runs>> /\ NormalizeOnly

Project ==
    /\ norm.pc = "project"
    /\ \/ /\ projection' = Append(projection, raw[norm.next])
          /\ norm' = [norm EXCEPT !.pc = "announce"]
       \/ NormalizeFails /\ UNCHANGED projection
    /\ UNCHANGED <<unified, announced, disturbed, runs>> /\ NormalizeOnly

Announce ==
    /\ norm.pc = "announce"
    /\ \/ /\ announced' = announced \cup {raw[norm.next]}
          /\ norm' = [norm EXCEPT !.pc = "record", !.next = @ + 1]
       \/ /\ announced' = announced \cup {raw[norm.next]} \/ UNCHANGED announced
          /\ NormalizeFails
    /\ UNCHANGED <<unified, projection, disturbed, runs>> /\ NormalizeOnly

EndNormalize ==
    /\ norm.pc = "record" /\ norm.next > norm.limit
    /\ norm' = [norm EXCEPT !.pc = "ok"]
    /\ UNCHANGED <<unified, projection, announced, disturbed, runs>> /\ NormalizeOnly

Normalize == StartNormalize \/ Replay \/ WriteUnified \/ Project \/ Announce \/ EndNormalize

-----------------------------------------------------------------------------
(* indexerd *)

IndexOnly == UNCHANGED <<input, clock, raw, published, unified, projection, announced, ingest, norm>>

StartIndex ==
    /\ idx.pc \in Idle /\ Start("index")
    /\ idx' = [pc |-> "scan", offset |-> 0, buffer |-> <<>>]
    /\ base' = Len(docs)
    /\ disturbed' = (norm.pc \notin Idle)
    /\ UNCHANGED docs /\ IndexOnly

\* Fault: every read starts over at the beginning of the file.
ScanRewinds ==
    /\ idx.pc = "scan" /\ idx.buffer = <<>>
    /\ \E n \in idx.offset+1..Len(unified) :
        idx' = [idx EXCEPT !.offset = n, !.buffer = SubSeq(unified, 1, n)]
    /\ UNCHANGED <<docs, base, disturbed, runs>> /\ IndexOnly

\* The scanner reads what the file holds behind its offset, at most a buffer
\* of it.
Scan ==
    /\ idx.pc = "scan" /\ idx.buffer = <<>>
    /\ \E n \in idx.offset+1..Len(unified) :
        idx' = [idx EXCEPT !.offset = n, !.buffer = SubSeq(unified, idx.offset + 1, n)]
    /\ UNCHANGED <<docs, base, disturbed, runs>> /\ IndexOnly

\* buildDocument and Append.
IndexLine ==
    /\ idx.pc = "scan" /\ idx.buffer # <<>>
    /\ \/ /\ docs' = Append(docs, Head(idx.buffer))
          /\ idx' = [idx EXCEPT !.buffer = Tail(@)]
       \/ /\ idx' = [idx EXCEPT !.pc = "error", !.buffer = <<>>]
          /\ UNCHANGED docs
    /\ UNCHANGED <<base, disturbed, runs>> /\ IndexOnly

\* Fault: the end is the size of the file, which may since have shrunk.
EndIndexAtSize ==
    /\ idx.pc = "scan" /\ idx.buffer = <<>> /\ Len(unified) = idx.offset
    /\ idx' = [idx EXCEPT !.pc = "ok"]
    /\ UNCHANGED <<docs, base, disturbed, runs>> /\ IndexOnly

\* A read behind the end of the file is io.EOF, and the run is over; a line
\* cut in two by a truncation fails the run.
EndIndex ==
    /\ idx.pc = "scan" /\ idx.buffer = <<>> /\ Len(unified) <= idx.offset
    /\ \/ idx' = [idx EXCEPT !.pc = "ok"]
       \/ Len(unified) < idx.offset /\ idx' = [idx EXCEPT !.pc = "error"]
    /\ UNCHANGED <<docs, base, disturbed, runs>> /\ IndexOnly

Index == StartIndex \/ Scan \/ IndexLine \/ EndIndex

-----------------------------------------------------------------------------
Next == Ingest \/ Normalize \/ Index

\* A command that was started is scheduled until it returns; nobody has to
\* start one.
Spec ==
    /\ Init /\ [][Next]_vars
    /\ WF_vars(IngestFile \/ PublishRaw \/ EndIngest)
    /\ WF_vars(Replay \/ WriteUnified \/ Project \/ Announce \/ EndNormalize)
    /\ WF_vars(Scan \/ IndexLine \/ EndIndex)

-----------------------------------------------------------------------------
(* What a retrieval search returns for a document id *)

\* Fault: the line appended last wins.
ReplacesAlways(candidate, existing) == TRUE

\* pickLatest; OccurredAt is part of the id and cannot break a tie.
Replaces(candidate, existing) == candidate.ingestedAt > existing.ingestedAt

\* The document of the id: the line that replaced those before it and is
\* replaced by none behind it.
Found(lines, id) ==
    lines[CHOOSE k \in DOMAIN lines :
            /\ lines[k].id = id
            /\ \A j \in DOMAIN lines : lines[j].id = id =>
                  /\ j < k => Replaces(lines[k], lines[j])
                  /\ j > k => ~Replaces(lines[j], lines[k])]

Ids(lines) == {lines[i].id : i \in 1..Len(lines)}

-----------------------------------------------------------------------------
(* Properties *)

Stored(lines) == {lines[i] : i \in 1..Len(lines)}
Records == {Record(input.files[i], t) : i \in 1..Len(input.files), t \in 0..clock}

\* Every variable keeps its type, whatever commands run at the same time.
TypeOK ==
    /\ input \in Inputs
    /\ clock \in Nat
    /\ raw \in Seq(Records) /\ unified \in Seq(Records)
    /\ projection \in Seq(Records) /\ docs \in Seq(Records)
    /\ published \subseteq Records /\ announced \subseteq Records
    /\ ingest \in [pc : Idle \cup {"file", "publish"}, next : 1..Len(input.files)+1]
    /\ norm \in [pc : Idle \cup {"replay", "record", "project", "announce"},
                 next : 1..norm.limit+1, limit : 0..Len(raw)]
    /\ idx \in [pc : Idle \cup {"scan"}, offset : 0..Len(raw), buffer : Seq(Records)]
    /\ base \in 0..Len(docs)
    /\ disturbed \in BOOLEAN
    /\ runs \in [{"ingest", "normalize", "index"} -> 0..MaxRuns[input.kind]]

\* Nothing is announced on a subject before it is in its store: a consumer
\* that hears of a record or an event can find it, and can replay it later.
AnnouncedIsStored ==
    published \subseteq Stored(raw) /\ announced \subseteq Stored(projection)

\* The unified file is at every moment the beginning of the replayed raw
\* store, each record once and in order, up to a record that cannot be
\* normalised; runs that were cut short, repeated or overtaken by ingestd
\* leave no gap and no repetition.
UnifiedIsReplay ==
    /\ Len(unified) <= Len(raw)
    /\ \A i \in 1..Len(unified) : unified[i] = raw[i] /\ Normalizes(raw[i])

\* What a run of indexerd has appended is the beginning of the replayed raw
\* store, each event once and in order, even when normalizerd truncates and
\* rewrites the file it is reading.
IndexRunIsReplay ==
    LET n == Len(docs) - base
    IN  n <= Len(raw) /\ \A i \in 1..n : docs[base + i] = raw[i]

\* The retrieval store is ahead of the projection by one event at most: what a
\* search of the agent finds there, its session and access queries know too,
\* but for the event at which a run of normalizerd stopped.
ProjectionKeepsUp ==
    \A i, j \in 1..Len(docs) :
        {docs[i], docs[j]} \cap Stored(projection) = {} => docs[i] = docs[j]

\* A command that returned nil did its whole work: every file is stored and
\* announced, every record replayed is in the unified file, projected and
\* announced, every line of the file is indexed unless normalizerd was at work
\* at the same time.
OkMeansDone ==
    /\ ingest.pc = "ok" =>
        \A i \in 1..Len(input.files) : \E r \in published : r.payload = input.files[i]
    /\ norm.pc = "ok" =>
        /\ unified = SubSeq(raw, 1, norm.limit)
        /\ Stored(unified) \subseteq Stored(projection) \cap announced
    /\ idx.pc = "ok" /\ ~disturbed => Stored(unified) \subseteq Stored(docs)

\* Indexing the same file again, or an older part of it, never makes a search
\* return an older ingestion of an event than it returned before.
SearchNeverGoesBack ==
    [][\A id \in Ids(docs) : Found(docs', id).ingestedAt >= Found(docs, id).ingestedAt]_vars

\* Every run of a command returns, also when the file it reads is truncated
\* under it.
RunsEnd ==
    /\ ingest.pc \notin Idle ~> ingest.pc \in Idle
    /\ norm.pc \notin Idle ~> norm.pc \in Idle
    /\ idx.pc \notin Idle ~> idx.pc \in Idle
=============================================================================
