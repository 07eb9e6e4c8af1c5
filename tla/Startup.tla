------------------------------- MODULE Startup -------------------------------
(***************************************************************************)
(* The start of the commands that share the configuration files, the       *)
(* stores and the JetStream server, from LoadFrom to the moment each       *)
(* begins its work.  ingestd and normalizerd may start at once and both    *)
(* set up the stream.  The server (external) keeps one stream for a name,  *)
(* refuses a second one that takes a subject of the first, an addition     *)
(* that differs from the stream of that name and a change of its storage.  *)
(***************************************************************************)
EXTENDS Configuration, FiniteSets

CONSTANTS Commands,   \* apid, ingestd, normalizerd, indexerd, agentd, or some of them
          Scenarios,  \* the files and environments a start may find
          MaxOutages  \* bound: how often the server goes away or comes back

ASSUME StartupAssumption ==
    /\ Commands \subseteq {"apid", "ingestd", "normalizerd", "indexerd", "agentd"}
    /\ MaxOutages \in Nat

\* A file or an environment gives a number, a text that is none, or nothing.
MayGiveNumbers(layer) == \A s \in Ints : layer[s] \in Int \cup {Unset, Junk, Blank}

ASSUME ScenarioAssumption ==
    \A g \in Scenarios :
        /\ g.started \cup g.noLogFile \subseteq Commands
        /\ \A c \in Commands : MayGiveNumbers(g.environ[c])
        /\ \A file \in {g.base} \cup {g.overlays[env] : env \in DOMAIN g.overlays} :
              file \in {NoFile, Broken} \/ MayGiveNumbers(file)

VARIABLES given,   \* files and environments: a member of Scenarios
          pc,      \* where each command is
          why,     \* why it exited
          streams, \* the streams of the server
          nats,    \* whether the server can be reached
          outages

vars == <<given, pc, why, streams, nats, outages>>

-----------------------------------------------------------------------------
EnvName(c) == NormalizeEnvName(given.appEnv[c])

Overlay(c) ==
    IF EnvName(c) \in DOMAIN given.overlays THEN given.overlays[EnvName(c)] ELSE NoFile

\* What LoadFrom returns.
Config(c) ==
    Resolve(EnvName(c), given.environ[c], Merge(Layer(given.base), Layer(Overlay(c))))

LoadFails(c) ==
    \/ ~Decodes(given.base) \/ ~Decodes(Overlay(c))
    \/ ~Accepts(Config(c))

\* buildSink: the directory of the log file cannot be created or the file in it,
\* which is named after the command, not be opened.
SinkFails(c) == Config(c)["logging.output_dir"] # Blank /\ c \in given.noLogFile

\* logging.New: parseLevel, buildSink, newHandler and the channel of newAsyncHandler.
LoggerError(c) ==
    LET cfg == Config(c)
        queueFails == cfg["logging.async_enabled"] /\ cfg["logging.async_queue_size"] < 0 IN
    IF cfg["logging.level"] \notin {"debug", "info", "warn", "error"} THEN "logger"
    ELSE IF SinkFails(c) THEN "sink"
    ELSE IF cfg["logging.format"] \notin {"text", "json"} \/ queueFails THEN "logger"
    ELSE "none"

StoreError(backend, path, memoryNames) ==
    CASE backend \in memoryNames -> "none"
      [] backend = "file" -> IF path = Blank THEN "path" ELSE "none"
      [] OTHER -> "backend"

RawError(cfg) == StoreError(cfg["storage.raw.backend"], cfg["storage.raw.path"], {"memory"})

MetadataError(cfg) ==
    StoreError(cfg["storage.metadata.backend"], cfg["storage.metadata.path"], {Blank, "memory"})

StoresError(c) ==
    LET cfg == Config(c)
        raw == IF c \in {"ingestd", "normalizerd"} THEN RawError(cfg) ELSE "none" IN
    IF raw = "none" /\ c \in {"normalizerd", "indexerd", "agentd"}
    THEN MetadataError(cfg) ELSE raw

Publishers == {"ingestd", "normalizerd"}

\* The source a source type names; the commands that read evidence need one.
SourceOf(type) ==
    CASE type \in {"ras", "radius"} -> "radius"
      [] type \in {"access", "aaa", "aaa-auth"} -> "access"
      [] OTHER -> "unsupported"

Stream(c) ==
    [name |-> Config(c)["stream.stream_name"],
     subjects |-> {Config(c)[s] : s \in Subjects},
     storage |-> Config(c)["stream.storage"]]

\* What a command publishes under: the subject of the source's own file, or
\* the unified subject.
Subject(c) == IF c = "ingestd" THEN given.subject ELSE Config(c)["stream.unified_subject"]

-----------------------------------------------------------------------------
Init ==
    /\ given \in Scenarios
    /\ pc = [c \in Commands |-> IF c \in given.started THEN "off" ELSE "exited"]
    /\ why = [c \in Commands |-> "none"]
    /\ streams = {}
    /\ nats \in BOOLEAN
    /\ outages = 0

GoTo(c, place) == pc' = [pc EXCEPT ![c] = place] /\ UNCHANGED why

Exit(c, reason) ==
    /\ pc' = [pc EXCEPT ![c] = "exited"]
    /\ why' = [why EXCEPT ![c] = reason]

\* Load, and for the commands that read evidence the check of its type.
Load(c) ==
    /\ pc[c] = "off"
    /\ IF LoadFails(c) THEN Exit(c, "config")
       ELSE IF c \in Publishers /\ SourceOf(Config(c)["ingest.source_type"]) = "unsupported"
       THEN Exit(c, "source")
       ELSE GoTo(c, "loaded")
    /\ UNCHANGED <<given, streams, nats, outages>>

\* The logger and the stores.  apid does not need its stores, the routes of a
\* store that is missing answer 501, but it needs the files of its channels.
OpenStores(c) ==
    /\ pc[c] = "loaded"
    /\ IF LoggerError(c) # "none" THEN Exit(c, LoggerError(c))
       ELSE IF StoresError(c) # "none" THEN Exit(c, StoresError(c))
       ELSE IF c = "apid" /\ ~given.channelsLoad THEN Exit(c, "channels")
       ELSE GoTo(c, IF c \in Publishers THEN "stores" ELSE "up")
    /\ UNCHANGED <<given, streams, nats, outages>>

\* Connect.
Connect(c) ==
    /\ pc[c] = "stores"
    /\ IF Config(c)["stream.backend"] = "disabled" THEN GoTo(c, "source")
       ELSE IF nats THEN GoTo(c, "connected") ELSE Exit(c, "stream")
    /\ UNCHANGED <<given, streams, nats, outages>>

\* EnsureConfiguredStream asks for the stream of its name.
Inspect(c) ==
    /\ pc[c] = "connected"
    /\ IF ~nats THEN Exit(c, "stream")
       ELSE GoTo(c, IF \E st \in streams : st.name = Stream(c).name THEN "present" ELSE "missing")
    /\ UNCHANGED <<given, streams, nats, outages>>

\* Fault: the stream gets the subject of its publisher only.
ConfigureOwnSubject(c) ==
    LET mine == [Stream(c) EXCEPT !.subjects = {Subject(c)}]
        same == {st \in streams : st.name = mine.name} IN
    /\ pc[c] \in {"missing", "present"} /\ nats
    /\ streams' = (streams \ same) \cup {mine}
    /\ GoTo(c, "source")
    /\ UNCHANGED <<given, nats, outages>>

\* And adds or updates it as the answer says, which may be stale by then.
Configure(c) ==
    LET mine == Stream(c)
        same == {st \in streams : st.name = mine.name}
        refused ==
            \/ \E st \in streams \ same : st.subjects \cap mine.subjects # {}
            \/ pc[c] = "missing" /\ ~(same \subseteq {mine})
            \/ pc[c] = "present" /\ \E st \in same : st.storage # mine.storage IN
    /\ pc[c] \in {"missing", "present"}
    /\ CASE ~nats -> Exit(c, "stream") /\ UNCHANGED streams
         [] nats /\ refused -> Exit(c, "conflict") /\ UNCHANGED streams
         [] OTHER -> GoTo(c, "source") /\ streams' = (streams \ same) \cup {mine}
    /\ UNCHANGED <<given, nats, outages>>

\* The source must be enabled, for ingestd in its own file too.
OpenSource(c) ==
    LET source == SourceOf(Config(c)["ingest.source_type"])
        enabled == {Config(c)["sources.enabled"][i] : i \in DOMAIN Config(c)["sources.enabled"]} IN
    /\ pc[c] = "source"
    /\ IF c = "ingestd" /\ (source \notin enabled \/ source \notin given.sourceFiles)
       THEN Exit(c, "source") ELSE GoTo(c, "up")
    /\ UNCHANGED <<given, streams, nats, outages>>

\* The server goes away or comes back.
Outage ==
    /\ outages < MaxOutages
    /\ nats' = ~nats
    /\ outages' = outages + 1
    /\ UNCHANGED <<given, pc, why, streams>>

Next ==
    \/ \E c \in Commands :
          Load(c) \/ OpenStores(c) \/ Connect(c) \/ Inspect(c) \/ Configure(c) \/ OpenSource(c)
    \/ Outage

Spec == Init /\ [][Next]_vars
-----------------------------------------------------------------------------
(* Properties *)

\* What LoadFrom accepts, the logger and the stores of the command accept, unless
\* a backend is not implemented ("backend") or the log file cannot be created and
\* opened ("sink").
AcceptedComesUp == \A c \in Commands : why[c] \notin {"path", "logger"}

PastStream(c) ==
    /\ c \in Publishers /\ pc[c] \in {"source", "up"}
    /\ Config(c)["stream.backend"] # "disabled"

\* However their starts interleave, commands that agree on the stream neither
\* fail each other nor take each other's subject from it.
PublishersAreHeard ==
    \A c \in Commands \cap Publishers :
        (\A d \in given.started \cap Publishers :
            Accepts(Config(d)) /\ Config(d)["stream.backend"] # "disabled" => Stream(d) = Stream(c))
        => /\ why[c] # "conflict"
           /\ PastStream(c) /\ Subject(c) \in Stream(c).subjects =>
                 \E st \in streams : Subject(c) \in st.subjects
=============================================================================
