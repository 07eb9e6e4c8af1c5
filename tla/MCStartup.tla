------------------------------ MODULE MCStartup ------------------------------
(***************************************************************************)
(* Instances of Startup.  Layered: one setting at a time has any value in  *)
(* each layer, and agentd starts.  Streamed: three commands start at once  *)
(* over a stream their environments may disagree on.                       *)
(***************************************************************************)
EXTENDS Startup

None == [s \in Settings |-> Unset]

With(layer, s, value) == [layer EXCEPT ![s] = value]

Values(s) ==
    CASE s \in Numbers -> {Unset, Junk, -1, 0, 7}
      [] s \in Bools   -> {Unset, Junk, TRUE, FALSE}
      [] s \in Lists   -> {Unset, <<>>, <<Blank>>, <<"access", Blank>>, <<"access", "access">>}
      [] s \in {"storage.raw.backend", "storage.metadata.backend", "storage.vector.backend"} ->
            {Unset, Blank, "file", "postgres"}
      [] OTHER         -> {Unset, Blank, "given", "json"}

Scenario(base, overlays, environ, appEnv, started) ==
    [base |-> base, overlays |-> overlays, environ |-> environ, appEnv |-> appEnv,
     started |-> started, subject |-> "stream.raw_subject", sourceFiles |-> {"radius"},
     channelsLoad |-> TRUE, noLogFile |-> {}]

Everywhere(value) == [c \in Commands |-> value]

Layered ==
    {Scenario(With(None, s, v[1]), [production |-> With(None, s, v[2])],
              Everywhere(With(None, s, v[3])), Everywhere("prod"), {"agentd"}) :
        <<s, v>> \in UNION {{t} \X (Values(t) \X Values(t) \X Values(t)) : t \in Settings}}

\* Log files that cannot be opened, asked for or not, with a level that is known
\* or not.
Unlogged ==
    {[Scenario(With(With(None, "logging.output_dir", dir), "logging.level", level),
               [production |-> None], Everywhere(None), Everywhere("prod"), {"apid", "agentd"})
        EXCEPT !.noLogFile = commands] :
        dir \in {Unset, "given"}, level \in {Unset, "verbose"}, commands \in SUBSET {"apid", "agentd"}}

\* Files that are missing or broken, and a name without a file.
Odd ==
    {Scenario(base, [production |-> overlay], Everywhere(None), Everywhere(name), {"apid"}) :
        base \in {NoFile, Broken, None}, overlay \in {Broken, None}, name \in {"prod", "prdo"}}

Jetstream ==
    [With(With(None, "stream.backend", "jetstream"), "stream.addr", "given")
        EXCEPT !["storage.metadata.path"] = "given", !["storage.metadata.addr"] = "given"]

Streamed ==
    {[Scenario(With(With(Jetstream, "storage.metadata.backend", backend), "ingest.source_type", type),
               [production |-> None],
               [c \in Commands |->
                  IF c = other THEN With(None, s, value) ELSE None],
               Everywhere("prod"), {"apid", "ingestd", "normalizerd"})
        EXCEPT !.subject = subject, !.channelsLoad = (type = "ras")] :
        backend \in {"memory", "file", "postgres"}, type \in {"ras", "access", "voice"},
        other \in {"ingestd", "agentd"}, subject \in {"stream.raw_subject", "elsewhere"},
        <<s, value>> \in {<<"stream.raw_subject", "elsewhere">>, <<"stream.storage", "memory">>,
                          <<"stream.stream_name", "another">>, <<"stream.backend", "disabled">>}}

MCScenarios == Layered \cup Unlogged \cup Odd \cup Streamed
=============================================================================
