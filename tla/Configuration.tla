---------------------------- MODULE Configuration ----------------------------
(***************************************************************************)
(* internal/platform/config: how the settings of a command are put         *)
(* together from base.yaml, the file of the environment, the environment   *)
(* variables of the process and the defaults, and which results LoadFrom   *)
(* accepts.  Words stand for themselves, durations and numbers are         *)
(* integers; case and surrounding space of a word are left out.            *)
(***************************************************************************)
EXTENDS Integers, Sequences

CONSTANTS Unset,  \* nothing given
          Blank,  \* only white space
          Junk,   \* a text that is no number, duration or boolean
          NoFile, \* a file that does not exist
          Broken  \* a file that cannot be read

-----------------------------------------------------------------------------
(* The settings *)

Durations == {"api.read_timeout", "api.write_timeout", "api.idle_timeout",
              "logging.flush_timeout", "stream.ack_wait", "stream.connect_timeout"}
Ints == {"logging.async_queue_size", "pipeline.workers", "pipeline.queue_size",
         "pipeline.batch_size", "channels.request_body_limit_bytes",
         "stream.max_deliveries", "stream.batch_size", "stream.max_ack_pending"}
Bools == {"logging.add_source", "logging.async_enabled", "stream.tls_enabled"}
Lists == {"sources.enabled", "channels.enabled"}

Subjects == {"stream.raw_subject", "stream.unified_subject",
             "stream.index_subject", "stream.deadletter_subject"}

Required == {"app.name", "app.env", "api.listen_addr", "ingest.source_type",
             "ingest.input_path", "sources.config_dir", "channels.config_dir",
             "channels.webhook_base_path", "storage.raw.backend",
             "storage.metadata.backend", "storage.vector.backend"}
StreamRequired == Subjects \cup {"stream.addr", "stream.stream_name", "stream.consumer_prefix"}

Optional == {"logging.output_dir", "storage.raw.addr", "storage.metadata.path",
             "storage.metadata.addr", "storage.metadata.database", "storage.vector.path",
             "storage.vector.addr", "storage.vector.collection", "stream.addr",
             "stream.username", "stream.password", "cache.addr"}

Texts == Required \cup StreamRequired \cup Optional
         \cup {"logging.level", "logging.format", "storage.raw.path",
               "stream.backend", "stream.storage", "cache.backend"}

Numbers == Durations \cup Ints
Settings == Numbers \cup Bools \cup Lists \cup Texts

\* The fallbacks of resolve; any word but "" that no guard looks at is "given".
Default ==
    [s \in Settings |->
        CASE s \in Optional -> Blank
          [] s \in {"storage.raw.backend", "stream.storage"} -> "file"
          [] s \in {"storage.metadata.backend", "storage.vector.backend"} -> "memory"
          [] s \in {"stream.backend", "cache.backend"} -> "disabled"
          [] s = "logging.level" -> "info"
          [] s = "logging.format" -> "text"
          [] s = "ingest.source_type" -> "ras"
          [] s \in Numbers -> 5
          [] s \in Bools -> s = "logging.async_enabled"
          [] s = "sources.enabled" -> <<"radius">>
          [] s = "channels.enabled" -> <<"chat", "email", "voice", "messaging">>
          [] s \in Subjects -> s
          [] OTHER -> "given"]

-----------------------------------------------------------------------------
(* LoadFrom *)

\* The name of the environment is that of its file.
NormalizeEnvName(name) ==
    CASE name \in {"dev", "development", Blank, Unset} -> "development"
      [] name \in {"test", "testing"} -> "testing"
      [] name \in {"stage", "stg", "qa", "staging"} -> "staging"
      [] name \in {"prod", "prd", "production"} -> "production"
      [] OTHER -> name

\* yaml.Unmarshal fails on a number or boolean that is none; a duration is a
\* text to it.
Decodes(file) ==
    file # Broken /\ (file # NoFile => \A s \in Ints \cup Bools : file[s] \notin {Junk, Blank})

\* A file that does not exist sets nothing.
Layer(file) == IF file = NoFile THEN [s \in Settings |-> Unset] ELSE file

\* A setting that is present; an empty list is not.
Given(s, value) == value # Unset /\ (s \in Lists => value # <<>>)

\* merge and resolve have a line or two of their own for each setting.  Read one
\* by one they all follow the rule that Merge and Resolve give once for all, which
\* is therefore assumed here and not checked.
Merge(base, overlay) ==
    [s \in Settings |-> IF Given(s, overlay[s]) THEN overlay[s] ELSE base[s]]

Items(list) == SelectSeq(list, LAMBDA item : item # Blank)

\* An environment variable that has no usable value is passed over.  App.Env
\* has none.
Usable(s, value) ==
    /\ value # Unset /\ s # "app.env"
    /\ IF s \in Lists THEN Items(value) # <<>>
       ELSE value # Blank /\ (s \notin Texts => value # Junk)

\* A duration of a file that is none becomes zero.
Read(s, value) ==
    CASE s \in Lists -> Items(value)
      [] s \in Durations /\ value \in {Junk, Blank} -> 0
      [] OTHER -> value

Resolve(env, environ, raw) ==
    [s \in Settings |->
        IF Usable(s, environ[s]) THEN Read(s, environ[s])
        ELSE IF Given(s, raw[s]) THEN Read(s, raw[s])
        ELSE IF s = "app.env" THEN env ELSE Default[s]]

-----------------------------------------------------------------------------
(* validate *)

Unique(list) == \A i, j \in DOMAIN list : list[i] = list[j] => i = j

\* Fault: validateStore asks sqlite for a path and forgets file.
StoreAcceptsNoFilePath(backend, path, addr) ==
    /\ backend = "sqlite" => path # Blank
    /\ backend \notin {"file", "sqlite", "disabled", "memory"} => addr # Blank

StoreAccepts(backend, path, addr) ==
    /\ backend \in {"file", "sqlite"} => path # Blank
    /\ backend \notin {"file", "sqlite", "disabled", "memory"} => addr # Blank

StreamAccepts(cfg) ==
    /\ cfg["stream.backend"] = "jetstream"
    /\ cfg["stream.storage"] \in {"file", "memory"}
    /\ \A s \in StreamRequired : cfg[s] # Blank
    /\ \A s \in {"stream.ack_wait", "stream.connect_timeout", "stream.max_deliveries",
                 "stream.batch_size", "stream.max_ack_pending"} : cfg[s] > 0
    /\ \A s, t \in Subjects : cfg[s] = cfg[t] => s = t

Accepts(cfg) ==
    /\ \A s \in Required : cfg[s] # Blank
    /\ \A s \in Numbers : cfg[s] > 0 \/ s \in {"stream.ack_wait", "stream.connect_timeout",
          "stream.max_deliveries", "stream.batch_size", "stream.max_ack_pending"}
    /\ cfg["logging.level"] \in {"debug", "info", "warn", "error"}
    /\ cfg["logging.format"] \in {"text", "json"}
    /\ cfg["sources.enabled"] # <<>>
    /\ Unique(cfg["sources.enabled"]) /\ Unique(cfg["channels.enabled"])
    /\ cfg["channels.webhook_base_path"] # "relative"   \* not behind a slash
    /\ StoreAccepts(cfg["storage.raw.backend"], cfg["storage.raw.path"], cfg["storage.raw.addr"])
    /\ StoreAccepts(cfg["storage.metadata.backend"], cfg["storage.metadata.path"],
                    cfg["storage.metadata.addr"])
    /\ StoreAccepts(cfg["storage.vector.backend"], cfg["storage.vector.path"],
                    cfg["storage.vector.addr"])
    /\ cfg["storage.vector.backend"] \notin {"disabled", "memory"} =>
          cfg["storage.vector.collection"] # Blank
    /\ cfg["stream.backend"] # "disabled" => StreamAccepts(cfg)
    /\ cfg["cache.backend"] # "disabled" => cfg["cache.addr"] # Blank
=============================================================================
