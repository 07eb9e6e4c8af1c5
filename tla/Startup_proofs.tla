--------------------------- MODULE Startup_proofs ---------------------------
(***************************************************************************)
(* Proofs about Startup, for any commands, files, environments and number  *)
(* of outages.  A configuration is never expanded, but for its numbers:    *)
(* what matters is that it does not change after the start.                *)
(***************************************************************************)
EXTENDS Startup, TLAPS

Loaded == {"loaded", "stores", "connected", "missing", "present", "source", "up"}

\* A command that is under way was started and its configuration accepted;
\* none has exited for a reason LoadFrom should have seen.
AcceptedInv ==
    /\ given \in Scenarios
    /\ \A c \in Commands : pc[c] \in Loaded => c \in given.started /\ ~LoadFails(c)
    /\ pc \in [Commands -> Loaded \cup {"off", "exited"}]
    /\ \A c \in Commands : pc[c] = "off" => c \in given.started
    /\ why \in [Commands -> {"none", "config", "source", "logger", "sink", "path", "backend",
                             "channels", "stream", "conflict"}]
    /\ AcceptedComesUp

\* The queue size of an accepted configuration is a number.
LEMMA QueueSizeIsNumber ==
    ASSUME given \in Scenarios, NEW c \in Commands, ~LoadFails(c)
    PROVE  Config(c)["logging.async_queue_size"] \in Int
<1> DEFINE s == "logging.async_queue_size"
           merged == Merge(Layer(given.base), Layer(Overlay(c)))
<1>1. s \in Ints /\ s \in Settings /\ s \in Numbers /\ s \notin Lists /\ s \notin Texts
      /\ s # "app.env" /\ s \notin Durations
  BY DEF Ints, Settings, Numbers, Lists, Texts, Durations, Required, StreamRequired,
         Optional, Subjects
<1>2. ASSUME NEW file, file \in {given.base, Overlay(c)}
      PROVE  Layer(file)[s] \in Int \cup {Unset}
  <2>1. CASE file = NoFile
    BY <1>1, <2>1 DEF Layer
  <2>2. CASE file # NoFile
    <3>1. file # Broken /\ file[s] \notin {Junk, Blank}
      BY <1>1, <1>2, <2>2 DEF LoadFails, Decodes
    <3>2. file[s] \in Int \cup {Unset, Junk, Blank}
      BY <1>1, <1>2, <2>2, <3>1, ScenarioAssumption DEF Overlay, MayGiveNumbers
    <3> QED
      BY <2>2, <3>1, <3>2 DEF Layer
  <2> QED
    BY <2>1, <2>2
<1>3. merged[s] \in Int \cup {Unset}
  <2>1. merged[s] \in {Layer(given.base)[s], Layer(Overlay(c))[s]}
    BY <1>1 DEF Merge
  <2> QED
    BY <1>2, <2>1
<1>4. given.environ[c][s] \in Int \cup {Unset, Junk, Blank}
  BY <1>1, ScenarioAssumption DEF MayGiveNumbers
<1>5. Config(c)[s] = IF Usable(s, given.environ[c][s]) THEN Read(s, given.environ[c][s])
                     ELSE IF Given(s, merged[s]) THEN Read(s, merged[s]) ELSE Default[s]
  BY <1>1 DEF Config, Resolve
<1>6. Default[s] \in Int
  BY <1>1, Z3 DEF Default, Optional, Lists, Subjects, Numbers, Bools, Settings, Durations, Ints
<1>7. Usable(s, given.environ[c][s]) => Read(s, given.environ[c][s]) \in Int
  BY <1>1, <1>4 DEF Usable, Read
<1>8. Given(s, merged[s]) => Read(s, merged[s]) \in Int
  BY <1>1, <1>3 DEF Given, Read
<1> QED
  BY <1>5, <1>6, <1>7, <1>8

\* The logger and the stores find nothing wrong with an accepted configuration
\* but a backend that is not implemented or a log file that cannot be opened.
LEMMA AcceptedIsUsable ==
    ASSUME given \in Scenarios, NEW c \in Commands, ~LoadFails(c)
    PROVE  LoggerError(c) \in {"none", "sink"} /\ StoresError(c) \in {"none", "backend"}
<1> DEFINE cfg == Config(c)
<1>1. Accepts(cfg)
  BY DEF LoadFails
<1>2. cfg["logging.async_queue_size"] > 0
  BY <1>1 DEF Accepts, Numbers, Ints
<1>3. LoggerError(c) \in {"none", "sink"}
  BY <1>1, <1>2, QueueSizeIsNumber DEF Accepts, LoggerError
<1>4. RawError(cfg) \in {"none", "backend"}
  BY <1>1 DEF Accepts, StoreAccepts, RawError, StoreError
<1>5. MetadataError(cfg) \in {"none", "backend"}
  BY <1>1 DEF Accepts, StoreAccepts, MetadataError, StoreError
<1> QED
  BY <1>3, <1>4, <1>5 DEF StoresError

\* What given alone decides stays as it is.
LEMMA ConfigStays ==
    ASSUME given' = given
    PROVE  \A c \in Commands : /\ LoadFails(c)' <=> LoadFails(c)
                              /\ Config(c)' = Config(c)
                              /\ Stream(c)' = Stream(c)
                              /\ Subject(c)' = Subject(c)
BY DEF LoadFails, Config, Stream, Subject, EnvName, Overlay

\* The places a command goes to, one action at a time.
LEMMA StepOf ==
    ASSUME AcceptedInv, NEW c \in Commands,
           Load(c) \/ OpenStores(c) \/ Connect(c) \/ Inspect(c) \/ Configure(c) \/ OpenSource(c)
    PROVE  /\ given' = given
           /\ \E place \in Loaded \cup {"exited"} : pc' = [pc EXCEPT ![c] = place]
           /\ \/ why' = why
              \/ \E reason \in {"config", "source", "sink", "backend", "channels", "stream", "conflict"} :
                    why' = [why EXCEPT ![c] = reason]
           /\ c \in given.started /\ (pc'[c] \in Loaded => ~LoadFails(c))
<1>1. CASE Load(c)
  BY <1>1 DEF Load, GoTo, Exit, AcceptedInv, Loaded
<1>2. CASE OpenStores(c)
  <2>1. c \in given.started /\ LoggerError(c) \in {"none", "sink"} /\ StoresError(c) \in {"none", "backend"}
        /\ ~LoadFails(c)
    BY <1>2, AcceptedIsUsable DEF OpenStores, AcceptedInv, Loaded
  <2> QED
    BY <1>2, <2>1 DEF OpenStores, GoTo, Exit, Loaded
<1>3. CASE Connect(c)
  BY <1>3 DEF Connect, GoTo, Exit, AcceptedInv, Loaded
<1>4. CASE Inspect(c)
  BY <1>4 DEF Inspect, GoTo, Exit, AcceptedInv, Loaded
<1>5. CASE Configure(c)
  BY <1>5 DEF Configure, GoTo, Exit, AcceptedInv, Loaded
<1>6. CASE OpenSource(c)
  BY <1>6 DEF OpenSource, GoTo, Exit, AcceptedInv, Loaded
<1> QED
  BY <1>1, <1>2, <1>3, <1>4, <1>5, <1>6

\* Every step keeps AcceptedInv.
LEMMA AcceptedStep == AcceptedInv /\ [Next]_vars => AcceptedInv'
<1> SUFFICES ASSUME AcceptedInv, [Next]_vars PROVE AcceptedInv'
  OBVIOUS
<1>1. CASE Outage \/ UNCHANGED vars
  <2>1. UNCHANGED <<given, pc, why>>
    BY <1>1 DEF Outage, vars
  <2> QED
    BY <2>1, ConfigStays DEF AcceptedInv, AcceptedComesUp
<1>2. ASSUME NEW c \in Commands,
             Load(c) \/ OpenStores(c) \/ Connect(c) \/ Inspect(c) \/ Configure(c) \/ OpenSource(c)
      PROVE  AcceptedInv'
  <2>1. PICK place \in Loaded \cup {"exited"} : pc' = [pc EXCEPT ![c] = place]
    BY <1>2, StepOf
  <2>2. /\ given' = given /\ c \in given.started /\ (pc'[c] \in Loaded => ~LoadFails(c))
        /\ \A d \in Commands : LoadFails(d)' <=> LoadFails(d)
    BY <1>2, StepOf, ConfigStays
  <2>3. /\ why' \in [Commands -> {"none", "config", "source", "logger", "sink", "path", "backend",
                                   "channels", "stream", "conflict"}]
        /\ \A d \in Commands : why'[d] \notin {"path", "logger"}
    BY <1>2, StepOf DEF AcceptedInv, AcceptedComesUp
  <2>4. pc' \in [Commands -> Loaded \cup {"off", "exited"}]
    BY <2>1 DEF AcceptedInv
  <2>5. \A d \in Commands : d # c => pc'[d] = pc[d]
    BY <2>1 DEF AcceptedInv
  <2>6. pc'[c] # "off"
    BY <2>1 DEF AcceptedInv, Loaded
  <2> QED
    BY <2>2, <2>3, <2>4, <2>5, <2>6 DEF AcceptedInv, AcceptedComesUp
<1> QED
  BY <1>1, <1>2 DEF Next

\* AcceptedInv holds initially.
LEMMA AcceptedInit == Init => AcceptedInv
BY DEF Init, AcceptedInv, AcceptedComesUp, Loaded

\* No command ends its start over a logger or a path that LoadFrom accepted, but
\* for a log file that cannot be opened, whatever files and variables configure it
\* and whatever the others do.
THEOREM AcceptedComesUpCorrect == Spec => []AcceptedComesUp
<1>1. AcceptedInv => AcceptedComesUp
  BY DEF AcceptedInv
<1> QED
  BY <1>1, AcceptedInit, AcceptedStep, PTL DEF Spec

-----------------------------------------------------------------------------
Streaming(c) == Config(c)["stream.backend"] # "disabled"

\* The premise of PublishersAreHeard: who sets up a stream sets up that of c.
AgreeWith(c) ==
    \A d \in given.started \cap Publishers :
        Accepts(Config(d)) /\ Streaming(d) => Stream(d) = Stream(c)

\* Every stream is that of a publisher that was started; one that is past its
\* set-up has left its stream behind if nobody disagrees.
StreamInv ==
    /\ \A st \in streams :
          \E d \in given.started \cap Publishers :
              d \in Commands /\ Accepts(Config(d)) /\ Streaming(d) /\ st = Stream(d)
    /\ \A c \in Commands :
          /\ pc[c] \in {"stores", "connected", "missing", "present", "source"} => c \in Publishers
          /\ pc[c] \in {"connected", "missing", "present"} => Streaming(c)
    /\ \A c \in Commands \cap Publishers : AgreeWith(c) =>
          /\ why[c] # "conflict"
          /\ PastStream(c) => Stream(c) \in streams

\* What a publisher that sets up the stream does to the others.
LEMMA ConfigureKeeps ==
    ASSUME AcceptedInv, StreamInv, NEW c \in Commands, Configure(c),
           NEW d \in Commands \cap Publishers, AgreeWith(d)
    PROVE  /\ d = c => why'[c] # "conflict"
           /\ d = c /\ pc'[c] = "source" => Stream(d) \in streams'
           /\ d # c /\ Stream(d) \in streams => Stream(d) \in streams'
<1> DEFINE mine == Stream(c)
           same == {st \in streams : st.name = mine.name}
<1>1. /\ c \in given.started \cap Publishers /\ Accepts(Config(c)) /\ Streaming(c)
      /\ pc[c] \in {"missing", "present"}
  BY DEF Configure, AcceptedInv, StreamInv, Loaded, LoadFails
<1>2. mine = Stream(d)
  BY <1>1 DEF AgreeWith
<1>3. \A st \in streams : st = mine
  BY <1>2 DEF AgreeWith, StreamInv
<1>4. streams \ same = {} /\ same \subseteq {mine} /\ \A st \in same : st.storage = mine.storage
  BY <1>3
<1>5. why'[c] # "conflict" \/ d # c
  <2>1. CASE d = c
    <3>1. why[c] # "conflict" /\ why \in [Commands -> {"none", "config", "source", "logger",
                                      "sink", "path", "backend", "channels", "stream", "conflict"}]
      BY <2>1 DEF StreamInv, AcceptedInv
    <3>2. why' = why \/ why' = [why EXCEPT ![c] = "stream"]
      BY <1>4 DEF Configure, GoTo, Exit
    <3> QED
      BY <3>1, <3>2
  <2> QED
    BY <2>1
<1>6. streams' = streams \/ streams' = (streams \ same) \cup {mine}
  BY DEF Configure
<1>7. pc'[c] = "source" => streams' = (streams \ same) \cup {mine}
  <2>1. pc \in [Commands -> Loaded \cup {"off", "exited"}]
    BY DEF AcceptedInv
  <2> QED
    BY <2>1 DEF Configure, Exit
<1> QED
  BY <1>2, <1>5, <1>6, <1>7

\* The other actions leave the streams alone, and only OpenSource goes past a
\* set-up.
LEMMA OthersKeep ==
    ASSUME AcceptedInv, StreamInv, NEW c \in Commands,
           Load(c) \/ OpenStores(c) \/ Connect(c) \/ Inspect(c) \/ OpenSource(c)
    PROVE  /\ streams' = streams
           /\ pc'[c] \in {"stores", "connected", "missing", "present", "source"} => c \in Publishers
           /\ pc'[c] \in {"connected", "missing", "present"} => Streaming(c)
           /\ c \in Publishers /\ pc'[c] \in {"source", "up"} /\ Streaming(c) => PastStream(c)
           /\ why'[c] = "conflict" => why[c] = "conflict"
<1>0. /\ pc \in [Commands -> Loaded \cup {"off", "exited"}]
      /\ why \in [Commands -> {"none", "config", "source", "logger", "sink", "path", "backend",
                               "channels", "stream", "conflict"}]
  BY DEF AcceptedInv
<1>1. CASE Load(c)
  BY <1>0, <1>1 DEF Load, GoTo, Exit
<1>2. CASE OpenStores(c)
  <2>1. LoggerError(c) \in {"none", "sink"} /\ StoresError(c) \in {"none", "backend"}
    BY <1>2, AcceptedIsUsable DEF OpenStores, AcceptedInv, Loaded
  <2> QED
    BY <1>0, <1>2, <2>1 DEF OpenStores, GoTo, Exit
<1>3. CASE Connect(c)
  <2>1. /\ pc[c] = "stores" /\ c \in Publishers /\ streams' = streams
        /\ \/ pc' = [pc EXCEPT ![c] = "source"] /\ ~Streaming(c)
           \/ pc' = [pc EXCEPT ![c] = "connected"] /\ Streaming(c)
           \/ pc' = [pc EXCEPT ![c] = "exited"]
        /\ why' = why \/ why' = [why EXCEPT ![c] = "stream"]
    <3>1. pc[c] = "stores" /\ c \in Publishers /\ streams' = streams
      BY <1>3 DEF Connect, StreamInv
    <3>2. CASE ~Streaming(c)
      BY <1>3, <3>1, <3>2 DEF Connect, GoTo, Streaming
    <3>3. CASE Streaming(c) /\ nats
      BY <1>3, <3>1, <3>3 DEF Connect, GoTo, Streaming
    <3>4. CASE Streaming(c) /\ ~nats
      BY <1>3, <3>1, <3>4 DEF Connect, Exit, Streaming
    <3> QED
      BY <3>1, <3>2, <3>3, <3>4
  <2> QED
    BY <1>0, <2>1
<1>4. CASE Inspect(c)
  BY <1>0, <1>4 DEF Inspect, GoTo, Exit, StreamInv
<1>5. CASE OpenSource(c)
  <2>1. /\ pc[c] = "source" /\ c \in Publishers /\ streams' = streams
        /\ pc' = [pc EXCEPT ![c] = "up"] \/ pc' = [pc EXCEPT ![c] = "exited"]
        /\ why' = why \/ why' = [why EXCEPT ![c] = "source"]
    BY <1>5 DEF OpenSource, GoTo, Exit, StreamInv
  <2> QED
    BY <1>0, <2>1 DEF PastStream, Streaming
<1> QED
  BY <1>1, <1>2, <1>3, <1>4, <1>5

\* Every step keeps StreamInv.
LEMMA StreamStep == AcceptedInv /\ StreamInv /\ [Next]_vars => StreamInv'
<1> SUFFICES ASSUME AcceptedInv, StreamInv, [Next]_vars PROVE StreamInv'
  OBVIOUS
<1>1. given' = given
  BY StepOf DEF Next, Outage, vars
<1>2. \A c \in Commands : /\ Accepts(Config(c))' <=> Accepts(Config(c))
                          /\ Streaming(c)' <=> Streaming(c)
                          /\ Stream(c)' = Stream(c)
  <2> SUFFICES ASSUME NEW c \in Commands
               PROVE  /\ Accepts(Config(c))' <=> Accepts(Config(c))
                      /\ Streaming(c)' <=> Streaming(c)
                      /\ Stream(c)' = Stream(c)
    OBVIOUS
  <2>1. Config(c)' = Config(c) /\ Stream(c)' = Stream(c)
    BY <1>1, ConfigStays
  <2>2. Accepts(Config(c))' <=> Accepts(Config(c))
    BY <2>1 DEF Accepts, Unique, StoreAccepts, StreamAccepts
  <2> QED
    BY <2>1, <2>2 DEF Streaming
<1>3. \A d \in Commands : (AgreeWith(d)' <=> AgreeWith(d)) /\ (PastStream(d)' <=>
            d \in Publishers /\ pc'[d] \in {"source", "up"} /\ Streaming(d))
  <2> SUFFICES ASSUME NEW d \in Commands
               PROVE  /\ AgreeWith(d)' <=> AgreeWith(d)
                      /\ PastStream(d)' <=> d \in Publishers /\ pc'[d] \in {"source", "up"} /\ Streaming(d)
    OBVIOUS
  <2>1. PastStream(d)' <=> d \in Publishers /\ pc'[d] \in {"source", "up"} /\ Streaming(d)'
    BY DEF PastStream, Streaming, Publishers
  <2>2. AgreeWith(d)' <=> AgreeWith(d)
    BY <1>1, <1>2, ScenarioAssumption DEF AgreeWith, AcceptedInv
  <2> QED
    BY <1>2, <2>1, <2>2
<1>4. CASE Outage \/ UNCHANGED vars
  <2>1. UNCHANGED <<pc, why, streams>>
    BY <1>4 DEF Outage, vars
  <2> QED
    BY <1>1, <1>2, <1>3, <2>1 DEF StreamInv, PastStream, Streaming
<1>5. ASSUME NEW c \in Commands,
             Load(c) \/ OpenStores(c) \/ Connect(c) \/ Inspect(c) \/ Configure(c) \/ OpenSource(c)
      PROVE  StreamInv'
  <2>1. /\ \A d \in Commands : d # c => pc'[d] = pc[d] /\ why'[d] = why[d]
    BY <1>5, StepOf DEF AcceptedInv
  <2>2. CASE ~Configure(c)
    <3>1. /\ streams' = streams
          /\ pc'[c] \in {"stores", "connected", "missing", "present", "source"} => c \in Publishers
          /\ pc'[c] \in {"connected", "missing", "present"} => Streaming(c)
          /\ c \in Publishers /\ pc'[c] \in {"source", "up"} /\ Streaming(c) => PastStream(c)
          /\ why'[c] = "conflict" => why[c] = "conflict"
      BY <1>5, <2>2, OthersKeep
    <3> QED
      BY <1>1, <1>2, <1>3, <2>1, <3>1 DEF StreamInv, PastStream, Streaming
  <2>3. CASE Configure(c)
    <3>1. /\ c \in given.started \cap Publishers /\ Accepts(Config(c)) /\ Streaming(c)
          /\ streams' \subseteq streams \cup {Stream(c)}
          /\ pc'[c] \in {"source", "exited"}
      BY <2>3, StepOf DEF Configure, GoTo, Exit, AcceptedInv, StreamInv, Loaded, LoadFails
    <3>2. \A st \in streams' :
             \E d \in given.started \cap Publishers :
                 d \in Commands /\ Accepts(Config(d)) /\ Streaming(d) /\ st = Stream(d)
      BY <3>1 DEF StreamInv
    <3>3. \A d \in Commands \cap Publishers : AgreeWith(d) =>
             why'[d] # "conflict"
             /\ (pc'[d] \in {"source", "up"} /\ Streaming(d) => Stream(d) \in streams')
      <4> SUFFICES ASSUME NEW d \in Commands \cap Publishers, AgreeWith(d)
                   PROVE  /\ why'[d] # "conflict"
                          /\ pc'[d] \in {"source", "up"} /\ Streaming(d) => Stream(d) \in streams'
        OBVIOUS
      <4>1. CASE d = c
        BY <2>3, <3>1, <4>1, ConfigureKeeps
      <4>2. CASE d # c
        BY <2>1, <2>3, <4>2, ConfigureKeeps DEF StreamInv, PastStream, Streaming
      <4> QED
        BY <4>1, <4>2
    <3> QED
      BY <1>1, <1>2, <1>3, <2>1, <3>1, <3>2, <3>3 DEF StreamInv
  <2> QED
    BY <2>2, <2>3
<1> QED
  BY <1>4, <1>5 DEF Next

\* Publishers that agree on the stream never fail each other nor take each
\* other's subject from it, for any number of them, any order of their steps
\* and any outages of the server.
THEOREM PublishersAreHeardCorrect == Spec => []PublishersAreHeard
<1>1. Init => StreamInv
  BY DEF Init, StreamInv, PastStream
<1>2. StreamInv => PublishersAreHeard
  BY DEF StreamInv, PublishersAreHeard, AgreeWith, Streaming, PastStream
<1> QED
  BY <1>1, <1>2, AcceptedInit, AcceptedStep, StreamStep, PTL DEF Spec
=============================================================================
