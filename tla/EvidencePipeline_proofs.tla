----------------------- MODULE EvidencePipeline_proofs -----------------------
(***************************************************************************)
(* Proofs about EvidencePipeline, for any source, input files and number   *)
(* of runs: what each derived file holds of the raw store, whatever        *)
(* commands ran, failed and overlapped before.                             *)
(***************************************************************************)
EXTENDS EvidencePipeline, TLAPS, SequenceTheorems, FiniteSetTheorems, WellFoundedInduction

-----------------------------------------------------------------------------
(* The inductive invariant *)

\* Where the commands are with respect to the files: ingestd publishes the
\* last raw record; between two actions of normalizerd the unified file ends
\* with the record before next, or with next once it is written.
PositionInv ==
    /\ ingest.pc = "publish" => ingest.next <= Len(input.files) /\ raw # <<>>
    /\ norm.pc = "replay" => unified = <<>>
    /\ norm.pc = "record" => Len(unified) = norm.next - 1
    /\ norm.pc \in {"project", "announce"} =>
        Len(unified) = norm.next /\ norm.next <= norm.limit

\* What indexerd read ahead are the records before its offset, and what it has
\* appended are those before that.
ScanInv ==
    /\ idx.pc = "scan" =>
        /\ Len(docs) - base = idx.offset - Len(idx.buffer)
        /\ \A i \in 1..Len(idx.buffer) : idx.buffer[i] = raw[Len(docs) - base + i]
    /\ idx.pc # "scan" => Len(docs) - base <= idx.offset

ReplayInv == TypeOK /\ PositionInv /\ UnifiedIsReplay /\ IndexRunIsReplay /\ ScanInv

-----------------------------------------------------------------------------
(* Facts used by many steps *)

\* The input files are a sequence of payloads.
LEMMA FilesType == ASSUME TypeOK PROVE input.files \in Seq(Range(input.files)) /\ Len(input.files) \in Nat \ {0}
<1>1. InputShape(input)
  BY PipelineAssumption DEF TypeOK
<1>2. input.files \in Seq(Range(input.files)) /\ input.files # <<>>
  BY <1>1 DEF InputShape
<1> QED
  BY <1>2, EmptySeq, LenProperties

\* Time only adds to the records that a file may hold.
LEMMA RecordsGrow ==
    ASSUME TypeOK, NEW d \in Nat, clock' = clock + d, UNCHANGED input
    PROVE  Records \subseteq Records'
<1> SUFFICES ASSUME NEW r \in Records PROVE r \in Records'
  OBVIOUS
<1>1. PICK i \in 1..Len(input.files), t \in 0..clock : r = Record(input.files[i], t)
  BY DEF Records
<1>2. clock \in Nat
  BY DEF TypeOK
<1>3. t \in 0..clock'
  BY <1>1, <1>2
<1> QED
  BY <1>1, <1>3 DEF Records, Record, EventID

\* Without a step of the clock they stay as they are.
LEMMA RecordsStay == ASSUME UNCHANGED <<input, clock>> PROVE Records' = Records
BY DEF Records, Record, EventID

\* The start of a command is counted up to the bound.
LEMMA StartType ==
    ASSUME TypeOK, NEW c \in {"ingest", "normalize", "index"}, Start(c)
    PROVE  runs' \in [{"ingest", "normalize", "index"} -> 0..MaxRuns[input.kind]]
<1>1. MaxRuns[input.kind] \in Nat
  BY PipelineAssumption DEF TypeOK, InputShape
<1>2. runs[c] \in 0..MaxRuns[input.kind] /\ runs[c] < MaxRuns[input.kind]
  BY DEF TypeOK, Start
<1>3. runs' = [runs EXCEPT ![c] = runs[c] + 1] /\ runs[c] + 1 \in 0..MaxRuns[input.kind]
  BY <1>1, <1>2 DEF Start
<1> QED
  BY <1>3 DEF TypeOK

\* ReplayInv holds initially.
LEMMA ReplayInit == Init => ReplayInv
<1> SUFFICES ASSUME Init PROVE ReplayInv
  OBVIOUS
<1>1. input \in Inputs /\ Len(input.files) \in Nat
  BY PipelineAssumption DEF Init, InputShape
<1>2. <<>> \in Seq(Records) /\ Len(<<>>) = 0
  OBVIOUS
<1>3. /\ raw \in Seq(Records) /\ unified \in Seq(Records)
      /\ projection \in Seq(Records) /\ docs \in Seq(Records)
  BY <1>2 DEF Init
<1>4. /\ published \subseteq Records /\ announced \subseteq Records
      /\ clock \in Nat
      /\ Len(raw) = 0 /\ Len(unified) = 0 /\ Len(docs) = 0 /\ base = 0
  BY <1>2 DEF Init
<1>5. ingest \in [pc : Idle \cup {"file", "publish"}, next : 1..Len(input.files)+1]
  BY <1>1 DEF Init, Idle
<1>6. norm \in [pc : Idle \cup {"replay", "record", "project", "announce"},
                next : 1..norm.limit+1, limit : 0..Len(raw)]
  BY <1>4 DEF Init, Idle
<1>7. idx \in [pc : Idle \cup {"scan"}, offset : 0..Len(raw), buffer : Seq(Records)]
  BY <1>2, <1>4 DEF Init, Idle
<1>8. disturbed \in BOOLEAN
  BY DEF Init
<1>9. runs \in [{"ingest", "normalize", "index"} -> 0..MaxRuns[input.kind]]
  BY <1>1, PipelineAssumption DEF Init, InputShape
<1>10. TypeOK
  BY <1>1, <1>3, <1>4, <1>5, <1>6, <1>7, <1>8, <1>9 DEF TypeOK
<1>11. PositionInv
  BY DEF Init, PositionInv
<1>12. ScanInv
  BY <1>4 DEF Init, ScanInv
<1>13. UnifiedIsReplay /\ IndexRunIsReplay
  BY <1>4 DEF UnifiedIsReplay, IndexRunIsReplay
<1> QED
  BY <1>10, <1>11, <1>12, <1>13 DEF ReplayInv

-----------------------------------------------------------------------------
(* Steps of ingestd *)

\* Appending to the raw store disturbs no reader of its beginning.
LEMMA RawGrows ==
    ASSUME ReplayInv,
           UNCHANGED <<input, unified, docs, norm, idx, base>>,
           Len(raw') \in Nat, Len(raw') >= Len(raw),
           \A i \in 1..Len(raw) : raw'[i] = raw[i]
    PROVE  UnifiedIsReplay' /\ IndexRunIsReplay' /\ ScanInv'
<1>1. Len(raw) \in Nat /\ Len(unified) \in Nat /\ Len(docs) \in Nat /\ base \in 0..Len(docs)
  BY DEF ReplayInv, TypeOK
<1>2. idx.offset \in 0..Len(raw) /\ Len(idx.buffer) \in Nat
  BY DEF ReplayInv, TypeOK
<1>3. UnifiedIsReplay'
  BY <1>1 DEF ReplayInv, UnifiedIsReplay, Normalizes
<1>4. IndexRunIsReplay'
  BY <1>1 DEF ReplayInv, IndexRunIsReplay
<1>5. ScanInv'
  <2>1. CASE idx.pc = "scan"
    <3>1. Len(docs) - base = idx.offset - Len(idx.buffer)
      BY <2>1 DEF ReplayInv, ScanInv
    <3>2. ASSUME NEW i \in 1..Len(idx.buffer)
          PROVE  idx.buffer[i] = raw'[Len(docs) - base + i]
      <4>1. Len(docs) - base + i \in 1..Len(raw)
        BY <1>1, <1>2, <3>1
      <4>2. idx.buffer[i] = raw[Len(docs) - base + i]
        BY <2>1 DEF ReplayInv, ScanInv
      <4> QED
        BY <4>1, <4>2
    <3> QED
      BY <2>1, <3>1, <3>2 DEF ScanInv
  <2>2. CASE idx.pc # "scan"
    BY <2>2 DEF ReplayInv, ScanInv
  <2> QED
    BY <2>1, <2>2
<1> QED
  BY <1>3, <1>4, <1>5

\* ingestd adds to the raw store and leaves alone what is there.
LEMMA IngestAppends ==
    ASSUME TypeOK, Ingest
    PROVE  /\ Len(raw) \in Nat /\ Len(raw') \in Nat /\ Len(raw') >= Len(raw)
           /\ \A i \in 1..Len(raw) : raw'[i] = raw[i]
<1>1. CASE UNCHANGED raw
  BY <1>1 DEF TypeOK
<1>2. CASE \E r : raw' = Append(raw, r)
  <2>1. PICK r : raw' = Append(raw, r)
    BY <1>2
  <2> QED
    BY <2>1 DEF TypeOK
<1> QED
  BY <1>1, <1>2 DEF Ingest, StartIngest, IngestFile, PublishRaw, EndIngest

\* ingestd keeps ReplayInv.
LEMMA IngestStep == ReplayInv /\ Ingest => ReplayInv'
<1> SUFFICES ASSUME ReplayInv, Ingest PROVE ReplayInv'
  OBVIOUS
<1>1. TypeOK /\ PositionInv
  BY DEF ReplayInv
<1>2. UNCHANGED <<input, unified, projection, announced, docs, norm, idx, base, disturbed>>
  BY DEF Ingest, StartIngest, IngestFile, PublishRaw, EndIngest, IngestOnly
<1>3. Len(input.files) \in Nat \ {0}
  BY <1>1, FilesType
<1>4. ASSUME UNCHANGED <<clock, raw>>, published' \subseteq Records,
             ingest' \in [pc : Idle \cup {"file", "publish"}, next : 1..Len(input.files)+1],
             ingest'.pc # "publish",
             runs' \in [{"ingest", "normalize", "index"} -> 0..MaxRuns[input.kind]]
      PROVE  ReplayInv'
  <2>1. Records' = Records
    BY <1>2, <1>4, RecordsStay
  <2>2. TypeOK'
    BY <1>1, <1>2, <1>4, <2>1 DEF TypeOK
  <2>3. PositionInv'
    BY <1>1, <1>2, <1>4 DEF PositionInv
  <2>4. Len(raw) \in Nat
    BY <1>1 DEF TypeOK
  <2>5. UnifiedIsReplay' /\ IndexRunIsReplay' /\ ScanInv'
    BY <1>2, <1>4, <2>4, RawGrows
  <2> QED
    BY <2>2, <2>3, <2>5 DEF ReplayInv
<1>5. CASE StartIngest
  <2>1. runs' \in [{"ingest", "normalize", "index"} -> 0..MaxRuns[input.kind]]
    BY <1>1, <1>5, StartType DEF StartIngest
  <2>2. ingest' \in [pc : Idle \cup {"file", "publish"}, next : 1..Len(input.files)+1]
    BY <1>3, <1>5 DEF StartIngest
  <2> QED
    BY <1>1, <1>4, <1>5, <2>1, <2>2 DEF StartIngest, TypeOK
<1>6. CASE IngestFile
  <2>1. CASE ingest' = [ingest EXCEPT !.pc = "error"] /\ UNCHANGED <<clock, raw>>
    <3>1. ingest' \in [pc : Idle \cup {"file", "publish"}, next : 1..Len(input.files)+1]
      BY <1>1, <2>1 DEF TypeOK, Idle
    <3>2. ingest'.pc # "publish"
      BY <1>1, <2>1 DEF TypeOK
    <3> QED
      BY <1>1, <1>4, <1>6, <2>1, <3>1, <3>2 DEF IngestFile, TypeOK
  <2>2. CASE /\ \E d \in Ticks : clock' = clock + d
             /\ raw' = Append(raw, Record(input.files[ingest.next], clock'))
             /\ ingest' = [ingest EXCEPT !.pc = "publish"]
    <3>1. PICK d \in Nat : clock' = clock + d
      BY <2>2, PipelineAssumption
    <3>2. Records \subseteq Records' /\ clock' \in Nat
      BY <1>1, <1>2, <3>1, RecordsGrow DEF TypeOK
    <3>3. ingest.next \in 1..Len(input.files)
      BY <1>1, <1>6 DEF IngestFile, TypeOK
    <3>4. Record(input.files[ingest.next], clock') \in Records'
      <4>1. clock' \in 0..clock'
        BY <3>2
      <4> QED
        BY <1>2, <3>3, <4>1 DEF Records, Record, EventID
    <3>5. /\ raw \in Seq(Records') /\ unified \in Seq(Records')
          /\ projection \in Seq(Records') /\ docs \in Seq(Records')
          /\ idx.buffer \in Seq(Records')
      BY <1>1, <3>2, SeqMonotonic DEF TypeOK
    <3>6. raw' \in Seq(Records') /\ Len(raw') = Len(raw) + 1 /\ Len(raw) \in Nat
      BY <2>2, <3>4, <3>5
    <3>7. \A i \in 1..Len(raw) : raw'[i] = raw[i]
      BY <2>2, <3>5
    <3>8. raw' # <<>>
      BY <3>6
    <3>9. ingest' = [pc |-> "publish", next |-> ingest.next]
      BY <1>1, <2>2 DEF TypeOK
    <3>10. UNCHANGED <<published, runs>>
      BY <1>6 DEF IngestFile
    <3>11. norm' \in [pc : Idle \cup {"replay", "record", "project", "announce"},
                      next : 1..norm'.limit+1, limit : 0..Len(raw')]
      BY <1>1, <1>2, <3>6 DEF TypeOK
    <3>12. idx' \in [pc : Idle \cup {"scan"}, offset : 0..Len(raw'), buffer : Seq(Records')]
      BY <1>1, <1>2, <3>5, <3>6 DEF TypeOK
    <3>13. TypeOK'
      BY <1>1, <1>2, <1>3, <3>2, <3>3, <3>5, <3>6, <3>9, <3>10, <3>11, <3>12 DEF TypeOK
    <3>14. PositionInv'
      BY <1>1, <1>2, <3>3, <3>8, <3>9 DEF PositionInv
    <3>15. UnifiedIsReplay' /\ IndexRunIsReplay' /\ ScanInv'
      BY <1>2, <3>6, <3>7, RawGrows
    <3> QED
      BY <3>13, <3>14, <3>15 DEF ReplayInv
  <2> QED
    BY <1>6, <2>1, <2>2 DEF IngestFile
<1>7. CASE PublishRaw
  <2>1. published' \subseteq Records
    <3>1. raw # <<>> /\ Last(raw) \in Records
      BY <1>1, <1>7 DEF PublishRaw, PositionInv, TypeOK, Last
    <3> QED
      BY <1>1, <1>7, <3>1 DEF PublishRaw, TypeOK
  <2>2. ingest.next \in 1..Len(input.files)
    BY <1>1, <1>7 DEF PublishRaw, PositionInv, TypeOK
  <2>3. CASE ingest' = [pc |-> "file", next |-> ingest.next + 1]
    <3>1. ingest' \in [pc : Idle \cup {"file", "publish"}, next : 1..Len(input.files)+1]
      BY <1>3, <2>2, <2>3
    <3> QED
      BY <1>1, <1>4, <1>7, <2>1, <2>3, <3>1 DEF PublishRaw, TypeOK
  <2>4. CASE ingest' = [ingest EXCEPT !.pc = "error"]
    <3>1. ingest' \in [pc : Idle \cup {"file", "publish"}, next : 1..Len(input.files)+1]
      BY <1>1, <2>4 DEF TypeOK, Idle
    <3>2. ingest'.pc # "publish"
      BY <1>1, <2>4 DEF TypeOK
    <3> QED
      BY <1>1, <1>4, <1>7, <2>1, <3>1, <3>2 DEF PublishRaw, TypeOK
  <2> QED
    BY <1>7, <2>3, <2>4 DEF PublishRaw
<1>8. CASE EndIngest
  <2>1. ingest' \in [pc : Idle \cup {"file", "publish"}, next : 1..Len(input.files)+1]
    BY <1>1, <1>8 DEF EndIngest, TypeOK, Idle
  <2>2. ingest'.pc # "publish"
    BY <1>1, <1>8 DEF EndIngest, TypeOK
  <2> QED
    BY <1>1, <1>4, <1>8, <2>1, <2>2 DEF EndIngest, TypeOK
<1> QED
  BY <1>5, <1>6, <1>7, <1>8 DEF Ingest

-----------------------------------------------------------------------------
(* Steps of normalizerd *)

\* The values norm may have.
NormType ==
    [pc : Idle \cup {"replay", "record", "project", "announce"},
     next : 1..norm.limit+1, limit : 0..Len(raw)]

\* A run of normalizerd that ends with an error.
LEMMA NormalizeFailsType ==
    ASSUME TypeOK, NormalizeFails, UNCHANGED raw
    PROVE  /\ norm' \in NormType'
           /\ norm' = [pc |-> "error", next |-> norm.next, limit |-> norm.limit]
<1>1. norm' = [pc |-> "error", next |-> norm.next, limit |-> norm.limit]
  BY DEF NormalizeFails, TypeOK
<1> QED
  BY <1>1 DEF TypeOK, NormType, Idle

\* normalizerd keeps ReplayInv.
LEMMA NormalizeStep == ReplayInv /\ Normalize => ReplayInv'
<1> SUFFICES ASSUME ReplayInv, Normalize PROVE ReplayInv'
  OBVIOUS
<1>1. TypeOK /\ PositionInv /\ UnifiedIsReplay
  BY DEF ReplayInv
<1>2. UNCHANGED <<input, clock, raw, published, docs, ingest, idx, base>>
  BY DEF Normalize, StartNormalize, Replay, WriteUnified, Project, Announce, EndNormalize,
         NormalizeOnly
<1>3. Records' = Records
  BY <1>2, RecordsStay
<1>4. /\ Len(raw) \in Nat /\ Len(unified) \in Nat
      /\ norm.limit \in 0..Len(raw) /\ norm.next \in 1..norm.limit+1
  BY <1>1 DEF TypeOK
<1>5. ASSUME unified' \in Seq(Records), projection' \in Seq(Records), announced' \subseteq Records,
             norm' \in NormType', disturbed' \in BOOLEAN,
             runs' \in [{"ingest", "normalize", "index"} -> 0..MaxRuns[input.kind]],
             PositionInv', UnifiedIsReplay'
      PROVE  ReplayInv'
  <2>1. TypeOK'
    BY <1>1, <1>2, <1>3, <1>5 DEF TypeOK, NormType
  <2>2. IndexRunIsReplay' /\ ScanInv'
    BY <1>2 DEF ReplayInv, IndexRunIsReplay, ScanInv
  <2> QED
    BY <1>5, <2>1, <2>2 DEF ReplayInv
<1>6. ASSUME UNCHANGED unified, projection' \in Seq(Records), announced' \subseteq Records,
             norm' \in NormType', norm'.pc \in Idle, disturbed' \in BOOLEAN, UNCHANGED runs
      PROVE  ReplayInv'
  <2>1. PositionInv'
    BY <1>1, <1>2, <1>6 DEF PositionInv, Idle
  <2>2. UnifiedIsReplay'
    BY <1>1, <1>2, <1>6 DEF UnifiedIsReplay, Normalizes
  <2> QED
    BY <1>1, <1>5, <1>6, <2>1, <2>2 DEF TypeOK
<1>7. norm.next <= norm.limit => raw[norm.next] \in Records
  BY <1>1, <1>4 DEF TypeOK
<1>8. CASE StartNormalize
  <2>1. unified' = <<>> /\ Len(unified') = 0 /\ unified' \in Seq(Records)
    BY <1>8 DEF StartNormalize
  <2>2. norm' = [pc |-> "replay", next |-> norm.next, limit |-> norm.limit]
    BY <1>1, <1>8 DEF StartNormalize, TypeOK
  <2>3. norm' \in NormType'
    BY <1>2, <1>4, <2>2 DEF NormType
  <2>4. runs' \in [{"ingest", "normalize", "index"} -> 0..MaxRuns[input.kind]]
    BY <1>1, <1>8, StartType DEF StartNormalize
  <2>5. PositionInv'
    BY <1>1, <1>2, <2>1, <2>2 DEF PositionInv
  <2>6. UnifiedIsReplay'
    BY <1>2, <1>4, <2>1 DEF UnifiedIsReplay
  <2> QED
    BY <1>1, <1>5, <1>8, <2>1, <2>3, <2>4, <2>5, <2>6 DEF StartNormalize, TypeOK
<1>9. CASE Replay
  <2>1. CASE raw # <<>> /\ norm' = [pc |-> "record", next |-> 1, limit |-> Len(raw)]
    <3>1. norm' \in NormType'
      BY <1>2, <1>4, <2>1 DEF NormType
    <3>2. unified' = <<>> /\ Len(unified') = 0
      BY <1>1, <1>9 DEF Replay, PositionInv
    <3>3. PositionInv'
      BY <1>1, <1>2, <2>1, <3>2 DEF PositionInv
    <3>4. UnifiedIsReplay'
      BY <1>2, <1>4, <3>2 DEF UnifiedIsReplay
    <3> QED
      BY <1>1, <1>5, <1>9, <3>1, <3>3, <3>4 DEF Replay, TypeOK
  <2>2. CASE NormalizeFails
    BY <1>1, <1>2, <1>6, <1>9, <2>2, NormalizeFailsType DEF Replay, TypeOK, Idle
  <2> QED
    BY <1>9, <2>1, <2>2 DEF Replay
<1>10. CASE WriteUnified
  <2>1. CASE /\ Normalizes(raw[norm.next])
             /\ unified' = Append(unified, raw[norm.next])
             /\ norm' = [norm EXCEPT !.pc = "project"]
    <3>1. norm' = [pc |-> "project", next |-> norm.next, limit |-> norm.limit]
      BY <1>1, <2>1 DEF TypeOK
    <3>2. norm' \in NormType'
      BY <1>2, <1>4, <3>1 DEF NormType
    <3>3. norm.next <= norm.limit /\ Len(unified) = norm.next - 1
      BY <1>1, <1>10 DEF WriteUnified, PositionInv
    <3>4. unified' \in Seq(Records) /\ Len(unified') = norm.next
      <4>1. raw[norm.next] \in Records /\ unified \in Seq(Records)
        BY <1>1, <1>7, <3>3 DEF TypeOK
      <4>2. unified' \in Seq(Records) /\ Len(unified') = Len(unified) + 1
        BY <2>1, <4>1, AppendProperties
      <4> QED
        BY <1>4, <3>3, <4>2
    <3>5. PositionInv'
      BY <1>1, <1>2, <3>1, <3>3, <3>4 DEF PositionInv
    <3>6. ASSUME NEW i \in 1..Len(unified') PROVE unified'[i] = raw[i] /\ Normalizes(raw[i])
      <4>1. CASE i \in 1..Len(unified)
        BY <1>1, <2>1, <4>1 DEF TypeOK, UnifiedIsReplay
      <4>2. CASE i = norm.next
        <5>1. unified'[i] = raw[norm.next]
          BY <1>1, <2>1, <3>3, <4>2 DEF TypeOK
        <5> QED
          BY <2>1, <4>2, <5>1
      <4> QED
        BY <1>4, <3>3, <3>4, <4>1, <4>2
    <3>7. UnifiedIsReplay'
      BY <1>2, <1>4, <3>3, <3>4, <3>6 DEF UnifiedIsReplay, Normalizes
    <3> QED
      BY <1>1, <1>5, <1>10, <3>2, <3>4, <3>5, <3>7 DEF WriteUnified, TypeOK
  <2>2. CASE NormalizeFails /\ UNCHANGED unified
    BY <1>1, <1>2, <1>6, <1>10, <2>2, NormalizeFailsType DEF WriteUnified, TypeOK, Idle
  <2> QED
    BY <1>10, <2>1, <2>2 DEF WriteUnified
<1>11. ASSUME UNCHANGED <<unified, disturbed, runs>>, norm.pc \in {"project", "announce"},
              projection' \in Seq(Records), announced' \subseteq Records,
              \/ norm' = [norm EXCEPT !.pc = "announce"]
              \/ norm' = [norm EXCEPT !.pc = "record", !.next = @ + 1]
       PROVE  ReplayInv'
  <2>1. Len(unified) = norm.next /\ norm.next <= norm.limit
    BY <1>1, <1>11 DEF PositionInv
  <2>2. \/ norm' = [pc |-> "announce", next |-> norm.next, limit |-> norm.limit]
        \/ norm' = [pc |-> "record", next |-> norm.next + 1, limit |-> norm.limit]
    BY <1>1, <1>11 DEF TypeOK
  <2>3. norm' \in NormType'
    BY <1>2, <1>4, <2>1, <2>2 DEF NormType
  <2>4. PositionInv'
    BY <1>1, <1>2, <1>4, <1>11, <2>1, <2>2 DEF PositionInv
  <2>5. UnifiedIsReplay'
    BY <1>1, <1>2, <1>11 DEF UnifiedIsReplay, Normalizes
  <2> QED
    BY <1>1, <1>5, <1>11, <2>3, <2>4, <2>5 DEF TypeOK
<1>12. CASE Project
  <2>1. norm.next <= norm.limit
    BY <1>1, <1>12 DEF Project, PositionInv
  <2>2. projection' \in Seq(Records)
    <3>1. raw[norm.next] \in Records /\ projection \in Seq(Records)
      BY <1>1, <1>7, <2>1 DEF TypeOK
    <3>2. Append(projection, raw[norm.next]) \in Seq(Records)
      BY <3>1, AppendProperties
    <3> QED
      BY <1>12, <3>1, <3>2 DEF Project
  <2>3. CASE norm' = [norm EXCEPT !.pc = "announce"]
    BY <1>1, <1>11, <1>12, <2>2, <2>3 DEF Project, TypeOK
  <2>4. CASE NormalizeFails
    BY <1>1, <1>2, <1>6, <1>12, <2>2, <2>4, NormalizeFailsType DEF Project, TypeOK, Idle
  <2> QED
    BY <1>12, <2>3, <2>4 DEF Project
<1>13. CASE Announce
  <2>1. norm.next <= norm.limit
    BY <1>1, <1>13 DEF Announce, PositionInv
  <2>2. announced' \subseteq Records
    BY <1>1, <1>7, <1>13, <2>1 DEF Announce, TypeOK
  <2>3. CASE norm' = [norm EXCEPT !.pc = "record", !.next = @ + 1]
    BY <1>1, <1>11, <1>13, <2>2, <2>3 DEF Announce, TypeOK
  <2>4. CASE NormalizeFails
    BY <1>1, <1>2, <1>6, <1>13, <2>2, <2>4, NormalizeFailsType DEF Announce, TypeOK, Idle
  <2> QED
    BY <1>13, <2>3, <2>4 DEF Announce
<1>14. CASE EndNormalize
  <2>1. norm' = [pc |-> "ok", next |-> norm.next, limit |-> norm.limit]
    BY <1>1, <1>14 DEF EndNormalize, TypeOK
  <2>2. norm' \in NormType' /\ norm'.pc \in Idle
    BY <1>2, <1>4, <2>1 DEF NormType, Idle
  <2> QED
    BY <1>1, <1>6, <1>14, <2>2 DEF EndNormalize, TypeOK
<1> QED
  BY <1>8, <1>9, <1>10, <1>12, <1>13, <1>14 DEF Normalize

-----------------------------------------------------------------------------
(* Steps of indexerd *)

\* indexerd keeps ReplayInv.
LEMMA IndexStep == ReplayInv /\ Index => ReplayInv'
<1> SUFFICES ASSUME ReplayInv, Index PROVE ReplayInv'
  OBVIOUS
<1>1. TypeOK /\ PositionInv /\ UnifiedIsReplay /\ IndexRunIsReplay /\ ScanInv
  BY DEF ReplayInv
<1>2. UNCHANGED <<input, clock, raw, published, unified, projection, announced, ingest, norm>>
  BY DEF Index, StartIndex, Scan, IndexLine, EndIndex, IndexOnly
<1>3. Records' = Records
  BY <1>2, RecordsStay
<1>4. /\ Len(raw) \in Nat /\ Len(unified) \in Nat /\ Len(docs) \in Nat
      /\ base \in 0..Len(docs) /\ Len(idx.buffer) \in Nat /\ idx.offset \in 0..Len(raw)
  BY <1>1 DEF TypeOK
<1>5. ASSUME docs' \in Seq(Records), base' \in 0..Len(docs'), disturbed' \in BOOLEAN,
             idx' \in [pc : Idle \cup {"scan"}, offset : 0..Len(raw), buffer : Seq(Records)],
             runs' \in [{"ingest", "normalize", "index"} -> 0..MaxRuns[input.kind]],
             IndexRunIsReplay', ScanInv'
      PROVE  ReplayInv'
  <2>1. TypeOK'
    BY <1>1, <1>2, <1>3, <1>5 DEF TypeOK
  <2>2. PositionInv'
    BY <1>1, <1>2 DEF PositionInv
  <2>3. UnifiedIsReplay'
    BY <1>1, <1>2 DEF UnifiedIsReplay, Normalizes
  <2> QED
    BY <1>5, <2>1, <2>2, <2>3 DEF ReplayInv
<1>6. CASE StartIndex
  <2>1. idx' = [pc |-> "scan", offset |-> 0, buffer |-> <<>>] /\ base' = Len(docs)
        /\ UNCHANGED docs
    BY <1>6 DEF StartIndex
  <2>2. idx' \in [pc : Idle \cup {"scan"}, offset : 0..Len(raw), buffer : Seq(Records)]
    BY <1>4, <2>1
  <2>3. Len(docs') - base' = 0 /\ Len(idx'.buffer) = 0
    BY <1>4, <2>1
  <2>4. ScanInv'
    BY <2>1, <2>3 DEF ScanInv
  <2>5. IndexRunIsReplay'
    BY <1>2, <1>4, <2>3 DEF IndexRunIsReplay
  <2>6. runs' \in [{"ingest", "normalize", "index"} -> 0..MaxRuns[input.kind]]
    BY <1>1, <1>6, StartType DEF StartIndex
  <2>7. disturbed' \in BOOLEAN
    BY <1>6 DEF StartIndex
  <2> QED
    BY <1>1, <1>4, <1>5, <2>1, <2>2, <2>4, <2>5, <2>6, <2>7 DEF TypeOK
<1>7. CASE Scan
  <2>1. PICK n \in idx.offset+1..Len(unified) :
             idx' = [idx EXCEPT !.offset = n, !.buffer = SubSeq(unified, idx.offset + 1, n)]
    BY <1>7 DEF Scan
  <2>2. idx' = [pc |-> "scan", offset |-> n, buffer |-> SubSeq(unified, idx.offset + 1, n)]
    BY <1>1, <1>7, <2>1 DEF Scan, TypeOK
  <2>3. n <= Len(raw) /\ n \in Nat /\ n > idx.offset
    BY <1>1, <1>4, <2>1 DEF UnifiedIsReplay
  <2>4. \A i \in idx.offset + 1..n : unified[i] \in Records
    <3>1. unified \in Seq(Records)
      BY <1>1 DEF TypeOK
    <3>2. \A i \in 1..Len(unified) : unified[i] \in Records
      BY <3>1
    <3> QED
      BY <1>4, <2>1, <3>2
  <2>5. /\ SubSeq(unified, idx.offset + 1, n) \in Seq(Records)
        /\ Len(SubSeq(unified, idx.offset + 1, n)) = n - idx.offset
        /\ \A i \in 1..n - idx.offset :
              SubSeq(unified, idx.offset + 1, n)[i] = unified[idx.offset + i]
    <3>1. idx.offset + 1 \in Int /\ n \in Int /\ idx.offset + 1 <= n
      BY <1>4, <2>3
    <3> DEFINE m == idx.offset + 1
               s == SubSeq(unified, m, n)
    <3>2. /\ s \in Seq(Records)
          /\ Len(s) = IF m <= n THEN n - m + 1 ELSE 0
          /\ \A i \in 1..n - m + 1 : s[i] = unified[m + i - 1]
      BY <2>4, <3>1, SubSeqProperties
    <3>3. n - m + 1 = n - idx.offset
      BY <1>4, <2>3
    <3>4. \A i \in 1..n - idx.offset : m + i - 1 = idx.offset + i
      BY <1>4, <2>3
    <3> QED
      BY <3>1, <3>2, <3>3, <3>4
  <2>6. Len(docs) - base = idx.offset
    <3>1. Len(idx.buffer) = 0
      BY <1>7 DEF Scan
    <3> QED
      BY <1>1, <1>4, <1>7, <3>1 DEF Scan, ScanInv
  <2>7. ScanInv'
    <3>1. Len(docs') - base' = n - (n - idx.offset) /\ UNCHANGED <<docs, base>>
      BY <1>4, <1>7, <2>3, <2>6 DEF Scan
    <3>2. ASSUME NEW i \in 1..n - idx.offset
          PROVE  SubSeq(unified, idx.offset + 1, n)[i] = raw[idx.offset + i]
      <4>1. idx.offset + i \in 1..Len(unified)
        BY <1>4, <2>1
      <4> QED
        BY <1>1, <2>5, <4>1 DEF UnifiedIsReplay
    <3> QED
      BY <1>2, <2>2, <2>5, <2>6, <3>1, <3>2 DEF ScanInv
  <2>8. IndexRunIsReplay'
    BY <1>1, <1>2, <1>7 DEF Scan, IndexRunIsReplay
  <2>9. idx' \in [pc : Idle \cup {"scan"}, offset : 0..Len(raw), buffer : Seq(Records)]
    BY <1>4, <2>2, <2>3, <2>5
  <2> QED
    BY <1>1, <1>5, <1>7, <2>7, <2>8, <2>9 DEF Scan, TypeOK
<1>8. CASE IndexLine
  <2>1. /\ idx.pc = "scan" /\ idx.buffer # <<>>
        /\ Len(docs) - base = idx.offset - Len(idx.buffer)
        /\ \A i \in 1..Len(idx.buffer) : idx.buffer[i] = raw[Len(docs) - base + i]
    BY <1>1, <1>8 DEF IndexLine, ScanInv
  <2>2. UNCHANGED <<base, disturbed, runs>>
    BY <1>8 DEF IndexLine
  <2>3. CASE docs' = Append(docs, Head(idx.buffer)) /\ idx' = [idx EXCEPT !.buffer = Tail(@)]
    <3>1. idx' = [pc |-> "scan", offset |-> idx.offset, buffer |-> Tail(idx.buffer)]
      BY <1>1, <2>1, <2>3 DEF TypeOK
    <3>2. /\ Len(idx.buffer) > 0 /\ Head(idx.buffer) = idx.buffer[1] /\ idx.buffer[1] \in Records
          /\ Tail(idx.buffer) \in Seq(Records) /\ Len(Tail(idx.buffer)) = Len(idx.buffer) - 1
          /\ \A i \in 1..Len(idx.buffer) - 1 : Tail(idx.buffer)[i] = idx.buffer[i + 1]
      BY <1>1, <2>1, HeadTailProperties DEF TypeOK
    <3>3. docs' \in Seq(Records) /\ Len(docs') = Len(docs) + 1
      BY <1>1, <2>3, <3>2 DEF TypeOK
    <3>4. Len(docs') - base' = (Len(docs) - base) + 1
      BY <1>4, <2>2, <3>3
    <3>5. ScanInv'
      <4>1. Len(docs') - base' = idx.offset - (Len(idx.buffer) - 1)
        BY <1>4, <2>1, <3>4
      <4>2. ASSUME NEW i \in 1..Len(idx.buffer) - 1
            PROVE  Tail(idx.buffer)[i] = raw[(Len(docs) - base) + 1 + i]
        <5>1. i + 1 \in 1..Len(idx.buffer) /\ (Len(docs) - base) + (i + 1) = (Len(docs) - base) + 1 + i
          BY <1>4
        <5> QED
          BY <2>1, <3>2, <5>1
      <4> QED
        BY <1>2, <3>1, <3>2, <3>4, <4>1, <4>2 DEF ScanInv
    <3>6. IndexRunIsReplay'
      <4>1. (Len(docs) - base) + 1 <= Len(raw)
        BY <1>4, <2>1, <3>2
      <4>2. ASSUME NEW i \in 1..(Len(docs) - base) + 1 PROVE docs'[base + i] = raw[i]
        <5>1. CASE i \in 1..Len(docs) - base
          <6>1. base + i \in 1..Len(docs)
            BY <1>4, <5>1
          <6>2. docs'[base + i] = docs[base + i]
            BY <1>1, <2>3, <6>1 DEF TypeOK
          <6> QED
            BY <1>1, <5>1, <6>2 DEF IndexRunIsReplay
        <5>2. CASE i = (Len(docs) - base) + 1
          <6>1. base + i = Len(docs) + 1
            BY <1>4, <5>2
          <6>2. docs'[base + i] = idx.buffer[1]
            BY <1>1, <2>3, <3>2, <6>1 DEF TypeOK
          <6>3. idx.buffer[1] = raw[i]
            BY <1>4, <2>1, <3>2, <5>2
          <6> QED
            BY <6>2, <6>3
        <5> QED
          BY <1>4, <5>1, <5>2
      <4> QED
        BY <1>2, <2>2, <3>4, <4>1, <4>2 DEF IndexRunIsReplay
    <3>7. idx' \in [pc : Idle \cup {"scan"}, offset : 0..Len(raw), buffer : Seq(Records)]
      BY <1>4, <3>1, <3>2
    <3>8. base' \in 0..Len(docs')
      BY <1>4, <2>2, <3>3
    <3> QED
      BY <1>1, <1>5, <2>2, <3>3, <3>5, <3>6, <3>7, <3>8 DEF TypeOK
  <2>4. CASE idx' = [idx EXCEPT !.pc = "error", !.buffer = <<>>] /\ UNCHANGED docs
    <3>1. idx' = [pc |-> "error", offset |-> idx.offset, buffer |-> <<>>]
      BY <1>1, <2>4 DEF TypeOK
    <3>2. <<>> \in Seq(Records)
      OBVIOUS
    <3>3. idx' \in [pc : Idle \cup {"scan"}, offset : 0..Len(raw), buffer : Seq(Records)]
      BY <1>4, <3>1, <3>2 DEF Idle
    <3>4. ScanInv'
      BY <1>4, <2>1, <2>2, <2>4, <3>1 DEF ScanInv
    <3>5. IndexRunIsReplay'
      BY <1>1, <1>2, <2>2, <2>4 DEF IndexRunIsReplay
    <3> QED
      BY <1>1, <1>5, <2>2, <2>4, <3>3, <3>4, <3>5 DEF TypeOK
  <2> QED
    BY <1>8, <2>3, <2>4 DEF IndexLine
<1>9. CASE EndIndex
  <2>1. UNCHANGED <<docs, base, disturbed, runs>>
    BY <1>9 DEF EndIndex
  <2>2. idx.pc = "scan" /\ Len(idx.buffer) = 0
    BY <1>9 DEF EndIndex
  <2>3. \E s \in {"ok", "error"} : idx' = [pc |-> s, offset |-> idx.offset, buffer |-> idx.buffer]
    BY <1>1, <1>9 DEF EndIndex, TypeOK
  <2>4. idx' \in [pc : Idle \cup {"scan"}, offset : 0..Len(raw), buffer : Seq(Records)]
    BY <1>1, <2>3 DEF TypeOK, Idle
  <2>5. ScanInv'
    BY <1>1, <1>4, <2>1, <2>2, <2>3 DEF ScanInv
  <2>6. IndexRunIsReplay'
    BY <1>1, <1>2, <2>1 DEF IndexRunIsReplay
  <2> QED
    BY <1>1, <1>5, <2>1, <2>4, <2>5, <2>6 DEF TypeOK
<1> QED
  BY <1>6, <1>7, <1>8, <1>9 DEF Index

-----------------------------------------------------------------------------
(* What the derived files hold *)

\* Every step keeps ReplayInv.
LEMMA ReplayStep == ReplayInv /\ [Next]_vars => ReplayInv'
<1> SUFFICES ASSUME ReplayInv, UNCHANGED vars PROVE ReplayInv'
  BY IngestStep, NormalizeStep, IndexStep DEF Next
<1>1. Records' = Records
  BY RecordsStay DEF vars
<1>2. TypeOK'
  BY <1>1 DEF vars, ReplayInv, TypeOK
<1>3. PositionInv' /\ ScanInv' /\ IndexRunIsReplay'
  BY DEF vars, ReplayInv, PositionInv, ScanInv, IndexRunIsReplay
<1>4. UnifiedIsReplay'
  BY DEF vars, ReplayInv, UnifiedIsReplay, Normalizes
<1> QED
  BY <1>2, <1>3, <1>4 DEF ReplayInv

\* The pipeline keeps its types for any files, runs and failures.
THEOREM TypeCorrect == Spec => []TypeOK
<1>1. ReplayInv => TypeOK
  BY DEF ReplayInv
<1> QED
  BY <1>1, ReplayInit, ReplayStep, PTL DEF Spec

\* The unified file is a prefix of the replayed raw store, whatever runs of
\* the three commands were cut short, repeated or overlapped.
THEOREM UnifiedIsReplayCorrect == Spec => []UnifiedIsReplay
<1>1. ReplayInv => UnifiedIsReplay
  BY DEF ReplayInv
<1> QED
  BY <1>1, ReplayInit, ReplayStep, PTL DEF Spec

\* What a run of indexerd appends is a prefix of the replayed raw store, also
\* when the file it reads is truncated and written again.
THEOREM IndexRunIsReplayCorrect == Spec => []IndexRunIsReplay
<1>1. ReplayInv => IndexRunIsReplay
  BY DEF ReplayInv
<1> QED
  BY <1>1, ReplayInit, ReplayStep, PTL DEF Spec

-----------------------------------------------------------------------------
(* Announcements *)

\* An append to a store adds to what is stored.
LEMMA StoredAppend ==
    ASSUME NEW S, NEW lines \in Seq(S), NEW e \in S
    PROVE  Stored(Append(lines, e)) = Stored(lines) \cup {e}
<1> DEFINE more == Append(lines, e)
<1>1. /\ Len(more) = Len(lines) + 1 /\ Len(lines) \in Nat
      /\ \A i \in 1..Len(lines) : more[i] = lines[i]
      /\ more[Len(lines) + 1] = e
  BY AppendProperties
<1> HIDE DEF more
<1>2. Stored(more) \subseteq Stored(lines) \cup {e}
  <2> SUFFICES ASSUME NEW i \in 1..Len(more) PROVE more[i] \in Stored(lines) \cup {e}
    BY DEF Stored
  <2>1. CASE i \in 1..Len(lines)
    BY <1>1, <2>1 DEF Stored
  <2>2. CASE i = Len(lines) + 1
    BY <1>1, <2>2
  <2> QED
    BY <1>1, <2>1, <2>2
<1>3. Stored(lines) \cup {e} \subseteq Stored(more)
  BY <1>1 DEF Stored
<1> QED
  BY <1>2, <1>3 DEF more

\* The event that normalizerd announces is the one it projected last.
AnnounceInv ==
    /\ AnnouncedIsStored
    /\ norm.pc = "announce" => raw[norm.next] \in Stored(projection)

\* Every step keeps AnnounceInv.
LEMMA AnnounceStep == ReplayInv /\ AnnounceInv /\ [Next]_vars => AnnounceInv'
<1> SUFFICES ASSUME ReplayInv, AnnounceInv, [Next]_vars PROVE AnnounceInv'
  OBVIOUS
<1>1. TypeOK /\ PositionInv /\ AnnouncedIsStored
  BY DEF ReplayInv, AnnounceInv
<1>2. /\ Len(raw) \in Nat /\ norm.next \in Nat /\ norm.next >= 1
      /\ norm.pc \in {"project", "announce"} => norm.next \in 1..Len(raw)
  BY <1>1 DEF TypeOK, PositionInv
<1>3. CASE UNCHANGED <<raw, published, norm, projection, announced>>
  BY <1>1, <1>3 DEF AnnounceInv, AnnouncedIsStored, Stored
<1>4. CASE IngestFile
  <2>1. UNCHANGED <<published, norm, projection, announced>>
    BY <1>4 DEF IngestFile, IngestOnly
  <2>2. CASE UNCHANGED raw
    BY <1>3, <2>1, <2>2
  <2>3. CASE \E r : raw' = Append(raw, r)
    <3>1. PICK r : raw' = Append(raw, r)
      BY <2>3
    <3>2. /\ Len(raw') = Len(raw) + 1
          /\ \A i \in 1..Len(raw) : raw'[i] = raw[i]
      BY <1>1, <3>1 DEF TypeOK
    <3>3. Stored(raw) \subseteq Stored(raw)'
      BY <1>2, <3>2 DEF Stored
    <3>4. Stored(projection)' = Stored(projection)
      BY <2>1 DEF Stored
    <3>5. norm.pc = "announce" => raw'[norm.next] = raw[norm.next]
      BY <1>2, <3>2
    <3> QED
      BY <1>1, <2>1, <3>3, <3>4, <3>5 DEF AnnounceInv, AnnouncedIsStored
  <2> QED
    BY <1>4, <2>2, <2>3 DEF IngestFile
<1>5. CASE PublishRaw
  <2>1. UNCHANGED <<raw, norm, projection, announced>>
    BY <1>5 DEF PublishRaw, IngestOnly
  <2>2. published' \subseteq published \cup {Last(raw)}
    BY <1>5 DEF PublishRaw
  <2>3. Last(raw) \in Stored(raw)
    <3>1. raw # <<>>
      BY <1>1, <1>5 DEF PublishRaw, PositionInv
    <3>2. Len(raw) \in 1..Len(raw)
      BY <1>1, <3>1, EmptySeq DEF TypeOK
    <3> QED
      BY <3>2 DEF Last, Stored
  <2>4. Stored(raw)' = Stored(raw) /\ Stored(projection)' = Stored(projection)
    BY <2>1 DEF Stored
  <2> QED
    BY <1>1, <2>1, <2>2, <2>3, <2>4 DEF AnnounceInv, AnnouncedIsStored
<1>6. CASE StartNormalize \/ Replay \/ WriteUnified \/ EndNormalize
  <2>1. UNCHANGED <<raw, published, projection, announced>>
    BY <1>6 DEF StartNormalize, Replay, WriteUnified, EndNormalize, NormalizeOnly
  <2>2. norm'.pc # "announce"
    BY <1>1, <1>6 DEF StartNormalize, Replay, WriteUnified, EndNormalize, NormalizeFails, TypeOK
  <2>3. Stored(raw)' = Stored(raw) /\ Stored(projection)' = Stored(projection)
    BY <2>1 DEF Stored
  <2> QED
    BY <1>1, <2>1, <2>2, <2>3 DEF AnnounceInv, AnnouncedIsStored
<1>7. CASE Project
  <2>1. UNCHANGED <<raw, published, announced>>
    BY <1>7 DEF Project, NormalizeOnly
  <2>2. Stored(raw)' = Stored(raw)
    BY <2>1 DEF Stored
  <2>3. CASE projection' = Append(projection, raw[norm.next]) /\ norm' = [norm EXCEPT !.pc = "announce"]
    <3>1. projection \in Seq(Records) /\ raw[norm.next] \in Records
      BY <1>1, <1>2, <1>7 DEF Project, TypeOK
    <3>2. Stored(projection)' = Stored(projection) \cup {raw[norm.next]}
      BY <2>3, <3>1, StoredAppend DEF Stored
    <3>3. norm'.next = norm.next
      BY <1>1, <2>3 DEF TypeOK
    <3> QED
      BY <1>1, <2>1, <2>2, <3>2, <3>3 DEF AnnounceInv, AnnouncedIsStored
  <2>4. CASE NormalizeFails /\ UNCHANGED projection
    <3>1. norm'.pc # "announce"
      BY <1>1, <2>4 DEF NormalizeFails, TypeOK
    <3>2. Stored(projection)' = Stored(projection)
      BY <2>4 DEF Stored
    <3> QED
      BY <1>1, <2>1, <2>2, <3>1, <3>2 DEF AnnounceInv, AnnouncedIsStored
  <2> QED
    BY <1>7, <2>3, <2>4 DEF Project
<1>8. CASE Announce
  <2>1. UNCHANGED <<raw, published, projection>>
    BY <1>8 DEF Announce, NormalizeOnly
  <2>2. Stored(raw)' = Stored(raw) /\ Stored(projection)' = Stored(projection)
    BY <2>1 DEF Stored
  <2>3. announced' \subseteq announced \cup {raw[norm.next]} /\ raw[norm.next] \in Stored(projection)
    BY <1>8 DEF Announce, AnnounceInv
  <2>4. norm'.pc # "announce"
    BY <1>1, <1>8 DEF Announce, NormalizeFails, TypeOK
  <2> QED
    BY <1>1, <2>1, <2>2, <2>3, <2>4 DEF AnnounceInv, AnnouncedIsStored
<1>9. CASE StartIngest \/ EndIngest \/ Index \/ UNCHANGED vars
  BY <1>3, <1>9
     DEF StartIngest, EndIngest, IngestOnly, Index, StartIndex, Scan, IndexLine, EndIndex,
         IndexOnly, vars
<1> QED
  BY <1>4, <1>5, <1>6, <1>7, <1>8, <1>9 DEF Next, Ingest, Normalize

\* Nothing is announced, on either subject, that a consumer could not find in
\* the store, whatever failed before.
THEOREM AnnouncedIsStoredCorrect == Spec => []AnnouncedIsStored
<1>1. Init => AnnounceInv
  BY DEF Init, AnnounceInv, AnnouncedIsStored
<1>2. AnnounceInv => AnnouncedIsStored
  BY DEF AnnounceInv
<1> QED
  BY <1>1, <1>2, ReplayInit, ReplayStep, AnnounceStep, PTL DEF Spec

-----------------------------------------------------------------------------
(* The retrieval store and the projection *)

\* The first m raw records are projected, and nothing derived, in the unified
\* file, read ahead or indexed, is further than the record after them.
KeepsUpTo(m) ==
    /\ \A i \in 1..m : raw[i] \in Stored(projection)
    /\ Len(unified) <= m + 1
    /\ norm.pc = "record" => Len(unified) <= m
    /\ norm.pc = "announce" => Len(unified) <= m
    /\ idx.pc = "scan" => idx.offset <= m + 1
    /\ \A j \in 1..Len(docs) : \E k \in 1..Len(raw) : k <= m + 1 /\ docs[j] = raw[k]

KeepsUpInv == \E m \in 0..Len(raw) : KeepsUpTo(m)

\* ingestd keeps KeepsUpTo.
LEMMA KeepsUpIngest ==
    ASSUME ReplayInv, Ingest, NEW m \in 0..Len(raw), KeepsUpTo(m)
    PROVE  KeepsUpInv'
<1>1. TypeOK
  BY DEF ReplayInv
<1>2. UNCHANGED <<unified, projection, docs, norm, idx>>
  BY DEF Ingest, StartIngest, IngestFile, PublishRaw, EndIngest, IngestOnly
<1>4. /\ Len(raw) \in Nat /\ Len(raw') \in Nat /\ Len(raw') >= Len(raw)
      /\ \A i \in 1..Len(raw) : raw'[i] = raw[i]
  BY <1>1, IngestAppends
<1>5. m \in 0..Len(raw')
  BY <1>4
<1>6. Stored(projection)' = Stored(projection)
  BY <1>2 DEF Stored
<1>7. \A i \in 1..m : raw'[i] \in Stored(projection)
  BY <1>4 DEF KeepsUpTo
<1>8. ASSUME NEW j \in 1..Len(docs)
      PROVE  \E k \in 1..Len(raw') : k <= m + 1 /\ docs[j] = raw'[k]
  <2>1. PICK k \in 1..Len(raw) : k <= m + 1 /\ docs[j] = raw[k]
    BY DEF KeepsUpTo
  <2> QED
    BY <1>4, <2>1
<1>9. KeepsUpTo(m)'
  BY <1>2, <1>6, <1>7, <1>8 DEF KeepsUpTo
<1> QED
  BY <1>5, <1>9 DEF KeepsUpInv

\* normalizerd keeps KeepsUpTo, or projects the record after them.
LEMMA KeepsUpNormalize ==
    ASSUME ReplayInv, Normalize, NEW m \in 0..Len(raw), KeepsUpTo(m)
    PROVE  KeepsUpInv'
<1>1. TypeOK /\ PositionInv
  BY DEF ReplayInv
<1>2. UNCHANGED <<raw, docs, idx>>
  BY DEF Normalize, StartNormalize, Replay, WriteUnified, Project, Announce, EndNormalize,
         NormalizeOnly
<1>3. /\ Len(raw) \in Nat /\ Len(unified) \in Nat /\ norm.next \in Nat /\ m \in Nat
      /\ norm.limit \in 0..Len(raw)
  BY <1>1 DEF TypeOK
<1>4. ASSUME UNCHANGED projection, Len(unified') <= m + 1,
             norm'.pc \in {"record", "announce"} => Len(unified') <= m
      PROVE  KeepsUpInv'
  <2>1. Stored(projection)' = Stored(projection)
    BY <1>4 DEF Stored
  <2>2. KeepsUpTo(m)'
    BY <1>2, <1>4, <2>1 DEF KeepsUpTo
  <2> QED
    BY <1>2, <2>2 DEF KeepsUpInv
<1>5. ASSUME NormalizeFails, UNCHANGED <<unified, projection>> PROVE KeepsUpInv'
  <2>1. norm'.pc = "error"
    BY <1>1, <1>5 DEF NormalizeFails, TypeOK
  <2> QED
    BY <1>4, <1>5, <2>1 DEF KeepsUpTo
<1>6. CASE StartNormalize
  <2>1. Len(unified') = 0 /\ norm'.pc = "replay"
    BY <1>1, <1>6 DEF StartNormalize, TypeOK
  <2> QED
    BY <1>3, <1>4, <1>6, <2>1 DEF StartNormalize
<1>7. CASE Replay
  <2>1. Len(unified') = 0
    BY <1>1, <1>7 DEF Replay, PositionInv
  <2> QED
    BY <1>3, <1>4, <1>7, <2>1 DEF Replay
<1>8. CASE WriteUnified
  <2>1. CASE unified' = Append(unified, raw[norm.next]) /\ norm' = [norm EXCEPT !.pc = "project"]
    <3>1. Len(unified') = Len(unified) + 1 /\ norm'.pc = "project"
      BY <1>1, <2>1 DEF TypeOK
    <3>2. Len(unified) <= m
      BY <1>8 DEF WriteUnified, KeepsUpTo
    <3> QED
      BY <1>3, <1>4, <1>8, <3>1, <3>2 DEF WriteUnified
  <2>2. CASE NormalizeFails /\ UNCHANGED unified
    BY <1>5, <1>8, <2>2 DEF WriteUnified
  <2> QED
    BY <1>8, <2>1, <2>2 DEF WriteUnified
<1>9. CASE Project
  <2>1. /\ Len(unified) = norm.next /\ norm.next <= norm.limit /\ norm.next <= m + 1
        /\ UNCHANGED unified
    BY <1>1, <1>9 DEF Project, PositionInv, KeepsUpTo
  <2>2. CASE projection' = Append(projection, raw[norm.next]) /\ norm' = [norm EXCEPT !.pc = "announce"]
    <3>1. norm.next \in 1..Len(raw)
      BY <1>1, <1>3, <2>1 DEF TypeOK
    <3>2. projection \in Seq(Records) /\ raw[norm.next] \in Records
      BY <1>1, <3>1 DEF TypeOK
    <3>3. Stored(projection)' = Stored(projection) \cup {raw[norm.next]}
      BY <2>2, <3>2, StoredAppend DEF Stored
    <3>4. PICK n \in 0..Len(raw) : n >= m /\ n >= norm.next /\ n <= m + 1 /\ (n > m => n = norm.next)
      <4>1. CASE norm.next <= m
        <5>1. m \in 0..Len(raw) /\ m <= m + 1
          BY <1>3
        <5> QED
          BY <4>1, <5>1
      <4>2. CASE norm.next = m + 1
        <5>1. m + 1 \in 0..Len(raw) /\ m + 1 >= m
          BY <1>3, <3>1, <4>2
        <5> QED
          BY <4>2, <5>1
      <4> QED
        BY <1>3, <2>1, <4>1, <4>2
    <3>5. \A i \in 1..n : raw[i] \in Stored(projection)'
      <4>1. \A i \in 1..n : i \in 1..m \/ i = norm.next
        BY <1>3, <3>4
      <4> QED
        BY <3>3, <4>1 DEF KeepsUpTo
    <3>6. \A j \in 1..Len(docs) : \E k \in 1..Len(raw) : k <= n + 1 /\ docs[j] = raw[k]
      <4> SUFFICES ASSUME NEW j \in 1..Len(docs)
                   PROVE  \E k \in 1..Len(raw) : k <= n + 1 /\ docs[j] = raw[k]
        OBVIOUS
      <4>1. PICK k \in 1..Len(raw) : k <= m + 1 /\ docs[j] = raw[k]
        BY DEF KeepsUpTo
      <4>2. k <= n + 1
        BY <1>3, <3>4, <4>1
      <4> QED
        BY <4>1, <4>2
    <3>7. idx.pc = "scan" => idx.offset <= n + 1
      <4>1. idx.offset \in Nat
        BY <1>1, <1>3 DEF TypeOK
      <4> QED
        BY <1>3, <3>4, <4>1 DEF KeepsUpTo
    <3>8. Len(unified) <= n /\ Len(unified) <= n + 1
      BY <1>3, <2>1, <3>4
    <3>9. KeepsUpTo(n)'
      BY <1>2, <2>1, <3>5, <3>6, <3>7, <3>8 DEF KeepsUpTo
    <3> QED
      BY <1>2, <3>9 DEF KeepsUpInv
  <2>3. CASE NormalizeFails /\ UNCHANGED projection
    BY <1>5, <2>1, <2>3
  <2> QED
    BY <1>9, <2>2, <2>3 DEF Project
<1>10. CASE Announce
  <2>1. Len(unified) <= m /\ UNCHANGED <<unified, projection>>
    BY <1>10 DEF Announce, KeepsUpTo
  <2> QED
    BY <1>3, <1>4, <2>1
<1>11. CASE EndNormalize
  <2>1. Len(unified) <= m /\ UNCHANGED <<unified, projection>>
    BY <1>11 DEF EndNormalize, KeepsUpTo
  <2> QED
    BY <1>3, <1>4, <2>1
<1> QED
  BY <1>6, <1>7, <1>8, <1>9, <1>10, <1>11 DEF Normalize

\* indexerd keeps KeepsUpTo.
LEMMA KeepsUpIndex ==
    ASSUME ReplayInv, Index, NEW m \in 0..Len(raw), KeepsUpTo(m)
    PROVE  KeepsUpInv'
<1>1. TypeOK /\ ScanInv
  BY DEF ReplayInv
<1>2. UNCHANGED <<raw, unified, projection, norm>>
  BY DEF Index, StartIndex, Scan, IndexLine, EndIndex, IndexOnly
<1>3. /\ Len(raw) \in Nat /\ Len(unified) \in Nat /\ Len(docs) \in Nat /\ m \in Nat
      /\ base \in 0..Len(docs) /\ idx.offset \in 0..Len(raw) /\ Len(idx.buffer) \in Nat
  BY <1>1 DEF TypeOK
<1>4. ASSUME idx'.pc = "scan" => idx'.offset <= m + 1,
             \A j \in 1..Len(docs') : \E k \in 1..Len(raw) : k <= m + 1 /\ docs'[j] = raw[k]
      PROVE  KeepsUpInv'
  <2>1. Stored(projection)' = Stored(projection)
    BY <1>2 DEF Stored
  <2>2. KeepsUpTo(m)'
    BY <1>2, <1>4, <2>1 DEF KeepsUpTo
  <2> QED
    BY <1>2, <2>2 DEF KeepsUpInv
<1>5. ASSUME UNCHANGED docs, idx'.pc = "scan" => idx'.offset <= m + 1 PROVE KeepsUpInv'
  BY <1>4, <1>5 DEF KeepsUpTo
<1>6. CASE StartIndex
  BY <1>3, <1>5, <1>6 DEF StartIndex
<1>7. CASE Scan
  <2>1. PICK n \in idx.offset+1..Len(unified) :
             idx' = [idx EXCEPT !.offset = n, !.buffer = SubSeq(unified, idx.offset + 1, n)]
    BY <1>7 DEF Scan
  <2>2. idx'.offset = n
    BY <1>1, <2>1 DEF TypeOK
  <2>3. n <= Len(unified) /\ n \in Int /\ Len(unified) <= m + 1
    BY <1>3, <2>1 DEF KeepsUpTo
  <2> QED
    BY <1>3, <1>5, <1>7, <2>2, <2>3 DEF Scan
<1>8. CASE IndexLine
  <2>1. CASE docs' = Append(docs, Head(idx.buffer)) /\ idx' = [idx EXCEPT !.buffer = Tail(@)]
    <3>1. idx'.offset = idx.offset /\ idx.offset <= m + 1
      BY <1>1, <1>8, <2>1 DEF IndexLine, KeepsUpTo, TypeOK
    <3>2. Len(idx.buffer) > 0 /\ Head(idx.buffer) = idx.buffer[1]
      BY <1>1, <1>8, HeadTailProperties, EmptySeq DEF IndexLine, TypeOK
    <3>3. PICK k \in 1..Len(raw) : k <= m + 1 /\ Head(idx.buffer) = raw[k]
      <4>1. /\ Len(docs) - base = idx.offset - Len(idx.buffer)
            /\ idx.buffer[1] = raw[Len(docs) - base + 1]
        <5>1. idx.pc = "scan" /\ 1 \in 1..Len(idx.buffer)
          BY <1>3, <1>8, <3>2 DEF IndexLine
        <5> QED
          BY <1>1, <5>1 DEF ScanInv
      <4>2. Len(docs) - base + 1 \in 1..Len(raw) /\ Len(docs) - base + 1 <= m + 1
        <5>1. idx.offset \in Nat /\ Len(idx.buffer) \in Nat /\ Len(raw) \in Nat
          BY <1>1 DEF TypeOK
        <5> QED
          BY <1>3, <3>1, <3>2, <4>1, <5>1, SMTT(30)
      <4> QED
        BY <3>2, <4>1, <4>2
    <3>4. ASSUME NEW j \in 1..Len(docs')
          PROVE  \E i \in 1..Len(raw) : i <= m + 1 /\ docs'[j] = raw[i]
      <4>1. CASE j \in 1..Len(docs)
        <5>1. docs'[j] = docs[j]
          BY <1>1, <2>1, <4>1 DEF TypeOK
        <5> QED
          BY <4>1, <5>1 DEF KeepsUpTo
      <4>2. CASE j = Len(docs) + 1
        <5>1. docs'[j] = Head(idx.buffer)
          BY <1>1, <2>1, <4>2 DEF TypeOK
        <5> QED
          BY <3>3, <5>1
      <4>3. Len(docs') = Len(docs) + 1
        BY <1>1, <2>1 DEF TypeOK
      <4> QED
        BY <1>3, <4>1, <4>2, <4>3
    <3> QED
      BY <1>4, <3>1, <3>4
  <2>2. CASE idx' = [idx EXCEPT !.pc = "error", !.buffer = <<>>] /\ UNCHANGED docs
    <3>1. idx'.pc = "error"
      BY <1>1, <2>2 DEF TypeOK
    <3> QED
      BY <1>5, <2>2, <3>1
  <2> QED
    BY <1>8, <2>1, <2>2 DEF IndexLine
<1>9. CASE EndIndex
  <2>1. idx'.pc # "scan" /\ UNCHANGED docs
    BY <1>1, <1>9 DEF EndIndex, TypeOK
  <2> QED
    BY <1>5, <2>1
<1> QED
  BY <1>6, <1>7, <1>8, <1>9 DEF Index

\* Every step keeps KeepsUpInv.
LEMMA KeepsUpStep == ReplayInv /\ KeepsUpInv /\ [Next]_vars => KeepsUpInv'
<1> SUFFICES ASSUME ReplayInv, NEW m \in 0..Len(raw), KeepsUpTo(m), [Next]_vars
             PROVE  KeepsUpInv'
  BY DEF KeepsUpInv
<1>1. CASE UNCHANGED vars
  <2>1. KeepsUpTo(m)'
    BY <1>1 DEF vars, KeepsUpTo, Stored
  <2> QED
    BY <1>1, <2>1 DEF vars, KeepsUpInv
<1> QED
  BY <1>1, KeepsUpIngest, KeepsUpNormalize, KeepsUpIndex DEF Next

\* Whatever failed and was run again, the retrieval store is ahead of the
\* projection by one event at most.
THEOREM ProjectionKeepsUpCorrect == Spec => []ProjectionKeepsUp
<1>1. Init => KeepsUpInv
  <2> SUFFICES ASSUME Init PROVE KeepsUpInv
    OBVIOUS
  <2>1. Len(raw) = 0 /\ Len(unified) = 0 /\ Len(docs) = 0 /\ idx.pc = "never" /\ norm.pc = "never"
    BY DEF Init
  <2>2. KeepsUpTo(0)
    BY <2>1 DEF KeepsUpTo
  <2> QED
    BY <2>1, <2>2 DEF KeepsUpInv
<1>2. ReplayInv /\ KeepsUpInv => ProjectionKeepsUp
  <2> SUFFICES ASSUME ReplayInv, NEW m \in 0..Len(raw), KeepsUpTo(m),
                      NEW i \in 1..Len(docs), NEW j \in 1..Len(docs),
                      {docs[i], docs[j]} \cap Stored(projection) = {}
               PROVE  docs[i] = docs[j]
    BY DEF KeepsUpInv, ProjectionKeepsUp
  <2>1. Len(raw) \in Nat
    BY DEF ReplayInv, TypeOK
  <2>2. ASSUME NEW h \in {i, j} PROVE docs[h] = raw[m + 1]
    <3>1. PICK k \in 1..Len(raw) : k <= m + 1 /\ docs[h] = raw[k]
      BY <2>2 DEF KeepsUpTo
    <3>2. k \notin 1..m
      BY <3>1 DEF KeepsUpTo
    <3> QED
      BY <2>1, <3>1, <3>2
  <2> QED
    BY <2>2
<1> QED
  BY <1>1, <1>2, ReplayInit, ReplayStep, KeepsUpStep, PTL DEF Spec

-----------------------------------------------------------------------------
(* What a command has done when it returns nil *)

Published(i) == \E r \in published : r.payload = input.files[i]
Delivered(i) == raw[i] \in Stored(projection) /\ raw[i] \in announced

\* ingestd has announced the files before next.
IngestDoneInv ==
    /\ ingest.pc \in {"file", "publish", "ok"} => \A i \in 1..ingest.next - 1 : Published(i)
    /\ ingest.pc = "publish" => raw[Len(raw)].payload = input.files[ingest.next]
    /\ ingest.pc = "ok" => ingest.next = Len(input.files) + 1

\* normalizerd has delivered the records before next.
NormalizeDoneInv ==
    /\ norm.pc \in {"record", "project", "announce", "ok"} =>
        \A i \in 1..norm.next - 1 : Delivered(i)
    /\ norm.pc = "ok" => norm.next = norm.limit + 1 /\ Len(unified) = norm.limit

\* indexerd has appended every line of a file that was not touched meanwhile.
IndexDoneInv ==
    /\ ~disturbed => norm.pc \in Idle
    /\ idx.pc = "ok" /\ ~disturbed => Len(docs) - base >= Len(unified)

DoneInv == IngestDoneInv /\ NormalizeDoneInv /\ IndexDoneInv

\* ingestd keeps DoneInv.
LEMMA DoneIngest == ASSUME ReplayInv, DoneInv, Ingest PROVE DoneInv'
<1>1. TypeOK /\ PositionInv
  BY DEF ReplayInv
<1>2. UNCHANGED <<input, unified, projection, announced, docs, norm, idx, base, disturbed>>
  BY DEF Ingest, StartIngest, IngestFile, PublishRaw, EndIngest, IngestOnly
<1>4. \A i \in 1..Len(raw) : raw'[i] = raw[i]
  BY <1>1, IngestAppends
<1>5. Len(raw) \in Nat /\ norm.limit \in 0..Len(raw) /\ norm.next \in 1..norm.limit+1
  BY <1>1 DEF TypeOK
<1>6. IndexDoneInv'
  BY <1>2 DEF DoneInv, IndexDoneInv
<1>7. NormalizeDoneInv'
  <2>1. Stored(projection)' = Stored(projection)
    BY <1>2 DEF Stored
  <2>2. \A i \in 1..norm.next - 1 : raw'[i] = raw[i]
    BY <1>4, <1>5
  <2> QED
    BY <1>2, <2>1, <2>2 DEF DoneInv, NormalizeDoneInv, Delivered
<1>8. IngestDoneInv'
  <2>1. published \subseteq published' => \A i : Published(i) => Published(i)'
    BY <1>2 DEF Published
  <2>2. CASE StartIngest
    <3>1. ingest'.pc = "file" /\ ingest'.next = 1
      BY <2>2 DEF StartIngest
    <3> QED
      BY <3>1 DEF IngestDoneInv
  <2>3. CASE IngestFile
    <3>1. UNCHANGED published
      BY <2>3 DEF IngestFile
    <3>2. CASE ingest' = [ingest EXCEPT !.pc = "error"]
      <4>1. ingest'.pc = "error"
        BY <1>1, <3>2 DEF TypeOK
      <4> QED
        BY <4>1 DEF IngestDoneInv
    <3>3. CASE /\ raw' = Append(raw, Record(input.files[ingest.next], clock'))
               /\ ingest' = [ingest EXCEPT !.pc = "publish"]
      <4>1. ingest'.pc = "publish" /\ ingest'.next = ingest.next
        BY <1>1, <3>3 DEF TypeOK
      <4>2. raw'[Len(raw')] = Record(input.files[ingest.next], clock')
        BY <1>1, <3>3 DEF TypeOK
      <4>3. raw'[Len(raw')].payload = input.files[ingest.next]
        BY <4>2 DEF Record
      <4>4. \A i \in 1..ingest.next - 1 : Published(i)
        BY <2>3 DEF IngestFile, DoneInv, IngestDoneInv
      <4> QED
        BY <1>2, <2>1, <3>1, <4>1, <4>3, <4>4 DEF IngestDoneInv
    <3> QED
      BY <2>3, <3>2, <3>3 DEF IngestFile
  <2>4. CASE PublishRaw
    <3>1. CASE ingest' = [ingest EXCEPT !.pc = "error"]
      <4>1. ingest'.pc = "error"
        BY <1>1, <3>1 DEF TypeOK
      <4> QED
        BY <4>1 DEF IngestDoneInv
    <3>2. CASE /\ published' = published \cup {Last(raw)}
               /\ ingest' = [pc |-> "file", next |-> ingest.next + 1]
      <4>1. ingest.next \in Nat
        BY <1>1, FilesType DEF TypeOK
      <4>2. Last(raw) \in published' /\ Last(raw).payload = input'.files[ingest.next]
        BY <1>2, <2>4, <3>2 DEF PublishRaw, DoneInv, IngestDoneInv, Last
      <4>3. ASSUME NEW i \in 1..(ingest.next + 1) - 1 PROVE Published(i)'
        <5>1. CASE i \in 1..ingest.next - 1
          BY <2>1, <2>4, <3>2, <5>1 DEF PublishRaw, DoneInv, IngestDoneInv
        <5>2. CASE i = ingest.next
          BY <4>2, <5>2 DEF Published
        <5> QED
          BY <4>1, <5>1, <5>2
      <4> QED
        BY <3>2, <4>3 DEF IngestDoneInv
    <3> QED
      BY <2>4, <3>1, <3>2 DEF PublishRaw
  <2>5. CASE EndIngest
    <3>1. UNCHANGED published /\ ingest.pc = "file" /\ ingest.next > Len(input.files)
      BY <2>5 DEF EndIngest
    <3>2. ingest'.pc = "ok" /\ ingest'.next = ingest.next
      BY <1>1, <2>5 DEF EndIngest, TypeOK
    <3>3. ingest.next = Len(input.files) + 1
      BY <1>1, <3>1, FilesType DEF TypeOK
    <3> QED
      BY <1>2, <2>1, <3>1, <3>2, <3>3 DEF DoneInv, IngestDoneInv
  <2> QED
    BY <2>2, <2>3, <2>4, <2>5 DEF Ingest
<1> QED
  BY <1>6, <1>7, <1>8 DEF DoneInv

\* normalizerd keeps DoneInv.
LEMMA DoneNormalize == ASSUME ReplayInv, AnnounceInv, DoneInv, Normalize PROVE DoneInv'
<1>1. TypeOK /\ PositionInv
  BY DEF ReplayInv
<1>2. UNCHANGED <<input, raw, published, docs, ingest, idx, base>>
  BY DEF Normalize, StartNormalize, Replay, WriteUnified, Project, Announce, EndNormalize,
         NormalizeOnly
<1>3. Len(raw) \in Nat /\ norm.limit \in 0..Len(raw) /\ norm.next \in 1..norm.limit+1
  BY <1>1 DEF TypeOK
<1>4. IngestDoneInv'
  BY <1>2 DEF DoneInv, IngestDoneInv, Published
<1>5. IndexDoneInv'
  <2>1. CASE StartNormalize
    BY <2>1 DEF StartNormalize, IndexDoneInv
  <2>2. CASE ~StartNormalize
    <3>1. norm.pc \notin Idle /\ UNCHANGED disturbed
      BY <2>2 DEF Normalize, Replay, WriteUnified, Project, Announce, EndNormalize, Idle
    <3> QED
      BY <3>1 DEF DoneInv, IndexDoneInv
  <2> QED
    BY <2>1, <2>2
<1>6. ASSUME norm'.pc \in {"replay", "error", "never"} PROVE NormalizeDoneInv'
  BY <1>6 DEF NormalizeDoneInv
<1>7. NormalizeFails => norm'.pc = "error"
  BY <1>1 DEF NormalizeFails, TypeOK
<1>8. ASSUME Stored(projection) \subseteq Stored(projection)', announced \subseteq announced'
      PROVE  \A i : Delivered(i) => Delivered(i)'
  BY <1>2, <1>8 DEF Delivered
<1>9. CASE StartNormalize
  <2>1. norm'.pc = "replay"
    BY <1>1, <1>9 DEF StartNormalize, TypeOK
  <2> QED
    BY <1>4, <1>5, <1>6, <2>1 DEF DoneInv
<1>10. CASE Replay
  <2>1. CASE norm' = [pc |-> "record", next |-> 1, limit |-> Len(raw)]
    BY <1>4, <1>5, <2>1 DEF DoneInv, NormalizeDoneInv
  <2> QED
    BY <1>4, <1>5, <1>6, <1>7, <1>10, <2>1 DEF Replay, DoneInv
<1>11. CASE WriteUnified
  <2>1. CASE norm' = [norm EXCEPT !.pc = "project"]
    <3>1. norm'.pc = "project" /\ norm'.next = norm.next
      BY <1>1, <2>1 DEF TypeOK
    <3>2. Stored(projection)' = Stored(projection) /\ UNCHANGED announced
      BY <1>11 DEF WriteUnified, Stored
    <3>3. \A i \in 1..norm.next - 1 : Delivered(i)
      BY <1>11 DEF WriteUnified, DoneInv, NormalizeDoneInv
    <3> QED
      BY <1>4, <1>5, <1>8, <3>1, <3>2, <3>3 DEF DoneInv, NormalizeDoneInv
  <2> QED
    BY <1>4, <1>5, <1>6, <1>7, <1>11, <2>1 DEF WriteUnified, DoneInv
<1>12. CASE Project
  <2>1. CASE /\ projection' = Append(projection, raw[norm.next])
             /\ norm' = [norm EXCEPT !.pc = "announce"]
    <3>1. norm'.pc = "announce" /\ norm'.next = norm.next
      BY <1>1, <2>1 DEF TypeOK
    <3>2. raw[norm.next] \in Records /\ projection \in Seq(Records)
      <4>1. norm.next \in 1..Len(raw)
        BY <1>1, <1>3, <1>12 DEF Project, PositionInv
      <4> QED
        BY <1>1, <4>1 DEF TypeOK
    <3>3. Stored(projection)' = Stored(projection) \cup {raw[norm.next]}
      BY <2>1, <3>2, StoredAppend DEF Stored
    <3>4. UNCHANGED announced
      BY <1>12 DEF Project
    <3>5. \A i \in 1..norm.next - 1 : Delivered(i)
      BY <1>12 DEF Project, DoneInv, NormalizeDoneInv
    <3> QED
      BY <1>4, <1>5, <1>8, <3>1, <3>3, <3>4, <3>5 DEF DoneInv, NormalizeDoneInv
  <2> QED
    BY <1>4, <1>5, <1>6, <1>7, <1>12, <2>1 DEF Project, DoneInv
<1>13. CASE Announce
  <2>1. CASE /\ announced' = announced \cup {raw[norm.next]}
             /\ norm' = [norm EXCEPT !.pc = "record", !.next = @ + 1]
    <3>1. norm'.pc = "record" /\ norm'.next = norm.next + 1
      BY <1>1, <2>1 DEF TypeOK
    <3>2. Stored(projection)' = Stored(projection)
      BY <1>13 DEF Announce, Stored
    <3>3. raw[norm.next] \in Stored(projection)
      BY <1>13 DEF Announce, AnnounceInv
    <3>4. ASSUME NEW i \in 1..(norm.next + 1) - 1 PROVE Delivered(i)'
      <4>1. CASE i \in 1..norm.next - 1
        BY <1>8, <1>13, <2>1, <3>2, <4>1 DEF Announce, DoneInv, NormalizeDoneInv
      <4>2. CASE i = norm.next
        BY <1>2, <2>1, <3>2, <3>3, <4>2 DEF Delivered
      <4> QED
        BY <1>3, <4>1, <4>2
    <3> QED
      BY <1>4, <1>5, <3>1, <3>4 DEF DoneInv, NormalizeDoneInv
  <2> QED
    BY <1>4, <1>5, <1>6, <1>7, <1>13, <2>1 DEF Announce, DoneInv
<1>14. CASE EndNormalize
  <2>1. norm'.pc = "ok" /\ norm'.next = norm.next /\ norm'.limit = norm.limit
    BY <1>1, <1>14 DEF EndNormalize, TypeOK
  <2>2. norm.next = norm.limit + 1 /\ Len(unified) = norm.next - 1
    BY <1>1, <1>3, <1>14 DEF EndNormalize, PositionInv
  <2>3. Stored(projection)' = Stored(projection) /\ UNCHANGED <<announced, unified>>
    BY <1>14 DEF EndNormalize, Stored
  <2>4. \A i \in 1..norm.next - 1 : Delivered(i)
    BY <1>14 DEF EndNormalize, DoneInv, NormalizeDoneInv
  <2>5. Len(unified') = norm.limit
    BY <1>3, <2>2, <2>3
  <2> QED
    BY <1>4, <1>5, <1>8, <2>1, <2>2, <2>3, <2>4, <2>5 DEF DoneInv, NormalizeDoneInv
<1> QED
  BY <1>9, <1>10, <1>11, <1>12, <1>13, <1>14 DEF Normalize

\* indexerd keeps DoneInv.
LEMMA DoneIndex == ASSUME ReplayInv, DoneInv, Index PROVE DoneInv'
<1>1. TypeOK /\ ScanInv
  BY DEF ReplayInv
<1>2. UNCHANGED <<input, raw, published, unified, projection, announced, ingest, norm>>
  BY DEF Index, StartIndex, Scan, IndexLine, EndIndex, IndexOnly
<1>3. IngestDoneInv' /\ NormalizeDoneInv'
  BY <1>2 DEF DoneInv, IngestDoneInv, NormalizeDoneInv, Published, Delivered, Stored
<1>4. /\ Len(unified) \in Nat /\ Len(docs) \in Nat /\ base \in 0..Len(docs)
      /\ idx.offset \in Nat /\ idx.buffer \in Seq(Records)
  BY <1>1 DEF TypeOK
<1>5. ASSUME UNCHANGED disturbed, idx'.pc # "ok" PROVE IndexDoneInv'
  BY <1>2, <1>5 DEF DoneInv, IndexDoneInv
<1>6. CASE StartIndex
  <2>1. idx'.pc = "scan" /\ disturbed' = (norm.pc \notin Idle)
    BY <1>6 DEF StartIndex
  <2>2. IndexDoneInv'
    BY <1>2, <2>1 DEF IndexDoneInv
  <2> QED
    BY <1>3, <2>2 DEF DoneInv
<1>7. CASE Scan
  <2>1. idx'.pc # "ok"
    BY <1>1, <1>7 DEF Scan, TypeOK
  <2> QED
    BY <1>3, <1>5, <1>7, <2>1 DEF Scan, DoneInv
<1>8. CASE IndexLine
  <2>1. idx'.pc # "ok"
    BY <1>1, <1>8 DEF IndexLine, TypeOK
  <2> QED
    BY <1>3, <1>5, <1>8, <2>1 DEF IndexLine, DoneInv
<1>9. CASE EndIndex
  <2>1. UNCHANGED <<docs, base, disturbed>> /\ Len(unified) <= idx.offset
    BY <1>9 DEF EndIndex
  <2>2. Len(docs) - base = idx.offset
    <3>1. idx.pc = "scan" /\ Len(idx.buffer) = 0
      BY <1>9 DEF EndIndex
    <3> QED
      BY <1>1, <1>4, <3>1 DEF ScanInv
  <2>3. Len(docs') - base' >= Len(unified')
    BY <1>2, <1>4, <2>1, <2>2
  <2>4. IndexDoneInv'
    BY <1>2, <2>1, <2>3 DEF DoneInv, IndexDoneInv
  <2> QED
    BY <1>3, <2>4 DEF DoneInv
<1> QED
  BY <1>6, <1>7, <1>8, <1>9 DEF Index

\* Every step keeps DoneInv.
LEMMA DoneStep == ReplayInv /\ AnnounceInv /\ DoneInv /\ [Next]_vars => DoneInv'
<1>1. DoneInv /\ UNCHANGED vars => DoneInv'
  BY DEF vars, DoneInv, IngestDoneInv, NormalizeDoneInv, IndexDoneInv, Published, Delivered, Stored
<1> QED
  BY <1>1, DoneIngest, DoneNormalize, DoneIndex DEF Next

\* A command that returns nil has stored, projected, announced and indexed all
\* it was started for, whatever the other commands did meanwhile.
THEOREM OkMeansDoneCorrect == Spec => []OkMeansDone
<1>1. Init => AnnounceInv
  BY DEF Init, AnnounceInv, AnnouncedIsStored
<1>2. Init => DoneInv
  BY DEF Init, DoneInv, IngestDoneInv, NormalizeDoneInv, IndexDoneInv, Idle
<1>3. ReplayInv /\ DoneInv => OkMeansDone
  <2> SUFFICES ASSUME ReplayInv, DoneInv PROVE OkMeansDone
    OBVIOUS
  <2>1. /\ raw \in Seq(Records) /\ unified \in Seq(Records) /\ docs \in Seq(Records)
        /\ base \in 0..Len(docs) /\ norm.limit \in 0..Len(raw)
    BY DEF ReplayInv, TypeOK
  <2>2. \A i \in 1..Len(unified) : unified[i] = raw[i]
    BY DEF ReplayInv, UnifiedIsReplay
  <2>3. ASSUME ingest.pc = "ok"
        PROVE  \A i \in 1..Len(input.files) : \E r \in published : r.payload = input.files[i]
    <3>1. Len(input.files) \in Nat
      BY FilesType DEF ReplayInv
    <3>2. ingest.next - 1 = Len(input.files)
      BY <2>3, <3>1 DEF DoneInv, IngestDoneInv
    <3> QED
      BY <2>3, <3>2 DEF DoneInv, IngestDoneInv, Published
  <2>4. ASSUME norm.pc = "ok"
        PROVE  /\ unified = SubSeq(raw, 1, norm.limit)
               /\ Stored(unified) \subseteq Stored(projection) \cap announced
    <3>1. Len(unified) = norm.limit /\ norm.next - 1 = norm.limit
      BY <2>1, <2>4 DEF DoneInv, NormalizeDoneInv
    <3>2. \A i \in 1..norm.limit : unified[i] = raw[i] /\ Delivered(i)
      BY <2>2, <2>4, <3>1 DEF DoneInv, NormalizeDoneInv
    <3>3. unified = SubSeq(raw, 1, norm.limit)
      <4>1. \A i \in 1..norm.limit : raw[i] \in Records
        BY <2>1
      <4>2. /\ SubSeq(raw, 1, norm.limit) \in Seq(Records)
            /\ Len(SubSeq(raw, 1, norm.limit)) = norm.limit
            /\ \A i \in 1..norm.limit : SubSeq(raw, 1, norm.limit)[i] = raw[i]
        BY <2>1, <4>1
      <4> QED
        BY <2>1, <3>1, <3>2, <4>2, SeqEqual
    <3>4. Stored(unified) \subseteq Stored(projection) \cap announced
      BY <3>1, <3>2 DEF Stored, Delivered
    <3> QED
      BY <3>3, <3>4
  <2>5. ASSUME idx.pc = "ok", ~disturbed PROVE Stored(unified) \subseteq Stored(docs)
    <3>1. Len(docs) - base >= Len(unified)
      BY <2>5 DEF DoneInv, IndexDoneInv
    <3>2. ASSUME NEW i \in 1..Len(unified) PROVE unified[i] \in Stored(docs)
      <4>1. i \in 1..Len(docs) - base /\ base + i \in 1..Len(docs)
        BY <2>1, <3>1
      <4>2. docs[base + i] = raw[i]
        BY <4>1 DEF ReplayInv, IndexRunIsReplay
      <4>3. unified[i] = docs[base + i]
        BY <2>2, <4>2
      <4> QED
        BY <4>1, <4>3 DEF Stored
    <3> QED
      BY <3>2 DEF Stored
  <2> QED
    BY <2>3, <2>4, <2>5 DEF OkMeansDone
<1> QED
  BY <1>1, <1>2, <1>3, ReplayInit, ReplayStep, AnnounceStep, DoneStep, PTL DEF Spec

-----------------------------------------------------------------------------
(* What a search returns *)

\* A strict order on a finite set has a maximal element: one with no subset of
\* elements above it that is smaller.
LEMMA FiniteMaximal ==
    ASSUME NEW S, IsFiniteSet(S), S # {}, NEW R,
           \A a \in S : <<a, a>> \notin R,
           \A a, b, c \in S : <<a, b>> \in R /\ <<b, c>> \in R => <<a, c>> \in R
    PROVE  \E a \in S : \A b \in S : <<b, a>> \notin R
<1> DEFINE Above(a) == {b \in S : <<b, a>> \in R}
           T == {Above(a) : a \in S}
           Order == StrictSubsetOrdering(S)
<1>1. \A a \in S : Above(a) \in FiniteSubsetsOf(S)
  BY FS_Subset DEF FiniteSubsetsOf
<1>2. T \subseteq FiniteSubsetsOf(S) /\ T # {}
  <2> HIDE DEF Above
  <2> QED
    BY <1>1
<1>3. IsWellFoundedOn(Order, FiniteSubsetsOf(S))
  BY FS_StrictSubsetOrderingWellFounded
<1>4. PICK x \in T : \A y \in T : <<y, x>> \notin Order
  <2> HIDE DEF T, Order
  <2> QED
    BY <1>2, <1>3, WFMin
<1>5. PICK a \in S : x = Above(a)
  OBVIOUS
<1>6. ASSUME NEW b \in S, <<b, a>> \in R PROVE FALSE
  <2>1. Above(b) \subseteq Above(a) /\ b \in Above(a) /\ b \notin Above(b)
    BY <1>6
  <2>2. <<Above(b), Above(a)>> \in Order
    BY <2>1 DEF StrictSubsetOrdering
  <2> QED
    BY <1>4, <1>5, <2>2
<1> QED
  BY <1>6

\* A search for an id that is stored returns one of its lines, and of the latest
\* ingestion.
LEMMA FoundIsLatest ==
    ASSUME NEW S, NEW lines \in Seq(S), \A s \in S : s.ingestedAt \in Nat, NEW id \in Ids(lines)
    PROVE  \E k \in 1..Len(lines) :
              /\ Found(lines, id) = lines[k] /\ lines[k].id = id
              /\ \A j \in 1..Len(lines) :
                    lines[j].id = id => lines[j].ingestedAt <= lines[k].ingestedAt
<1> DEFINE P == {k \in 1..Len(lines) : lines[k].id = id}
           Over(j, k) == lines[j].ingestedAt > lines[k].ingestedAt
                         \/ (lines[j].ingestedAt = lines[k].ingestedAt /\ j < k)
           R == {p \in P \X P : Over(p[1], p[2])}
           Best(k) == \A j \in P : /\ j < k => Replaces(lines[k], lines[j])
                                   /\ j > k => ~Replaces(lines[j], lines[k])
<1>1. Len(lines) \in Nat /\ DOMAIN lines = 1..Len(lines)
  OBVIOUS
<1>2. \A k \in P : lines[k].ingestedAt \in Nat /\ k \in Nat
  OBVIOUS
<1>3. IsFiniteSet(P) /\ P # {}
  <2>1. IsFiniteSet(1..Len(lines))
    BY <1>1, FS_Interval
  <2> QED
    BY <2>1, FS_Subset DEF Ids
<1>4. PICK k \in P : \A j \in P : <<j, k>> \notin R
  <2>1. \A a \in P : <<a, a>> \notin R
    BY <1>2
  <2>2. \A a, b, c \in P : <<a, b>> \in R /\ <<b, c>> \in R => <<a, c>> \in R
    BY <1>2
  <2> HIDE DEF P, R
  <2> QED
    BY <1>3, <2>1, <2>2, FiniteMaximal
<1>5. \A j \in P : ~Over(j, k)
  BY <1>4
<1>6. Best(k)
  BY <1>2, <1>5 DEF Replaces
<1> DEFINE Chosen == CHOOSE n \in DOMAIN lines :
                        /\ lines[n].id = id
                        /\ \A j \in DOMAIN lines : lines[j].id = id =>
                              /\ j < n => Replaces(lines[n], lines[j])
                              /\ j > n => ~Replaces(lines[j], lines[n])
<1>7. Chosen \in P /\ Best(Chosen)
  <2>1. \E n \in DOMAIN lines :
           /\ lines[n].id = id
           /\ \A j \in DOMAIN lines : lines[j].id = id =>
                 /\ j < n => Replaces(lines[n], lines[j])
                 /\ j > n => ~Replaces(lines[j], lines[n])
    BY <1>1, <1>6
  <2> QED
    BY <1>1, <2>1
<1>8. Found(lines, id) = lines[Chosen]
  BY DEF Found
<1> HIDE DEF Chosen
<1>9. \A j \in P : lines[j].ingestedAt <= lines[Chosen].ingestedAt
  BY <1>2, <1>7 DEF Replaces
<1> QED
  BY <1>7, <1>8, <1>9

\* More lines never make the document an older one.
LEMMA FoundGrows ==
    ASSUME NEW S, \A s \in S : s.ingestedAt \in Nat,
           NEW lines \in Seq(S), NEW more \in Seq(S), Len(more) >= Len(lines),
           \A i \in 1..Len(lines) : more[i] = lines[i],
           NEW id \in Ids(lines)
    PROVE  Found(more, id).ingestedAt >= Found(lines, id).ingestedAt
<1>1. PICK k \in 1..Len(lines) :
         /\ Found(lines, id) = lines[k]
         /\ lines[k].id = id
         /\ \A j \in 1..Len(lines) :
               lines[j].id = id => lines[j].ingestedAt <= lines[k].ingestedAt
  BY FoundIsLatest
<1>2. k \in 1..Len(more) /\ more[k] = lines[k]
  OBVIOUS
<1>3. id \in Ids(more)
  BY <1>1, <1>2 DEF Ids
<1>4. PICK n \in 1..Len(more) :
         /\ Found(more, id) = more[n]
         /\ \A j \in 1..Len(more) :
               more[j].id = id => more[j].ingestedAt <= more[n].ingestedAt
  BY <1>3, FoundIsLatest
<1> QED
  BY <1>1, <1>2, <1>4

\* Whatever command runs, the lines of the retrieval store stay and more come.
LEMMA DocsGrow ==
    ASSUME ReplayInv, [Next]_vars
    PROVE  /\ docs \in Seq(Records) /\ docs' \in Seq(Records')
           /\ Len(docs') >= Len(docs)
           /\ \A i \in 1..Len(docs) : docs'[i] = docs[i]
<1>1. docs \in Seq(Records) /\ docs' \in Seq(Records')
  BY ReplayStep DEF ReplayInv, TypeOK
<1>2. CASE UNCHANGED docs
  BY <1>1, <1>2
<1>3. CASE IndexLine /\ docs' = Append(docs, Head(idx.buffer))
  BY <1>1, <1>3
<1>4. UNCHANGED docs \/ (IndexLine /\ docs' = Append(docs, Head(idx.buffer)))
  <2>1. CASE Ingest
    BY <2>1 DEF Ingest, StartIngest, IngestFile, PublishRaw, EndIngest, IngestOnly
  <2>2. CASE Normalize
    BY <2>2 DEF Normalize, StartNormalize, Replay, WriteUnified, Project, Announce,
                EndNormalize, NormalizeOnly
  <2>3. CASE Index
    BY <2>3 DEF Index, StartIndex, Scan, IndexLine, EndIndex
  <2>4. CASE UNCHANGED vars
    BY <2>4 DEF vars
  <2> QED
    BY <2>1, <2>2, <2>3, <2>4 DEF Next
<1> QED
  BY <1>2, <1>3, <1>4, <1>1

\* A search never returns an older ingestion of an event than it returned
\* before, for any files, any number of runs and any overlap of the commands.
THEOREM SearchNeverGoesBackCorrect == Spec => SearchNeverGoesBack
<1> DEFINE Forward == \A id \in Ids(docs) : Found(docs', id).ingestedAt >= Found(docs, id).ingestedAt
<1>1. ReplayInv /\ [Next]_vars => Forward
  <2> SUFFICES ASSUME ReplayInv, [Next]_vars, NEW id \in Ids(docs)
               PROVE  Found(docs', id).ingestedAt >= Found(docs, id).ingestedAt
    OBVIOUS
  <2>1. ReplayInv'
    BY ReplayStep
  <2> DEFINE T == Records \cup Records'
  <2>2. \A r \in T : r.ingestedAt \in Nat
    <3>1. clock \in Nat /\ clock' \in Nat
      BY <2>1 DEF ReplayInv, TypeOK
    <3> QED
      BY <3>1 DEF Records, Record
  <2> HIDE DEF T
  <2>3. docs \in Seq(T) /\ docs' \in Seq(T)
    BY DocsGrow DEF T
  <2> QED
    BY <2>2, <2>3, DocsGrow, FoundGrows
<1>2. ReplayInv /\ [Next]_vars => [Forward]_vars
  BY <1>1
<1> QED
  BY <1>2, ReplayInit, ReplayStep, PTL DEF Spec, SearchNeverGoesBack
=============================================================================
