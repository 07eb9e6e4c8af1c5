--------------------------- MODULE Serving_proofs ---------------------------
(***************************************************************************)
(* Proofs about Serving, for any clients, numbers of questions, deadlines  *)
(* and failures.                                                           *)
(***************************************************************************)
EXTENDS Serving, TLAPS, SequenceTheorems

ClientStep(c) ==
    Handler(c) \/ Connect(c) \/ Ask(c) \/ Post(c) \/ Leave(c) \/ Tick(c)

\* A question that was asked has a run of its own.
LEMMA QuestionType ==
    ASSUME TypeOK, NEW c \in Clients, NEW q \in 1..asked[c]
    PROVE  q \in Questions
<1>1. asked[c] \in Nat /\ MaxAsks[c] \in Nat /\ asked[c] <= MaxAsks[c]
  BY ServingAssumption DEF TypeOK
<1> QED
  BY <1>1 DEF Questions

\* What Deliver does: the client may be told, and its handler goes on or ends.
LEMMA DeliverType ==
    ASSUME TypeOK, NEW c \in Clients, NEW q \in 1..asked[c], NEW answer,
           [answer EXCEPT !.question = q] \in AnswerShape,
           Deliver(c, q, answer)
    PROVE  /\ \/ told' = told
              \/ told' = [told EXCEPT ![c] = Append(@, [answer EXCEPT !.question = q])]
           /\ \/ pc' = [pc EXCEPT ![c] = "reading"] /\ read' = [read EXCEPT ![c] = q]
                 /\ link' = link /\ Chat(c)
              \/ pc' = [pc EXCEPT ![c] = "none"] /\ read' = [read EXCEPT ![c] = asked[c]]
                 /\ link' = [link EXCEPT ![c] = "none"]
           /\ told' \in [Clients -> Seq(AnswerShape)]
           /\ read' \in [Clients -> Nat] /\ \A d \in Clients : read'[d] <= asked[d]
<1>1. q \in Nat /\ asked[c] \in Nat /\ q <= asked[c]
  BY DEF TypeOK
<1>2. /\ \/ told' = told
         \/ told' = [told EXCEPT ![c] = Append(@, [answer EXCEPT !.question = q])]
      /\ \/ pc' = [pc EXCEPT ![c] = "reading"] /\ read' = [read EXCEPT ![c] = q]
            /\ link' = link /\ Chat(c)
         \/ pc' = [pc EXCEPT ![c] = "none"] /\ read' = [read EXCEPT ![c] = asked[c]]
            /\ link' = [link EXCEPT ![c] = "none"]
  BY DEF Deliver, GoTo, HangUp
<1>3. told' \in [Clients -> Seq(AnswerShape)]
  <2>1. told \in [Clients -> Seq(AnswerShape)]
    BY DEF TypeOK
  <2>2. Append(told[c], [answer EXCEPT !.question = q]) \in Seq(AnswerShape)
    BY <2>1
  <2> QED
    BY <1>2, <2>1, <2>2
<1>4. read' \in [Clients -> Nat] /\ \A d \in Clients : read'[d] <= asked[d]
  <2>1. /\ read \in [Clients -> Nat] /\ \A d \in Clients : read[d] <= asked[d]
        /\ \A d \in Clients : asked[d] \in Nat
    BY DEF TypeOK
  <2> QED
    BY <1>1, <1>2, <2>1
<1> QED
  BY <1>2, <1>3, <1>4

\* What TakeBad and Answer write is an answer.
LEMMA AnswerType ==
    ASSUME TypeOK, NEW c \in Clients, NEW q \in Questions
    PROVE  /\ \A status \in {"none", "running", "failed", "completed"} :
                 [Error(status) EXCEPT !.question = q] \in AnswerShape
           /\ LET result == outcome[c] IN
              [[question |-> 0, kind |-> "result", status |-> result.status,
                whole |-> result.whole \/ ~InWords(c)] EXCEPT !.question = q] \in AnswerShape
BY DEF Error, AnswerShape, TypeOK

\* The parts of TypeOK that a step of a client can disturb.
CountsOK ==
    /\ asked \in [Clients -> Nat] /\ \A d \in Clients : asked[d] <= MaxAsks[d]
    /\ read \in [Clients -> Nat] /\ \A d \in Clients : read[d] <= asked[d]

PlacesOK ==
    /\ link \in [Clients -> {"none", "open", "gone"}]
    /\ pc \in [Clients -> InWork \cup {"none", "welcome", "reading"}]
    /\ route \in [Clients -> {"chat", "a2a", "http"}]

WorkOK ==
    /\ steps \in [Clients -> Int]
    /\ age \in [Clients -> 0..MaxAge]
    /\ runs \in [Clients -> [Questions -> {"absent", "running", "failed", "completed"}]]
    /\ outcome \in [Clients -> [status : {"none", "running", "failed", "completed"},
                                err : BOOLEAN, whole : BOOLEAN]]

HistoryOK ==
    /\ late \cup left \cup cut \cup unsaved \subseteq Clients \X Questions
    /\ failures \in 0..MaxFailures

LEMMA TypeParts ==
    TypeOK <=> /\ CountsOK /\ PlacesOK /\ WorkOK /\ HistoryOK
               /\ server \in {"serving", "draining", "exited"}
               /\ told \in [Clients -> Seq(AnswerShape)]
BY DEF TypeOK, CountsOK, PlacesOK, WorkOK, HistoryOK

LEMMA TypePartsNext ==
    TypeOK' <=> /\ CountsOK' /\ PlacesOK' /\ WorkOK' /\ HistoryOK'
                /\ server' \in {"serving", "draining", "exited"}
                /\ told' \in [Clients -> Seq(AnswerShape)]
BY DEF TypeOK, CountsOK, PlacesOK, WorkOK, HistoryOK

\* Where a handler goes.
LEMMA GoToPlaces ==
    ASSUME PlacesOK, NEW c \in Clients,
           \/ UNCHANGED pc
           \/ \E place \in InWork \cup {"none", "welcome", "reading"} : pc' = [pc EXCEPT ![c] = place],
           \/ UNCHANGED link
           \/ \E l \in {"none", "open", "gone"} : link' = [link EXCEPT ![c] = l],
           \/ UNCHANGED route
           \/ \E r \in {"chat", "a2a", "http"} : route' = [route EXCEPT ![c] = r]
    PROVE  PlacesOK'
BY DEF PlacesOK

\* How far the handler has read, and the client asked.
LEMMA CountSteps ==
    ASSUME CountsOK, NEW c \in Clients,
           \/ UNCHANGED asked /\ UNCHANGED read
           \/ UNCHANGED asked /\ read' = [read EXCEPT ![c] = asked[c]]
           \/ UNCHANGED asked /\ read[c] < asked[c] /\ read' = [read EXCEPT ![c] = @ + 1]
           \/ UNCHANGED read /\ asked[c] < MaxAsks[c] /\ asked' = [asked EXCEPT ![c] = @ + 1]
    PROVE  CountsOK'
<1>1. MaxAsks \in [Clients -> Nat]
  BY ServingAssumption
<1> QED
  BY <1>1 DEF CountsOK

\* A connection has a handler and the handler the question it works on; the
\* one of a post has a single question.
Place(c) ==
    /\ link[c] = "none" => pc[c] = "none" /\ (server # "exited" => read[c] = asked[c])
    /\ link[c] # "none" /\ ~Chat(c) => asked[c] >= 1
    /\ pc[c] \in InWork => read[c] >= 1
    /\ pc[c] \in InWork /\ ~Chat(c) => read[c] = asked[c]
    /\ pc[c] = "reading" /\ ~Chat(c) => asked[c] = read[c] + 1
    /\ pc[c] \in {"welcome", "echo"} => Chat(c)

PlaceInv == TypeOK /\ \A c \in Clients : Place(c)

\* The question in work is one.
LEMMA CurrentType ==
    ASSUME PlaceInv, NEW c \in Clients
    PROVE  /\ pc[c] \in InWork => read[c] \in Questions /\ read[c] \in 1..asked[c]
           /\ link[c] # "none" /\ ~Chat(c) => asked[c] \in Questions
<1>1. asked[c] \in Nat /\ read[c] \in Nat /\ read[c] <= asked[c]
  BY DEF PlaceInv, TypeOK
<1> QED
  BY <1>1, QuestionType DEF PlaceInv, Place

\* What a save leaves behind, made or failed.
LEMMA SaveType ==
    ASSUME WorkOK, HistoryOK, NEW c \in Clients, read[c] \in Questions,
           NEW status \in {"running", "failed", "completed"},
           Saves(c, status) \/ SaveFails(c, status),
           UNCHANGED <<late, left, cut>>
    PROVE  /\ runs' \in [Clients -> [Questions -> {"absent", "running", "failed", "completed"}]]
           /\ HistoryOK'
<1>1. runs' = runs \/ runs' = [runs EXCEPT ![c][read[c]] = status]
  BY DEF Saves, SaveFails
<1>2. runs \in [Clients -> [Questions -> {"absent", "running", "failed", "completed"}]]
  BY DEF WorkOK
<1>3. runs' \in [Clients -> [Questions -> {"absent", "running", "failed", "completed"}]]
  <2>1. [runs[c] EXCEPT ![read[c]] = status] \in [Questions -> {"absent", "running", "failed", "completed"}]
    BY <1>2
  <2> QED
    BY <1>1, <1>2, <2>1
<1>4. \/ UNCHANGED <<unsaved, failures>>
      \/ failures < MaxFailures /\ failures' = failures + 1 /\ unsaved' = unsaved \cup {<<c, read[c]>>}
  BY DEF Saves, SaveFails, Current
<1>5. failures' \in 0..MaxFailures
  BY <1>4, ServingAssumption DEF HistoryOK
<1>6. unsaved' \subseteq Clients \X Questions
  BY <1>4 DEF HistoryOK
<1> QED
  BY <1>3, <1>5, <1>6 DEF HistoryOK

\* What a step of an investigation does: a save, and the handler goes on to the
\* run or to its answer.
LEMMA InvestigationStep ==
    ASSUME WorkOK, NEW c \in Clients, Begin(c) \/ Complete(c) \/ Fail(c)
    PROVE  /\ UNCHANGED <<server, route, link, asked, read, steps, age, told, late, left, cut>>
           /\ pc[c] \in InWork
           /\ \E place \in InWork : pc' = [pc EXCEPT ![c] = place]
           /\ outcome' \in [Clients -> [status : {"none", "running", "failed", "completed"},
                                        err : BOOLEAN, whole : BOOLEAN]]
           /\ \E status \in {"running", "failed", "completed"} : Saves(c, status) \/ SaveFails(c, status)
<1>0. outcome \in [Clients -> [status : {"none", "running", "failed", "completed"},
                               err : BOOLEAN, whole : BOOLEAN]]
  BY DEF WorkOK
<1>1. ASSUME NEW status \in {"none", "running", "failed", "completed"},
             NEW err \in BOOLEAN, NEW whole \in BOOLEAN, Returns(c, status, err, whole)
      PROVE  /\ pc' = [pc EXCEPT ![c] = "answer"]
             /\ outcome' \in [Clients -> [status : {"none", "running", "failed", "completed"},
                                          err : BOOLEAN, whole : BOOLEAN]]
  <2>1. [status |-> status, err |-> err, whole |-> whole]
            \in [status : {"none", "running", "failed", "completed"}, err : BOOLEAN, whole : BOOLEAN]
    OBVIOUS
  <2> QED
    BY <1>0, <1>1, <2>1 DEF Returns, GoTo
<1>2. CASE Begin(c)
  <2>1. \/ Saves(c, "running") /\ pc' = [pc EXCEPT ![c] = "running"] /\ outcome' = outcome
        \/ SaveFails(c, "running") /\ Returns(c, "none", TRUE, FALSE)
    BY <1>2 DEF Begin, GoTo
  <2> QED
    BY <1>0, <1>1, <1>2, <2>1 DEF Begin, InWork, clients
<1>3. CASE Complete(c)
  <2>1. PICK phases \in PhasesOfPlan :
           LET whole == EvidenceBudget(steps[c]) >= phases IN
           \/ Saves(c, "completed") /\ Returns(c, "completed", FALSE, whole)
           \/ SaveFails(c, "completed") /\ Returns(c, "completed", TRUE, whole)
    BY <1>3 DEF Complete
  <2>2. (EvidenceBudget(steps[c]) >= phases) \in BOOLEAN
    OBVIOUS
  <2> QED
    BY <1>1, <1>3, <2>1, <2>2 DEF Complete, InWork, clients
<1>4. CASE Fail(c)
  BY <1>1, <1>4 DEF Fail, InWork, clients
<1> QED
  BY <1>2, <1>3, <1>4

\* Every step of a client keeps the types.
LEMMA ClientTypeStep == ASSUME PlaceInv, NEW c \in Clients, ClientStep(c) PROVE TypeOK'
<1>0. /\ CountsOK /\ PlacesOK /\ WorkOK /\ HistoryOK
      /\ server \in {"serving", "draining", "exited"} /\ told \in [Clients -> Seq(AnswerShape)]
  BY TypeParts DEF PlaceInv
<1>1. CASE Connect(c) \/ Ask(c) \/ Welcome(c) \/ ReadFails(c)
  <2>1. UNCHANGED <<server, steps, age, outcome, runs, told, history>>
    BY <1>1 DEF Connect, Ask, Welcome, ReadFails, work
  <2>2. PlacesOK'
    BY <1>0, <1>1, GoToPlaces DEF Connect, Ask, Welcome, ReadFails, GoTo, HangUp
  <2>3. CountsOK'
    BY <1>0, <1>1, CountSteps DEF Connect, Ask, Welcome, ReadFails, HangUp, work
  <2> QED
    BY <1>0, <2>1, <2>2, <2>3, TypePartsNext DEF WorkOK, HistoryOK, history
<1>2. CASE Post(c)
  <2>1. UNCHANGED <<server, steps, outcome, runs, told, history>>
    BY <1>2 DEF Post
  <2>2. PlacesOK'
    BY <1>0, <1>2, GoToPlaces DEF Post, GoTo
  <2>3. CountsOK'
    BY <1>0, <1>2, CountSteps DEF Post
  <2>4. age' = [age EXCEPT ![c] = 0] /\ 0 \in 0..MaxAge
    BY <1>2, ServingAssumption DEF Post
  <2> QED
    BY <1>0, <2>1, <2>2, <2>3, <2>4, TypePartsNext DEF WorkOK, HistoryOK, history
<1>3. CASE Leave(c)
  <2>1. UNCHANGED <<server, asked, read, steps, age, outcome, runs, told, late, cut, unsaved, failures>>
    BY <1>3 DEF Leave, work
  <2>2. PlacesOK'
    BY <1>0, <1>3, GoToPlaces DEF Leave
  <2>3. left' = left \/ (left' = left \cup {<<c, asked[c]>>} /\ asked[c] \in Questions)
    <3>1. CASE Chat(c)
      BY <1>3, <3>1 DEF Leave
    <3>2. CASE ~Chat(c)
      <4>1. link[c] # "none" /\ left' = left \cup {<<c, asked[c]>>}
        BY <1>3, <3>2 DEF Leave
      <4> QED
        BY <3>2, <4>1, CurrentType
    <3> QED
      BY <3>1, <3>2
  <2>4. HistoryOK'
    BY <1>0, <2>1, <2>3 DEF HistoryOK
  <2>5. CountsOK' /\ WorkOK'
    BY <1>0, <2>1 DEF CountsOK, WorkOK
  <2> QED
    BY <1>0, <2>1, <2>2, <2>4, <2>5, TypePartsNext
<1>4. CASE TakeGood(c)
  <2>1. UNCHANGED <<server, route, link, asked, age, outcome, runs, told, history>>
    BY <1>4 DEF TakeGood, clients
  <2>2. PlacesOK'
    BY <1>0, <1>4, GoToPlaces DEF TakeGood, GoTo, InWork, clients
  <2>3. CountsOK'
    BY <1>0, <1>4, CountSteps DEF TakeGood, clients
  <2>4. PICK n \in StepsAsked : steps' = [steps EXCEPT ![c] = BuildRunRequest(c, n)]
    BY <1>4 DEF TakeGood
  <2>5. BuildRunRequest(c, n) \in Int
    BY ServingAssumption DEF BuildRunRequest, MinMaxSteps
  <2> QED
    BY <1>0, <2>1, <2>2, <2>3, <2>4, <2>5, TypePartsNext DEF WorkOK, HistoryOK, history
<1>5. CASE Echo(c)
  <2>1. UNCHANGED <<server, route, asked, steps, outcome, runs, told, history>>
    BY <1>5 DEF Echo
  <2>2. PlacesOK'
    BY <1>0, <1>5, GoToPlaces DEF Echo, GoTo, HangUp, InWork
  <2>3. CountsOK'
    BY <1>0, <1>5, CountSteps DEF Echo, HangUp
  <2>4. age' = [age EXCEPT ![c] = 0] /\ 0 \in 0..MaxAge
    BY <1>5, ServingAssumption DEF Echo
  <2> QED
    BY <1>0, <2>1, <2>2, <2>3, <2>4, TypePartsNext DEF WorkOK, HistoryOK, history
<1>6. CASE TakeBad(c)
  <2>1. read[c] + 1 \in 1..asked[c]
    BY <1>0, <1>6 DEF TakeBad, CountsOK
  <2>2. [Error("none") EXCEPT !.question = read[c] + 1] \in AnswerShape
    BY <2>1, QuestionType, AnswerType DEF PlaceInv
  <2>3. Deliver(c, read[c] + 1, Error("none")) /\ UNCHANGED <<server, route, asked, steps, age, outcome, runs, history>>
    BY <1>6 DEF TakeBad
  <2>4. told' \in [Clients -> Seq(AnswerShape)] /\ CountsOK' /\ PlacesOK'
    BY <1>0, <2>1, <2>2, <2>3, DeliverType, GoToPlaces DEF CountsOK, PlaceInv
  <2> QED
    BY <1>0, <2>3, <2>4, TypePartsNext DEF WorkOK, HistoryOK, history
<1>7. CASE Answer(c)
  <2>1. read[c] \in 1..asked[c] /\ read[c] \in Questions
    BY <1>7, CurrentType DEF Answer, InWork
  <2>2. PICK answer : /\ [answer EXCEPT !.question = read[c]] \in AnswerShape
                      /\ Deliver(c, read[c], answer)
    <3>1. outcome[c].status \in {"none", "running", "failed", "completed"}
      BY <1>0 DEF WorkOK
    <3> QED
      BY <1>7, <2>1, <3>1, AnswerType DEF Answer, PlaceInv
  <2>3. UNCHANGED <<server, route, asked, steps, age, outcome, runs, history>>
    BY <1>7 DEF Answer
  <2>4. told' \in [Clients -> Seq(AnswerShape)] /\ CountsOK' /\ PlacesOK'
    BY <1>0, <2>1, <2>2, <2>3, DeliverType, GoToPlaces DEF CountsOK, PlaceInv
  <2> QED
    BY <1>0, <2>3, <2>4, TypePartsNext DEF WorkOK, HistoryOK, history
<1>8. CASE Begin(c) \/ Complete(c) \/ Fail(c)
  <2>1. /\ UNCHANGED <<server, route, link, asked, read, steps, age, told, late, left, cut>>
        /\ pc[c] \in InWork
        /\ \E place \in InWork : pc' = [pc EXCEPT ![c] = place]
        /\ outcome' \in [Clients -> [status : {"none", "running", "failed", "completed"},
                                     err : BOOLEAN, whole : BOOLEAN]]
    BY <1>0, <1>8, InvestigationStep
  <2>2. read[c] \in Questions
    BY <2>1, CurrentType
  <2>3. PICK status \in {"running", "failed", "completed"} : Saves(c, status) \/ SaveFails(c, status)
    BY <1>0, <1>8, InvestigationStep
  <2>4. /\ runs' \in [Clients -> [Questions -> {"absent", "running", "failed", "completed"}]]
        /\ HistoryOK'
    BY <1>0, <2>1, <2>2, <2>3, SaveType
  <2>5. PlacesOK'
    BY <1>0, <2>1, GoToPlaces
  <2> QED
    BY <1>0, <2>1, <2>4, <2>5, TypePartsNext DEF WorkOK, CountsOK
<1>9. CASE Tick(c)
  <2>1. /\ UNCHANGED <<server, route, link, asked, pc, read, steps, outcome, runs, told, left, cut, unsaved, failures>>
        /\ pc[c] \in InWork /\ age[c] < MaxAge /\ age' = [age EXCEPT ![c] = @ + 1]
        /\ late' = late \/ late' = late \cup {<<c, read[c]>>}
    BY <1>9 DEF Tick, clients, InWork, Current
  <2>2. age' \in [Clients -> 0..MaxAge]
    <3>1. age \in [Clients -> 0..MaxAge] /\ MaxAge \in Nat
      BY <1>0, ServingAssumption DEF WorkOK
    <3>2. age[c] + 1 \in 0..MaxAge
      BY <2>1, <3>1
    <3> QED
      BY <2>1, <3>1, <3>2
  <2>3. read[c] \in Questions
    BY <2>1, CurrentType
  <2>4. HistoryOK'
    BY <1>0, <2>1, <2>3 DEF HistoryOK
  <2> QED
    BY <1>0, <2>1, <2>2, <2>4, TypePartsNext DEF WorkOK, CountsOK, PlacesOK
<1> QED
  BY <1>1, <1>2, <1>3, <1>4, <1>5, <1>6, <1>7, <1>8, <1>9 DEF ClientStep, Handler

\* A step of one client leaves the others alone; what history remembers it
\* keeps, and adds to only for that client.
LEMMA OthersStep ==
    ASSUME PlaceInv, NEW c \in Clients, ClientStep(c), NEW d \in Clients, d # c
    PROVE  /\ link'[d] = link[d] /\ pc'[d] = pc[d] /\ route'[d] = route[d]
           /\ asked'[d] = asked[d] /\ read'[d] = read[d] /\ steps'[d] = steps[d]
           /\ age'[d] = age[d] /\ runs'[d] = runs[d]
           /\ outcome'[d] = outcome[d] /\ told'[d] = told[d]
<1>0. /\ CountsOK /\ PlacesOK /\ WorkOK /\ told \in [Clients -> Seq(AnswerShape)]
  BY TypeParts DEF PlaceInv
<1>1. CASE Connect(c) \/ Ask(c) \/ Post(c) \/ Leave(c) \/ Tick(c)
  BY <1>0, <1>1 DEF Connect, Ask, Post, Leave, Tick, GoTo, work, clients, CountsOK, PlacesOK, WorkOK
<1>2. CASE Welcome(c) \/ ReadFails(c) \/ Echo(c) \/ TakeGood(c)
  BY <1>0, <1>2 DEF Welcome, ReadFails, Echo, TakeGood, GoTo, HangUp, clients, CountsOK, PlacesOK, WorkOK
<1>3. ASSUME NEW q, NEW answer, Deliver(c, q, answer),
             UNCHANGED <<server, route, asked, steps, age, outcome, runs, history>>
      PROVE  /\ link'[d] = link[d] /\ pc'[d] = pc[d] /\ route'[d] = route[d]
             /\ asked'[d] = asked[d] /\ read'[d] = read[d] /\ steps'[d] = steps[d]
             /\ age'[d] = age[d] /\ runs'[d] = runs[d]
             /\ outcome'[d] = outcome[d] /\ told'[d] = told[d]
  BY <1>0, <1>3 DEF Deliver, GoTo, HangUp, CountsOK, PlacesOK, WorkOK
<1>4. CASE TakeBad(c) \/ Answer(c)
  BY <1>3, <1>4 DEF TakeBad, Answer
<1>5. CASE Begin(c) \/ Complete(c) \/ Fail(c)
  <2>1. /\ UNCHANGED <<route, link, asked, read, steps, age, told>>
        /\ \E place \in InWork : pc' = [pc EXCEPT ![c] = place]
    BY <1>0, <1>5, InvestigationStep
  <2>2. outcome'[d] = outcome[d]
    BY <1>0, <1>5 DEF Begin, Complete, Fail, Returns, WorkOK
  <2>3. PICK status \in {"running", "failed", "completed"} : Saves(c, status) \/ SaveFails(c, status)
    BY <1>0, <1>5, InvestigationStep
  <2>4. runs'[d] = runs[d]
    BY <1>0, <2>3 DEF Saves, SaveFails, WorkOK
  <2> QED
    BY <1>0, <2>1, <2>2, <2>4 DEF PlacesOK
<1> QED
  BY <1>1, <1>2, <1>4, <1>5 DEF ClientStep, Handler

\* The process serves on, and what history remembers stays.
LEMMA HistoryStep ==
    ASSUME PlaceInv, NEW c \in Clients, ClientStep(c)
    PROVE  /\ server' = server /\ cut' = cut
           /\ late \subseteq late' /\ left \subseteq left' /\ unsaved \subseteq unsaved'
<1>0. WorkOK
  BY TypeParts DEF PlaceInv
<1>1. CASE Connect(c) \/ Ask(c) \/ Post(c) \/ Leave(c) \/ Tick(c)
  BY <1>1 DEF Connect, Ask, Post, Leave, Tick, history
<1>2. CASE Welcome(c) \/ ReadFails(c) \/ Echo(c) \/ TakeGood(c) \/ TakeBad(c) \/ Answer(c)
  BY <1>2 DEF Welcome, ReadFails, Echo, TakeGood, TakeBad, Answer, history
<1>3. CASE Begin(c) \/ Complete(c) \/ Fail(c)
  <2>1. PICK status \in {"running", "failed", "completed"} : Saves(c, status) \/ SaveFails(c, status)
    BY <1>0, <1>3, InvestigationStep
  <2>2. unsaved \subseteq unsaved'
    BY <2>1 DEF Saves, SaveFails
  <2> QED
    BY <1>0, <1>3, <2>2, InvestigationStep
<1> QED
  BY <1>1, <1>2, <1>3 DEF ClientStep, Handler

\* How an answer ends: the handler of a conversation reads on from the question,
\* or the connection is closed.
LEMMA DeliverEnds ==
    ASSUME PlaceInv, NEW c \in Clients, NEW q \in 1..asked[c], NEW answer,
           Deliver(c, q, answer)
    PROVE  \/ /\ Chat(c) /\ pc'[c] = "reading" /\ read'[c] = q /\ link'[c] = link[c]
           \/ pc'[c] = "none" /\ read'[c] = asked[c] /\ link'[c] = "none"
<1>0. /\ link \in [Clients -> {"none", "open", "gone"}] /\ read \in [Clients -> Nat]
      /\ pc \in [Clients -> InWork \cup {"none", "welcome", "reading"}]
  BY DEF PlaceInv, TypeOK
<1> QED
  BY <1>0 DEF Deliver, GoTo, HangUp

\* The acting client's connection, handler and question keep fitting together.
LEMMA PlaceStep == ASSUME PlaceInv, NEW c \in Clients, ClientStep(c) PROVE Place(c)'
<1>0. CountsOK /\ PlacesOK /\ WorkOK
  BY TypeParts DEF PlaceInv
<1>1. Place(c) /\ server' = server
  BY HistoryStep DEF PlaceInv
<1>2. asked[c] \in Nat /\ read[c] \in Nat /\ read[c] <= asked[c]
  BY <1>0 DEF CountsOK
<1>3. CASE Connect(c) \/ Leave(c) \/ Ask(c)
  BY <1>0, <1>1, <1>2, <1>3 DEF Connect, Leave, Ask, GoTo, Place, PlacesOK, CountsOK, Chat, InWork, work
<1>4. CASE Post(c)
  <2>1. /\ link[c] = "none" /\ read[c] = asked[c]
        /\ link'[c] = "open" /\ pc'[c] = "reading" /\ asked'[c] = asked[c] + 1
        /\ read'[c] = read[c]
    BY <1>0, <1>1, <1>4 DEF Post, GoTo, Place, PlacesOK, CountsOK
  <2> QED
    BY <1>1, <1>2, <2>1 DEF Place, InWork, Chat
<1>5. CASE Tick(c)
  BY <1>1, <1>5 DEF Tick, Place, clients, Chat
<1>6. CASE TakeGood(c)
  <2>1. /\ pc[c] = "reading" /\ read[c] < asked[c] /\ read'[c] = read[c] + 1
        /\ pc'[c] = IF Chat(c) THEN "echo" ELSE "begin"
        /\ link' = link /\ route' = route /\ asked' = asked
    BY <1>0, <1>6 DEF TakeGood, GoTo, PlacesOK, CountsOK, clients
  <2> QED
    BY <1>1, <1>2, <2>1 DEF Place, InWork, Chat
<1>7. CASE Welcome(c) \/ Echo(c) \/ ReadFails(c)
  <2>1. /\ route' = route /\ asked' = asked /\ Chat(c) /\ pc[c] # "none"
        /\ \/ pc[c] = "welcome" /\ pc'[c] = "reading" /\ link' = link /\ read' = read
           \/ pc[c] = "echo" /\ pc'[c] = "begin" /\ link' = link /\ read' = read
           \/ pc'[c] = "none" /\ link'[c] = "none" /\ read'[c] = asked[c]
    BY <1>0, <1>1, <1>7 DEF Welcome, Echo, ReadFails, GoTo, HangUp, Place, PlacesOK, CountsOK, clients
  <2> QED
    BY <1>1, <1>2, <2>1 DEF Place, InWork, Chat
<1>8. CASE TakeBad(c) \/ Answer(c)
  <2>1. PICK q \in 1..asked[c] : \E answer : Deliver(c, q, answer)
    <3>1. CASE TakeBad(c)
      <4>1. read[c] + 1 \in 1..asked[c] /\ Deliver(c, read[c] + 1, Error("none"))
        BY <1>2, <3>1 DEF TakeBad
      <4> QED
        BY <4>1
    <3>2. CASE Answer(c)
      <4>1. read[c] \in 1..asked[c]
        BY <3>2, CurrentType DEF Answer, InWork
      <4> QED
        BY <3>2, <4>1 DEF Answer
    <3> QED
      BY <1>8, <3>1, <3>2
  <2>2. \/ /\ Chat(c) /\ pc'[c] = "reading" /\ read'[c] = q /\ link'[c] = link[c]
        \/ pc'[c] = "none" /\ read'[c] = asked[c] /\ link'[c] = "none"
    BY <2>1, DeliverEnds
  <2>3. route' = route /\ asked' = asked /\ pc[c] # "none"
    BY <1>8 DEF TakeBad, Answer
  <2> QED
    BY <1>1, <1>2, <2>2, <2>3 DEF Place, InWork, Chat
<1>9. CASE Begin(c) \/ Complete(c) \/ Fail(c)
  <2>1. /\ UNCHANGED <<route, link, asked, read>> /\ pc[c] \in InWork
        /\ pc'[c] \in {"running", "answer"}
    BY <1>0, <1>9 DEF Begin, Complete, Fail, Returns, GoTo, PlacesOK, InWork, clients
  <2> QED
    BY <1>1, <2>1 DEF Place, InWork, Chat
<1> QED
  BY <1>3, <1>4, <1>5, <1>6, <1>7, <1>8, <1>9 DEF ClientStep, Handler

\* A step of the process: the signal, the exit that ends every handler, or none.
LEMMA ProcessStep ==
    ASSUME PlaceInv, Shutdown \/ Exit \/ UNCHANGED vars
    PROVE  /\ UNCHANGED <<route, asked, read, steps, age, runs, outcome, told, late, left, unsaved, failures>>
           /\ \/ /\ UNCHANGED <<link, pc, cut>>
                 /\ server' = server \/ (server = "serving" /\ server' = "draining")
              \/ /\ server' = "exited" /\ cut \subseteq cut' /\ cut' \subseteq Clients \X Questions
                 /\ \A c \in Clients : /\ link'[c] = "none" /\ pc'[c] = "none"
                                       /\ pc[c] \in InWork => Current(c) \in cut'
                 /\ link' \in [Clients -> {"none"}] /\ pc' \in [Clients -> {"none"}]
<1>1. CASE Shutdown
  BY <1>1 DEF Shutdown, clients, work, history
<1>2. CASE UNCHANGED vars
  BY <1>2 DEF vars, clients, work, history
<1>3. CASE Exit
  <2>1. \A c \in Clients : pc[c] \in InWork => Current(c) \in Clients \X Questions
    BY CurrentType DEF Current
  <2>2. cut \subseteq Clients \X Questions
    BY DEF PlaceInv, TypeOK
  <2>3. cut' = cut \cup {Current(c) : c \in {c \in Clients : pc[c] \in InWork}}
    BY <1>3 DEF Exit
  <2>4. cut \subseteq cut' /\ cut' \subseteq Clients \X Questions
    BY <2>1, <2>2, <2>3
  <2>5. \A c \in Clients : pc[c] \in InWork => Current(c) \in cut'
    BY <2>3
  <2> QED
    BY <1>3, <2>4, <2>5 DEF Exit, work
<1> QED
  BY <1>1, <1>2, <1>3

\* The types and the places, with every step.
LEMMA PlaceInvStep == ASSUME PlaceInv, [Next]_vars PROVE PlaceInv'
<1>1. CASE \E c \in Clients : ClientStep(c)
  <2>1. PICK c \in Clients : ClientStep(c)
    BY <1>1
  <2>2. \A d \in Clients : Place(d)'
    <3> TAKE d \in Clients
    <3>1. CASE d = c
      BY <2>1, <3>1, PlaceStep
    <3>2. CASE d # c
      BY <2>1, <3>2, OthersStep, HistoryStep DEF PlaceInv, Place, Chat
    <3> QED
      BY <3>1, <3>2
  <2> QED
    BY <2>1, <2>2, ClientTypeStep DEF PlaceInv
<1>2. CASE Shutdown \/ Exit \/ UNCHANGED vars
  <2>0. /\ TypeOK /\ \A c \in Clients : Place(c)
        /\ UNCHANGED <<route, asked, read, steps, age, runs, outcome, told, late, left, unsaved, failures>>
    BY <1>2, ProcessStep DEF PlaceInv
  <2>1. CASE /\ UNCHANGED <<link, pc, cut>>
             /\ server' = server \/ (server = "serving" /\ server' = "draining")
    <3>1. TypeOK'
      BY <2>0, <2>1 DEF TypeOK
    <3>2. \A c \in Clients : Place(c)'
      BY <2>0, <2>1 DEF Place, Chat
    <3> QED
      BY <3>1, <3>2 DEF PlaceInv
  <2>2. CASE /\ server' = "exited" /\ cut \subseteq cut' /\ cut' \subseteq Clients \X Questions
             /\ \A c \in Clients : link'[c] = "none" /\ pc'[c] = "none"
             /\ link' \in [Clients -> {"none"}] /\ pc' \in [Clients -> {"none"}]
    <3>1. TypeOK'
      <4>1. /\ link' \in [Clients -> {"none", "open", "gone"}]
            /\ pc' \in [Clients -> InWork \cup {"none", "welcome", "reading"}]
        BY <2>2
      <4>2. late' \cup left' \cup cut' \cup unsaved' \subseteq Clients \X Questions
        BY <2>0, <2>2 DEF TypeOK
      <4> QED
        BY <2>0, <2>2, <4>1, <4>2 DEF TypeOK
    <3>2. \A c \in Clients : Place(c)'
      BY <2>0, <2>2 DEF Place, Chat, InWork
    <3> QED
      BY <3>1, <3>2 DEF PlaceInv
  <2>3. \/ /\ UNCHANGED <<link, pc, cut>>
           /\ server' = server \/ (server = "serving" /\ server' = "draining")
        \/ /\ server' = "exited" /\ cut \subseteq cut' /\ cut' \subseteq Clients \X Questions
           /\ \A c \in Clients : /\ link'[c] = "none" /\ pc'[c] = "none"
                                 /\ pc[c] \in InWork => Current(c) \in cut'
           /\ link' \in [Clients -> {"none"}] /\ pc' \in [Clients -> {"none"}]
    BY <1>2, ProcessStep
  <2> QED
    BY <2>1, <2>2, <2>3
<1> QED
  BY <1>1, <1>2 DEF Next, ClientStep

-----------------------------------------------------------------------------
(* What the answers and the runs have in common *)

\* What holds of an answer for good: it is older than the question in work, so
\* no step of a handler touches its run again.
Settled(c, a) ==
    /\ a.question <= read[c] /\ (pc[c] \in InWork => a.question < read[c])
    /\ a.whole
    /\ a.kind = "result" => runs[c][a.question] = "completed"
    /\ a.status = "completed" => runs[c][a.question] # "failed"
    /\ a.status = "failed" => runs[c][a.question] # "completed"

AnswersInv(c) ==
    /\ \A i, j \in DOMAIN told[c] : i < j => told[c][i].question < told[c][j].question
    /\ \A i \in DOMAIN told[c] : Settled(c, told[c][i])

\* What holds of the question in work and of those that are still to come.
WorkInv(c) ==
    /\ \A q \in Questions : q > read[c] => runs[c][q] = "absent"
    /\ pc[c] \in {"echo", "begin"} => runs[c][read[c]] = "absent"
    /\ pc[c] = "running" => runs[c][read[c]] = "running"
    /\ pc[c] \in InWork /\ InWords(c) => steps[c] >= MinMaxSteps
    /\ pc[c] = "answer" =>
          /\ ~outcome[c].err => /\ outcome[c].status = "completed"
                                /\ runs[c][read[c]] = "completed"
                                /\ InWords(c) => outcome[c].whole
          /\ outcome[c].status = "completed" => runs[c][read[c]] # "failed"
          /\ outcome[c].status = "failed" => runs[c][read[c]] # "completed"

\* Why a run may be left running.
CauseInv(c) ==
    /\ ~Chat(c) /\ link[c] = "gone" => <<c, asked[c]>> \in left
    /\ ~Chat(c) /\ pc[c] = "reading" => age[c] < RunTimeout
    /\ pc[c] \in {"begin", "running"} /\ InWords(c) /\ age[c] >= RunTimeout => Current(c) \in late
    /\ \A q \in Questions :
          runs[c][q] = "running" /\ ~(q = read[c] /\ pc[c] = "running") =>
              <<c, q>> \in unsaved \cup late \cup left \cup cut

\* The inductive invariant.
Inv == PlaceInv /\ \A c \in Clients : AnswersInv(c) /\ WorkInv(c) /\ CauseInv(c)

\* A plan in words is run to its end.
LEMMA BudgetHoldsPlan ==
    ASSUME NEW n \in Int, n >= MinMaxSteps, NEW phases \in PhasesOfPlan
    PROVE  EvidenceBudget(n) >= phases
BY DEF EvidenceBudget, MinMaxSteps, PhasesOfPlan

\* Steps that write no answer keep the answers settled.
LEMMA AnswersKept ==
    ASSUME Inv, PlaceInv', NEW c \in Clients, told'[c] = told[c],
           read'[c] >= read[c],
           pc'[c] \in InWork => pc[c] \in InWork \/ read'[c] > read[c],
           \A q \in Questions :
               q <= read[c] /\ ~(q = read[c] /\ pc[c] \in InWork) => runs'[c][q] = runs[c][q]
    PROVE  AnswersInv(c)'
<1>1. /\ told[c] \in Seq(AnswerShape) /\ read[c] \in Nat /\ read'[c] \in Nat
  BY DEF Inv, PlaceInv, TypeOK
<1>2. AnswersInv(c)
  BY DEF Inv
<1>3. ASSUME NEW i \in DOMAIN told[c] PROVE Settled(c, told[c][i])'
  <2>1. told[c][i] \in AnswerShape /\ Settled(c, told[c][i]) /\ told'[c][i] = told[c][i]
    BY <1>1, <1>2 DEF AnswersInv
  <2>2. told[c][i].question \in Questions /\ told[c][i].question \in Nat
    BY <2>1 DEF AnswerShape, Questions
  <2>3. runs'[c][told[c][i].question] = runs[c][told[c][i].question]
    BY <1>1, <2>1, <2>2 DEF Settled
  <2> QED
    BY <1>1, <2>1, <2>2, <2>3 DEF Settled
<1> QED
  BY <1>2, <1>3 DEF AnswersInv

\* The elements of a sequence that was appended to.
LEMMA AppendShape ==
    ASSUME NEW S, NEW s \in Seq(S), NEW a \in S,
           NEW i \in DOMAIN Append(s, a)
    PROVE  /\ i \in Nat
           /\ \/ i = Len(s) + 1 /\ Append(s, a)[i] = a
              \/ i \in DOMAIN s /\ i <= Len(s) /\ Append(s, a)[i] = s[i]
BY AppendProperties, LenProperties

\* An answer to a later question than the others comes last, and is settled when
\* what it says of the run is so.
LEMMA AnswersGrow ==
    ASSUME Inv, PlaceInv', NEW c \in Clients, NEW a \in AnswerShape,
           told'[c] = Append(told[c], a), runs' = runs,
           a.question >= read[c], pc[c] \in InWork \/ a.question > read[c],
           read'[c] >= a.question, pc'[c] \notin InWork,
           a.whole, a.kind = "result" => runs[c][a.question] = "completed",
           a.status = "completed" => runs[c][a.question] # "failed",
           a.status = "failed" => runs[c][a.question] # "completed"
    PROVE  AnswersInv(c)'
<1>1. /\ told[c] \in Seq(AnswerShape) /\ read[c] \in Nat /\ read'[c] \in Nat
  BY DEF Inv, PlaceInv, TypeOK
<1>2. AnswersInv(c)
  BY DEF Inv
<1>3. a.question \in Nat
  BY DEF AnswerShape, Questions
<1>4. ASSUME NEW i \in DOMAIN told'[c]
      PROVE  /\ i \in Nat
             /\ \/ i = Len(told[c]) + 1 /\ told'[c][i] = a
                \/ i \in DOMAIN told[c] /\ i <= Len(told[c]) /\ told'[c][i] = told[c][i]
  BY <1>1, <1>4, AppendShape
<1>5. ASSUME NEW i \in DOMAIN told[c]
      PROVE  /\ told[c][i] \in AnswerShape /\ told[c][i].question \in Nat
             /\ told[c][i].question < a.question
             /\ Settled(c, told[c][i])
  <2>1. told[c][i] \in AnswerShape /\ Settled(c, told[c][i])
    BY <1>1, <1>2 DEF AnswersInv
  <2>2. told[c][i].question \in Nat
    BY <2>1 DEF AnswerShape, Questions
  <2> QED
    BY <1>1, <1>3, <2>1, <2>2 DEF Settled
<1>6. ASSUME NEW i \in DOMAIN told'[c], NEW j \in DOMAIN told'[c], i < j
      PROVE  told'[c][i].question < told'[c][j].question
  <2>1. i \in DOMAIN told[c] /\ told'[c][i] = told[c][i]
    BY <1>1, <1>4, <1>6, LenProperties
  <2>2. CASE told'[c][j] = a
    BY <1>5, <2>1, <2>2
  <2>3. CASE j \in DOMAIN told[c] /\ told'[c][j] = told[c][j]
    BY <1>2, <1>6, <2>1, <2>3 DEF AnswersInv
  <2> QED
    BY <1>4, <2>2, <2>3
<1>7. ASSUME NEW i \in DOMAIN told'[c] PROVE Settled(c, told[c][i])'
  <2>1. CASE told'[c][i] = a
    <3>1. a.question <= read'[c] /\ pc'[c] \notin InWork
      OBVIOUS
    <3> QED
      BY <2>1, <3>1 DEF Settled
  <2>2. CASE i \in DOMAIN told[c] /\ told'[c][i] = told[c][i]
    <3>1. told[c][i].question <= read'[c] /\ pc'[c] \notin InWork
      BY <1>1, <1>3, <1>5, <2>2
    <3> QED
      BY <1>5, <2>2, <3>1 DEF Settled
  <2> QED
    BY <1>4, <2>1, <2>2
<1> QED
  BY <1>6, <1>7 DEF AnswersInv

-----------------------------------------------------------------------------
(* The steps of a client, one group of actions at a time *)

\* The types of what a step reads of a client.
LEMMA TypesOf ==
    ASSUME TypeOK, NEW c \in Clients
    PROVE  /\ asked[c] \in Nat /\ read[c] \in Nat /\ read[c] <= asked[c]
           /\ steps[c] \in Int /\ age[c] \in Nat
           /\ pc[c] \in InWork \cup {"none", "welcome", "reading"}
           /\ link[c] \in {"none", "open", "gone"}
           /\ runs[c] \in [Questions -> {"absent", "running", "failed", "completed"}]
           /\ outcome[c] \in [status : {"none", "running", "failed", "completed"},
                              err : BOOLEAN, whole : BOOLEAN]
BY ServingAssumption DEF TypeOK

\* Steps without a run or an answer: a client comes, asks or leaves, a handler
\* starts, ends or goes on, time passes.
LEMMA QuietStep ==
    ASSUME Inv, PlaceInv', NEW c \in Clients,
           \/ Connect(c) \/ Ask(c) \/ Post(c) \/ Leave(c) \/ Tick(c)
           \/ Welcome(c) \/ ReadFails(c) \/ Echo(c)
    PROVE  (AnswersInv(c) /\ WorkInv(c) /\ CauseInv(c))'
<1>0. /\ CountsOK /\ PlacesOK /\ WorkOK /\ TypeOK /\ TypeOK' /\ Place(c) /\ Place(c)'
      /\ AnswersInv(c) /\ WorkInv(c) /\ CauseInv(c)
      /\ RunTimeout \in Nat \ {0}
  BY TypeParts, ServingAssumption DEF Inv, PlaceInv
<1>1. /\ runs' = runs /\ told' = told /\ steps' = steps /\ outcome' = outcome /\ cut' = cut
      /\ late \subseteq late' /\ left \subseteq left' /\ unsaved = unsaved'
  BY DEF Connect, Ask, Post, Leave, Tick, Welcome, ReadFails, Echo, history, work
<1>2. read'[c] = read[c] \/ (pc'[c] = "none" /\ read'[c] = asked[c])
  BY <1>0 DEF Connect, Ask, Post, Leave, Tick, Welcome, ReadFails, Echo, HangUp, GoTo, work, CountsOK, PlacesOK
<1>3. \/ pc'[c] = pc[c]
      \/ pc[c] \in {"none", "welcome"} /\ pc'[c] \in {"welcome", "reading"}
      \/ pc[c] = "echo" /\ pc'[c] = "begin"
      \/ pc'[c] = "none"
  BY <1>0 DEF Connect, Ask, Post, Leave, Tick, Welcome, ReadFails, Echo, HangUp, GoTo, work, Place, PlacesOK
<1>4. AnswersInv(c)'
  <2>1. read'[c] >= read[c] /\ (pc'[c] \in InWork => pc[c] \in InWork)
    BY <1>0, <1>2, <1>3, TypesOf DEF InWork
  <2> QED
    BY <1>1, <2>1, AnswersKept
<1>5. pc'[c] \in InWork => route'[c] = route[c] /\ read'[c] = read[c]
  <2>1. CASE Connect(c) \/ Post(c) \/ Welcome(c) \/ ReadFails(c)
    BY <1>0, <2>1 DEF Connect, Post, Welcome, ReadFails, HangUp, GoTo, PlacesOK, InWork
  <2>2. CASE Ask(c) \/ Leave(c) \/ Tick(c)
    BY <2>2 DEF Ask, Leave, Tick, clients, work
  <2>3. CASE Echo(c)
    BY <1>0, <2>3 DEF Echo, HangUp, GoTo, PlacesOK, InWork
  <2> QED
    BY <2>1, <2>2, <2>3
<1>6. WorkInv(c)'
  <2>1. \A q \in Questions : q > read'[c] => runs'[c][q] = "absent"
    <3>1. read'[c] >= read[c] /\ read[c] \in Nat /\ read'[c] \in Nat
      BY <1>0, <1>2, TypesOf
    <3> QED
      BY <1>0, <1>1, <3>1 DEF WorkInv, Questions
  <2>2. CASE pc'[c] \notin InWork
    BY <2>1, <2>2 DEF WorkInv, InWork
  <2>3. CASE pc'[c] \in InWork
    <3>1. (pc'[c] = pc[c] \/ (pc[c] = "echo" /\ pc'[c] = "begin")) /\ pc[c] \in InWork
      BY <1>3, <2>3 DEF InWork
    <3>2. /\ pc'[c] \in {"echo", "begin"} => runs'[c][read'[c]] = "absent"
          /\ pc'[c] = "running" => runs'[c][read'[c]] = "running"
          /\ route'[c] # "http" => steps'[c] >= MinMaxSteps
      BY <1>0, <1>1, <1>5, <2>3, <3>1 DEF WorkInv, InWords
    <3>3. pc'[c] = "answer" => pc[c] = "answer"
      BY <3>1
    <3> QED
      BY <1>0, <1>1, <1>5, <2>1, <2>3, <3>2, <3>3 DEF WorkInv, InWords
  <2> QED
    BY <2>2, <2>3
<1>7. CauseInv(c)'
  <2>1. (~Chat(c) /\ link[c] = "gone" => <<c, asked[c]>> \in left)'
    <3>1. CASE Leave(c)
      BY <1>0, <3>1 DEF Leave, Chat, PlacesOK
    <3>2. CASE Connect(c) \/ Post(c) \/ Ask(c)
      BY <1>0, <3>2 DEF Connect, Post, Ask, Chat, PlacesOK, CauseInv
    <3>3. CASE Tick(c) \/ Welcome(c) \/ ReadFails(c) \/ Echo(c)
      BY <1>0, <1>1, <3>3 DEF Tick, Welcome, ReadFails, Echo, HangUp, Chat, PlacesOK, CauseInv, clients
    <3> QED
      BY <3>1, <3>2, <3>3
  <2>2. (~Chat(c) /\ pc[c] = "reading" => age[c] < RunTimeout)'
    BY <1>0 DEF Connect, Ask, Post, Leave, Tick, Welcome, ReadFails, Echo, HangUp, GoTo, work, clients,
                Place, PlacesOK, WorkOK, Chat, CauseInv
  <2>3. (pc[c] \in {"begin", "running"} /\ InWords(c) /\ age[c] >= RunTimeout => Current(c) \in late)'
    <3>1. CASE Tick(c)
      BY <1>0, <3>1 DEF Tick, Current, InWords, clients, WorkOK
    <3>2. CASE Echo(c)
      BY <1>0, <3>2 DEF Echo, WorkOK
    <3>3. CASE Connect(c) \/ Post(c) \/ Welcome(c) \/ ReadFails(c)
      BY <1>0, <3>3 DEF Connect, Post, Welcome, ReadFails, HangUp, GoTo, PlacesOK
    <3>4. CASE Ask(c) \/ Leave(c)
      BY <1>0, <1>1, <3>4 DEF Ask, Leave, Current, InWords, work, CauseInv
    <3> QED
      BY <3>1, <3>2, <3>3, <3>4
  <2>4. ASSUME NEW q \in Questions, runs'[c][q] = "running", ~(q = read'[c] /\ pc'[c] = "running")
        PROVE  <<c, q>> \in unsaved' \cup late' \cup left' \cup cut'
    <3>1. ~(q = read[c] /\ pc[c] = "running")
      BY <1>0, <1>2, <2>4 DEF Connect, Ask, Post, Leave, Tick, Welcome, ReadFails, Echo, HangUp, GoTo,
                              work, Place, PlacesOK
    <3> QED
      BY <1>0, <1>1, <2>4, <3>1 DEF CauseInv
  <2> QED
    BY <2>1, <2>2, <2>3, <2>4 DEF CauseInv
<1> QED
  BY <1>4, <1>6, <1>7

\* A question is taken that can be run.
LEMMA TakeStep ==
    ASSUME Inv, PlaceInv', NEW c \in Clients, TakeGood(c)
    PROVE  (AnswersInv(c) /\ WorkInv(c) /\ CauseInv(c))'
<1>0. /\ CountsOK /\ PlacesOK /\ WorkOK /\ TypeOK /\ Place(c)
      /\ AnswersInv(c) /\ WorkInv(c) /\ CauseInv(c)
      /\ RunTimeout \in Nat \ {0}
  BY TypeParts, ServingAssumption DEF Inv, PlaceInv
<1>1. /\ runs' = runs /\ told' = told /\ route' = route /\ link' = link /\ asked' = asked
      /\ age' = age /\ UNCHANGED <<late, left, cut, unsaved>>
      /\ pc[c] = "reading" /\ read'[c] = read[c] + 1
      /\ pc'[c] = IF Chat(c) THEN "echo" ELSE "begin"
  BY <1>0 DEF TakeGood, GoTo, CountsOK, PlacesOK, clients, history
<1>2. read[c] \in Nat /\ read[c] < asked[c] /\ read[c] + 1 \in Questions
  <2>1. read[c] \in Nat /\ asked[c] \in Nat /\ read[c] < asked[c]
    BY <1>0, TypesOf DEF TakeGood
  <2>2. read[c] + 1 \in 1..asked[c]
    BY <2>1
  <2> QED
    BY <1>0, <2>1, <2>2, QuestionType
<1>3. AnswersInv(c)'
  BY <1>1, <1>2, AnswersKept
<1>4. WorkInv(c)'
  <2>1. PICK n \in StepsAsked : steps' = [steps EXCEPT ![c] = BuildRunRequest(c, n)]
    BY DEF TakeGood
  <2>2. InWords(c) => BuildRunRequest(c, n) >= MinMaxSteps
    BY ServingAssumption DEF BuildRunRequest, MinMaxSteps
  <2>3. InWords(c)' => steps'[c] >= MinMaxSteps
    BY <1>0, <1>1, <2>1, <2>2 DEF WorkOK, InWords
  <2>4. \A q \in Questions : q > read'[c] => runs'[c][q] = "absent"
    BY <1>0, <1>1, <1>2 DEF WorkInv, Questions
  <2>5. runs'[c][read'[c]] = "absent"
    BY <1>0, <1>1, <1>2 DEF WorkInv
  <2> QED
    BY <1>1, <2>3, <2>4, <2>5 DEF WorkInv
<1>5. CauseInv(c)'
  <2>1. pc'[c] = "begin" => age[c] < RunTimeout
    BY <1>0, <1>1 DEF CauseInv
  <2>2. ASSUME NEW q \in Questions, runs[c][q] = "running"
        PROVE  <<c, q>> \in unsaved \cup late \cup left \cup cut
    BY <1>0, <1>1, <2>2 DEF CauseInv
  <2>3. age[c] \in Nat
    BY <1>0, TypesOf
  <2> QED
    BY <1>0, <1>1, <2>1, <2>2, <2>3 DEF CauseInv, Chat, InWords
<1> QED
  BY <1>3, <1>4, <1>5

\* A question is answered, with an error at once or with what its run returned.
LEMMA AnswerStep ==
    ASSUME Inv, PlaceInv', NEW c \in Clients, TakeBad(c) \/ Answer(c)
    PROVE  (AnswersInv(c) /\ WorkInv(c) /\ CauseInv(c))'
<1>0. /\ TypeOK /\ Place(c) /\ AnswersInv(c) /\ WorkInv(c) /\ CauseInv(c) /\ PlaceInv
  BY DEF Inv, PlaceInv
<1>1. /\ runs' = runs /\ route' = route /\ asked' = asked /\ age' = age
      /\ UNCHANGED <<late, left, cut, unsaved>>
  BY DEF TakeBad, Answer, history
<1>2. PICK q, answer :
         /\ q \in 1..asked[c]
         /\ Deliver(c, q, answer)
         /\ [answer EXCEPT !.question = q] \in AnswerShape
         /\ [answer EXCEPT !.question = q].question = q
         /\ q >= read[c] /\ (pc[c] \in InWork \/ q > read[c])
         /\ [answer EXCEPT !.question = q].whole
         /\ [answer EXCEPT !.question = q].kind = "result" => runs[c][q] = "completed"
         /\ [answer EXCEPT !.question = q].status = "completed" => runs[c][q] # "failed"
         /\ [answer EXCEPT !.question = q].status = "failed" => runs[c][q] # "completed"
  <2>1. CASE TakeBad(c)
    <3>1. read[c] + 1 \in 1..asked[c] /\ read[c] \in Nat
      BY <1>0, <2>1, TypesOf DEF TakeBad
    <3>2. [Error("none") EXCEPT !.question = read[c] + 1] \in AnswerShape
      BY <1>0, <3>1, QuestionType, AnswerType
    <3>3. /\ [Error("none") EXCEPT !.question = read[c] + 1].question = read[c] + 1
          /\ [Error("none") EXCEPT !.question = read[c] + 1].whole
          /\ [Error("none") EXCEPT !.question = read[c] + 1].kind = "error"
          /\ [Error("none") EXCEPT !.question = read[c] + 1].status = "none"
      BY DEF Error
    <3> QED
      BY <2>1, <3>1, <3>2, <3>3 DEF TakeBad
  <2>2. CASE Answer(c)
    <3>1. read[c] \in 1..asked[c] /\ read[c] \in Questions /\ read[c] \in Nat /\ pc[c] \in InWork
      BY <1>0, <2>2, CurrentType DEF Answer, InWork
    <3>2. CASE ~outcome[c].err
      <4> DEFINE a == [question |-> 0, kind |-> "result", status |-> outcome[c].status,
                       whole |-> outcome[c].whole \/ ~InWords(c)]
      <4>1. Deliver(c, read[c], a)
        BY <2>2, <3>2 DEF Answer
      <4>2. [a EXCEPT !.question = read[c]] \in AnswerShape
        BY <1>0, <3>1, AnswerType
      <4>3. outcome[c].status = "completed" /\ runs[c][read[c]] = "completed"
        BY <1>0, <2>2, <3>2 DEF WorkInv, Answer
      <4>4. outcome[c].whole \/ ~InWords(c)
        <5>1. InWords(c) => outcome[c].whole
          BY <1>0, <2>2, <3>2, Zenon DEF WorkInv, Answer
        <5>2. outcome[c].whole \in BOOLEAN
          BY <1>0, TypesOf
        <5> QED
          BY <5>1, <5>2
      <4>5. /\ [a EXCEPT !.question = read[c]].question = read[c]
            /\ [a EXCEPT !.question = read[c]].status = "completed"
            /\ [a EXCEPT !.question = read[c]].whole
        BY <4>3, <4>4
      <4>6. /\ runs[c][read[c]] # "failed" /\ read[c] >= read[c]
            /\ [a EXCEPT !.question = read[c]].status # "failed"
        BY <3>1, <4>3, <4>5
      <4> HIDE DEF a
      <4> QED
        BY <3>1, <4>1, <4>2, <4>3, <4>5, <4>6
    <3>3. CASE outcome[c].err
      <4> DEFINE status == IF InWords(c) THEN outcome[c].status ELSE "none"
                 a == Error(status)
      <4>1. Deliver(c, read[c], a)
        BY <2>2, <3>3 DEF Answer
      <4>2. status \in {"none", "running", "failed", "completed"}
        BY <1>0, TypesOf
      <4>3. [a EXCEPT !.question = read[c]] \in AnswerShape
        BY <1>0, <3>1, <4>2, AnswerType
      <4>4. /\ [a EXCEPT !.question = read[c]].question = read[c]
            /\ [a EXCEPT !.question = read[c]].whole
            /\ [a EXCEPT !.question = read[c]].kind = "error"
            /\ [a EXCEPT !.question = read[c]].status = status
        BY DEF Error
      <4>5. /\ status = "completed" => runs[c][read[c]] # "failed"
            /\ status = "failed" => runs[c][read[c]] # "completed"
        BY <1>0, <2>2 DEF WorkInv, Answer
      <4> HIDE DEF a, status
      <4> QED
        BY <3>1, <4>1, <4>3, <4>4, <4>5
    <3> QED
      BY <3>2, <3>3
  <2> QED
    BY <2>1, <2>2
<1>3. \/ /\ Chat(c) /\ pc'[c] = "reading" /\ read'[c] = q /\ link'[c] = link[c]
      \/ pc'[c] = "none" /\ read'[c] = asked[c] /\ link'[c] = "none"
  BY <1>0, <1>2, DeliverEnds
<1>4. /\ read[c] \in Nat /\ asked[c] \in Nat /\ q \in Nat /\ q <= asked[c]
      /\ read'[c] \in Nat /\ read'[c] >= q /\ pc'[c] \notin InWork
  BY <1>0, <1>2, <1>3, TypesOf DEF InWork
<1>5. AnswersInv(c)'
  <2> DEFINE a == [answer EXCEPT !.question = q]
  <2>1. told' = told \/ told' = [told EXCEPT ![c] = Append(@, a)]
    BY <1>0, <1>2, DeliverType
  <2>2. CASE told' = told
    <3>1. read'[c] >= read[c]
      BY <1>2, <1>4
    <3> QED
      BY <1>1, <1>4, <2>2, <3>1, AnswersKept
  <2>3. CASE told' = [told EXCEPT ![c] = Append(@, a)]
    <3>1. told'[c] = Append(told[c], a)
      BY <1>0, <2>3 DEF TypeOK
    <3>2. /\ a \in AnswerShape /\ a.question = q /\ a.whole
          /\ a.kind = "result" => runs[c][q] = "completed"
          /\ a.status = "completed" => runs[c][q] # "failed"
          /\ a.status = "failed" => runs[c][q] # "completed"
      BY <1>2
    <3> HIDE DEF a
    <3> QED
      BY <1>1, <1>2, <1>4, <3>1, <3>2, AnswersGrow
  <2> QED
    BY <2>1, <2>2, <2>3
<1>6. WorkInv(c)'
  <2>1. \A r \in Questions : r > read'[c] => runs'[c][r] = "absent"
    BY <1>0, <1>1, <1>2, <1>4 DEF WorkInv, Questions
  <2> QED
    BY <1>4, <2>1 DEF WorkInv, InWork
<1>7. CauseInv(c)'
  <2>1. pc[c] # "running"
    BY DEF TakeBad, Answer
  <2> QED
    BY <1>0, <1>1, <1>3, <2>1 DEF CauseInv, Chat
<1> QED
  BY <1>5, <1>6, <1>7

\* A save touches the run in work alone; one that fails has its cause on record,
\* or the context had ended and nothing changed.
LEMMA SaveEffect ==
    ASSUME Inv, NEW c \in Clients, pc[c] \in InWork,
           NEW status \in {"running", "failed", "completed"},
           Saves(c, status) \/ SaveFails(c, status)
    PROVE  /\ runs'[c][read[c]] = runs[c][read[c]] \/ runs'[c][read[c]] = status
           /\ \A q \in Questions : q # read[c] => runs'[c][q] = runs[c][q]
           /\ unsaved \subseteq unsaved'
           /\ Saves(c, status) => runs'[c][read[c]] = status
           /\ SaveFails(c, status) =>
                  Current(c) \in unsaved' \/ (ContextMayHaveEnded(c) /\ runs' = runs)
<1>1. /\ runs \in [Clients -> [Questions -> {"absent", "running", "failed", "completed"}]]
      /\ read[c] \in Questions
  BY CurrentType DEF Inv, PlaceInv, TypeOK
<1>2. runs' = runs \/ runs' = [runs EXCEPT ![c][read[c]] = status]
  BY DEF Saves, SaveFails
<1>3. /\ runs'[c][read[c]] = runs[c][read[c]] \/ runs'[c][read[c]] = status
      /\ \A q \in Questions : q # read[c] => runs'[c][q] = runs[c][q]
  BY <1>1, <1>2
<1>4. Saves(c, status) => runs'[c][read[c]] = status
  BY <1>1 DEF Saves
<1>5. unsaved \subseteq unsaved'
  BY DEF Saves, SaveFails
<1>6. SaveFails(c, status) => Current(c) \in unsaved' \/ (ContextMayHaveEnded(c) /\ runs' = runs)
  BY DEF SaveFails
<1> QED
  BY <1>3, <1>4, <1>5, <1>6

\* When the context of a run may have ended, what ended it is on record.
LEMMA ContextHasACause ==
    ASSUME Inv, NEW c \in Clients, pc[c] \in {"begin", "running"}, ContextMayHaveEnded(c)
    PROVE  Current(c) \in late \cup left
BY DEF Inv, PlaceInv, Place, CauseInv, ContextMayHaveEnded, Current, InWork

\* What a step of an investigation does to the question in work.
LEMMA RunStep ==
    ASSUME Inv, NEW c \in Clients, Begin(c) \/ Complete(c) \/ Fail(c)
    PROVE  /\ pc[c] \in {"begin", "running"} /\ pc'[c] \in {"running", "answer"}
           /\ pc'[c] = "running" => pc[c] = "begin" /\ runs'[c][read[c]] = "running"
           /\ \A q \in Questions : q # read[c] => runs'[c][q] = runs[c][q]
           /\ unsaved \subseteq unsaved'
           /\ pc'[c] = "answer" /\ runs'[c][read[c]] = "running" =>
                  Current(c) \in unsaved' \cup late \cup left
           /\ pc'[c] = "answer" =>
                 /\ ~outcome'[c].err => outcome'[c].status = "completed" /\ runs'[c][read[c]] = "completed"
                 /\ outcome'[c].status = "completed" => runs'[c][read[c]] # "failed"
                 /\ outcome'[c].status = "failed" => runs'[c][read[c]] # "completed"
           /\ pc'[c] = "answer" /\ ~outcome'[c].err /\ InWords(c) => outcome'[c].whole = TRUE
<1>0. /\ outcome \in [Clients -> [status : {"none", "running", "failed", "completed"},
                                  err : BOOLEAN, whole : BOOLEAN]]
      /\ pc \in [Clients -> InWork \cup {"none", "welcome", "reading"}]
      /\ steps[c] \in Int /\ WorkInv(c)
  BY DEF Inv, PlaceInv, TypeOK
<1>1. ASSUME NEW status, NEW err, NEW whole, Returns(c, status, err, whole)
      PROVE  /\ pc'[c] = "answer" /\ outcome'[c].status = status
             /\ outcome'[c].err = err /\ outcome'[c].whole = whole
  BY <1>0, <1>1 DEF Returns, GoTo
<1>2. CASE Begin(c)
  <2>1. pc[c] = "begin" /\ runs[c][read[c]] = "absent" /\ pc[c] \in InWork
    BY <1>0, <1>2 DEF Begin, WorkInv, InWork
  <2>2. CASE Saves(c, "running") /\ GoTo(c, "running")
    BY <1>0, <2>1, <2>2, SaveEffect DEF GoTo
  <2>3. CASE SaveFails(c, "running") /\ Returns(c, "none", TRUE, FALSE)
    BY <1>1, <2>1, <2>3, SaveEffect
  <2> QED
    BY <1>2, <2>2, <2>3 DEF Begin
<1>3. CASE Complete(c)
  <2>1. pc[c] = "running" /\ runs[c][read[c]] = "running" /\ pc[c] \in InWork
        /\ (InWords(c) => steps[c] >= MinMaxSteps)
    BY <1>0, <1>3 DEF Complete, WorkInv, InWork
  <2>2. PICK phases \in PhasesOfPlan :
           LET whole == EvidenceBudget(steps[c]) >= phases IN
           \/ Saves(c, "completed") /\ Returns(c, "completed", FALSE, whole)
           \/ SaveFails(c, "completed") /\ Returns(c, "completed", TRUE, whole)
    BY <1>3 DEF Complete
  <2> DEFINE whole == EvidenceBudget(steps[c]) >= phases
  <2>3. InWords(c) => whole = TRUE
    BY <1>0, <2>1, BudgetHoldsPlan
  <2> HIDE DEF whole
  <2>4. CASE Saves(c, "completed") /\ Returns(c, "completed", FALSE, whole)
    <3>1. /\ pc'[c] = "answer" /\ outcome'[c].status = "completed"
          /\ outcome'[c].err = FALSE /\ outcome'[c].whole = whole
      BY <1>1, <2>4
    <3>2. InWords(c) => outcome'[c].whole = TRUE
      BY <2>3, <3>1, Zenon
    <3> QED
      BY <2>1, <2>4, <3>1, <3>2, SaveEffect
  <2>5. CASE SaveFails(c, "completed") /\ Returns(c, "completed", TRUE, whole)
    BY <1>1, <2>1, <2>5, SaveEffect, ContextHasACause
  <2> QED
    BY <2>2, <2>4, <2>5 DEF whole
<1>4. CASE Fail(c)
  <2>1. pc[c] = "running" /\ runs[c][read[c]] = "running" /\ pc[c] \in InWork
    BY <1>0, <1>4 DEF Fail, WorkInv, InWork
  <2>2. CASE Saves(c, "failed") /\ Returns(c, "failed", TRUE, FALSE)
    BY <1>1, <2>1, <2>2, SaveEffect
  <2>3. CASE SaveFails(c, "failed") /\ Returns(c, "failed", TRUE, FALSE)
    BY <1>1, <2>1, <2>3, SaveEffect, ContextHasACause
  <2>4. CASE SaveFails(c, "running") /\ Returns(c, "running", TRUE, FALSE)
    BY <1>1, <2>1, <2>4, SaveEffect, ContextHasACause
  <2> QED
    BY <1>4, <2>2, <2>3, <2>4 DEF Fail
<1> QED
  BY <1>2, <1>3, <1>4

\* A run begins, completes or fails.
LEMMA InvestigationInv ==
    ASSUME Inv, PlaceInv', NEW c \in Clients, Begin(c) \/ Complete(c) \/ Fail(c)
    PROVE  (AnswersInv(c) /\ WorkInv(c) /\ CauseInv(c))'
<1>0. /\ TypeOK /\ WorkOK /\ AnswersInv(c) /\ WorkInv(c) /\ CauseInv(c)
  BY TypeParts DEF Inv, PlaceInv
<1>1. UNCHANGED <<server, route, link, asked, read, steps, age, told, late, left, cut>>
  BY <1>0, InvestigationStep
<1>2. /\ pc[c] \in {"begin", "running"} /\ pc'[c] \in {"running", "answer"}
      /\ pc'[c] = "running" => pc[c] = "begin" /\ runs'[c][read[c]] = "running"
      /\ \A q \in Questions : q # read[c] => runs'[c][q] = runs[c][q]
      /\ unsaved \subseteq unsaved'
      /\ pc'[c] = "answer" /\ runs'[c][read[c]] = "running" =>
             Current(c) \in unsaved' \cup late \cup left
  BY RunStep
<1>3. pc[c] \in InWork /\ read[c] \in Nat
  BY <1>0, <1>2, TypesOf DEF InWork
<1>4. AnswersInv(c)'
  BY <1>1, <1>2, <1>3, AnswersKept
<1>5. WorkInv(c)'
  <2>1. \A q \in Questions : q > read[c] => runs'[c][q] = "absent"
    BY <1>0, <1>2, <1>3 DEF WorkInv, Questions
  <2>2. pc'[c] = "answer" =>
           /\ ~outcome'[c].err => outcome'[c].status = "completed" /\ runs'[c][read[c]] = "completed"
           /\ outcome'[c].status = "completed" => runs'[c][read[c]] # "failed"
           /\ outcome'[c].status = "failed" => runs'[c][read[c]] # "completed"
    BY RunStep
  <2>3. pc'[c] = "answer" /\ ~outcome'[c].err /\ InWords(c) => outcome'[c].whole = TRUE
    BY RunStep
  <2>4. InWords(c) => steps[c] >= MinMaxSteps
    BY <1>0, <1>3 DEF WorkInv
  <2>5. InWords(c)' = InWords(c)
    BY <1>1 DEF InWords
  <2> QED
    BY <1>1, <1>2, <2>1, <2>2, <2>3, <2>4, <2>5 DEF WorkInv
<1>6. CauseInv(c)'
  <2>1. (pc[c] \in {"begin", "running"} /\ InWords(c) /\ age[c] >= RunTimeout => Current(c) \in late)'
    BY <1>0, <1>1, <1>2 DEF CauseInv, InWords, Current
  <2>2. ASSUME NEW q \in Questions, runs'[c][q] = "running", ~(q = read[c] /\ pc'[c] = "running")
        PROVE  <<c, q>> \in unsaved' \cup late \cup left \cup cut
    BY <1>0, <1>2, <2>2 DEF CauseInv, Current
  <2> QED
    BY <1>0, <1>1, <1>2, <2>1, <2>2 DEF CauseInv, Chat
<1> QED
  BY <1>4, <1>5, <1>6

-----------------------------------------------------------------------------
(* The inductive invariant *)

\* Nobody has come yet.
LEMMA InitInv == Init => Inv
<1> SUFFICES ASSUME Init PROVE Inv
  OBVIOUS
<1>1. MaxAsks \in [Clients -> Nat \ {0}] /\ MaxAge \in Nat /\ MaxFailures \in Nat
  BY ServingAssumption
<1>2. TypeOK
  <2>1. told \in [Clients -> Seq(AnswerShape)]
    BY DEF Init
  <2> QED
    BY <1>1, <2>1 DEF Init, TypeOK
<1>3. ASSUME NEW c \in Clients PROVE Place(c) /\ AnswersInv(c) /\ WorkInv(c) /\ CauseInv(c)
  <2>1. /\ link[c] = "none" /\ pc[c] = "none" /\ read[c] = 0 /\ asked[c] = 0 /\ told[c] = <<>>
        /\ \A q \in Questions : runs[c][q] = "absent"
    BY <1>3 DEF Init
  <2>2. DOMAIN told[c] = {}
    BY <2>1
  <2> QED
    BY <2>1, <2>2 DEF Place, AnswersInv, WorkInv, CauseInv, InWork, Chat
<1> QED
  BY <1>2, <1>3 DEF Inv, PlaceInv

\* A client's own step keeps what holds of it.
LEMMA ActingStep ==
    ASSUME Inv, PlaceInv', NEW c \in Clients, ClientStep(c)
    PROVE  (AnswersInv(c) /\ WorkInv(c) /\ CauseInv(c))'
BY QuietStep, TakeStep, AnswerStep, InvestigationInv DEF ClientStep, Handler

\* And what holds of the others.
LEMMA IdleStep ==
    ASSUME Inv, NEW c \in Clients, ClientStep(c), NEW d \in Clients, d # c
    PROVE  (AnswersInv(d) /\ WorkInv(d) /\ CauseInv(d))'
<1>0. AnswersInv(d) /\ WorkInv(d) /\ CauseInv(d) /\ PlaceInv
  BY DEF Inv
<1>1. /\ link'[d] = link[d] /\ pc'[d] = pc[d] /\ route'[d] = route[d]
      /\ asked'[d] = asked[d] /\ read'[d] = read[d] /\ steps'[d] = steps[d]
      /\ age'[d] = age[d] /\ runs'[d] = runs[d]
      /\ outcome'[d] = outcome[d] /\ told'[d] = told[d]
  BY <1>0, OthersStep
<1>2. /\ cut' = cut
      /\ late \subseteq late' /\ left \subseteq left' /\ unsaved \subseteq unsaved'
  BY <1>0, HistoryStep
<1>3. AnswersInv(d)'
  BY <1>0, <1>1 DEF AnswersInv, Settled
<1>4. WorkInv(d)'
  BY <1>0, <1>1 DEF WorkInv, InWords
<1>5. CauseInv(d)'
  BY <1>0, <1>1, <1>2 DEF CauseInv, InWords, Chat, Current
<1> QED
  BY <1>3, <1>4, <1>5

\* Steps of the process give no answer and touch no run; the exit puts every
\* question in work on record.
LEMMA ProcessInv ==
    ASSUME Inv, Shutdown \/ Exit \/ UNCHANGED vars, NEW c \in Clients
    PROVE  (AnswersInv(c) /\ WorkInv(c) /\ CauseInv(c))'
<1>0. AnswersInv(c) /\ WorkInv(c) /\ CauseInv(c) /\ PlaceInv
  BY DEF Inv
<1>1. UNCHANGED <<route, asked, read, steps, age, runs, outcome, told, late, left, unsaved, failures>>
  BY <1>0, ProcessStep
<1>2. \/ link'[c] = link[c] /\ pc'[c] = pc[c] /\ cut' = cut
      \/ /\ link'[c] = "none" /\ pc'[c] = "none" /\ cut \subseteq cut'
         /\ pc[c] \in InWork => Current(c) \in cut'
  BY <1>0, ProcessStep
<1>3. pc'[c] = pc[c] \/ pc'[c] = "none"
  BY <1>2
<1>4. AnswersInv(c)'
  BY <1>0, <1>1, <1>3 DEF AnswersInv, Settled, InWork
<1>5. WorkInv(c)'
  BY <1>0, <1>1, <1>3 DEF WorkInv, InWords, InWork
<1>6. CauseInv(c)'
  BY <1>0, <1>1, <1>2 DEF CauseInv, InWords, Chat, Current, InWork
<1> QED
  BY <1>4, <1>5, <1>6

\* Every step keeps the invariant.
LEMMA NextInv == Inv /\ [Next]_vars => Inv'
<1> SUFFICES ASSUME Inv, [Next]_vars PROVE Inv'
  OBVIOUS
<1>1. PlaceInv'
  BY PlaceInvStep DEF Inv
<1>2. CASE \E c \in Clients : ClientStep(c)
  <2>1. PICK c \in Clients : ClientStep(c)
    BY <1>2
  <2>2. ASSUME NEW d \in Clients PROVE (AnswersInv(d) /\ WorkInv(d) /\ CauseInv(d))'
    BY <1>1, <2>1, ActingStep, IdleStep
  <2> QED
    BY <1>1, <2>2 DEF Inv
<1>3. CASE Shutdown \/ Exit \/ UNCHANGED vars
  BY <1>1, <1>3, ProcessInv DEF Inv
<1> QED
  BY <1>2, <1>3 DEF Next, ClientStep

\* The invariant holds in every behaviour; the theorems read off its parts.
LEMMA SpecInv == Spec => []Inv
BY InitInv, NextInv, PTL DEF Spec

-----------------------------------------------------------------------------

\* Every variable of apid keeps its type, and no question is read before it was
\* asked.
THEOREM TypeCorrect == Spec => []TypeOK
<1>1. Inv => TypeOK
  BY DEF Inv, PlaceInv
<1> QED
  BY <1>1, SpecInv, PTL

\* What a client was told of a run agrees with the stored run for ever: a result
\* with a completed one, a settled status with no other settled one.
THEOREM ToldIsStoredCorrect == Spec => []ToldIsStored
<1>1. Inv => ToldIsStored
  <2> SUFFICES ASSUME Inv, NEW c \in Clients, NEW i \in DOMAIN told[c]
               PROVE  /\ told[c][i].kind = "result" => Lookup(c, told[c][i].question) = "completed"
                      /\ told[c][i].status = "completed" => Lookup(c, told[c][i].question) # "failed"
                      /\ told[c][i].status = "failed" => Lookup(c, told[c][i].question) # "completed"
    BY DEF ToldIsStored, Answers
  <2>1. Settled(c, told[c][i])
    BY DEF Inv, AnswersInv
  <2> QED
    BY <2>1 DEF Settled, Lookup
<1> QED
  BY <1>1, SpecInv, PTL

\* A client gets its answers in the order of its questions, one for each, however
\* it sends them and whatever fails.
THEOREM OneAnswerEachCorrect == Spec => []OneAnswerEach
<1>1. Inv => OneAnswerEach
  BY DEF Inv, AnswersInv, Settled, OneAnswerEach, Answers
<1> QED
  BY <1>1, SpecInv, PTL

\* Every answered question in words had its whole plan run, for every max_steps.
THEOREM NoPhaseDroppedCorrect == Spec => []NoPhaseDropped
<1>1. Inv => NoPhaseDropped
  BY DEF Inv, AnswersInv, Settled, NoPhaseDropped, Answers
<1> QED
  BY <1>1, SpecInv, PTL

\* A run that stays running was abandoned by a failed save, a deadline, the
\* client of a post, or the exit of the process, and by nothing else.
THEOREM AbandonedRunHasACauseCorrect == Spec => []AbandonedRunHasACause
<1>1. Inv => AbandonedRunHasACause
  <2> SUFFICES ASSUME Inv, NEW c \in Clients, NEW q \in Questions,
                      Lookup(c, q) = "running", ~(q = read[c] /\ pc[c] = "running")
               PROVE  <<c, q>> \in unsaved \cup late \cup left \cup cut
    BY DEF AbandonedRunHasACause
  <2>1. runs[c][q] = "running"
    BY DEF Lookup
  <2> QED
    BY <2>1 DEF Inv, CauseInv
<1> QED
  BY <1>1, SpecInv, PTL
=============================================================================
