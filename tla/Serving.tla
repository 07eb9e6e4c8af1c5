------------------------------- MODULE Serving -------------------------------
(***************************************************************************)
(* apid and its clients: conversations over the chat WebSocket, messages   *)
(* to the A2A route and posts to /v1/agent-runs, each of which makes the   *)
(* harness run an investigation.  Each connection has a handler of its own *)
(* goroutine.  An investigation is what AgentRun shows of it: a first      *)
(* save, and a last one or an error; its texts and steps are left out.     *)
(*                                                                         *)
(* Time is counted in ticks from the start of a request.  The request of a *)
(* client that left is cancelled by net/http, but not after a connection   *)
(* was upgraded.  The default policy of NewServer refuses nothing that a   *)
(* plan calls, so the answers to refused runs are not reached.             *)
(***************************************************************************)
EXTENDS Integers, Sequences, FiniteSets

CONSTANTS Clients,
          MaxAsks,       \* bound: the questions of each client
          StepsAsked,    \* the max_steps a client may send
          MaxFailures,   \* bound: saves that fail in the file system
          WriteTimeout,  \* api.write_timeout, in ticks
          RunTimeout,    \* defaultChatRunTimeout and defaultMessageTimeout
          MaxAge         \* bound: ticks a request lasts

ASSUME ServingAssumption ==
    /\ MaxAsks \in [Clients -> Nat \ {0}]
    /\ MaxFailures \in Nat /\ MaxAge \in Nat
    /\ StepsAsked \subseteq Int
    /\ WriteTimeout \in Nat /\ RunTimeout \in Nat \ {0}

Questions == UNION {1..MaxAsks[c] : c \in Clients}
MinMaxSteps == 4
PhasesOfPlan == 1..3   \* how many phases a plan has

VARIABLES server,   \* "serving", "draining" or "exited"
          route,    \* what a client is connected to: "chat", "a2a" or "http"
          link,     \* its connection: "none", "open" or "gone"
          pc,       \* where its handler is; "none" without one
          asked,    \* questions the client has sent
          read,     \* questions the handler has taken, the last one in work
          steps,    \* MaxSteps of the request in work
          age,      \* ticks since it began
          runs,     \* what the run store holds of each question's run
          outcome,  \* what RunInvestigation returned
          told,     \* the answers that reached the client
          late,     \* questions to chat and A2A whose deadline passed during the run
          left,     \* posted questions whose client went away
          cut,      \* questions in work when the process exited
          unsaved,  \* questions with a save that failed in the file system
          failures

clients == <<route, link, asked>>
work == <<read, steps, age, outcome>>
history == <<late, left, cut, unsaved, failures>>
vars == <<server, clients, pc, work, runs, told, history>>

Chat(c) == route[c] = "chat"
InWords(c) == route[c] # "http"
Current(c) == <<c, read[c]>>
InWork == {"echo", "begin", "running", "answer"}

Init ==
    /\ server = "serving"
    /\ route = [c \in Clients |-> "chat"]
    /\ link = [c \in Clients |-> "none"] /\ pc = [c \in Clients |-> "none"]
    /\ asked = [c \in Clients |-> 0] /\ read = [c \in Clients |-> 0]
    /\ steps = [c \in Clients |-> 0] /\ age = [c \in Clients |-> 0]
    /\ runs = [c \in Clients |-> [q \in Questions |-> "absent"]]
    /\ outcome = [c \in Clients |-> [status |-> "none", err |-> FALSE, whole |-> FALSE]]
    /\ told = [c \in Clients |-> <<>>]
    /\ late = {} /\ left = {} /\ cut = {} /\ unsaved = {} /\ failures = 0

GoTo(c, place) == pc' = [pc EXCEPT ![c] = place]

\* The handler returns and its connection is closed; what the client has sent
\* and nobody read is lost.
HangUp(c) ==
    /\ GoTo(c, "none")
    /\ link' = [link EXCEPT ![c] = "none"]
    /\ read' = [read EXCEPT ![c] = asked[c]]

-----------------------------------------------------------------------------
(* Clients *)

\* A browser opens the WebSocket.
Connect(c) ==
    /\ server = "serving" /\ link[c] = "none" /\ asked[c] < MaxAsks[c]
    /\ route' = [route EXCEPT ![c] = "chat"]
    /\ link' = [link EXCEPT ![c] = "open"]
    /\ GoTo(c, "welcome")
    /\ UNCHANGED <<server, asked, work, runs, told, history>>

\* It may send its next question before the last is answered.
Ask(c) ==
    /\ Chat(c) /\ link[c] = "open" /\ asked[c] < MaxAsks[c]
    /\ asked' = [asked EXCEPT ![c] = @ + 1]
    /\ UNCHANGED <<server, route, link, pc, work, runs, told, history>>

\* A post is a connection with one question.
Post(c) ==
    /\ server = "serving" /\ link[c] = "none" /\ asked[c] < MaxAsks[c]
    /\ \E r \in {"a2a", "http"} : route' = [route EXCEPT ![c] = r]
    /\ link' = [link EXCEPT ![c] = "open"]
    /\ asked' = [asked EXCEPT ![c] = @ + 1]
    /\ age' = [age EXCEPT ![c] = 0]
    /\ GoTo(c, "reading")
    /\ UNCHANGED <<server, read, steps, outcome, runs, told, history>>

Leave(c) ==
    /\ link[c] = "open"
    /\ link' = [link EXCEPT ![c] = "gone"]
    /\ left' = IF Chat(c) THEN left ELSE left \cup {<<c, asked[c]>>}
    /\ UNCHANGED <<server, route, asked, pc, work, runs, told, late, cut, unsaved, failures>>

\* GET /v1/agent-runs/{id}.
Lookup(c, q) == IF runs[c][q] = "absent" THEN "not found" ELSE runs[c][q]

-----------------------------------------------------------------------------
(* Handlers *)

\* Whether what the handler writes can still reach the client.  Chat sets a
\* deadline of its own for each message.
Reaches(c) == link[c] = "open" /\ (Chat(c) \/ age[c] < WriteTimeout)

\* Answers a question.  A conversation goes on, the handler of a post ends,
\* and so does a conversation when the write fails; a write to a connection
\* that is gone need not.
Deliver(c, q, answer) ==
    \/ /\ Reaches(c)
       /\ told' = [told EXCEPT ![c] = Append(@, [answer EXCEPT !.question = q])]
       /\ IF Chat(c)
          THEN GoTo(c, "reading") /\ read' = [read EXCEPT ![c] = q] /\ UNCHANGED link
          ELSE HangUp(c)
    \/ /\ Chat(c) /\ link[c] = "gone"
       /\ GoTo(c, "reading") /\ read' = [read EXCEPT ![c] = q]
       /\ UNCHANGED <<link, told>>
    \/ /\ Chat(c) \/ ~Reaches(c)
       /\ HangUp(c)
       /\ UNCHANGED told

\* An answer; Deliver puts in which question it is to.
AnswerShape == [question : Questions, kind : {"error", "result"},
                status : {"none", "running", "failed", "completed"}, whole : BOOLEAN]

Error(status) == [question |-> 0, kind |-> "error", status |-> status, whole |-> TRUE]

Welcome(c) ==
    /\ pc[c] = "welcome"
    /\ (GoTo(c, "reading") /\ UNCHANGED <<link, read>>) \/ HangUp(c)
    /\ UNCHANGED <<server, route, asked, steps, age, outcome, runs, told, history>>

\* Fault: the most steps of a question are taken as they come.
BuildRunRequestUnraised(c, n) == n

\* What becomes of max_steps: questions in words get room for every phase and
\* the summary.
BuildRunRequest(c, n) == IF InWords(c) /\ n < MinMaxSteps THEN MinMaxSteps ELSE n

\* A question that can be run.
TakeGood(c) ==
    /\ pc[c] = "reading" /\ read[c] < asked[c]
    /\ read' = [read EXCEPT ![c] = @ + 1]
    /\ \E n \in StepsAsked : steps' = [steps EXCEPT ![c] = BuildRunRequest(c, n)]
    /\ GoTo(c, IF Chat(c) THEN "echo" ELSE "begin")
    /\ UNCHANGED <<server, clients, age, outcome, runs, told, history>>

\* Fault: after the error the handler goes on with the request.
TakeBadGoesOn(c) ==
    /\ pc[c] = "reading" /\ read[c] < asked[c]
    /\ read' = [read EXCEPT ![c] = @ + 1]
    /\ told' = IF Reaches(c) THEN [told EXCEPT ![c] = Append(@, [Error("none") EXCEPT !.question = read[c] + 1])]
               ELSE told
    /\ GoTo(c, IF Chat(c) THEN "echo" ELSE "begin")
    /\ UNCHANGED <<server, clients, steps, age, outcome, runs, history>>

\* One that is refused by BuildRunRequest or parseAgentRunRequest.
TakeBad(c) ==
    /\ pc[c] = "reading" /\ read[c] < asked[c]
    /\ Deliver(c, read[c] + 1, Error("none"))
    /\ UNCHANGED <<server, route, asked, steps, age, outcome, runs, history>>

\* A chat message that is not JSON, or the end of the connection.
ReadFails(c) ==
    /\ Chat(c) /\ pc[c] = "reading"
    /\ read[c] < asked[c] \/ link[c] = "gone"
    /\ HangUp(c)
    /\ UNCHANGED <<server, route, asked, steps, age, outcome, runs, told, history>>

\* The chat handler repeats the question, says that it works, and starts the
\* clock of the run.
Echo(c) ==
    /\ pc[c] = "echo"
    /\ (GoTo(c, "begin") /\ UNCHANGED <<link, read>>) \/ HangUp(c)
    /\ age' = [age EXCEPT ![c] = 0]
    /\ UNCHANGED <<server, route, asked, steps, outcome, runs, told, history>>

-----------------------------------------------------------------------------
(* Investigations *)

\* Fault: the context of a conversation ends with its client too.
ContextMayHaveEndedWithClient(c) ==
    link[c] = "gone" \/ (InWords(c) /\ age[c] >= RunTimeout)

\* Whether the context of the run may have ended: at the deadline of chat and
\* A2A, or with the client of a post.
ContextMayHaveEnded(c) ==
    \/ ~Chat(c) /\ link[c] = "gone"
    \/ InWords(c) /\ age[c] >= RunTimeout

\* Upsert; a write that is cut off may still leave its line to be read.
Saves(c, status) ==
    /\ runs' = [runs EXCEPT ![c][read[c]] = status]
    /\ UNCHANGED <<unsaved, failures>>

SaveFails(c, status) ==
    \/ ContextMayHaveEnded(c) /\ UNCHANGED <<runs, unsaved, failures>>
    \/ /\ failures < MaxFailures
       /\ failures' = failures + 1
       /\ unsaved' = unsaved \cup {Current(c)}
       /\ runs' \in {runs, [runs EXCEPT ![c][read[c]] = status]}

Returns(c, status, err, whole) ==
    /\ outcome' = [outcome EXCEPT ![c] = [status |-> status, err |-> err, whole |-> whole]]
    /\ GoTo(c, "answer")

\* RunInvestigation makes the run and saves it.
Begin(c) ==
    /\ pc[c] = "begin"
    /\ \/ Saves(c, "running") /\ GoTo(c, "running") /\ UNCHANGED outcome
       \/ SaveFails(c, "running") /\ Returns(c, "none", TRUE, FALSE)
    /\ UNCHANGED <<server, clients, read, steps, age, told, late, left, cut>>

\* The budget of phases, capped by the harness, one step less for a summary.
EvidenceBudget(n) ==
    LET most == CASE n <= 0 -> 4 [] n > 5 -> 5 [] OTHER -> n IN
    IF most > 1 THEN most - 1 ELSE most

\* All steps were run.  The record says so even when its save fails.
Complete(c) ==
    /\ pc[c] = "running"
    /\ \E phases \in PhasesOfPlan :
          LET whole == EvidenceBudget(steps[c]) >= phases IN
          \/ Saves(c, "completed") /\ Returns(c, "completed", FALSE, whole)
          \/ SaveFails(c, "completed") /\ Returns(c, "completed", TRUE, whole)
    /\ UNCHANGED <<server, clients, read, steps, age, told, late, left, cut>>

\* A step failed, or a save between two steps.
Fail(c) ==
    /\ pc[c] = "running"
    /\ \/ Saves(c, "failed") /\ Returns(c, "failed", TRUE, FALSE)
       \/ SaveFails(c, "failed") /\ Returns(c, "failed", TRUE, FALSE)
       \/ SaveFails(c, "running") /\ Returns(c, "running", TRUE, FALSE)
    /\ UNCHANGED <<server, clients, read, steps, age, told, late, left, cut>>

Tick(c) ==
    /\ pc[c] \in {"begin", "running", "answer"} /\ age[c] < MaxAge
    /\ age' = [age EXCEPT ![c] = @ + 1]
    /\ late' = IF InWords(c) /\ pc[c] # "answer" /\ age[c] + 1 >= RunTimeout
               THEN late \cup {Current(c)} ELSE late
    /\ UNCHANGED <<server, clients, pc, read, steps, outcome, runs, told, left, cut, unsaved, failures>>

\* Fault: the error of the run is not looked at.
AnswerIgnoresError(c) ==
    /\ pc[c] = "answer"
    /\ Deliver(c, read[c], [Error(outcome[c].status) EXCEPT !.kind = "result",
                                                            !.whole = outcome[c].whole])
    /\ UNCHANGED <<server, route, asked, steps, age, outcome, runs, history>>

\* Fault: an error without a run is passed over.
AnswerSkipsEmpty(c) ==
    /\ pc[c] = "answer"
    /\ IF outcome[c].status = "none"
       THEN GoTo(c, "reading") /\ UNCHANGED <<link, read, told>>
       ELSE Deliver(c, read[c], [Error(outcome[c].status)
                EXCEPT !.kind = IF outcome[c].err THEN "error" ELSE "result",
                       !.whole = outcome[c].whole])
    /\ UNCHANGED <<server, route, asked, steps, age, outcome, runs, history>>

\* BuildResultResponse or BuildErrorResponse; both carry the status of the
\* record.  What the HTTP route answers to an error has none.
Answer(c) ==
    /\ pc[c] = "answer"
    /\ LET result == outcome[c] IN
       Deliver(c, read[c],
               IF ~result.err
               THEN [question |-> 0, kind |-> "result", status |-> result.status,
                     whole |-> result.whole \/ ~InWords(c)]
               ELSE Error(IF InWords(c) THEN result.status ELSE "none"))
    /\ UNCHANGED <<server, route, asked, steps, age, outcome, runs, history>>

-----------------------------------------------------------------------------
(* The process *)

\* A signal: Shutdown closes the listener, so ListenAndServe returns.
Shutdown ==
    /\ server = "serving"
    /\ server' = "draining"
    /\ UNCHANGED <<clients, pc, work, runs, told, history>>

\* main closes the log and returns, whatever Shutdown still waits for.
Exit ==
    /\ server = "draining"
    /\ server' = "exited"
    /\ pc' = [c \in Clients |-> "none"] /\ link' = [c \in Clients |-> "none"]
    /\ cut' = cut \cup {Current(c) : c \in {c \in Clients : pc[c] \in InWork}}
    /\ UNCHANGED <<route, asked, work, runs, told, late, left, unsaved, failures>>

Handler(c) ==
    \/ Welcome(c) \/ TakeGood(c) \/ TakeBad(c) \/ ReadFails(c) \/ Echo(c)
    \/ Begin(c) \/ Complete(c) \/ Fail(c) \/ Answer(c)

Next ==
    \/ \E c \in Clients : Handler(c) \/ Connect(c) \/ Ask(c) \/ Post(c) \/ Leave(c) \/ Tick(c)
    \/ Shutdown \/ Exit

\* A handler goes on, and an investigation has at most five steps; clients, the
\* clock and the signal owe nothing.
Spec == Init /\ [][Next]_vars /\ \A c \in Clients : WF_vars(Handler(c))
-----------------------------------------------------------------------------
(* Properties *)

Answers(c) == {told[c][i] : i \in DOMAIN told[c]}

\* Every variable keeps its type, and no question is read before it was asked.
TypeOK ==
    /\ server \in {"serving", "draining", "exited"}
    /\ link \in [Clients -> {"none", "open", "gone"}]
    /\ pc \in [Clients -> InWork \cup {"none", "welcome", "reading"}]
    /\ route \in [Clients -> {"chat", "a2a", "http"}]
    /\ asked \in [Clients -> Nat] /\ \A c \in Clients : asked[c] <= MaxAsks[c]
    /\ read \in [Clients -> Nat] /\ \A c \in Clients : read[c] <= asked[c]
    /\ steps \in [Clients -> Int]
    /\ age \in [Clients -> 0..MaxAge]
    /\ runs \in [Clients -> [Questions -> {"absent", "running", "failed", "completed"}]]
    /\ outcome \in [Clients -> [status : {"none", "running", "failed", "completed"},
                                err : BOOLEAN, whole : BOOLEAN]]
    /\ told \in [Clients -> Seq(AnswerShape)]
    /\ late \cup left \cup cut \cup unsaved \subseteq Clients \X Questions
    /\ failures \in 0..MaxFailures

\* A client that was given a result finds that run completed whenever it asks
\* for it, and no settled status it was told is ever contradicted.
ToldIsStored ==
    \A c \in Clients : \A a \in Answers(c) :
        /\ a.kind = "result" => Lookup(c, a.question) = "completed"
        /\ a.status = "completed" => Lookup(c, a.question) # "failed"
        /\ a.status = "failed" => Lookup(c, a.question) # "completed"

\* Answers come in the order of the questions, one for each, and none before
\* its question.
OneAnswerEach ==
    \A c \in Clients :
        /\ \A i, j \in DOMAIN told[c] : i < j => told[c][i].question < told[c][j].question
        /\ \A a \in Answers(c) : a.question <= read[c]

\* A question in words that was answered had every phase of its plan run,
\* however few steps were asked for.
NoPhaseDropped ==
    \A c \in Clients : \A a \in Answers(c) : a.whole

\* A stored run that stays running was left so by a save that failed, by the
\* deadline of chat or A2A, by the client of a post that went away, or by a
\* process that exited without waiting for it; nothing else abandons a run.
AbandonedRunHasACause ==
    \A c \in Clients, q \in Questions :
        Lookup(c, q) = "running" /\ ~(q = read[c] /\ pc[c] = "running") =>
            <<c, q>> \in unsaved \cup late \cup left \cup cut

\* A question over a connection that stays open is answered.
AskedIsAnswered ==
    \A c \in Clients, q \in Questions :
        link[c] = "open" /\ asked[c] >= q /\ read[c] < q
            ~> link[c] # "open" \/ \E a \in Answers(c) : a.question = q
=============================================================================
