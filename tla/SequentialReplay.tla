-------------------------- MODULE SequentialReplay --------------------------
(***************************************************************************)
(* What backfill promises, whatever the number of workers: it copies the   *)
(* files in path order, one record each, and returns nil only when all of  *)
(* them are written.  It may give up with an error at any point, and then  *)
(* writes nothing more.                                                    *)
(***************************************************************************)
EXTENDS Naturals, Sequences

CONSTANTS N,      \* number of files
          Good    \* the files, of 1..N, with a JSON payload

VARIABLES out,    \* indices of the records written
          answer  \* "none" while at work, then "ok" or "error"

Init == out = <<>> /\ answer = "none"

Write ==
    /\ answer = "none"
    /\ Len(out) + 1 \in Good
    /\ out' = Append(out, Len(out) + 1)
    /\ UNCHANGED answer

Finish ==
    /\ answer = "none" /\ Len(out) = N
    /\ answer' = "ok"
    /\ UNCHANGED out

GiveUp ==
    /\ answer = "none"
    /\ answer' = "error"
    /\ UNCHANGED out

Next == Write \/ Finish \/ GiveUp

Spec == Init /\ [][Next]_<<out, answer>> /\ WF_<<out, answer>>(Next)
=============================================================================
