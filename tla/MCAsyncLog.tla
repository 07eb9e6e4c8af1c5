----------------------------- MODULE MCAsyncLog -----------------------------
(***************************************************************************)
(* Two loggers and a queue of one: one logs an error behind an info, the   *)
(* other the other way round.                                              *)
(***************************************************************************)
EXTENDS AsyncLog

CONSTANTS l1, l2

MCLevels == [l \in {l1, l2} |-> IF l = l1 THEN <<"info", "error">> ELSE <<"error", "info">>]
=============================================================================
