------------------------------ MODULE MCServing ------------------------------
(***************************************************************************)
(* A small instance of Serving: one client that asks twice, by every route *)
(* and perhaps before the first answer.  Clients share only the process    *)
(* and the file system: each has a handler, a context and runs of its own. *)
(***************************************************************************)
EXTENDS Serving

CONSTANTS client

MCMaxAsks == [c \in Clients |-> 2]
=============================================================================
