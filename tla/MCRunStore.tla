----------------------------- MODULE MCRunStore -----------------------------
(***************************************************************************)
(* A small instance of RunStore: two calls, in apid and in agentd, that    *)
(* share a run id, and the watcher of agentd with its checkpoint key.      *)
(***************************************************************************)
EXTENDS RunStore

CONSTANTS apid, agentd, chat, http, watcher, sharedId, checkpoint

MCKeyOf == [c \in Savers |-> IF c = watcher THEN checkpoint ELSE sharedId]

MCProcOf == [c \in Savers |-> IF c = chat THEN apid ELSE agentd]

\* The clock may step back, stand still or move.
MCTicks == {-1, 0, 1}
=============================================================================
