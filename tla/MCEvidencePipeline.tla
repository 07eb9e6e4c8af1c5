------------------------- MODULE MCEvidencePipeline -------------------------
(***************************************************************************)
(* Small instances of EvidencePipeline.  The radius files are the start    *)
(* of a session and a record whose status is stored but not normalised:    *)
(* ingested twice, they give an event two documents, and a poisonous       *)
(* record at the end of the raw store or between the two.  The access      *)
(* files are decisions on two users without request or session: they get   *)
(* the same event id.                                                      *)
(***************************************************************************)
EXTENDS EvidencePipeline

Payload(user, session, request, status, at) ==
    [user |-> user, session |-> session, request |-> request, status |-> status, at |-> at]

MCInputs ==
    { [kind |-> "radius",
       files |-> << Payload("u1", "s1", Empty, "start", 1), Payload("u1", "s1", Empty, "failed", 2) >>],
      [kind |-> "access",
       files |-> << Payload("u1", Empty, Empty, "rejected", 1), Payload("u2", Empty, Empty, "rejected", 1) >>] }

MCMaxRuns == [radius |-> 2, access |-> 1]
=============================================================================
