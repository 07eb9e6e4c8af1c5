--------------------------- MODULE MCEvidenceReads ---------------------------
(***************************************************************************)
(* A small instance of EvidenceReads.  A subscriber is rejected, without a *)
(* NAS being named, accepted and connects on one NAS and is disconnected   *)
(* on another; a second request of one moment was accepted and rejected    *)
(* under one event id.  The session of another subscriber shares an id     *)
(* with the stop of the first, and its NAS.                                *)
(***************************************************************************)
EXTENDS EvidenceReads

Named(sub, nas, client) ==
    [s \in Selectors |-> CASE s = "subscriber" -> sub [] s = "nas" -> nas
                           [] s = "client" -> client  [] OTHER -> Nil]

Event(kind, id, by, at, what, terms) ==
    [kind |-> kind, id |-> id, by |-> by, at |-> at, what |-> what, terms |-> terms,
     says |-> IF what = "rejected" THEN {"t"} ELSE {}]

MCEvents ==
    { Event("access", "a1", Named("u", Nil, Nil), 1, "rejected", {"u", "fail"}),
      Event("access", "a2", Named("u", "n", Nil), 2, "accepted", {"u"}),
      Event("access", "a2", Named("u", "n", Nil), 2, "rejected", {"u"}),
      Event("session", "s3", Named("u", "n", "c"), 3, "start", {"u"}),
      Event("session", "s4", Named("u", "m", "c"), 4, "stop", {"stop"}),
      Event("session", "s4", Named("v", "m", Nil), 4, "interim_update", {"u", "v"}) }

Request(goal, by, outcome, terms, from, to, limit) ==
    [goal |-> goal, by |-> by, outcome |-> outcome, status |-> Nil, terms |-> terms, text |-> "t",
     from |-> from, to |-> to, limit |-> limit]

\* Enough rows of either store for the limit to cut one off.
MCMaxRows == {[access |-> 3, session |-> 1], [access |-> 1, session |-> 2],
              [access |-> 0, session |-> 3]}

Nobody == Named(Nil, Nil, Nil)

\* A question may name a subscriber or the NAS, or leave both to the hits.
MCRequests ==
    { Request("before_connect", Nobody, Nil, {"u", "fail"}, Nil, Nil, 2),
      Request("status", Named("u", Nil, Nil), Nil, {"u"}, Nil, Nil, 2),
      Request("status", Nobody, Nil, {"u", "stop"}, Nil, Nil, 2),
      [Request("membership", Named("u", Nil, Nil), Nil, {"u"}, Nil, 3, 1) EXCEPT !.status = "start"],
      Request("disconnect", Named(Nil, "n", Nil), Nil, {"u"}, 2, Nil, 1),
      Request("question", Nobody, "rejected", {"u"}, Nil, Nil, 1) }
=============================================================================
