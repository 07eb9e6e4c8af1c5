----------------------------- MODULE MCAgentRun -----------------------------
(***************************************************************************)
(* Small instances of GatedRun.  The policies are the default evaluator,   *)
(* evaluators with one rule for a single tool put in front of the default  *)
(* rules, and evaluators that return an error for one tool.                *)
(***************************************************************************)
EXTENDS GatedRun

CONSTANTS TenantA, TenantB

ToolRule(t, d) == [Static!AnyCall(d) EXCEPT !.names = {t}]

MCPolicies ==
    {DefaultPolicy(TenantA)}
    \cup {StaticPolicyOf(<<ToolRule(t, d)>> \o Static!DefaultRules, TenantA) :
             t \in Tools, d \in {"require_approval", "deny"}}
    \cup {[DefaultPolicy(TenantA) EXCEPT ![t] = "error"] : t \in Tools}

MCRequests ==
    {r \in [goal : Goals, selectors : BOOLEAN, tenant : BOOLEAN, text : BOOLEAN,
            inputs : {"ok", "bad_window", "bad_limit"}, maxSteps : {0, 1, 2, 3, 9},
            access : BOOLEAN, sessions : BOOLEAN] :
        \/ r.tenant /\ r.text
        \* one rejected request of each kind is enough
        \/ /\ r.goal = "other" /\ ~r.selectors /\ r.inputs = "ok" /\ r.maxSteps = 0
           /\ r.access /\ r.sessions}
=============================================================================
