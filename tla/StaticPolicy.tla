---------------------------- MODULE StaticPolicy ----------------------------
(***************************************************************************)
(* internal/agents/policy: the first-match rule evaluator that gates every *)
(* tool call of an agent run.  A tool is a name and the prefix the default *)
(* rules look at; a tenant is a model value, NoTenant the empty string.    *)
(***************************************************************************)
EXTENDS Naturals, Sequences

CONSTANTS Tenants,     \* tenant identifiers, without NoTenant
          NoTenant,    \* the empty tenant id
          Names        \* tool names

ReadOnlyPrefixes == {"search", "retrieve", "query", "explain"}
StateChangePrefixes == {"ticket", "runbook", "action", "export"}
Prefixes == ReadOnlyPrefixes \cup StateChangePrefixes \cup {"other"}

PolicyDecisions == {"allow", "require_approval", "deny"}

\* A tool call: the tenant of the run, the tenant the tool is aimed at, the
\* tool's name and prefix and whether its definition demands approval.
ToolCalls == [run : Tenants \cup {NoTenant}, target : Tenants \cup {NoTenant},
              name : Names, prefix : Prefixes, flagged : BOOLEAN]

IsCrossTenant(call) ==
    /\ call.run # NoTenant
    /\ call.target # NoTenant
    /\ call.run # call.target

\* Fault: a run without a tenant is let through instead of one with.
IsSameTenantNegated(call) ==
    \/ call.target = NoTenant
    \/ call.run = NoTenant /\ call.run = call.target

IsSameTenant(call) ==
    \/ call.target = NoTenant
    \/ call.run # NoTenant /\ call.run = call.target

\* A Match that lists neither tool names nor prefixes matches every tool.
Matches(match, call) ==
    /\ match.crossTenant => IsCrossTenant(call)
    /\ match.sameTenantOnly => IsSameTenant(call)
    /\ match.toolRequiresApproval => call.flagged
    /\ \/ match.names = {} /\ match.prefixes = {}
       \/ call.name \in match.names
       \/ call.prefix \in match.prefixes

\* A rule is a Match and the decision it gives.
AnyCall(decision) ==
    [crossTenant |-> FALSE, sameTenantOnly |-> FALSE, toolRequiresApproval |-> FALSE,
     names |-> {}, prefixes |-> {}, decision |-> decision]

\* Fault: the read-only rule moved in front of the flagged-tool rule.
DefaultRulesReordered ==
    << [AnyCall("deny") EXCEPT !.crossTenant = TRUE],
       [AnyCall("require_approval") EXCEPT !.prefixes = StateChangePrefixes],
       [AnyCall("allow") EXCEPT !.prefixes = ReadOnlyPrefixes, !.sameTenantOnly = TRUE],
       [AnyCall("require_approval") EXCEPT !.toolRequiresApproval = TRUE] >>

DefaultRules ==
    << [AnyCall("deny") EXCEPT !.crossTenant = TRUE],
       [AnyCall("require_approval") EXCEPT !.prefixes = StateChangePrefixes],
       [AnyCall("require_approval") EXCEPT !.toolRequiresApproval = TRUE],
       [AnyCall("allow") EXCEPT !.prefixes = ReadOnlyPrefixes, !.sameTenantOnly = TRUE] >>

DefaultDecision == "require_approval"

\* The first matching rule decides; the fallback applies when none matches.
Evaluate(rules, fallback, call) ==
    LET matching == {i \in DOMAIN rules : Matches(rules[i], call)}
    IN  IF matching = {} THEN fallback
        ELSE rules[CHOOSE i \in matching : \A j \in matching : i <= j].decision

DefaultEvaluate(call) == Evaluate(DefaultRules, DefaultDecision, call)
=============================================================================
