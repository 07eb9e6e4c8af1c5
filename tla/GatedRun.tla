------------------------------ MODULE GatedRun ------------------------------
(***************************************************************************)
(* The harness and the rules that gate it, composed: AgentRun takes any    *)
(* evaluator, StaticPolicy has the rules of internal/agents/policy, and    *)
(* Service.evaluate makes the calls that they decide.  NewService falls    *)
(* back to the default rules when its caller gives it no policy.           *)
(***************************************************************************)
EXTENDS AgentRun

CONSTANTS Tenants, NoTenant

ASSUME TenantAssumption == NoTenant \notin Tenants

Static == INSTANCE StaticPolicy WITH Names <- Tools

ToolPrefix == [t \in Tools |-> CASE t = "retrieve" -> "retrieve"
                                 [] t = "explain"  -> "explain"
                                 [] OTHER          -> "query"]

\* The harness aims every tool at the tenant of its run, and never flags one.
HarnessCall(tenant, t) == [run |-> tenant, target |-> tenant, name |-> t,
                           prefix |-> ToolPrefix[t], flagged |-> FALSE]

\* A list of rules, as the evaluator of a run for a tenant.
StaticPolicyOf(rules, tenant) ==
    [t \in Tools |-> Static!Evaluate(rules, Static!DefaultDecision, HarnessCall(tenant, t))]

DefaultPolicy(tenant) == StaticPolicyOf(Static!DefaultRules, tenant)

\* What the ordered default rules and the fallback of internal/agents/policy add
\* up to: a tool runs unattended exactly when it is a read-only one, its
\* definition does not ask for approval, and it names no tenant or the run's
\* own; another tenant's data is denied whatever the tool, and everything else
\* waits for approval.
DecisionMeansWhatTheRulesSay ==
    pc = "new" => \A call \in Static!ToolCalls :
        LET otherTenant == NoTenant \notin {call.run, call.target} /\ call.run # call.target
            readOnly    == call.prefix \in Static!ReadOnlyPrefixes /\ ~call.flagged
            sameTenant  == call.target \in {NoTenant, call.run}
        IN  Static!DefaultEvaluate(call) =
              CASE otherTenant            -> "deny"
                [] readOnly /\ sameTenant -> "allow"
                [] OTHER                  -> "require_approval"

\* Under the default rules no run of the harness is ever stopped by them: no
\* saved line waits for an approval, which nobody could give (there is no
\* operation that resumes a run), and a run fails only where a query or a save
\* does.
DefaultPolicyNeverStops ==
    (\E tenant \in Tenants : policy = DefaultPolicy(tenant)) =>
        /\ \A i \in DOMAIN file : file[i].status # "awaiting_approval"
        /\ pc = "fail" => failure.kind = "error"
=============================================================================
