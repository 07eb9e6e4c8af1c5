SPECIFICATION Spec
CONSTANTS
  TenantA = TenantA
  TenantB = TenantB
  NoTenant = NoTenant
  Tenants = {TenantA, TenantB}
  Requests <- MCRequests
  Policies <- MCPolicies
  Ticks = {0, 1}
  ClockStart = 1
  StoreMayFail = TRUE
  SearchMayFail = TRUE
INVARIANTS
  AnswerIsStored
  RefusalEndsRun
  LinesAreAHistory
  CompletedRunFollowsPlan
  DecisionMeansWhatTheRulesSay
  DefaultPolicyNeverStops
PROPERTIES
  SettledIsFinal
CHECK_DEADLOCK FALSE
