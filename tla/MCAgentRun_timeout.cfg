SPECIFICATION Spec
CONSTANTS
  TenantA = TenantA
  TenantB = TenantB
  NoTenant = NoTenant
  Tenants = {TenantA, TenantB}
  Requests <- MCRequests
  Policies <- MCPolicies
  Ticks = {1}
  ClockStart = 1
  StoreMayFail = FALSE
  SearchMayFail = FALSE
INVARIANT
  ReturnedRunIsSettled
CHECK_DEADLOCK FALSE
