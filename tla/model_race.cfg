SPECIFICATION Spec
CONSTANTS
  c1 = c1
  c2 = c2
  s1 = s1
  r1 = r1
  r2 = r2
  r3 = r3
  Convs <- MCConvs
  Scopes <- MCScopes
  ScopeOf <- MCScopeOf
  Requests <- MCTwoRequests
  Models = {m1, m2}
  None = None
  MaxFaults = 0
  MaxDisconnects = 0

INVARIANT RunsUseTheConversationsModel
CHECK_DEADLOCK FALSE
