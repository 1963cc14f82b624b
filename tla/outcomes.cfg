SPECIFICATION FairSpec
CONSTANTS
  c1 = c1
  c2 = c2
  s1 = s1
  r1 = r1
  r2 = r2
  r3 = r3
  Convs <- MCOneConv
  Scopes <- MCScopes
  ScopeOf <- MCOneScopeOf
  Requests <- MCTwoRequests
  Models = {m1}
  None = None
  MaxFaults = 1
  MaxDisconnects = 1
PROPERTIES
  RunsEnd
  RunOutcomeIsFinal
  InteractionOutcomeIsFinal
CHECK_DEADLOCK FALSE
