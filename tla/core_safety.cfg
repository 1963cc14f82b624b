\* Faults, no disconnects, one model.
SPECIFICATION Spec
CONSTANTS
  c1 = c1
  c2 = c2
  s1 = s1
  r1 = r1
  r2 = r2
  r3 = r3
  Convs <- MCConvs
  Scopes <- MCScopes
  ScopeOf <- MCScopeOf
  Requests <- MCRequests
  Models = {m1}
  None = None
  MaxFaults = 1
  MaxDisconnects = 0
SYMMETRY Symmetry
INVARIANTS
  TypeOK
  OpenClarificationIsCurrent
  AwaitingHasOpenClarification
  OneOpenClarificationPerConversation
  ArchivedConversationIsQuiet
  CompletedRunClosedItsInteraction
  NewQuestionIsNeverRefused
  QuestionWaitsForItsAnswer
  IInv
PROPERTIES
  ImplementsHistory
CHECK_DEADLOCK FALSE
