SPECIFICATION Spec
CONSTANTS
  Unset = Unset
  Unparsable = Unparsable
  NaN = NaN
  Entities = {"e1", "e2", "e3"}
  Chunks = {"c1", "c2"}
  Settings <- MCSettings
  Accesses <- MCAccesses
  Objects <- MCObjects
  MaxObjects = 3
  Preparations <- MCPreparations
  Replies <- MCReplies
  FixedReply <- MCFixedReply
  DeltaSize = 2
  MaxFaults = 1
INVARIANTS
  TypeOK
  SizeLimitIsExact
  GuardedWhereItRuns
  ToldIsStored
  OneOutcome
  AnswerIsConfirmed
  CitationsWereOffered
PROPERTIES
  AnswerEnds
