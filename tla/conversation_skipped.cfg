SPECIFICATION Spec
CONSTANTS
  None = None
  a = a
  b = b
  c3 = c3
  w1 = w1
  w2 = w2
  Convs <- ThreeConvs
  Writers <- MCWriters
  ConvPage = 2
  MessagePage = 1
  MaxClock = 4
  MaxMessages = 1
SYMMETRY SymmetryOfThree
INVARIANTS
  EveryConversationIsListed
