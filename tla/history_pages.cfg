SPECIFICATION Spec
CONSTANTS
  None = None
  a = a
  b = b
  c3 = c3
  w1 = w1
  w2 = w2
  Convs <- TwoConvs
  Writers <- MCWriters
  ConvPage = 1
  MessagePage = 1
  MaxClock = 6
  MaxMessages = 4
SYMMETRY SymmetryOfTwo
INVARIANTS
  TypeOK
  HistoryIsReadWhole
PROPERTIES
  MessagesAppearInOrder
