SPECIFICATION SelectorSpec
CONSTANTS
  Keys = {"k1", "k2", "k3", "k4"}
  Malformed = {"k4"}
  Foreign = {"k3"}
  Callers = {c1, c2}
  Limit = 1
  None = None
  Alphabet <- MCAlphabet
  Letters <- MCLetters
  Near <- MCNear
  Index <- MCIndex
  Inputs <- MCInputs
  DefaultLimit = 5
INVARIANTS
  TypeOK
  OrderListsTheCache
  ExactMatchIsFoundUnlessFull
  NothingOutranksWhatIsKept
  RelatedToWhatIsKept
PROPERTIES
  StoredSnapshotIsServed
