SPECIFICATION Spec
CONSTANTS
  None = None
  Types <- MCTypes
  Names <- MCNames
  Documents <- MCDocuments
  Snapshots = {"s0", "s1"}
  Content <- MCContent
  Requests <- MCRequests
  Replies <- MCReplies
  Words <- MCWords
  StopWords = {"the"}
  Stem <- MCStem
  Aliases <- MCAliases
  Anchors = {"filter", "filters", "defineview"}
  Concepts <- MCConcepts
  MaxResults = 2
  Bundles <- MCBundles
  WordsOf <- MCWordsOf
  Prompts <- MCPrompts
  Expansions <- MCExpansions
  CallLimits = {2}
  MaxCandidates = 2
  SelectorLimit = 3
  MaxChars = 19
  BaseChars = 2
  DocumentChars = 4
  MaxTurns = 3
INVARIANT PickSettlesItsTask
