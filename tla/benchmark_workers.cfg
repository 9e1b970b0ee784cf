SPECIFICATION FairSpec
CONSTANTS
  None = None
  Blocks = 10
  Assignment <- MCAssignment
  Plans <- MCPlans
  RequestParts = 2
  AnswerParts = 2
  Capacity = 1
INVARIANTS
  PathsAreBalanced
  NobodyLeftBehind
  EvidenceVerifies
  NeverStalls
PROPERTIES
  AllEnd
CHECK_DEADLOCK FALSE
