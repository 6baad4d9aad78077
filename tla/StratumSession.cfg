CONSTANTS
  JobId = {j1, j2}
  Extra1 = {e1, e2}
  Extra2Size = 2
  NumRanges = 2
  Target = {1, 2}
  NumPending = 2
  IdMod = 6
  Batch = 2
  MaxJobs = 2
  MaxAssigned = 2
  MaxHits = 2
  FifoDepth = 2
  NoHeader = NoHeader
SPECIFICATION MCSpec
INVARIANTS MinesCurrentJob NoStaleResult SubmissionsFaithful FreshHeaders NoResultLost AnswersMatch
PROPERTIES KeepsMining ResultsServed
