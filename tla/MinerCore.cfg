SPECIFICATION BothSpec
CONSTANTS
  NumEngines = 3
  ClusterSize = 2
  Depth = 1
  Count = 4
  Latency = {17, 20}
  Gap = 3
  MaxJobs = 2
  None = None
INVARIANTS ResultIsCurrent RangeComplete LossFlagged DeviceAgrees
PROPERTIES SearchEnds
