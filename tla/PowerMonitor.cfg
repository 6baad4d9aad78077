SPECIFICATION PowerSpec
CONSTANTS
  Sensors = 2
  TickMod = 16
  TickMs = 2
  Deadline = 1
  Period = 2
  Limit = 4
  MaxLag = 3
INVARIANT PowerTruthful
PROPERTY SensorsRetried
