SPECIFICATION FormSpec
CONSTANTS
  Miner = {m1, m2}
  NoMiner = NoMiner
  MaxGeneration = 4
  MaxEdits = 2
INVARIANT SaveAfterRead
PROPERTY EditsKept ButtonReturns
