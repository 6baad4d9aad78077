CONSTANTS
  Rounds = 64
  Work <- GenesisWork
  NONCE_STRIDE = 3
  Stops = 1
SPECIFICATION Spec
INVARIANT ResultsExact
