CONSTANTS
  Buf = {b1, b2, b3}
  NoBuf = NoBuf
  QueueLen = 2
  TxTicks = 1
SPECIFICATION MCSpec
INVARIANT OnlyValidCopied
