SPECIFICATION FairHolderSpec
CONSTANTS
  r1 = r1
  r2 = r2
  w1 = w1
  w2 = w2
  v1 = v1
  v2 = v2
  type = type
  data = data
  Readers <- MCReaders
  Writers <- MCWriters
  Values <- MCValues
  Words <- Interface
INVARIANTS
  HolderInv
  NoTornCopy
PROPERTIES
  AtomicSpec
  SwapReturns
