SPECIFICATION Spec
CONSTANTS
  a = a
  b = b
  c = c
  d = d
  e = e
  f = f
  Keys <- MCKeys
  Values <- MCValues
  Hash1 <- MCHash1
  Hash2 <- MCHash2
  Bytes <- MCBytes
  StashSize = 2
  MinSize = 4
  MaxSize = 16
  MinPool = 4
  MaxPool = 8
  None = None
SYMMETRY Symmetry
INVARIANTS TypeOK Placed PoolSound 
PROPERTIES MapPromise
CHECK_DEADLOCK FALSE
