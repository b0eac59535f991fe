CONSTANTS
  a = a
  b = b
  Addrs = {a, b}
  Contracts = {b}
  Keys <- MCKeys
  Values = {0, 1}
  Balances = {0, 1}
  MaxSnapshots = 3
SPECIFICATION Spec
INVARIANTS
  TypeOK
  RevertsAsNested
  WritesAreRead
  RwSetCovers
CHECK_DEADLOCK FALSE
