CONSTANTS
  a = a
  b = b
  r = r
  Addrs = {a, b, r}
  Contracts = {b}
  Remote = {r}
  Keys <- MCKeys
  Values = {0, 1}
  Balance <- MCBalance
  MaxCalls = 5
  MaxBlocks = 2
SPECIFICATION Spec
INVARIANT BlocksHoldTheirTxs
