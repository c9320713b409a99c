CONSTANTS
  a = a
  b = b
  c = c
  d = d
  e = e
  Keys <- MCKeys
  Strings = {a, b}
  Hash <- MCHash
  ShareMax = 2
  MinIndex = 8
SPECIFICATION Spec
INVARIANTS EmptySlot LookupExact
