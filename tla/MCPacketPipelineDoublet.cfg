SPECIFICATION Spec
CONSTANTS
  k1 = k1
  k2 = k2
  k3 = k3
  null = null
  a = a
  b = b
  Workers = {w1, w2}
  NumPackets = 6
  Sources = {a, b}
  Keys = {k1, k2, k3}
  Filtered = null
  KeyOf <- MCKeyOf
  SourceOf <- MCSourceOf
  MaxUnhandled = 2
  MaxBuffered = 2
INVARIANTS
  AllSourcesListed
