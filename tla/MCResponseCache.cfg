SPECIFICATION FairSpec
CONSTANTS
  Keys = {k1, k2}
  Writers = {w1}
  Closers = {a, b}
  TTL = 2
  Durations <- MCDurations
  MaxTime = 4
  Empty = Empty
INVARIANTS
  TypeOK
  HitsAreFresh
PROPERTIES
  TTLMapSpec
  ExpiredLeaves
  FirstCloseReturns
