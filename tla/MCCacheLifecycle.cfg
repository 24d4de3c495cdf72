CONSTANTS
  r1 = r1
  r2 = r2
  w1 = w1
  w2 = w2
  i1 = i1
  i2 = i2
  i3 = i3
  Readers = {r1}
  Restorers = {w1, w2}
  NoRestorer = NoRestorer
  RowIds = {i1, i2, i3}
  MaxLease = 1
  MaxTroubles = 1
SPECIFICATION Spec
SYMMETRY Symmetry
INVARIANTS
  ContentNeverLost
  NoPartialRead
  EvictingIsTransient
PROPERTIES
  StreamsUndisturbed
  WholeFileKept
