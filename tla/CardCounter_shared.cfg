\* Two readers share the latch.
SPECIFICATION Spec
CONSTANTS
  Readers = {r1, r2}
  Low = 2
  MaxHigh = 2
  Latches = TRUE
  Offsets <- SmallOffsets
SYMMETRY Interchangeable
INVARIANTS TypeOK TornByWraps OffsetOffByWraps ExactUnlessShared
PROPERTY EmptyOnlyAtReset
