\* One reader latches between the two readings of another.
SPECIFICATION Spec
CONSTANTS
  Readers = {r1, r2}
  Low = 2
  MaxHigh = 2
  Latches = TRUE
  Offsets <- SmallOffsets
SYMMETRY Interchangeable
INVARIANT ExactTime
