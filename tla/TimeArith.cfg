\* A second of three nanoseconds, counters of four bits, bytes of two.
SPECIFICATION Spec
CONSTANTS
  NSEC = 3
  Word = 16
  Secs <- SecondsRange
  Nsecs <- NanosecondsRange
  Tais = {0, 1, 5}
  Thresholds = {0, 1, 2}
  Byte = 4
  TvSecs <- TvSecsRange
  TvNsecs = {0, 1, 77, 127, 128, 255}
INVARIANTS SumsRight OffsetRight FarRight MessageArrives
\* One call of the arithmetic is all there is.
CHECK_DEADLOCK FALSE
