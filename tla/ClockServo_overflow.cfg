SPECIFICATION Spec
CONSTANTS
  THRESHOLD = 100000
  ADJ_FREQ_MAX = 512
  INT_MAX = 2147483
  MAXFREQ = 32768
  GUEST_TAI = 0
  Second = 100
  Programs <- HostOnly
  Delays = {0}
  Skews <- RealSkew
  Errors <- RealError
  Tolerance = 12
  Low = 4294967
  Wraps = 0
  MaxFaults <- OnceASecond
PROPERTY AppliesOutput
