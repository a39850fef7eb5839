\* The constants of the code, in microseconds; the guest's 35 nanoseconds
\* count as one.
SPECIFICATION FairSpec
CONSTANTS
  THRESHOLD = 100000
  ADJ_FREQ_MAX = 512
  INT_MAX = 2147483
  MAXFREQ = 32768
  GUEST_TAI = 1
  Second = 100
  Programs <- HostAndGuest
  Delays = {0, 1}
  Skews <- RealSkew
  Errors <- RealError
  Tolerance = 10
  Low = 4294967
  Wraps = 1
  MaxFaults <- OnceASecond
INVARIANTS TypeOK StepLands OneStepEnough
PROPERTY Settles
