\* Half seconds; six of them, and the clock set once.
SPECIFICATION FairSpec
CONSTANTS
  SEC = 2
  Align = 2
  Word = 64
  Commands <- AllCommands
  NoStart = NoStart
  Clocks = {1}
  Shifts <- SomeShifts
  CardAhead = 3
  Junk = {40}
  Faults = {"open", "timer_create", "fopen"}
  Horizon = 6
  MaxShifts = 1
INVARIANTS TypeOK LatestTickReported ReportsInTime DelayTakenAway
PROPERTY AlarmAnswered
\* The bound on time is an end.
CHECK_DEADLOCK FALSE
