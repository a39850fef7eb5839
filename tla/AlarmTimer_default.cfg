\* The program is started just before a multiple of the alignment.
SPECIFICATION Spec
CONSTANTS
  SEC = 2
  Align = 2
  Word = 64
  Commands <- DefaultCommands
  NoStart = NoStart
  Clocks = {3}
  Shifts = {}
  CardAhead = 3
  Junk = {0}
  Faults = {}
  Horizon = 12
  MaxShifts = 0
INVARIANT DefaultStarts
\* The bound on time is an end.
CHECK_DEADLOCK FALSE
