SPECIFICATION FairSpec
CONSTANTS
  Procs = {p1, p2, p3}
  NoProc = NoProc
  Programs = {"host_sync"}
  Args <- SyncArgs
  LaunchDirs = {"work"}
  Faults = {"fork"}
  MinPeriod = 10
  MaxFds = 3
PROPERTIES StartDecides KeepsAdjusting SyncLoopLasts
