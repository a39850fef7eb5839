SPECIFICATION FairSpec
CONSTANTS
  Procs = {p1, p2, p3}
  NoProc = NoProc
  Programs = {"host_sync"}
  Args <- DaemonArgs
  LaunchDirs = {"work"}
  Faults = {}
  MinPeriod = 10
  MaxFds = 3
PROPERTY AnnouncedDaemonRuns
