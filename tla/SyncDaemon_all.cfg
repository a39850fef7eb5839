SPECIFICATION Spec
CONSTANTS
  Procs = {p1, p2, p3}
  NoProc = NoProc
  Programs = {"host_sync", "guest_sync", "time_sync"}
  Args <- AllArgs
  LaunchDirs = {"work", "dev"}
  Faults = {"open", "fcntl", "ftruncate", "write", "fork", "device", "ioctl",
            "kill"}
  MinPeriod = 10
  MaxFds = 3
SYMMETRY Symmetry
INVARIANTS TypeOK OneWriter PidFileNamesWriter FreshOffset
PROPERTY SingleWriterSpec
