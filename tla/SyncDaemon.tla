------------------------------ MODULE SyncDaemon ------------------------------
(***************************************************************************)
(* The life of the clock synchronisation programs host_sync, guest_sync    *)
(* and time_sync: option parsing, the single-instance lock on              *)
(* /var/run/PcieSync.pid, daemon(), opening the card and the endless       *)
(* measure / adjust / usleep loop.  The three mains are copies of one      *)
(* another; they differ in how the card is opened and how the offset is    *)
(* read, so one model runs all three, each process naming its program.     *)
(*                                                                         *)
(* The arithmetic of an adjustment is the subject of ClockServo; here an   *)
(* adjustment is the step that makes every offset read earlier obsolete.   *)
(***************************************************************************)
EXTENDS Integers, Sequences, FiniteSets

CONSTANTS
  Procs,        \* process identifiers; a slot is reused after an exit
  NoProc,       \* "nobody": no lock owner, an empty pid file
  Programs,     \* the programs that are launched
  Args,         \* the command lines they are launched with
  LaunchDirs,   \* the working directories they are launched from
  Faults,       \* the system calls that may fail, and "kill"
  MinPeriod,    \* 10000 us in the code
  MaxFds        \* size of a descriptor table, counting lock-file descriptors

Options == [opt : {"h", "d", "t", "v", "s"}, arg : Nat]
Calls   == {"open", "fcntl", "ftruncate", "write", "fork", "device", "ioctl",
            "kill"}

ASSUME ConstantsOK ==
  /\ NoProc \notin Procs
  /\ Programs \subseteq {"host_sync", "guest_sync", "time_sync"}
  /\ Args \subseteq Seq(Options)
  /\ LaunchDirs \subseteq {"work", "dev"}
  /\ Faults \subseteq Calls
  /\ MinPeriod \in Nat
  /\ MaxFds \in Nat

VARIABLES
  proc,         \* what the kernel and main() know of each process
  lockOwner,    \* who holds the write lock on the lock file
  pidfile       \* whose pid the lock file contains

vars == <<proc, lockOwner, pidfile>>

Labels == {"dead", "opts", "open", "lock", "truncate", "write", "daemon",
           "exiting", "device", "measure", "adjust", "sleep"}

(***************************************************************************)
(* site is the call of already_running() in progress: case 'd' of getopt,  *)
(* the check before the loop, or the one inside the loop.  fds counts the  *)
(* descriptors already_running() has left open on the lock file.  Two      *)
(* fields are history: fresh, that no process adjusted the clock since     *)
(* this one last read the offset, and wrote, that its last write() of its  *)
(* pid went through, which the program does not look at.                   *)
(***************************************************************************)
Process == [pc      : Labels,
            prog    : {"host_sync", "guest_sync", "time_sync"},
            argv    : Seq(Options),
            display : BOOLEAN,
            period  : Nat,
            cwd     : {"work", "dev", "root"},
            site    : {"opts", "pre", "loop"},
            fds     : 0..MaxFds,
            fresh   : BOOLEAN,
            wrote   : BOOLEAN]

Gone == [pc |-> "dead", prog |-> "host_sync", argv |-> <<>>,
         display |-> FALSE, period |-> MinPeriod, cwd |-> "work",
         site |-> "opts", fds |-> 0, fresh |-> FALSE, wrote |-> FALSE]

TypeOK ==
  /\ proc \in [Procs -> Process]
  /\ lockOwner \in Procs \union {NoProc}
  /\ pidfile \in Procs \union {NoProc}

Init ==
  /\ proc = [p \in Procs |-> Gone]
  /\ lockOwner = NoProc
  /\ pidfile = NoProc

Alive == {p \in Procs : proc[p].pc # "dead"}

Become(p, r) == proc' = [proc EXCEPT ![p] = r]
Goto(p, l)   == Become(p, [proc[p] EXCEPT !.pc = l])

-----------------------------------------------------------------------------
(* The kernel's side of a process: start, end, and the lock.               *)

(***************************************************************************)
(* Somebody runs a program.  Without any option main() prints its usage    *)
(* and ends, which changes nothing.  The bound on launches is the number   *)
(* of slots: a launch leaves one free, so that fork() finds room.          *)
(***************************************************************************)
Launch(p) ==
  /\ proc[p].pc = "dead"
  /\ Alive \union {p} # Procs
  /\ \E prog \in Programs, argv \in Args, dir \in LaunchDirs :
       /\ argv # <<>>
       /\ Become(p, [Gone EXCEPT !.pc = "opts", !.prog = prog,
                                 !.argv = argv, !.cwd = dir])
  /\ UNCHANGED <<lockOwner, pidfile>>

\* A record lock belongs to the process: closing any descriptor of the file
\* drops it, and so does the end of the process.
Unlocked(p) == IF lockOwner = p THEN NoProc ELSE lockOwner

Exit(p) ==
  /\ Become(p, Gone)
  /\ lockOwner' = Unlocked(p)
  /\ UNCHANGED pidfile

\* killall in uninstall.sh, or a crash, at any point.
Kill(p) ==
  /\ "kill" \in Faults
  /\ proc[p].pc # "dead"
  /\ Exit(p)

-----------------------------------------------------------------------------
(* already_running(): open, fcntl(F_SETLK), then close or ftruncate, write. *)

OpenLockFile(p) ==
  /\ proc[p].pc = "open"
  /\ \/ /\ proc[p].fds < MaxFds
        /\ Become(p, [proc[p] EXCEPT !.pc = "lock", !.fds = @ + 1])
        /\ UNCHANGED <<lockOwner, pidfile>>
     \/ /\ proc[p].fds = MaxFds \/ "open" \in Faults
        /\ Exit(p)

\* F_SETLK does not wait, and succeeds at once for the process that already
\* holds the lock.
Locks(p) ==
  /\ lockOwner \in {NoProc, p}
  /\ Goto(p, "truncate")
  /\ lockOwner' = p
  /\ UNCHANGED pidfile

\* Bug: the descriptor is closed twice when the lock is refused.
RefusedClosesTwice(p) ==
  /\ lockOwner \notin {NoProc, p}
  /\ IF proc[p].site = "loop"
       THEN /\ Become(p, [proc[p] EXCEPT !.pc = "sleep", !.fds = @ - 2])
            /\ UNCHANGED <<lockOwner, pidfile>>
       ELSE Exit(p)

\* Bug: the loop takes a refusal for "not running".
RefusedIgnored(p) ==
  /\ lockOwner \notin {NoProc, p}
  /\ IF proc[p].site = "loop"
       THEN /\ Become(p, [proc[p] EXCEPT !.pc = "adjust", !.fds = @ - 1])
            /\ UNCHANGED <<lockOwner, pidfile>>
       ELSE Exit(p)

\* Another process holds the lock: already_running() closes its descriptor
\* and returns 1.  Inside the loop that means "display only".
Refused(p) ==
  /\ lockOwner \notin {NoProc, p}
  /\ IF proc[p].site = "loop"
       THEN /\ Become(p, [proc[p] EXCEPT !.pc = "sleep", !.fds = @ - 1])
            /\ UNCHANGED <<lockOwner, pidfile>>
       ELSE Exit(p)

\* Bug: F_SETLKW instead of F_SETLK.
SetLockWaits(p) ==
  /\ proc[p].pc = "lock"
  /\ Locks(p)

SetLock(p) ==
  /\ proc[p].pc = "lock"
  /\ \/ Locks(p)
     \/ Refused(p)
     \/ "fcntl" \in Faults /\ Exit(p)

\* ftruncate(), whose result nobody looks at: the old pid may stay.
Truncate(p) ==
  /\ proc[p].pc = "truncate"
  /\ Goto(p, "write")
  /\ \/ pidfile' = NoProc
     \/ "ftruncate" \in Faults /\ UNCHANGED pidfile
  /\ UNCHANGED lockOwner

\* Where the three callers go on when already_running() returned 0.
Granted(p) == CASE proc[p].site = "opts" -> "daemon"
                [] proc[p].site = "pre"  -> "measure"
                [] proc[p].site = "loop" -> "adjust"

\* already_running() returns 0 whether the pid was written or not.
Returns(p, written) ==
  Become(p, [proc[p] EXCEPT !.pc = Granted(p), !.wrote = written])

\* Bug: only case 'd' writes the pid.
WritePidOnce(p) ==
  /\ proc[p].pc = "write"
  /\ Returns(p, TRUE)
  /\ pidfile' = IF proc[p].site = "opts" THEN p ELSE pidfile
  /\ UNCHANGED lockOwner

(***************************************************************************)
(* write(), whose result nobody looks at either.  A pid that is written    *)
(* is read up to its NUL, whatever stood in the file.  A write that fails  *)
(* leaves the file as it is; one that is cut short leaves the first digits *)
(* of the pid, and they may be anybody's.  The descriptor stays open in    *)
(* all three callers.                                                      *)
(***************************************************************************)
WritePid(p) ==
  /\ proc[p].pc = "write"
  /\ \/ Returns(p, TRUE) /\ pidfile' = p
     \/ /\ "write" \in Faults
        /\ Returns(p, FALSE)
        /\ pidfile' \in Procs \union {NoProc}
  /\ UNCHANGED lockOwner

AlreadyRunning(p) ==
  OpenLockFile(p) \/ SetLock(p) \/ Truncate(p) \/ WritePid(p)

-----------------------------------------------------------------------------
(* main(): the getopt loop, daemon(), the card, the synchronisation loop.  *)

\* One turn of the getopt loop on option o, the rest left in argv.
Option(p, o, rest) ==
  \/ /\ o.opt = "h"
     /\ Exit(p)
  \/ /\ o.opt = "d"
     /\ Become(p, [proc[p] EXCEPT !.argv = rest, !.pc = "open",
                                  !.site = "opts"])
     /\ UNCHANGED <<lockOwner, pidfile>>
  \/ /\ o.opt = "t"
     /\ Become(p, [proc[p] EXCEPT !.argv = rest, !.display = TRUE])
     /\ UNCHANGED <<lockOwner, pidfile>>
  \/ /\ o.opt = "v"
     /\ Become(p, [proc[p] EXCEPT !.argv = rest])
     /\ UNCHANGED <<lockOwner, pidfile>>
  \/ /\ o.opt = "s" /\ o.arg >= MinPeriod
     /\ Become(p, [proc[p] EXCEPT !.argv = rest, !.period = o.arg])
     /\ UNCHANGED <<lockOwner, pidfile>>
  \/ /\ o.opt = "s" /\ o.arg < MinPeriod
     /\ Exit(p)

GetOpt(p) ==
  /\ proc[p].pc = "opts"
  /\ IF proc[p].argv = <<>>
       THEN Goto(p, "device") /\ UNCHANGED <<lockOwner, pidfile>>
       ELSE Option(p, Head(proc[p].argv), Tail(proc[p].argv))

(***************************************************************************)
(* daemon(0, 0): the child c is a copy of its parent, in directory /, with *)
(* the parent's descriptors and none of its record locks.  The parent      *)
(* leaves by _exit(0), at its own pace.                                    *)
(***************************************************************************)
Daemon(p) ==
  /\ proc[p].pc = "daemon"
  /\ \/ /\ \E c \in Procs :
             /\ proc[c].pc = "dead"
             /\ proc' = [proc EXCEPT
                  ![c] = [proc[p] EXCEPT !.pc = "opts", !.cwd = "root"],
                  ![p] = [proc[p] EXCEPT !.pc = "exiting"]]
        /\ UNCHANGED <<lockOwner, pidfile>>
     \/ "fork" \in Faults /\ Exit(p)

ParentExit(p) ==
  /\ proc[p].pc = "exiting"
  /\ Exit(p)

\* host_sync opens /dev/pcietime0, time_sync the relative path pcietime0;
\* guest_sync opens nothing, the open() call is commented out.
HostOpens(p)     == proc[p].prog = "host_sync"
GuestOpens(p)    == proc[p].prog = "guest_sync"
TimeSyncOpens(p) == proc[p].prog = "time_sync" /\ proc[p].cwd = "dev"
Opens(p)         == HostOpens(p) \/ GuestOpens(p) \/ TimeSyncOpens(p)

\* Bug: the parent's lock is thought to cover the child, which goes straight
\* to the loop.
OpenDeviceUnlocked(p) ==
  /\ proc[p].pc = "device"
  /\ \/ /\ Opens(p)
        /\ Goto(p, "measure")
        /\ UNCHANGED <<lockOwner, pidfile>>
     \/ /\ ~Opens(p) \/ ("device" \in Faults /\ ~GuestOpens(p))
        /\ Exit(p)

OpenDevice(p) ==
  /\ proc[p].pc = "device"
  /\ \/ /\ Opens(p)
        /\ IF proc[p].display
             THEN Goto(p, "measure")
             ELSE Become(p, [proc[p] EXCEPT !.pc = "open", !.site = "pre"])
        /\ UNCHANGED <<lockOwner, pidfile>>
     \/ /\ ~Opens(p) \/ ("device" \in Faults /\ ~GuestOpens(p))
        /\ Exit(p)

\* Bug: every round asks already_running(), with -t or without.
MeasureAlwaysAsks(p) ==
  /\ proc[p].pc = "measure"
  /\ \/ Become(p, [proc[p] EXCEPT !.fresh = TRUE, !.pc = "open",
                                   !.site = "loop"])
     \/ /\ "ioctl" \in Faults /\ proc[p].prog # "guest_sync"
        /\ Goto(p, "sleep")
  /\ UNCHANGED <<lockOwner, pidfile>>

\* The offset is read before already_running() is asked in display mode; a
\* failed ioctl skips the round.  guest_sync reads by hypercall, unchecked.
Measure(p) ==
  /\ proc[p].pc = "measure"
  /\ \/ Become(p, IF proc[p].display
                    THEN [proc[p] EXCEPT !.fresh = TRUE, !.pc = "open",
                                         !.site = "loop"]
                    ELSE [proc[p] EXCEPT !.fresh = TRUE, !.pc = "adjust"])
     \/ /\ "ioctl" \in Faults /\ proc[p].prog # "guest_sync"
        /\ Goto(p, "sleep")
  /\ UNCHANGED <<lockOwner, pidfile>>

\* update_clock(): whatever branch it takes, every offset read so far is out
\* of date afterwards.
Adjust(p) ==
  /\ proc[p].pc = "adjust"
  /\ proc' = [q \in Procs |->
                [proc[q] EXCEPT !.fresh = FALSE,
                                !.pc = IF q = p THEN "sleep" ELSE @]]
  /\ UNCHANGED <<lockOwner, pidfile>>

\* Bug: the period must be longer than the minimum, as the messages say, and
\* the default period is the minimum.
SleepStrictly(p) ==
  /\ proc[p].pc = "sleep"
  /\ IF proc[p].period > MinPeriod
       THEN Goto(p, "measure") /\ UNCHANGED <<lockOwner, pidfile>>
       ELSE Exit(p)

\* Bug: the next round uses the offset of the last one.
SleepKeepsOffset(p) ==
  /\ proc[p].pc = "sleep"
  /\ Goto(p, "adjust")
  /\ UNCHANGED <<lockOwner, pidfile>>

\* usleep(sync_period), unless the period is too short to go on.
Sleep(p) ==
  /\ proc[p].pc = "sleep"
  /\ IF proc[p].period >= MinPeriod
       THEN Goto(p, "measure") /\ UNCHANGED <<lockOwner, pidfile>>
       ELSE Exit(p)

-----------------------------------------------------------------------------
Step(p) ==
  \/ GetOpt(p) \/ AlreadyRunning(p) \/ Daemon(p) \/ ParentExit(p)
  \/ OpenDevice(p) \/ Measure(p) \/ Adjust(p) \/ Sleep(p)

Next == \E p \in Procs : Step(p) \/ Launch(p) \/ Kill(p)

Spec == Init /\ [][Next]_vars

\* The scheduler runs every process and usleep() returns; nobody has to
\* launch or kill anything.
Fairness == \A p \in Procs : WF_vars(Step(p))

FairSpec == Spec /\ Fairness
-----------------------------------------------------------------------------
(* What the programs promise.                                              *)

InLoop(p) ==
  \/ proc[p].pc \in {"measure", "adjust", "sleep"}
  \/ /\ proc[p].pc \in {"open", "lock", "truncate", "write"}
     /\ proc[p].site = "loop"

\* A process that synchronises, round after round: started without -t.
SyncLoop(p) == InLoop(p) /\ ~proc[p].display

Adjusting == {p \in Procs : proc[p].pc = "adjust"}

\* At most one process disciplines the system clock at a time, whatever
\* mixture of programs, options, forks and kills came before.
OneWriter == \A p, q \in Adjusting : p = q

\* A process that disciplines the clock is the one the pid file names, unless
\* its own last write() failed: neither its parent, which wrote the file first,
\* nor a process that was refused, nor a failed ftruncate(), nor a pid that a
\* killed process left behind makes the file name somebody else.
PidFileNamesWriter == \A p \in Adjusting : proc[p].wrote => pidfile = p

\* A synchronising process (no -t) never applies an offset that another
\* process's adjustment has made obsolete since it was read.
FreshOffset == \A p \in Adjusting : ~proc[p].display => proc[p].fresh

\* The loop of a synchronising process is left only by a kill: it never runs
\* out of descriptors, never fails its lock and never has a period that is
\* too short.  (For runs without "kill".)
SyncLoopLasts ==
  [][\A p \in Procs : SyncLoop(p) => SyncLoop(p)']_vars

\* A start is never held up: the process reaches its loop or ends, however
\* long another one keeps the lock.
StartDecides ==
  \A p \in Procs :
    proc[p].pc = "opts" ~> (proc[p].pc = "dead" \/ InLoop(p))

\* A synchronising process goes on adjusting the clock for ever.
KeepsAdjusting ==
  \A p \in Procs : SyncLoop(p) ~> proc[p].pc = "adjust"

\* The lock protocol implements the abstract single writer: the lock is the
\* right to write, an adjustment begins only under it, and giving it up or
\* dying ends the adjustment.
Abstract == INSTANCE SingleWriter
              WITH writer <- lockOwner, adjusting <- Adjusting

SingleWriterSpec == Abstract!Spec

-----------------------------------------------------------------------------
(* Why it works: the inductive invariant of SyncDaemonProofs.              *)

\* Whoever has passed lockfile() and still relies on it holds the lock.
LockHeld ==
  \A p \in Procs :
    SyncLoop(p) \/ proc[p].pc \in {"truncate", "write", "daemon", "adjust"}
      => lockOwner = p

\* Past the second already_running() the pid file is right, if it was written.
PidWritten ==
  \A p \in Procs :
    (SyncLoop(p) \/ proc[p].pc = "adjust") /\ proc[p].wrote => pidfile = p

\* Only a display asks for the lock inside the loop.
OnlyDisplaysAsk ==
  \A p \in Procs :
    /\ proc[p].pc \in {"open", "lock", "truncate", "write"}
    /\ proc[p].site = "loop"
    => proc[p].display

\* A period that is too short never gets past the option.
PeriodLongEnough == \A p \in Procs : proc[p].period >= MinPeriod

\* A descriptor that is to be closed on a refusal is open.
DescriptorOpen == \A p \in Procs : proc[p].pc = "lock" => proc[p].fds > 0

\* Everything the safety properties rest on, and preserved by every step.
IInv ==
  /\ TypeOK
  /\ LockHeld
  /\ PidWritten
  /\ OnlyDisplaysAsk
  /\ PeriodLongEnough
  /\ DescriptorOpen
  /\ FreshOffset

-----------------------------------------------------------------------------
(* What the documentation says and the code does not do.                   *)

\* case 'd' prints "Sync process Successfully" and calls daemon(); after
\* that, a synchronising process runs.
AnnouncedDaemonRuns ==
  (\E p \in Procs : proc[p].pc = "daemon") ~> (\E p \in Procs : InLoop(p))
=============================================================================
