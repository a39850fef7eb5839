--------------------------- MODULE SyncDaemonProofs ---------------------------
(***************************************************************************)
(* Proofs about SyncDaemon: its inductive invariant, the safety properties *)
(* that follow from it, the action property of the loop, and that the lock *)
(* protocol implements SingleWriter.  Everything holds for any number of   *)
(* processes, any command lines and any set of failing calls.              *)
(***************************************************************************)
EXTENDS SyncDaemon, SequenceTheorems, TLAPS

(***************************************************************************)
(* Two shapes of step.  Most actions replace the record of one process.    *)
(* What such a step must respect: the new record has its type, and what    *)
(* the process now claims is true of the lock and the pid file.            *)
(***************************************************************************)
Asks(r) == r.pc \in {"open", "lock", "truncate", "write"}

Loops(r) == \/ r.pc \in {"measure", "adjust", "sleep"}
            \/ (Asks(r) /\ r.site = "loop")

Relies(r) == \/ (Loops(r) /\ ~r.display)
             \/ r.pc \in {"truncate", "write", "daemon", "adjust"}

Names(r) == ((Loops(r) /\ ~r.display) \/ r.pc = "adjust") /\ r.wrote

\* What a record must satisfy, given the lock, the pid file and its process.
Claims(p, r, owner, pid) ==
  /\ Relies(r) => owner = p
  /\ Names(r) => pid = p
  /\ Asks(r) /\ r.site = "loop" => r.display
  /\ r.period >= MinPeriod
  /\ r.pc = "lock" => r.fds > 0
  /\ r.pc = "adjust" /\ ~r.display => r.fresh

\* The inductive invariant says exactly that every record's claims are true.
LEMMA IInvIsClaims ==
  ASSUME TypeOK
  PROVE  IInv <=> \A p \in Procs : Claims(p, proc[p], lockOwner, pidfile)
BY DEF IInv, Claims, Relies, Names, Loops, Asks, LockHeld, PidWritten,
       OnlyDisplaysAsk, PeriodLongEnough, DescriptorOpen, FreshOffset, SyncLoop,
       InLoop, Adjusting

LEMMA ProcFacts ==
  ASSUME IInv, NEW p \in Procs
  PROVE  proc[p] \in Process /\ Claims(p, proc[p], lockOwner, pidfile)
BY IInvIsClaims DEF IInv, TypeOK

\* A step that replaces the record of p by r keeps the invariant if the
\* claims of r, and those of everybody else, are true afterwards.
LEMMA BecomeKeeps ==
  ASSUME IInv, NEW p \in Procs, NEW r \in Process, Become(p, r),
         lockOwner' \in Procs \union {NoProc},
         pidfile' \in Procs \union {NoProc},
         Claims(p, r, lockOwner', pidfile'),
         \A q \in Procs \ {p} : Claims(q, proc[q], lockOwner', pidfile')
  PROVE  IInv'
<1>1. TypeOK'
  BY DEF Become, TypeOK, IInv
<1>2. \A q \in Procs : Claims(q, proc'[q], lockOwner', pidfile')
  BY DEF Become, IInv, TypeOK
<1> QED
  BY <1>1, <1>2
  DEF IInv, Claims, Relies, Names, Loops, Asks, LockHeld, PidWritten,
      OnlyDisplaysAsk, PeriodLongEnough, DescriptorOpen, FreshOffset, SyncLoop,
      InLoop, Adjusting

\* The usual case: the lock and the pid file stay as they are.
LEMMA QuietKeeps ==
  ASSUME IInv, NEW p \in Procs, NEW r \in Process, Become(p, r),
         UNCHANGED <<lockOwner, pidfile>>,
         Claims(p, r, lockOwner, pidfile)
  PROVE  IInv'
<1>1. \A q \in Procs : Claims(q, proc[q], lockOwner, pidfile)
  BY IInvIsClaims DEF IInv
<1>2. /\ lockOwner' \in Procs \union {NoProc}
      /\ pidfile' \in Procs \union {NoProc}
  BY DEF IInv, TypeOK
<1> QED
  BY <1>1, <1>2, BecomeKeeps

\* The constant record of a slot without a process has its type.
LEMMA GoneType == Gone \in Process /\ Gone.pc = "dead"
<1>1. Gone.argv \in Seq(Options)
  BY DEF Gone
<1> QED
  BY <1>1, ConstantsOK DEF Gone, Process, Labels

\* The end of a process keeps the invariant: nobody else relies on its lock.
LEMMA ExitKeeps ==
  ASSUME IInv, NEW p \in Procs, Exit(p)
  PROVE  IInv'
<1>1. Gone \in Process
  BY GoneType
<1>2. /\ lockOwner' \in Procs \union {NoProc}
      /\ pidfile' \in Procs \union {NoProc}
  BY DEF Exit, Unlocked, IInv, TypeOK
<1>3. Claims(p, Gone, lockOwner', pidfile')
  BY ConstantsOK DEF Claims, Relies, Names, Loops, Asks, Gone
<1>4. \A q \in Procs \ {p} : Claims(q, proc[q], lockOwner', pidfile')
  <2> SUFFICES ASSUME NEW q \in Procs \ {p}
               PROVE  Claims(q, proc[q], lockOwner', pidfile')
    OBVIOUS
  <2>1. Claims(q, proc[q], lockOwner, pidfile)
    BY IInvIsClaims DEF IInv
  <2>2. lockOwner = q => lockOwner' = q
    BY DEF Exit, Unlocked
  <2> QED
    BY <2>1, <2>2 DEF Exit, Claims
<1> QED
  BY <1>1, <1>2, <1>3, <1>4, BecomeKeeps DEF Exit

\* Whoever passes the lock check is alone with its claims: everybody else
\* who relies on the lock would hold it too.
LEMMA OthersIdle ==
  ASSUME IInv, NEW p \in Procs, lockOwner \in {NoProc, p}
  PROVE  \A q \in Procs \ {p} : \A pid :
           Claims(q, proc[q], lockOwner, pidfile)
             /\ Claims(q, proc[q], p, pid)
<1> SUFFICES ASSUME NEW q \in Procs \ {p}, NEW pid
             PROVE  /\ Claims(q, proc[q], lockOwner, pidfile)
                    /\ Claims(q, proc[q], p, pid)
  OBVIOUS
<1>1. Claims(q, proc[q], lockOwner, pidfile)
  BY IInvIsClaims DEF IInv
<1>2. lockOwner # q
  BY ConstantsOK
<1>3. ~Relies(proc[q]) /\ ~Names(proc[q])
  BY <1>1, <1>2 DEF Claims, Relies, Names
<1> QED
  BY <1>1, <1>3 DEF Claims

-----------------------------------------------------------------------------
(* Every action keeps the invariant.                                       *)

LEMMA LaunchKeeps ==
  ASSUME IInv, NEW p \in Procs, Launch(p)
  PROVE  IInv'
<1>1. PICK prog \in Programs, argv \in Args, dir \in LaunchDirs :
        Become(p, [Gone EXCEPT !.pc = "opts", !.prog = prog,
                               !.argv = argv, !.cwd = dir])
  BY DEF Launch
<1> DEFINE r == [Gone EXCEPT !.pc = "opts", !.prog = prog,
                             !.argv = argv, !.cwd = dir]
<1>2. r \in Process
  BY GoneType, ConstantsOK DEF Process, Labels
<1>3. r.pc = "opts" /\ r.period = MinPeriod
  BY DEF Gone
<1>4. Claims(p, r, lockOwner, pidfile)
  BY <1>3, ConstantsOK DEF Claims, Relies, Names, Loops, Asks
<1> QED
  BY <1>1, <1>2, <1>4, QuietKeeps DEF Launch

LEMMA OpenLockFileKeeps ==
  ASSUME IInv, NEW p \in Procs, OpenLockFile(p)
  PROVE  IInv'
<1>1. CASE Exit(p)
  BY <1>1, ExitKeeps
<1>2. CASE /\ proc[p].fds < MaxFds
           /\ Become(p, [proc[p] EXCEPT !.pc = "lock", !.fds = @ + 1])
           /\ UNCHANGED <<lockOwner, pidfile>>
  <2> DEFINE r == [proc[p] EXCEPT !.pc = "lock", !.fds = @ + 1]
  <2>1. proc[p] \in Process /\ proc[p].pc = "open"
    BY ProcFacts DEF OpenLockFile
  <2>2. r \in Process
    <3>1. proc[p].fds + 1 \in 0..MaxFds
      BY <1>2, <2>1, ConstantsOK DEF Process
    <3>2. "lock" \in Labels
      BY DEF Labels
    <3> QED
      BY <2>1, <3>1, <3>2 DEF Process
  <2>3. Claims(p, proc[p], lockOwner, pidfile)
    BY ProcFacts
  <2>4. /\ r.pc = "lock" /\ r.site = proc[p].site /\ r.fds > 0
        /\ r.display = proc[p].display /\ r.period = proc[p].period
    BY <2>1, ConstantsOK DEF Process
  <2>5. Claims(p, r, lockOwner, pidfile)
    BY <2>1, <2>3, <2>4 DEF Claims, Relies, Names, Loops, Asks
  <2> QED
    BY <1>2, <2>2, <2>5, QuietKeeps
<1> QED
  BY <1>1, <1>2 DEF OpenLockFile

LEMMA LocksKeeps ==
  ASSUME IInv, NEW p \in Procs, proc[p].pc = "lock", Locks(p)
  PROVE  IInv'
<1> DEFINE r == [proc[p] EXCEPT !.pc = "truncate"]
<1>1. proc[p] \in Process /\ Claims(p, proc[p], lockOwner, pidfile)
  BY ProcFacts
<1>2. r \in Process
  BY <1>1 DEF Process, Labels
<1>3. /\ r.pc = "truncate" /\ r.site = proc[p].site
      /\ r.display = proc[p].display /\ r.period = proc[p].period
  BY <1>1 DEF Process
<1>4. lockOwner' = p /\ pidfile' = pidfile /\ lockOwner \in {NoProc, p}
  BY DEF Locks
<1>5. Claims(p, r, lockOwner', pidfile')
  BY <1>1, <1>3, <1>4 DEF Claims, Relies, Names, Loops, Asks
<1>6. \A q \in Procs \ {p} : Claims(q, proc[q], lockOwner', pidfile')
  BY <1>4, OthersIdle
<1>7. Become(p, r)
  BY DEF Locks, Goto
<1>8. /\ lockOwner' \in Procs \union {NoProc}
      /\ pidfile' \in Procs \union {NoProc}
  BY <1>4 DEF IInv, TypeOK
<1> QED
  BY <1>2, <1>5, <1>6, <1>7, <1>8, BecomeKeeps

LEMMA RefusedKeeps ==
  ASSUME IInv, NEW p \in Procs, proc[p].pc = "lock", Refused(p)
  PROVE  IInv'
<1>1. CASE Exit(p)
  BY <1>1, ExitKeeps
<1>2. CASE /\ proc[p].site = "loop"
           /\ Become(p, [proc[p] EXCEPT !.pc = "sleep", !.fds = @ - 1])
           /\ UNCHANGED <<lockOwner, pidfile>>
  <2> DEFINE r == [proc[p] EXCEPT !.pc = "sleep", !.fds = @ - 1]
  <2>1. proc[p] \in Process /\ Claims(p, proc[p], lockOwner, pidfile)
    BY ProcFacts
  <2>2. proc[p].fds > 0
    BY <2>1 DEF Claims
  <2>3. r \in Process
    <3>1. proc[p].fds - 1 \in 0..MaxFds
      BY <2>1, <2>2, ConstantsOK DEF Process
    <3>2. "sleep" \in Labels
      BY DEF Labels
    <3> QED
      BY <2>1, <3>1, <3>2 DEF Process
  <2>4. /\ r.pc = "sleep" /\ r.site = proc[p].site
        /\ r.display = proc[p].display /\ r.period = proc[p].period
    BY <2>1 DEF Process
  <2>5. Claims(p, r, lockOwner, pidfile)
    BY <1>2, <2>1, <2>4 DEF Claims, Relies, Names, Loops, Asks
  <2> QED
    BY <1>2, <2>3, <2>5, QuietKeeps
<1> QED
  BY <1>1, <1>2 DEF Refused

LEMMA SetLockKeeps ==
  ASSUME IInv, NEW p \in Procs, SetLock(p)
  PROVE  IInv'
BY LocksKeeps, RefusedKeeps, ExitKeeps DEF SetLock

\* ftruncate(): only the lock holder gets there, so nobody who relies on the
\* pid file loses it.
LEMMA TruncateKeeps ==
  ASSUME IInv, NEW p \in Procs, Truncate(p)
  PROVE  IInv'
<1> DEFINE r == [proc[p] EXCEPT !.pc = "write"]
<1>1. proc[p] \in Process /\ Claims(p, proc[p], lockOwner, pidfile)
  BY ProcFacts
<1>2. r \in Process
  BY <1>1 DEF Process, Labels
<1>3. /\ r.pc = "write" /\ r.site = proc[p].site
      /\ r.display = proc[p].display /\ r.period = proc[p].period
  BY <1>1 DEF Process
<1>4. /\ proc[p].pc = "truncate" /\ Become(p, r)
      /\ lockOwner' = lockOwner /\ pidfile' \in {NoProc, pidfile}
  BY DEF Truncate, Goto
<1>5. lockOwner = p
  BY <1>1, <1>4 DEF Claims, Relies
<1>6. Claims(p, r, lockOwner', pidfile')
  BY <1>1, <1>3, <1>4 DEF Claims, Relies, Names, Loops, Asks
<1>7. \A q \in Procs \ {p} : Claims(q, proc[q], lockOwner', pidfile')
  BY <1>4, <1>5, OthersIdle
<1>8. /\ lockOwner' \in Procs \union {NoProc}
      /\ pidfile' \in Procs \union {NoProc}
  BY <1>4 DEF IInv, TypeOK
<1> QED
  BY <1>2, <1>4, <1>6, <1>7, <1>8, BecomeKeeps

\* write(): when it succeeds the file names p, and when it fails p does not
\* rely on it.
LEMMA WritePidKeeps ==
  ASSUME IInv, NEW p \in Procs, WritePid(p)
  PROVE  IInv'
<1>1. proc[p] \in Process /\ Claims(p, proc[p], lockOwner, pidfile)
  BY ProcFacts
<1>2. PICK w \in BOOLEAN :
        /\ Returns(p, w)
        /\ w => pidfile' = p
        /\ pidfile' \in Procs \union {NoProc}
  BY DEF WritePid
<1>3. proc[p].pc = "write" /\ lockOwner' = lockOwner
  BY DEF WritePid
<1>4. /\ Granted(p) \in {"daemon", "measure", "adjust"}
      /\ Granted(p) = "adjust" => proc[p].site = "loop"
  BY <1>1 DEF Granted, Process
<1> DEFINE r == [proc[p] EXCEPT !.pc = Granted(p), !.wrote = w]
<1>5. r \in Process
  BY <1>1, <1>4 DEF Process, Labels
<1>6. /\ r.pc = Granted(p) /\ r.site = proc[p].site /\ r.wrote = w
      /\ r.display = proc[p].display /\ r.period = proc[p].period
  BY <1>1 DEF Process
<1>7. lockOwner = p
  BY <1>1, <1>3 DEF Claims, Relies
<1>8. Claims(p, r, lockOwner', pidfile')
  BY <1>1, <1>2, <1>3, <1>4, <1>6, <1>7 DEF Claims, Relies, Names, Loops, Asks
<1>9. \A q \in Procs \ {p} : Claims(q, proc[q], lockOwner', pidfile')
  BY <1>3, <1>7, OthersIdle
<1>10. lockOwner' \in Procs \union {NoProc}
  BY <1>3 DEF IInv, TypeOK
<1>11. Become(p, r)
  BY <1>2 DEF Returns
<1> QED
  BY <1>2, <1>5, <1>8, <1>9, <1>10, <1>11, BecomeKeeps

LEMMA GetOptKeeps ==
  ASSUME IInv, NEW p \in Procs, GetOpt(p)
  PROVE  IInv'
<1> DEFINE old  == proc[p]
           o    == Head(old.argv)
           rest == Tail(old.argv)
<1>1. old \in Process /\ Claims(p, old, lockOwner, pidfile)
  BY ProcFacts
<1>2. CASE old.argv = <<>>
  <2> DEFINE r == [old EXCEPT !.pc = "device"]
  <2>1. r \in Process
    BY <1>1 DEF Process, Labels
  <2>2. r.pc = "device" /\ r.period = old.period
    BY <1>1 DEF Process
  <2>3. Claims(p, r, lockOwner, pidfile)
    BY <1>1, <2>2 DEF Claims, Relies, Names, Loops, Asks
  <2> QED
    BY <1>2, <2>1, <2>3, QuietKeeps DEF GetOpt, Goto
<1>3. CASE old.argv # <<>> /\ Exit(p)
  BY <1>3, ExitKeeps
<1>4. CASE /\ old.argv # <<>> /\ UNCHANGED <<lockOwner, pidfile>>
           /\ \E r \in Process :
                /\ Become(p, r)
                /\ r.pc = "opts" \/ (r.pc = "open" /\ r.site = "opts")
                /\ r.period >= MinPeriod
  <2>1. PICK r \in Process :
          /\ Become(p, r)
          /\ r.pc = "opts" \/ (r.pc = "open" /\ r.site = "opts")
          /\ r.period >= MinPeriod
    BY <1>4
  <2>2. Claims(p, r, lockOwner, pidfile)
    BY <2>1 DEF Claims, Relies, Names, Loops, Asks
  <2> QED
    BY <1>4, <2>1, <2>2, QuietKeeps
<1>5. ASSUME old.argv # <<>>
      PROVE  o \in Options /\ rest \in Seq(Options) /\ o.arg \in Nat
  <2>1. old.argv \in Seq(Options)
    BY <1>1 DEF Process
  <2>2. o \in Options /\ rest \in Seq(Options)
    BY <1>5, <2>1, HeadTailProperties
  <2> QED
    BY <2>2 DEF Options
<1>6. ASSUME old.argv # <<>>, Option(p, o, rest), ~Exit(p)
      PROVE  /\ UNCHANGED <<lockOwner, pidfile>>
             /\ \E r \in Process :
                  /\ Become(p, r)
                  /\ r.pc = "opts" \/ (r.pc = "open" /\ r.site = "opts")
                  /\ r.period >= MinPeriod
  <2>1. old.pc = "opts" /\ old.period >= MinPeriod
    BY <1>1 DEF GetOpt, Claims
  <2>2. CASE o.opt = "d"
    <3> DEFINE r == [old EXCEPT !.argv = rest, !.pc = "open",
                                !.site = "opts"]
    <3>1. r \in Process
      BY <1>1, <1>5, <1>6 DEF Process, Labels
    <3>2. r.pc = "open" /\ r.site = "opts" /\ r.period >= MinPeriod
      BY <1>1, <2>1 DEF Process
    <3>3. Become(p, r) /\ UNCHANGED <<lockOwner, pidfile>>
      BY <1>6, <2>2 DEF Option
    <3> QED
      BY <3>1, <3>2, <3>3
  <2>3. CASE o.opt = "t"
    <3> DEFINE r == [old EXCEPT !.argv = rest, !.display = TRUE]
    <3>1. r \in Process
      BY <1>1, <1>5, <1>6 DEF Process, Labels
    <3>2. r.pc = "opts" /\ r.period >= MinPeriod
      BY <1>1, <2>1 DEF Process
    <3>3. Become(p, r) /\ UNCHANGED <<lockOwner, pidfile>>
      BY <1>6, <2>3 DEF Option
    <3> QED
      BY <3>1, <3>2, <3>3
  <2>4. CASE o.opt = "v"
    <3> DEFINE r == [old EXCEPT !.argv = rest]
    <3>1. r \in Process
      BY <1>1, <1>5, <1>6 DEF Process, Labels
    <3>2. r.pc = "opts" /\ r.period >= MinPeriod
      BY <1>1, <2>1 DEF Process
    <3>3. Become(p, r) /\ UNCHANGED <<lockOwner, pidfile>>
      BY <1>6, <2>4 DEF Option
    <3> QED
      BY <3>1, <3>2, <3>3
  <2>5. CASE o.opt = "s"
    <3> DEFINE r == [old EXCEPT !.argv = rest, !.period = o.arg]
    <3>1. r \in Process
      BY <1>1, <1>5, <1>6 DEF Process, Labels
    <3>2. o.arg >= MinPeriod /\ Become(p, r)
          /\ UNCHANGED <<lockOwner, pidfile>>
      BY <1>6, <2>5 DEF Option
    <3>3. r.pc = "opts" /\ r.period >= MinPeriod
      BY <1>1, <2>1, <3>2 DEF Process
    <3> QED
      BY <3>1, <3>2, <3>3
  <2> QED
    BY <1>6, <2>2, <2>3, <2>4, <2>5 DEF Option
<1> QED
  BY <1>2, <1>3, <1>4, <1>6 DEF GetOpt

\* fork(): two records change.  The child claims nothing, and the parent
\* keeps its lock until it exits.
LEMMA DaemonKeeps ==
  ASSUME IInv, NEW p \in Procs, Daemon(p)
  PROVE  IInv'
<1>1. CASE Exit(p)
  BY <1>1, ExitKeeps
<1>2. CASE ~Exit(p)
  <2>1. PICK c \in Procs :
          /\ proc[c].pc = "dead"
          /\ proc' = [proc EXCEPT
               ![c] = [proc[p] EXCEPT !.pc = "opts", !.cwd = "root"],
               ![p] = [proc[p] EXCEPT !.pc = "exiting"]]
    BY <1>2 DEF Daemon
  <2> DEFINE child  == [proc[p] EXCEPT !.pc = "opts", !.cwd = "root"]
             parent == [proc[p] EXCEPT !.pc = "exiting"]
  <2>2. proc[p] \in Process /\ Claims(p, proc[p], lockOwner, pidfile)
    BY ProcFacts
  <2>3. child \in Process /\ parent \in Process
    BY <2>2 DEF Process, Labels
  <2>4. /\ child.pc = "opts" /\ child.period >= MinPeriod
        /\ parent.pc = "exiting" /\ parent.period >= MinPeriod
    BY <2>2 DEF Process, Claims
  <2>5. /\ Claims(c, child, lockOwner, pidfile)
        /\ Claims(p, parent, lockOwner, pidfile)
    BY <2>4 DEF Claims, Relies, Names, Loops, Asks
  <2>6. UNCHANGED <<lockOwner, pidfile>>
    BY <1>2 DEF Daemon
  <2> HIDE DEF child, parent
  <2>7. proc' = [proc EXCEPT ![c] = child, ![p] = parent]
    BY <2>1 DEF child, parent
  <2>8. TypeOK'
    BY <2>3, <2>6, <2>7 DEF IInv, TypeOK
  <2>9. \A q \in Procs : Claims(q, proc'[q], lockOwner', pidfile')
    <3>1. \A q \in Procs : Claims(q, proc[q], lockOwner, pidfile)
      BY ProcFacts
    <3> QED
      BY <2>5, <2>6, <2>7, <3>1 DEF IInv, TypeOK
  <2> QED
    BY <2>8, <2>9
    DEF IInv, Claims, Relies, Names, Loops, Asks, LockHeld, PidWritten,
        OnlyDisplaysAsk, PeriodLongEnough, DescriptorOpen, FreshOffset,
        SyncLoop, InLoop, Adjusting
<1> QED
  BY <1>1, <1>2

LEMMA OpenDeviceKeeps ==
  ASSUME IInv, NEW p \in Procs, OpenDevice(p)
  PROVE  IInv'
<1>1. proc[p] \in Process /\ Claims(p, proc[p], lockOwner, pidfile)
  BY ProcFacts
<1>2. CASE Exit(p)
  BY <1>2, ExitKeeps
<1>3. CASE ~Exit(p) /\ proc[p].display
  <2> DEFINE r == [proc[p] EXCEPT !.pc = "measure"]
  <2>1. r \in Process
    BY <1>1 DEF Process, Labels
  <2>2. r.pc = "measure" /\ r.display /\ r.period = proc[p].period
    BY <1>1, <1>3 DEF Process
  <2>3. Claims(p, r, lockOwner, pidfile)
    BY <1>1, <2>2 DEF Claims, Relies, Names, Loops, Asks
  <2>4. Become(p, r) /\ UNCHANGED <<lockOwner, pidfile>>
    BY <1>3 DEF OpenDevice, Goto
  <2> QED
    BY <2>1, <2>3, <2>4, QuietKeeps
<1>4. CASE ~Exit(p) /\ ~proc[p].display
  <2> DEFINE r == [proc[p] EXCEPT !.pc = "open", !.site = "pre"]
  <2>1. r \in Process
    BY <1>1 DEF Process, Labels
  <2>2. r.pc = "open" /\ r.site = "pre" /\ r.period = proc[p].period
    BY <1>1 DEF Process
  <2>3. Claims(p, r, lockOwner, pidfile)
    BY <1>1, <2>2 DEF Claims, Relies, Names, Loops, Asks
  <2>4. Become(p, r) /\ UNCHANGED <<lockOwner, pidfile>>
    BY <1>4 DEF OpenDevice
  <2> QED
    BY <2>1, <2>3, <2>4, QuietKeeps
<1> QED
  BY <1>2, <1>3, <1>4

LEMMA MeasureKeeps ==
  ASSUME IInv, NEW p \in Procs, Measure(p)
  PROVE  IInv'
<1>1. proc[p] \in Process /\ Claims(p, proc[p], lockOwner, pidfile)
  BY ProcFacts
<1>2. proc[p].pc = "measure" /\ UNCHANGED <<lockOwner, pidfile>>
  BY DEF Measure
<1>3. CASE /\ proc[p].display
           /\ Become(p, [proc[p] EXCEPT !.fresh = TRUE, !.pc = "open",
                                        !.site = "loop"])
  <2> DEFINE r == [proc[p] EXCEPT !.fresh = TRUE, !.pc = "open",
                                  !.site = "loop"]
  <2>1. r \in Process
    BY <1>1 DEF Process, Labels
  <2>2. r.pc = "open" /\ r.display /\ r.period = proc[p].period
    BY <1>1, <1>3 DEF Process
  <2>3. Claims(p, r, lockOwner, pidfile)
    BY <1>1, <2>2 DEF Claims, Relies, Names, Loops, Asks
  <2> QED
    BY <1>2, <1>3, <2>1, <2>3, QuietKeeps
<1>4. CASE /\ ~proc[p].display
           /\ Become(p, [proc[p] EXCEPT !.fresh = TRUE, !.pc = "adjust"])
  <2> DEFINE r == [proc[p] EXCEPT !.fresh = TRUE, !.pc = "adjust"]
  <2>1. r \in Process
    BY <1>1 DEF Process, Labels
  <2>2. /\ r.pc = "adjust" /\ r.fresh /\ r.display = proc[p].display
        /\ r.period = proc[p].period
    BY <1>1, <1>4 DEF Process
  <2>3. Claims(p, r, lockOwner, pidfile)
    BY <1>1, <1>2, <1>4, <2>2 DEF Claims, Relies, Names, Loops, Asks
  <2> QED
    BY <1>2, <1>4, <2>1, <2>3, QuietKeeps
<1>5. CASE Goto(p, "sleep")
  <2> DEFINE r == [proc[p] EXCEPT !.pc = "sleep"]
  <2>1. r \in Process
    BY <1>1 DEF Process, Labels
  <2>2. /\ r.pc = "sleep" /\ r.display = proc[p].display
        /\ r.period = proc[p].period
    BY <1>1 DEF Process
  <2>3. Claims(p, r, lockOwner, pidfile)
    BY <1>1, <1>2, <2>2 DEF Claims, Relies, Names, Loops, Asks
  <2> QED
    BY <1>2, <1>5, <2>1, <2>3, QuietKeeps DEF Goto
<1> QED
  BY <1>3, <1>4, <1>5 DEF Measure

\* update_clock() makes every other offset obsolete; that breaks nobody's
\* claim because nobody else is adjusting.
LEMMA AdjustKeeps ==
  ASSUME IInv, NEW p \in Procs, Adjust(p)
  PROVE  IInv'
<1>1. \A q \in Procs :
        proc[q] \in Process /\ Claims(q, proc[q], lockOwner, pidfile)
  BY ProcFacts
<1>2. proc[p].pc = "adjust" /\ UNCHANGED <<lockOwner, pidfile>>
  BY DEF Adjust
<1>3. \A q \in Procs :
        proc'[q] = [proc[q] EXCEPT !.fresh = FALSE,
                                   !.pc = IF q = p THEN "sleep" ELSE @]
  BY DEF Adjust
<1>4. \A q \in Procs : /\ proc'[q] \in Process
                       /\ proc'[q].display = proc[q].display
                       /\ proc'[q].period = proc[q].period
                       /\ proc'[q].site = proc[q].site
                       /\ proc'[q].fds = proc[q].fds
                       /\ proc'[q].wrote = proc[q].wrote
                       /\ q # p => proc'[q].pc = proc[q].pc
                       /\ q = p => proc'[q].pc = "sleep"
  <2> SUFFICES ASSUME NEW q \in Procs
               PROVE  /\ proc'[q] \in Process
                      /\ proc'[q].display = proc[q].display
                      /\ proc'[q].period = proc[q].period
                      /\ proc'[q].site = proc[q].site
                      /\ proc'[q].fds = proc[q].fds
                      /\ proc'[q].wrote = proc[q].wrote
                      /\ q # p => proc'[q].pc = proc[q].pc
                      /\ q = p => proc'[q].pc = "sleep"
    OBVIOUS
  <2> DEFINE old == proc[q]
  <2>1. old \in Process
    BY <1>1
  <2>2. CASE q = p
    <3>1. proc'[q] = [old EXCEPT !.fresh = FALSE, !.pc = "sleep"]
      BY <1>3, <2>2
    <3> QED
      BY <2>1, <2>2, <3>1 DEF Process, Labels
  <2>3. CASE q # p
    <3>1. proc'[q] = [old EXCEPT !.fresh = FALSE, !.pc = old.pc]
      BY <1>3, <2>3
    <3> QED
      BY <2>1, <2>3, <3>1 DEF Process, Labels
  <2> QED
    BY <2>2, <2>3
<1>5. lockOwner = p
  BY <1>1, <1>2 DEF Claims, Relies
<1>6. \A q \in Procs : proc[q].pc = "adjust" => q = p
  BY <1>1, <1>5 DEF Claims, Relies
<1>7. \A q \in Procs : Claims(q, proc'[q], lockOwner', pidfile')
  BY <1>1, <1>2, <1>4, <1>6 DEF Claims, Relies, Names, Loops, Asks
<1>8. TypeOK'
  <2>1. proc' \in [Procs -> Process]
    BY <1>4 DEF Adjust
  <2> QED
    BY <1>2, <2>1 DEF IInv, TypeOK
<1> QED
  BY <1>7, <1>8
  DEF IInv, Claims, Relies, Names, Loops, Asks, LockHeld, PidWritten,
      OnlyDisplaysAsk, PeriodLongEnough, DescriptorOpen, FreshOffset,
      SyncLoop, InLoop, Adjusting

LEMMA SleepKeeps ==
  ASSUME IInv, NEW p \in Procs, Sleep(p)
  PROVE  IInv'
<1>1. CASE Exit(p)
  BY <1>1, ExitKeeps
<1>2. CASE Goto(p, "measure") /\ UNCHANGED <<lockOwner, pidfile>>
  <2> DEFINE r == [proc[p] EXCEPT !.pc = "measure"]
  <2>1. /\ proc[p] \in Process /\ Claims(p, proc[p], lockOwner, pidfile)
        /\ proc[p].pc = "sleep"
    BY ProcFacts DEF Sleep
  <2>2. r \in Process
    BY <2>1 DEF Process, Labels
  <2>3. /\ r.pc = "measure" /\ r.display = proc[p].display
        /\ r.period = proc[p].period
    BY <2>1 DEF Process
  <2>4. Claims(p, r, lockOwner, pidfile)
    BY <2>1, <2>3 DEF Claims, Relies, Names, Loops, Asks
  <2> QED
    BY <1>2, <2>2, <2>4, QuietKeeps DEF Goto
<1> QED
  BY <1>1, <1>2 DEF Sleep

-----------------------------------------------------------------------------
(* The theorems.                                                           *)

LEMMA InitEstablishes == Init => IInv
<1> SUFFICES ASSUME Init PROVE IInv
  OBVIOUS
<1>1. TypeOK
  BY GoneType DEF Init, TypeOK
<1>2. \A p \in Procs : proc[p].pc = "dead" /\ proc[p].period = MinPeriod
  BY DEF Init, Gone
<1> QED
  BY <1>1, <1>2, IInvIsClaims, ConstantsOK
  DEF Claims, Relies, Names, Loops, Asks

LEMMA NextKeeps == IInv /\ [Next]_vars => IInv'
<1> SUFFICES ASSUME IInv, [Next]_vars PROVE IInv'
  OBVIOUS
<1>1. CASE UNCHANGED vars
  BY <1>1 DEF vars, IInv, TypeOK, LockHeld, PidWritten, OnlyDisplaysAsk,
              PeriodLongEnough, DescriptorOpen, FreshOffset, SyncLoop,
              InLoop, Adjusting
<1>2. ASSUME NEW p \in Procs, Launch(p) PROVE IInv'
  BY <1>2, LaunchKeeps
<1>3. ASSUME NEW p \in Procs, Kill(p) \/ ParentExit(p) PROVE IInv'
  BY <1>3, ExitKeeps DEF Kill, ParentExit
<1>4. ASSUME NEW p \in Procs, AlreadyRunning(p) PROVE IInv'
  BY <1>4, OpenLockFileKeeps, SetLockKeeps, TruncateKeeps, WritePidKeeps
  DEF AlreadyRunning
<1>5. ASSUME NEW p \in Procs, GetOpt(p) PROVE IInv'
  BY <1>5, GetOptKeeps
<1>6. ASSUME NEW p \in Procs, Daemon(p) PROVE IInv'
  BY <1>6, DaemonKeeps
<1>7. ASSUME NEW p \in Procs, OpenDevice(p) PROVE IInv'
  BY <1>7, OpenDeviceKeeps
<1>8. ASSUME NEW p \in Procs, Measure(p) PROVE IInv'
  BY <1>8, MeasureKeeps
<1>9. ASSUME NEW p \in Procs, Adjust(p) PROVE IInv'
  BY <1>9, AdjustKeeps
<1>10. ASSUME NEW p \in Procs, Sleep(p) PROVE IInv'
  BY <1>10, SleepKeeps
<1> QED
  BY <1>1, <1>2, <1>3, <1>4, <1>5, <1>6, <1>7, <1>8, <1>9, <1>10
  DEF Next, Step

\* The inductive invariant holds in every reachable state, whatever the
\* number of processes, their options, the kills and the failing calls.
THEOREM Invariance == Spec => []IInv
BY InitEstablishes, NextKeeps, PTL DEF Spec

\* The variables keep their types.
THEOREM TypeCorrect == Spec => []TypeOK
<1>1. IInv => TypeOK
  BY DEF IInv
<1> QED
  BY <1>1, Invariance, PTL

\* At most one process disciplines the clock: an adjusting process holds the
\* lock on the pid file, and the lock has one holder.
THEOREM MutualExclusion == Spec => []OneWriter
<1>1. IInv => OneWriter
  BY DEF IInv, LockHeld, OneWriter, Adjusting
<1> QED
  BY <1>1, Invariance, PTL

\* The pid file names the process that disciplines the clock, in spite of
\* the parent's pid written before daemon() and of failing calls, unless
\* that process's own write() of its pid failed.
THEOREM PidFileCorrect == Spec => []PidFileNamesWriter
<1>1. IInv => PidFileNamesWriter
  BY DEF IInv, PidWritten, PidFileNamesWriter, Adjusting
<1> QED
  BY <1>1, Invariance, PTL

\* A synchronising process applies no offset that another process's
\* adjustment made obsolete.
THEOREM OffsetsAreFresh == Spec => []FreshOffset
<1>1. IInv => FreshOffset
  BY DEF IInv
<1> QED
  BY <1>1, Invariance, PTL

-----------------------------------------------------------------------------
(* The loop of a synchronising process.                                    *)

\* A step of p itself, taken inside the loop.
LEMMA OwnStepStays ==
  ASSUME IInv, NEW p \in Procs, SyncLoop(p), Step(p)
  PROVE  SyncLoop(p)'
<1>1. proc[p] \in Process /\ Claims(p, proc[p], lockOwner, pidfile)
  BY ProcFacts
<1>2. /\ proc[p].pc \in {"measure", "adjust", "sleep"} /\ ~proc[p].display
      /\ proc[p].period >= MinPeriod
  BY <1>1 DEF SyncLoop, InLoop, Claims, Asks
<1>3. Measure(p) \/ Adjust(p) \/ Sleep(p)
  BY <1>2 DEF Step, GetOpt, AlreadyRunning, OpenLockFile, SetLock, Truncate,
              WritePid, Daemon, ParentExit, OpenDevice
<1>4. ASSUME NEW l \in {"measure", "adjust", "sleep"},
             proc'[p].pc = l, proc'[p].display = proc[p].display
      PROVE  SyncLoop(p)'
  BY <1>2, <1>4 DEF SyncLoop, InLoop
<1>5. proc \in [Procs -> Process]
  BY DEF IInv, TypeOK
<1>6. CASE Measure(p)
  <2>1. \/ proc'[p] = [proc[p] EXCEPT !.fresh = TRUE, !.pc = "adjust"]
        \/ proc'[p] = [proc[p] EXCEPT !.pc = "sleep"]
    BY <1>2, <1>5, <1>6 DEF Measure, Become, Goto
  <2> QED
    BY <1>1, <1>4, <2>1 DEF Process
<1>7. CASE Adjust(p)
  <2>1. proc'[p] = [proc[p] EXCEPT !.fresh = FALSE, !.pc = "sleep"]
    BY <1>7 DEF Adjust
  <2> QED
    BY <1>1, <1>4, <2>1 DEF Process
<1>8. CASE Sleep(p)
  <2>1. proc'[p] = [proc[p] EXCEPT !.pc = "measure"]
    BY <1>2, <1>5, <1>8 DEF Sleep, Become, Goto
  <2> QED
    BY <1>1, <1>4, <2>1 DEF Process
<1> QED
  BY <1>3, <1>6, <1>7, <1>8

\* A step of another process leaves a live process where it is.
LEMMA OtherStepStays ==
  ASSUME IInv, NEW p \in Procs, NEW q \in Procs \ {p}, proc[p].pc # "dead",
         Step(q) \/ Launch(q) \/ Kill(q)
  PROVE  /\ proc'[p].pc = proc[p].pc
         /\ proc'[p].display = proc[p].display
         /\ proc'[p].site = proc[p].site
<1>1. proc \in [Procs -> Process]
  BY DEF IInv, TypeOK
<1>2. CASE \E r : Become(q, r)
  BY <1>1, <1>2 DEF Become
<1>3. CASE Adjust(q)
  <2>1. proc'[p] = [proc[p] EXCEPT !.fresh = FALSE, !.pc = proc[p].pc]
    BY <1>3 DEF Adjust
  <2> QED
    BY <1>1, <2>1 DEF Process
<1>4. CASE Daemon(q)
  BY <1>1, <1>2, <1>4 DEF Daemon, Exit
<1>5. ASSUME GetOpt(q) PROVE \E r : Become(q, r)
  BY <1>5 DEF GetOpt, Option, Goto, Exit
<1>6. ASSUME AlreadyRunning(q) PROVE \E r : Become(q, r)
  BY <1>6 DEF AlreadyRunning, OpenLockFile, SetLock, Locks, Refused,
              Truncate, WritePid, Returns, Goto, Exit
<1>7. ASSUME OpenDevice(q) PROVE \E r : Become(q, r)
  BY <1>7 DEF OpenDevice, Goto, Exit
<1>8. ASSUME Measure(q) PROVE \E r : Become(q, r)
  BY <1>8 DEF Measure, Goto
<1>9. ASSUME Sleep(q) \/ ParentExit(q) PROVE \E r : Become(q, r)
  BY <1>9 DEF Sleep, ParentExit, Goto, Exit
<1>10. ASSUME Launch(q) \/ Kill(q) PROVE \E r : Become(q, r)
  BY <1>10 DEF Launch, Kill, Exit
<1> QED
  BY <1>2, <1>3, <1>4, <1>5, <1>6, <1>7, <1>8, <1>9, <1>10 DEF Step

\* Unless it is killed, a synchronising process stays in its loop: neither
\* the descriptors it leaves open, nor a failing call, nor its period, nor
\* anything another process does ends it.
THEOREM LoopLasts ==
  ASSUME "kill" \notin Faults
  PROVE  Spec => SyncLoopLasts
<1>1. IInv /\ [Next]_vars
        => [\A p \in Procs : SyncLoop(p) => SyncLoop(p)']_vars
  <2> SUFFICES ASSUME IInv, Next, NEW p \in Procs, SyncLoop(p)
               PROVE  SyncLoop(p)'
    OBVIOUS
  <2>1. PICK q \in Procs : Step(q) \/ Launch(q) \/ Kill(q)
    BY DEF Next
  <2>2. proc[p].pc # "dead"
    BY DEF SyncLoop, InLoop
  <2>3. CASE q = p
    BY <2>1, <2>2, <2>3, OwnStepStays DEF Launch, Kill
  <2>4. CASE q # p
    BY <2>1, <2>2, <2>4, OtherStepStays DEF SyncLoop, InLoop
  <2> QED
    BY <2>3, <2>4
<1> QED
  BY <1>1, Invariance, PTL DEF Spec, SyncLoopLasts

-----------------------------------------------------------------------------
(* The refinement.                                                         *)

\* How a step that replaces the record of p moves the set of adjusters.
LEMMA AdjustersMove ==
  ASSUME IInv, NEW p \in Procs, NEW r, Become(p, r)
  PROVE  Adjusting' = (Adjusting \ {p})
                        \union (IF r.pc = "adjust" THEN {p} ELSE {})
BY DEF Become, Adjusting, IInv, TypeOK

\* Whoever adjusts holds the lock.
LEMMA AdjusterOwns ==
  ASSUME IInv, NEW p \in Adjusting
  PROVE  p \in Procs /\ lockOwner = p
BY DEF IInv, LockHeld, Adjusting

\* The end of a process drops its right and its adjustment, or is invisible.
LEMMA ExitImplements ==
  ASSUME IInv, NEW p \in Procs, Exit(p)
  PROVE  Abstract!Drop(p) \/ UNCHANGED <<lockOwner, Adjusting>>
<1>1. Adjusting' = Adjusting \ {p}
  BY GoneType, AdjustersMove DEF Exit
<1>2. CASE lockOwner = p
  BY <1>1, <1>2, AdjusterOwns DEF Exit, Unlocked, Abstract!Drop
<1>3. CASE lockOwner # p
  BY <1>1, <1>3, AdjusterOwns DEF Exit, Unlocked
<1> QED
  BY <1>2, <1>3

\* Taking the lock is taking the right.
LEMMA LocksImplements ==
  ASSUME IInv, NEW p \in Procs, proc[p].pc = "lock", Locks(p)
  PROVE  Abstract!Take(p) \/ UNCHANGED <<lockOwner, Adjusting>>
<1> DEFINE r == [proc[p] EXCEPT !.pc = "truncate"]
<1>1. proc[p] \in Process
  BY ProcFacts
<1>2. r.pc = "truncate"
  BY <1>1 DEF Process
<1>3. Adjusting' = Adjusting \ {p}
  BY <1>2, AdjustersMove DEF Locks, Goto
<1>4. p \notin Adjusting
  BY DEF Adjusting
<1> QED
  BY <1>3, <1>4 DEF Locks, Abstract!Take

\* A step that changes neither the lock nor who adjusts is invisible; one
\* that starts adjusting is the abstract Begin.
LEMMA QuietImplements ==
  ASSUME IInv, NEW p \in Procs, proc[p].pc # "adjust",
         NEW r, Become(p, r), lockOwner' = lockOwner,
         r.pc = "adjust" => lockOwner = p
  PROVE  Abstract!Begin(p) \/ UNCHANGED <<lockOwner, Adjusting>>
<1>1. p \notin Adjusting
  BY DEF Adjusting
<1>2. CASE r.pc = "adjust"
  <2>1. Adjusting = {}
    BY <1>1, <1>2, AdjusterOwns
  <2>2. Adjusting' = {p}
    BY <1>2, <2>1, AdjustersMove
  <2> QED
    BY <1>2, <2>1, <2>2 DEF Abstract!Begin
<1>3. CASE r.pc # "adjust"
  <2>1. Adjusting' = Adjusting
    BY <1>1, <1>3, AdjustersMove
  <2> QED
    BY <2>1
<1> QED
  BY <1>2, <1>3

\* Every step is a step of the abstract writer, or invisible to it.
LEMMA StepImplements ==
  ASSUME IInv, NEW p \in Procs, Step(p) \/ Launch(p) \/ Kill(p)
  PROVE  [Abstract!Next]_<<lockOwner, Adjusting>>
<1>1. SUFFICES \/ \E q \in Procs : \/ Abstract!Take(q) \/ Abstract!Begin(q)
                                   \/ Abstract!End(q) \/ Abstract!Drop(q)
               \/ UNCHANGED <<lockOwner, Adjusting>>
  BY DEF Abstract!Next
<1> DEFINE Goal == \/ Abstract!Take(p) \/ Abstract!Begin(p)
                   \/ Abstract!End(p) \/ Abstract!Drop(p)
                   \/ UNCHANGED <<lockOwner, Adjusting>>
<1>2. proc[p] \in Process /\ Claims(p, proc[p], lockOwner, pidfile)
  BY ProcFacts
<1>3. ASSUME Exit(p) PROVE Goal
  BY <1>3, ExitImplements
<1>4. ASSUME proc[p].pc # "adjust", lockOwner' = lockOwner,
             NEW r, Become(p, r), r.pc = "adjust" => lockOwner = p
      PROVE  Goal
  BY <1>4, QuietImplements
<1>5. ASSUME NEW l, proc[p].pc # "adjust", lockOwner' = lockOwner,
             Goto(p, l), l = "adjust" => lockOwner = p
      PROVE  Goal
  <2> DEFINE r == [proc[p] EXCEPT !.pc = l]
  <2>1. r.pc = l
    BY <1>2 DEF Process
  <2>2. Become(p, r)
    BY <1>5 DEF Goto
  <2> HIDE DEF r
  <2> QED
    BY <1>4, <1>5, <2>1, <2>2
<1>6. ASSUME AlreadyRunning(p) PROVE Goal
  <2>1. CASE OpenLockFile(p)
    <3> DEFINE r == [proc[p] EXCEPT !.pc = "lock", !.fds = @ + 1]
    <3>1. r.pc = "lock"
      BY <1>2 DEF Process
    <3>2. proc[p].pc = "open" /\ (Exit(p) \/ (Become(p, r)
                                              /\ lockOwner' = lockOwner))
      BY <2>1 DEF OpenLockFile
    <3> HIDE DEF r, Goal
    <3> QED
      BY <1>3, <1>4, <3>1, <3>2
  <2>2. CASE SetLock(p)
    <3> DEFINE r == [proc[p] EXCEPT !.pc = "sleep", !.fds = @ - 1]
    <3>1. r.pc = "sleep"
      BY <1>2 DEF Process
    <3>2. \/ Locks(p)
          \/ Exit(p)
          \/ Become(p, r) /\ lockOwner' = lockOwner
      BY <2>2 DEF SetLock, Refused
    <3>3. proc[p].pc = "lock"
      BY <2>2 DEF SetLock
    <3>4. Locks(p) => Goal
      BY <3>3, LocksImplements
    <3> HIDE DEF r, Goal
    <3> QED
      BY <1>3, <1>4, <3>1, <3>2, <3>3, <3>4
  <2>3. CASE Truncate(p)
    <3>1. /\ proc[p].pc = "truncate" /\ lockOwner' = lockOwner
          /\ Goto(p, "write")
      BY <2>3 DEF Truncate
    <3> HIDE DEF Goal
    <3> QED
      BY <1>5, <3>1
  <2>4. CASE WritePid(p)
    <3>1. proc[p].pc = "write" /\ lockOwner' = lockOwner
      BY <2>4 DEF WritePid
    <3>2. \E r : Become(p, r)
      BY <2>4 DEF WritePid, Returns
    <3>3. lockOwner = p
      BY <1>2, <3>1 DEF Claims, Relies
    <3> HIDE DEF Goal
    <3> QED
      BY <1>4, <3>1, <3>2, <3>3
  <2> QED
    BY <1>6, <2>1, <2>2, <2>3, <2>4 DEF AlreadyRunning
<1>7. ASSUME GetOpt(p) PROVE Goal
  <2>1. proc[p].pc = "opts"
    BY <1>7 DEF GetOpt
  <2>2. CASE proc[p].argv = <<>>
    <3>1. Goto(p, "device") /\ lockOwner' = lockOwner
      BY <1>7, <2>2 DEF GetOpt
    <3> HIDE DEF Goal
    <3> QED
      BY <1>5, <2>1, <3>1
  <2>3. CASE proc[p].argv # <<>>
    <3>1. \/ Exit(p)
          \/ lockOwner' = lockOwner /\ \E r : Become(p, r) /\ r.pc # "adjust"
      <4> DEFINE o    == Head(proc[p].argv)
                 rest == Tail(proc[p].argv)
                 rd == [proc[p] EXCEPT !.argv = rest, !.pc = "open",
                                       !.site = "opts"]
                 rt == [proc[p] EXCEPT !.argv = rest, !.display = TRUE]
                 rv == [proc[p] EXCEPT !.argv = rest]
                 rs == [proc[p] EXCEPT !.argv = rest, !.period = o.arg]
      <4>1. /\ rd.pc = "open" /\ rt.pc = "opts" /\ rv.pc = "opts"
            /\ rs.pc = "opts"
        BY <1>2, <2>1 DEF Process
      <4>2. \/ Exit(p)
            \/ /\ lockOwner' = lockOwner
               /\ \/ Become(p, rd) \/ Become(p, rt)
                  \/ Become(p, rv) \/ Become(p, rs)
        BY <1>7, <2>3 DEF GetOpt, Option
      <4> HIDE DEF rd, rt, rv, rs
      <4> QED
        BY <4>1, <4>2
    <3> HIDE DEF Goal
    <3> QED
      BY <1>3, <1>4, <2>1, <3>1
  <2> QED
    BY <2>2, <2>3
<1>8. ASSUME Daemon(p) PROVE Goal
  <2>1. CASE Exit(p)
    BY <1>3, <2>1
  <2>2. CASE ~Exit(p)
    <3> DEFINE child  == [proc[p] EXCEPT !.pc = "opts", !.cwd = "root"]
               parent == [proc[p] EXCEPT !.pc = "exiting"]
    <3>1. PICK c \in Procs :
            /\ proc[c].pc = "dead"
            /\ proc' = [proc EXCEPT ![c] = child, ![p] = parent]
      BY <1>8, <2>2 DEF Daemon
    <3>2. child.pc = "opts" /\ parent.pc = "exiting"
      BY <1>2 DEF Process
    <3>3. proc[p].pc = "daemon" /\ lockOwner' = lockOwner
      BY <1>8, <2>2 DEF Daemon
    <3> HIDE DEF child, parent
    <3>4. \A q \in Procs : proc'[q].pc = "adjust" <=> proc[q].pc = "adjust"
      BY <3>1, <3>2, <3>3 DEF IInv, TypeOK
    <3>5. Adjusting' = Adjusting
      BY <3>4 DEF Adjusting
    <3> QED
      BY <3>3, <3>5
  <2> QED
    BY <2>1, <2>2
<1>9. ASSUME OpenDevice(p) PROVE Goal
  <2> DEFINE r == [proc[p] EXCEPT !.pc = "open", !.site = "pre"]
  <2>1. r.pc = "open" /\ proc[p].pc = "device"
    BY <1>2, <1>9 DEF Process, OpenDevice
  <2>2. \/ Exit(p)
        \/ /\ lockOwner' = lockOwner
           /\ Goto(p, "measure") \/ Become(p, r)
    BY <1>9 DEF OpenDevice
  <2> HIDE DEF Goal, r
  <2> QED
    BY <1>3, <1>4, <1>5, <2>1, <2>2
<1>10. ASSUME Measure(p) PROVE Goal
  <2> DEFINE r == [proc[p] EXCEPT !.fresh = TRUE, !.pc = "open",
                                  !.site = "loop"]
             w == [proc[p] EXCEPT !.fresh = TRUE, !.pc = "adjust"]
  <2>1. r.pc = "open" /\ w.pc = "adjust"
    BY <1>2 DEF Process
  <2>2. /\ proc[p].pc = "measure" /\ lockOwner' = lockOwner
        /\ \/ Become(p, r)
           \/ Become(p, w) /\ ~proc[p].display
           \/ Goto(p, "sleep")
    BY <1>10 DEF Measure
  <2>3. ~proc[p].display => lockOwner = p
    BY <1>2, <2>2 DEF Claims, Relies, Loops
  <2> HIDE DEF Goal, r, w
  <2> QED
    BY <1>4, <1>5, <2>1, <2>2, <2>3
<1>11. ASSUME Adjust(p) PROVE Goal
  <2>1. p \in Adjusting
    BY <1>11 DEF Adjust, Adjusting
  <2>2. Adjusting = {p}
    BY <2>1, AdjusterOwns
  <2>3. \A q \in Procs : proc'[q].pc = "adjust" => q # p /\ q \in Adjusting
    <3> SUFFICES ASSUME NEW q \in Procs, proc'[q].pc = "adjust"
                 PROVE  q # p /\ q \in Adjusting
      OBVIOUS
    <3> DEFINE old == proc[q]
    <3>1. old \in Process
      BY ProcFacts
    <3>2. proc'[q] = [old EXCEPT !.fresh = FALSE,
                                 !.pc = IF q = p THEN "sleep" ELSE old.pc]
      BY <1>11 DEF Adjust
    <3>3. proc'[q].pc = IF q = p THEN "sleep" ELSE old.pc
      BY <3>1, <3>2 DEF Process
    <3> QED
      BY <3>3 DEF Adjusting
  <2>4. Adjusting' = {}
    BY <2>2, <2>3 DEF Adjusting
  <2> QED
    BY <1>11, <2>2, <2>4 DEF Adjust, Abstract!End
<1>12. ASSUME Sleep(p) PROVE Goal
  <2>1. /\ proc[p].pc = "sleep"
        /\ \/ Exit(p)
           \/ Goto(p, "measure") /\ lockOwner' = lockOwner
    BY <1>12 DEF Sleep
  <2> HIDE DEF Goal
  <2> QED
    BY <1>3, <1>5, <2>1
<1>13. ASSUME Launch(p) PROVE Goal
  <2>1. PICK prog \in Programs, argv \in Args, dir \in LaunchDirs :
          Become(p, [Gone EXCEPT !.pc = "opts", !.prog = prog,
                                 !.argv = argv, !.cwd = dir])
    BY <1>13 DEF Launch
  <2> DEFINE r == [Gone EXCEPT !.pc = "opts", !.prog = prog,
                               !.argv = argv, !.cwd = dir]
  <2>2. r.pc = "opts"
    BY GoneType DEF Gone
  <2>3. proc[p].pc = "dead" /\ lockOwner' = lockOwner /\ Become(p, r)
    BY <1>13, <2>1 DEF Launch
  <2> HIDE DEF Goal, r
  <2> QED
    BY <1>4, <2>2, <2>3
<1>14. Goal
  <2> HIDE DEF Goal
  <2> QED
    BY <1>3, <1>6, <1>7, <1>8, <1>9, <1>10, <1>11, <1>12, <1>13
    DEF Step, Kill, ParentExit
<1> QED
  BY <1>1, <1>14

\* The lock protocol implements the abstract single writer: seen through the
\* lock owner and the set of adjusting processes, every behaviour of the
\* programs is one of SingleWriter.
THEOREM Refinement == Spec => SingleWriterSpec
<1>1. Init => Abstract!Init
  BY DEF Init, Gone, Abstract!Init, Adjusting
<1>2. IInv /\ [Next]_vars => [Abstract!Next]_<<lockOwner, Adjusting>>
  <2> SUFFICES ASSUME IInv, [Next]_vars
               PROVE  [Abstract!Next]_<<lockOwner, Adjusting>>
    OBVIOUS
  <2>1. CASE UNCHANGED vars
    BY <2>1 DEF vars, Adjusting
  <2>2. CASE Next
    BY <2>2, StepImplements DEF Next
  <2> QED
    BY <2>1, <2>2
<1> QED
  BY <1>1, <1>2, Invariance, PTL DEF Spec, SingleWriterSpec, Abstract!Spec
=============================================================================
