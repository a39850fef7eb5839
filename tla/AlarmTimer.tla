------------------------------ MODULE AlarmTimer ------------------------------
(***************************************************************************)
(* One of the measuring programs main_user_timer, posix_timer and          *)
(* rdtime_cost: main() aims a periodic timer at an appointed second of the *)
(* day and waits; the signal handler printMsg() reads the clocks and       *)
(* reports.  The handler runs on the thread of main(), wherever main() is, *)
(* and its signal is blocked while it runs.                                *)
(*                                                                         *)
(* Time is counted in units of which SEC make a second.  mono is the time  *)
(* that passes: the kernel's timers follow it, and so does the card, which *)
(* is CardAhead units ahead of it.  wall is CLOCK_REALTIME, which somebody *)
(* (a synchronisation program) may set at any moment.                      *)
(***************************************************************************)
EXTENDS Integers

CONSTANTS
  SEC,          \* units in a second
  Align,        \* 5: without -t, the timer starts at a multiple of it
  Word,         \* 2^64 in the code: what utime is computed modulo
  Commands,     \* the command lines the programs are started with
  NoStart,      \* no -t on the command line
  Clocks,       \* what CLOCK_REALTIME may show when the program starts
  Shifts,       \* by how much the clock may be set
  CardAhead,    \* card less mono
  Junk,         \* what an uninitialised timespec may hold
  Faults,       \* calls that may fail: "open", "timer_create", "fopen"
  Horizon,      \* bound on mono
  MaxShifts     \* bound on how often the clock is set

Command == [prog  : {"main_user_timer", "posix_timer", "rdtime_cost"},
            start : Int \union {NoStart},   \* -t, in seconds
            iv    : Int,                    \* -i, in units
            mode  : Int]                    \* -m

ASSUME TimerConstantsOK ==
  /\ SEC \in Nat \ {0} /\ Align \in Nat \ {0} /\ Word \in Nat \ {0}
  /\ NoStart \notin Int
  /\ Commands \subseteq Command
  /\ Clocks \subseteq Nat /\ Shifts \subseteq Int /\ Junk \subseteq Int
  /\ CardAhead \in Int /\ Horizon \in Nat /\ MaxShifts \in Nat
  /\ Faults \subseteq {"open", "timer_create", "fopen"}

VARIABLES
  cmd,          \* the command line
  pc,           \* where main() is
  begun,        \* the second time() returned at the start
  start,        \* timep: the appointed second, in units
  utime,        \* the time until then, as an unsigned number
  fd,           \* whether the card is open
  rd_num,       \* reports so far
  hpc,          \* where the handler is
  first,        \* the handler's first reading of CLOCK_REALTIME
  second,       \* its second reading: card, clock or the first again
  due,          \* when the timer expires next, on mono; 0 if disarmed
  pending,      \* the signal is pending: once, however often it was sent
  mono, wall,   \* the time that passes, and CLOCK_REALTIME
  shifts,       \* how often the clock was set
  aimed,        \* history: when utime was computed and the timer armed
  expiries,     \* history: how often the timer expired
  last          \* history: the last report

mainVars   == <<cmd, pc, begun, start, utime, fd, aimed>>
handlerVars == <<rd_num, hpc, first, second, last>>
timerVars  == <<due, pending, expiries>>
clockVars  == <<mono, wall, shifts>>
vars       == <<mainVars, handlerVars, timerVars, clockVars>>

MainLabels    == {"begin", "options", "arm", "log", "open", "pause", "ended"}
HandlerLabels == {"idle", "first", "second", "report", "hung"}

\* A reading: CLOCK_REALTIME, when it was taken and after how many expiries.
Reading == [wall : Int, mono : Int, tick : Int]

\* A report: what was printed, from which readings, and where main() was.
Report == [value : Int, first : Reading, mono : Int, pc : MainLabels]

NoReading == [wall |-> 0, mono |-> 0, tick |-> 0]
NoReport  == [value |-> 0, first |-> NoReading, mono |-> 0, pc |-> "begin"]

TypeOK ==
  /\ cmd \in Commands
  /\ pc \in MainLabels /\ hpc \in HandlerLabels
  /\ begun \in Int /\ start \in Int
  /\ aimed \in [ahead : Int, aim : 0..Horizon, arm : 0..Horizon]
  /\ utime \in 0..Word - 1
  /\ fd \in BOOLEAN /\ pending \in BOOLEAN
  /\ rd_num \in Nat /\ expiries \in Nat /\ due \in Nat
  /\ first \in Reading
  /\ second \in [value : Int, mono : Int]
  /\ mono \in 0..Horizon /\ wall \in Int /\ shifts \in 0..MaxShifts
  /\ last \in Report

Init ==
  /\ cmd \in Commands
  /\ pc = "begin" /\ hpc = "idle"
  /\ begun = 0 /\ start = 0 /\ utime = 0
  /\ aimed = [ahead |-> 0, aim |-> 0, arm |-> 0]
  /\ fd = FALSE /\ pending = FALSE
  /\ rd_num = 0 /\ expiries = 0 /\ due = 0
  /\ first = NoReading /\ second = [value |-> 0, mono |-> 0]
  /\ mono = 0 /\ wall \in Clocks /\ shifts = 0
  /\ last = NoReport

-----------------------------------------------------------------------------
(* main(), which only runs while its handler does not.                     *)

\* time(&timep) and localtime(): whole seconds.
Begin ==
  /\ pc = "begin"
  /\ begun' = (wall \div SEC) * SEC
  /\ pc' = "options"
  /\ UNCHANGED <<cmd, start, utime, fd, aimed, handlerVars, timerVars,
                 clockVars>>

\* The process is gone, and its timer with it.
Gone ==
  /\ pc' = "ended" /\ due' = 0 /\ pending' = FALSE
  /\ UNCHANGED <<cmd, begun, start, utime, fd, aimed, expiries>>

End == Gone /\ UNCHANGED <<handlerVars, clockVars>>

ModeOK == cmd.mode \in 0..(IF cmd.prog = "rdtime_cost" THEN 3 ELSE 2)

Refuse ==
  /\ pc = "options"
  /\ \/ ~ModeOK
     \/ cmd.prog = "posix_timer" /\ "timer_create" \in Faults
  /\ End

\* Without -t, the next multiple of five seconds after the start.
Appointed ==
  IF cmd.start = NoStart
    THEN begun - (begun % (Align * SEC)) + Align * SEC
    ELSE cmd.start * SEC

\* Bug: the difference is kept as a signed number.
AimSigned ==
  /\ pc = "options" /\ ModeOK
  /\ start' = Appointed
  /\ utime' = start' - wall
  /\ aimed' = [ahead |-> wall - mono, aim |-> mono, arm |-> mono]
  /\ pc' = "arm"
  /\ UNCHANGED <<cmd, begun, fd, handlerVars, timerVars, clockVars>>

\* mktime(), gettimeofday() or clock_gettime(), and the unsigned difference.
Aim ==
  /\ pc = "options" /\ ModeOK
  /\ start' = Appointed
  /\ utime' = (start' - wall) % Word
  /\ aimed' = [ahead |-> wall - mono, aim |-> mono, arm |-> mono]
  /\ pc' = "arm"
  /\ UNCHANGED <<cmd, begun, fd, handlerVars, timerVars, clockVars>>

\* Bug: the time that is left is set as a point in time.
CountdownAbsolute == utime

\* A timer set to 0 is disarmed.
Countdown == IF utime = 0 THEN 0 ELSE mono + utime

\* setitimer(), which refuses a negative interval; main() goes on regardless.
ArmItimer ==
  /\ cmd.prog # "posix_timer"
  /\ due' = IF cmd.iv < 0 THEN 0 ELSE Countdown

\* timer_settime(), whose interval is unsigned like the time until the start.
ArmPosix ==
  /\ cmd.prog = "posix_timer"
  /\ due' = Countdown

Arm ==
  /\ pc = "arm"
  /\ ArmItimer \/ ArmPosix
  /\ pc' = "log"
  /\ aimed' = [aimed EXCEPT !.arm = mono]
  /\ UNCHANGED <<cmd, begun, start, utime, fd, handlerVars, pending,
                 expiries, clockVars>>

\* The two lines about the timer are written to the log file.  Whether it could
\* be opened is not looked at: fprintf() to no file is the end of the program.
Log ==
  /\ pc = "log"
  /\ \/ /\ pc' = "open"
        /\ UNCHANGED <<cmd, begun, start, utime, fd, aimed, handlerVars,
                       timerVars, clockVars>>
     \/ "fopen" \in Faults /\ End

\* Mode 1 opens the card, when the timer is running already.
Open ==
  /\ pc = "open"
  /\ \/ /\ pc' = "pause"
        /\ fd' = (cmd.mode = 1)
        /\ UNCHANGED <<cmd, begun, start, utime, aimed, handlerVars,
                       timerVars, clockVars>>
     \/ cmd.mode = 1 /\ "open" \in Faults /\ End

Main == hpc = "idle" /\ (Begin \/ Refuse \/ Aim \/ Arm \/ Log \/ Open)

-----------------------------------------------------------------------------
(* The kernel's timer and clocks.                                          *)

\* posix_timer holds the interval in an unsigned long long.
Interval == IF cmd.prog = "posix_timer" THEN cmd.iv % Word ELSE cmd.iv

\* The signal is sent; one that is pending already swallows it.
Expire ==
  /\ due # 0 /\ due <= mono
  /\ pending' = TRUE
  /\ expiries' = expiries + 1
  /\ due' = IF Interval = 0 THEN 0 ELSE due + Interval
  /\ UNCHANGED <<mainVars, handlerVars, clockVars>>

\* Timer interrupts are not late.
Tick ==
  /\ mono < Horizon
  /\ due # 0 => mono < due
  /\ mono' = mono + 1 /\ wall' = wall + 1
  /\ UNCHANGED <<mainVars, handlerVars, timerVars, shifts>>

\* Somebody sets CLOCK_REALTIME; a relative timer does not notice.
SetClock ==
  /\ shifts < MaxShifts
  /\ shifts' = shifts + 1
  /\ \E d \in Shifts : wall' = wall + d
  /\ UNCHANGED <<mainVars, handlerVars, timerVars, mono>>

-----------------------------------------------------------------------------
(* printMsg().                                                             *)

\* Bug: the signal() of System V, which forgets the handler when it has run.
DeliverOnce ==
  /\ hpc = "idle" /\ pending /\ rd_num = 0
  /\ hpc' = "first" /\ pending' = FALSE
  /\ UNCHANGED <<mainVars, rd_num, first, second, last, due, expiries,
                 clockVars>>

Deliver ==
  /\ hpc = "idle" /\ pending
  /\ hpc' = "first" /\ pending' = FALSE
  /\ UNCHANGED <<mainVars, rd_num, first, second, last, due, expiries,
                 clockVars>>

\* rdtime_cost counts its report before the readings.
CountsFirst == IF cmd.prog = "rdtime_cost" THEN 1 ELSE 0

\* Bug: systime is static, and read for the first report only.
ReadOnce ==
  /\ hpc = "first"
  /\ first' = IF last # NoReport THEN last.first
              ELSE [wall |-> wall, mono |-> mono, tick |-> expiries]
  /\ rd_num' = rd_num + CountsFirst
  /\ hpc' = "second"
  /\ UNCHANGED <<mainVars, second, last, timerVars, clockVars>>

\* clock_gettime() into systime or time_start.
ReadFirst ==
  /\ hpc = "first"
  /\ first' = [wall |-> wall, mono |-> mono, tick |-> expiries]
  /\ rd_num' = rd_num + CountsFirst
  /\ hpc' = "second"
  /\ UNCHANGED <<mainVars, second, last, timerVars, clockVars>>

\* What the reading of the card gives: by ioctl on a descriptor that may not
\* be open yet, or by hypercall.
CardReadings == IF fd \/ cmd.mode # 1 THEN {mono + CardAhead} ELSE Junk

\* The reading that is reported: time, or time_end after the call measured.
ReadSecond ==
  /\ hpc = "second"
  /\ second' \in
       [value : CASE cmd.prog = "rdtime_cost" -> {wall}
                  [] cmd.prog # "rdtime_cost" /\ cmd.mode = 0 -> {first.wall}
                  [] OTHER -> CardReadings,
        mono  : {mono}]
  /\ hpc' = "report"
  /\ UNCHANGED <<mainVars, rd_num, first, last, timerVars, clockVars>>

\* sub_ns(): the fraction of the second is the delay since the appointment.
Fixed == second.value - (first.wall % SEC)

\* Bug: the delay is added.
ReportedLate ==
  CASE cmd.prog = "rdtime_cost" -> second.value - first.wall
    [] cmd.prog # "rdtime_cost" /\ cmd.mode = 0 -> second.value
    [] OTHER -> second.value + (first.wall % SEC)

Reported ==
  CASE cmd.prog = "rdtime_cost" -> second.value - first.wall
    [] cmd.prog # "rdtime_cost" /\ cmd.mode = 0 -> second.value
    [] OTHER -> Fixed

\* The report is printed and logged.  When main() was interrupted in its own
\* fopen(), inside malloc(), the handler's own may never return; and when it
\* fails, the program ends as in Log.  The two readings are local to the
\* handler.
PrintMsg ==
  /\ hpc = "report"
  /\ rd_num' = rd_num + 1 - CountsFirst
  /\ \/ /\ hpc' = "idle"
        /\ last' = [value |-> Reported, first |-> first,
                    mono |-> second.mono, pc |-> pc]
        /\ UNCHANGED <<mainVars, timerVars>>
     \/ /\ pc = "log" /\ hpc' = "hung"
        /\ UNCHANGED <<last, mainVars, timerVars>>
     \/ "fopen" \in Faults /\ hpc' = "idle" /\ Gone /\ UNCHANGED last
  /\ first' = NoReading /\ second' = [value |-> 0, mono |-> 0]
  /\ UNCHANGED clockVars

Handler == Deliver \/ ReadFirst \/ ReadSecond \/ PrintMsg

Next == Main \/ Handler \/ Expire \/ Tick \/ SetClock

Spec == Init /\ [][Next]_vars

\* Time passes, the timer works and the process is scheduled.
FairSpec ==
  Spec /\ WF_vars(Main) /\ WF_vars(Handler) /\ WF_vars(Expire) /\ WF_vars(Tick)

-----------------------------------------------------------------------------
(* What the programs promise.                                              *)

Over == pc = "ended" \/ hpc = "hung"

\* Of signals that merge, the reports that are lost are never the latest.  A
\* handler that has just run may have been sent for several ticks, and been
\* interrupted by none of those that came meanwhile; but whenever printMsg()
\* is not running and has not to run again, its last report was read after
\* the last tick there was.
LatestTickReported ==
  hpc = "idle" /\ ~pending /\ expiries > 0 /\ ~Over
    => last.first.tick = expiries

\* For whichever tick was the last before the report's first reading: how
\* late that reading was, counted from the appointment by the clock that was
\* aimed with.
Lag == last.first.mono
         - (start + (last.first.tick - 1) * cmd.iv - aimed.ahead)

\* How far the clock had been set since then, when the report was made.
Moved == last.first.wall - last.first.mono - aimed.ahead

ReadsCard == cmd.prog # "rdtime_cost" /\ cmd.mode \in {1, 2}

\* No report comes before its appointment, and every one comes at most an
\* interval after the last tick, which is late by what main() needed to arm
\* the timer and by nothing else, however often ticks were merged.
ReportsInTime ==
  last # NoReport /\ cmd.iv > 0
    => Lag \in 0 .. cmd.iv + (aimed.arm - aimed.aim)

\* "systime.tv_nsec means the delay time from the appointment time": with an
\* interval of whole seconds, the fixed time is what the card showed at the
\* appointment, plus what passed between the two readings and the whole
\* seconds of the lag.  No lag of the start, of the signal or of the handler
\* matters otherwise.  The clock may be set by whole seconds; in mode 1,
\* main() has opened the card.
DelayTakenAway ==
  /\ last # NoReport
  /\ ReadsCard /\ (cmd.mode = 1 => last.pc = "pause")
  /\ cmd.iv % SEC = 0 /\ Moved % SEC = 0
  => last.value = last.first.mono - Lag + CardAhead
                    + (last.mono - last.first.mono) + (Lag \div SEC) * SEC

\* A timer that is running, with an expiry within the horizon, is reported,
\* however late the handler runs and however many signals are merged.  (With
\* intervals of a second or more there are no more reports than seconds.)
AlarmAnswered ==
  \A n \in 0..Horizon \div SEC :
    due \in 1..Horizon /\ rd_num = n ~> rd_num > n \/ Over

\* "it will start in 5 secs": once main() has set the timer of a program that
\* was started without -t, it has expired or it will in Align seconds.
DefaultStarts ==
  cmd.start = NoStart /\ pc \in {"log", "open", "pause"}
    => expiries > 0 \/ due \in 1 .. mono + Align * SEC
=============================================================================
