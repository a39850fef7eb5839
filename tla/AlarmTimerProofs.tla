--------------------------- MODULE AlarmTimerProofs ---------------------------
(***************************************************************************)
(* Proofs about AlarmTimer, for any lengths of a second, of a word and of  *)
(* the alignment, any command lines, clocks and settings: the types, that  *)
(* the latest tick is never the one whose report is lost, that reports     *)
(* come in time, and that the fixed time of a report is the card's time at *)
(* the appointment.                                                        *)
(***************************************************************************)
EXTENDS AlarmTimer, TLAPS

\* A remainder is below what it is taken by, and a quotient is whole.
LEMMA Division ==
  ASSUME NEW n \in Int, NEW d \in Nat \ {0}
  PROVE  /\ n % d \in 0..d - 1
         /\ n \div d \in Int
         /\ n = d * (n \div d) + (n % d)
OBVIOUS

\* Whole multiples do not change a remainder.
LEMMA ModShift ==
  ASSUME NEW a \in Int, NEW k \in Int, NEW d \in Nat \ {0}
  PROVE  (a + d * k) % d = a % d
<1> DEFINE b == a + d * k
           q == (b \div d) - (a \div d) - k
           r == (a % d) - (b % d)
<1>1. b \in Int /\ d * k \in Int
  OBVIOUS
<1>2. /\ a % d \in 0..d - 1 /\ a \div d \in Int
      /\ a = d * (a \div d) + (a % d)
  BY Division
<1>3. /\ b % d \in 0..d - 1 /\ b \div d \in Int
      /\ b = d * (b \div d) + (b % d)
  BY <1>1, Division
<1>4. q \in Int /\ r \in Int /\ r < d /\ r > -d
  BY <1>2, <1>3
<1>5. d * q = d * (b \div d) - d * (a \div d) - d * k
  BY <1>2, <1>3
<1>6. r = d * q
  BY <1>1, <1>2, <1>3, <1>5
<1> HIDE DEF q, r
<1>7. q = 0
  <2>1. CASE q >= 1
    <3>1. d * q >= d
      BY <1>4, <2>1
    <3> QED
      BY <1>4, <1>6, <3>1
  <2>2. CASE q <= -1
    <3>1. d * q <= -d
      BY <1>4, <2>2
    <3> QED
      BY <1>4, <1>6, <3>1
  <2> QED
    BY <1>4, <2>1, <2>2
<1>8. r = 0
  BY <1>6, <1>7
<1> QED
  BY <1>2, <1>3, <1>8 DEF r

-----------------------------------------------------------------------------
(* Types.                                                                  *)

\* setitimer() refuses a negative interval, so that one never expires.
NegativeUnarmed ==
  cmd.prog # "posix_timer" /\ cmd.iv < 0 => due = 0

TypeInv == TypeOK /\ NegativeUnarmed

LEMMA InitTypes == Init => TypeInv
<1> SUFFICES ASSUME Init PROVE TypeInv
  OBVIOUS
<1>1. wall \in Int /\ utime \in 0..Word - 1 /\ mono \in 0..Horizon
      /\ shifts \in 0..MaxShifts
  BY TimerConstantsOK DEF Init
<1>2. aimed \in [ahead : Int, aim : 0..Horizon, arm : 0..Horizon]
  BY TimerConstantsOK DEF Init
<1> QED
  BY <1>1, <1>2 DEF Init, TypeInv, TypeOK, NegativeUnarmed, Reading, Report,
     NoReading, NoReport, MainLabels, HandlerLabels

LEMMA AppointedInt == TypeOK => Appointed \in Int
<1> SUFFICES ASSUME TypeOK PROVE Appointed \in Int
  OBVIOUS
<1>1. cmd \in Command /\ begun \in Int
  BY TimerConstantsOK DEF TypeOK
<1>2. Align * SEC \in Nat \ {0}
  BY TimerConstantsOK
<1>3. CASE cmd.start = NoStart
  BY <1>1, <1>2, <1>3, Division DEF Appointed
<1>4. CASE cmd.start # NoStart
  <2>1. cmd.start \in Int
    BY <1>1, <1>4 DEF Command
  <2> QED
    BY <1>4, <2>1, TimerConstantsOK DEF Appointed
<1> QED
  BY <1>3, <1>4

LEMMA ReportedInt == TypeOK => Reported \in Int /\ Fixed \in Int
<1> SUFFICES ASSUME TypeOK PROVE Reported \in Int /\ Fixed \in Int
  OBVIOUS
<1>1. first.wall \in Int /\ second.value \in Int
  BY DEF TypeOK, Reading
<1>2. first.wall % SEC \in Int
  <2>1. SEC \in Nat \ {0}
    BY TimerConstantsOK
  <2> QED
    BY <1>1, <2>1
<1>3. Fixed \in Int
  BY <1>1, <1>2 DEF Fixed
<1> QED
  BY <1>1, <1>3 DEF Reported

LEMMA TypeStep == TypeInv /\ [Next]_vars => TypeInv'
<1> SUFFICES ASSUME TypeInv, [Next]_vars PROVE TypeInv'
  OBVIOUS
<1>0. TypeOK /\ NegativeUnarmed /\ cmd \in Command
  BY TimerConstantsOK DEF TypeInv, TypeOK
<1> USE DEF mainVars, handlerVars, timerVars, clockVars
<1>1. CASE UNCHANGED vars
  BY <1>0, <1>1 DEF vars, TypeInv, TypeOK, NegativeUnarmed
<1>2. CASE Begin
  <2>1. begun' \in Int
    BY <1>0, <1>2, Division, TimerConstantsOK DEF Begin, TypeOK
  <2> QED
    BY <1>0, <1>2, <2>1 DEF Begin, TypeInv, TypeOK, NegativeUnarmed,
       MainLabels
<1>3. CASE Refuse
  BY <1>0, <1>3 DEF Refuse, End, Gone, TypeInv, TypeOK, NegativeUnarmed, MainLabels
<1>4. CASE Aim
  <2>1. start' \in Int
    BY <1>0, <1>4, AppointedInt DEF Aim
  <2>2. utime' \in 0..Word - 1
    <3>1. start' - wall \in Int
      BY <1>0, <2>1 DEF TypeOK
    <3> QED
      BY <1>4, <3>1, Division, TimerConstantsOK DEF Aim
  <2>3. aimed' \in [ahead : Int, aim : 0..Horizon, arm : 0..Horizon]
    BY <1>0, <1>4 DEF Aim, TypeOK
  <2> QED
    BY <1>0, <1>4, <2>1, <2>2, <2>3 DEF Aim, TypeInv, TypeOK,
       NegativeUnarmed, MainLabels
<1>5. CASE Arm
  <2>1. Countdown \in Nat
    BY <1>0, TimerConstantsOK DEF Countdown, TypeOK
  <2>2. due' \in Nat /\ NegativeUnarmed'
    BY <1>5, <2>1 DEF Arm, ArmItimer, ArmPosix, NegativeUnarmed
  <2>3. aimed' \in [ahead : Int, aim : 0..Horizon, arm : 0..Horizon]
    BY <1>0, <1>5 DEF Arm, TypeOK
  <2> QED
    BY <1>0, <1>5, <2>2, <2>3 DEF Arm, TypeInv, TypeOK, MainLabels
<1>6. CASE Log
  <2>1. CASE End
    BY <1>0, <2>1 DEF End, Gone, TypeInv, TypeOK, NegativeUnarmed, MainLabels
  <2>2. CASE ~End
    BY <1>0, <1>6, <2>2 DEF Log, TypeInv, TypeOK, NegativeUnarmed, MainLabels
  <2> QED
    BY <2>1, <2>2
<1>7. CASE Open
  <2>1. CASE End
    BY <1>0, <2>1 DEF End, Gone, TypeInv, TypeOK, NegativeUnarmed, MainLabels
  <2>2. CASE ~End
    <3>1. fd' \in BOOLEAN
      BY <1>7, <2>2 DEF Open
    <3> QED
      BY <1>0, <1>7, <2>2, <3>1 DEF Open, TypeInv, TypeOK, NegativeUnarmed,
         MainLabels
  <2> QED
    BY <2>1, <2>2
<1>8. CASE Expire
  <2>1. Interval \in Nat
    <3>1. CASE cmd.prog = "posix_timer"
      BY <1>0, <3>1, Division, TimerConstantsOK DEF Interval, Command
    <3>2. CASE cmd.prog # "posix_timer"
      <4>1. cmd.iv \in Int /\ ~(cmd.iv < 0)
        BY <1>0, <1>8, <3>2 DEF Expire, NegativeUnarmed, Command
      <4> QED
        BY <3>2, <4>1 DEF Interval
    <3> QED
      BY <3>1, <3>2
  <2>2. due' \in Nat
    BY <1>0, <1>8, <2>1 DEF Expire, TypeOK
  <2>3. NegativeUnarmed'
    BY <1>0, <1>8 DEF Expire, NegativeUnarmed
  <2> QED
    BY <1>0, <1>8, <2>2, <2>3 DEF Expire, TypeInv, TypeOK
<1>9. CASE Tick
  <2>1. mono' \in 0..Horizon /\ wall' \in Int
    BY <1>0, <1>9, TimerConstantsOK DEF Tick, TypeOK
  <2> QED
    BY <1>0, <1>9, <2>1 DEF Tick, TypeInv, TypeOK, NegativeUnarmed
<1>10. CASE SetClock
  <2>1. shifts' \in 0..MaxShifts /\ wall' \in Int
    BY <1>0, <1>10, TimerConstantsOK DEF SetClock, TypeOK
  <2> QED
    BY <1>0, <1>10, <2>1 DEF SetClock, TypeInv, TypeOK, NegativeUnarmed
<1>11. CASE Deliver
  BY <1>0, <1>11 DEF Deliver, TypeInv, TypeOK, NegativeUnarmed,
     HandlerLabels
<1>12. CASE ReadFirst
  BY <1>0, <1>12 DEF ReadFirst, CountsFirst, TypeInv, TypeOK,
     NegativeUnarmed, HandlerLabels, Reading
<1>13. CASE ReadSecond
  <2>1. CardReadings \subseteq Int
    BY <1>0, TimerConstantsOK DEF CardReadings, TypeOK
  <2>2. second' \in [value : Int, mono : Int]
    BY <1>0, <1>13, <2>1 DEF ReadSecond, TypeOK, Reading
  <2> QED
    BY <1>0, <1>13, <2>2 DEF ReadSecond, TypeInv, TypeOK, NegativeUnarmed,
       HandlerLabels
<1>14. CASE PrintMsg
  <2>1. last' \in Report
    BY <1>0, <1>14, ReportedInt DEF PrintMsg, TypeOK, Report
  <2>2. rd_num' \in Nat
    BY <1>0, <1>14 DEF PrintMsg, CountsFirst, TypeOK
  <2>3. first' \in Reading /\ second' \in [value : Int, mono : Int]
    BY <1>14 DEF PrintMsg, Reading, NoReading
  <2>4. hpc' \in HandlerLabels
    BY <1>14 DEF PrintMsg, HandlerLabels
  <2>5. CASE Gone
    BY <1>0, <1>14, <2>1, <2>2, <2>3, <2>4, <2>5
    DEF PrintMsg, Gone, TypeInv, TypeOK, NegativeUnarmed, MainLabels
  <2>6. CASE UNCHANGED <<mainVars, timerVars>>
    BY <1>0, <1>14, <2>1, <2>2, <2>3, <2>4, <2>6
    DEF PrintMsg, TypeInv, TypeOK, NegativeUnarmed
  <2> QED
    BY <1>14, <2>5, <2>6 DEF PrintMsg
<1> QED
  BY <1>1, <1>2, <1>3, <1>4, <1>5, <1>6, <1>7, <1>8, <1>9, <1>10, <1>11,
     <1>12, <1>13, <1>14 DEF Next, Main, Handler

\* The variables keep their types; in particular the time left is a word and
\* no interval moves the next expiry back.
THEOREM TypeCorrect == Spec => []TypeOK
<1>1. TypeInv => TypeOK
  BY DEF TypeInv
<1> QED
  BY <1>1, InitTypes, TypeStep, PTL DEF Spec

-----------------------------------------------------------------------------
(* The latest tick.                                                        *)

\* The latest tick is still to be delivered, or the handler has yet to read
\* the clock, or what it has read is after that tick, or the last report is.
LatestUnderWay ==
  \/ expiries = 0 \/ pending \/ hpc = "first" \/ Over
  \/ hpc \in {"second", "report"} /\ first.tick = expiries
  \/ hpc = "idle" /\ last.first.tick = expiries

LEMMA LatestStep ==
  LatestUnderWay /\ [Next]_vars => LatestUnderWay'
<1> SUFFICES ASSUME LatestUnderWay, [Next]_vars PROVE LatestUnderWay'
  OBVIOUS
<1> USE DEF mainVars, handlerVars, timerVars, clockVars
<1>1. CASE Gone
  BY <1>1 DEF Gone, LatestUnderWay, Over
<1>2. CASE Main /\ ~Gone
  <2>1. /\ pc # "ended" /\ hpc = "idle"
        /\ UNCHANGED <<expiries, pending, handlerVars>>
    BY <1>2 DEF Main, Begin, Refuse, End, Aim, Arm, Log, Open
  <2> QED
    BY <2>1 DEF LatestUnderWay, Over
<1>3. CASE Tick \/ SetClock \/ UNCHANGED vars
  BY <1>3 DEF Tick, SetClock, vars, LatestUnderWay, Over
<1>4. CASE Expire
  BY <1>4 DEF Expire, LatestUnderWay
<1>5. CASE Deliver
  BY <1>5 DEF Deliver, LatestUnderWay
<1>6. CASE ReadFirst
  BY <1>6 DEF ReadFirst, LatestUnderWay
<1>7. CASE ReadSecond
  BY <1>7 DEF ReadSecond, LatestUnderWay, Over
<1>8. CASE PrintMsg /\ ~Gone
  BY <1>8 DEF PrintMsg, LatestUnderWay, Over
<1> QED
  BY <1>1, <1>2, <1>3, <1>4, <1>5, <1>6, <1>7, <1>8 DEF Next, Handler

\* However the handler is delayed and its signals merge: when printMsg() is
\* not running and has not to run again, its last report was read after the
\* last tick there was.
THEOREM LatestTickAnswered == Spec => []LatestTickReported
<1>1. Init => LatestUnderWay
  BY DEF Init, LatestUnderWay
<1>2. LatestUnderWay => LatestTickReported
  BY DEF LatestUnderWay, LatestTickReported
<1> QED
  BY <1>1, <1>2, LatestStep, PTL DEF Spec

-----------------------------------------------------------------------------
(* The delay is taken away.                                                *)

\* Appointments are whole seconds.
WholeStart ==
  /\ \E k \in Int : begun = SEC * k
  /\ \E k \in Int : start = SEC * k

\* When main() waits in mode 1, the card is open; and while it does, or in
\* mode 2, the handler's second reading is the card's.
CardOpen ==
  /\ pc = "pause" /\ cmd.mode = 1 => fd
  /\ hpc = "report" /\ ReadsCard /\ (cmd.mode = 1 => pc = "pause")
       => second.value = second.mono + CardAhead

\* Such a report is the card's time less the fraction of the clock's second.
LastFixed ==
  last # NoReport /\ ReadsCard /\ (cmd.mode = 1 => last.pc = "pause")
    => last.value = last.mono + CardAhead - (last.first.wall % SEC)

DelayInv == TypeInv /\ WholeStart /\ CardOpen /\ LastFixed

LEMMA AppointedWhole ==
  TypeOK /\ WholeStart => \E k \in Int : Appointed = SEC * k
<1> SUFFICES ASSUME TypeOK, WholeStart
             PROVE  \E k \in Int : Appointed = SEC * k
  OBVIOUS
<1>1. SEC \in Nat \ {0} /\ Align \in Nat \ {0} /\ cmd \in Command
  BY TimerConstantsOK DEF TypeOK
<1>2. CASE cmd.start = NoStart
  <2>1. PICK k \in Int : begun = SEC * k
    BY DEF WholeStart
  <2> DEFINE m == Align * SEC
             q == begun \div m
  <2>2. m \in Nat \ {0} /\ begun \in Int
    BY <1>1, <2>1
  <2> HIDE DEF m
  <2>3. q \in Int /\ begun - (begun % m) = m * q
    BY <2>2
  <2>4. Appointed = m * q + m
    BY <1>2, <2>3 DEF Appointed, m
  <2> HIDE DEF q
  <2>5. m * q + m = SEC * (Align * q + Align)
    BY <1>1, <2>3 DEF m
  <2>6. Align * q + Align \in Int
    BY <1>1, <2>3
  <2> QED
    BY <2>4, <2>5, <2>6
<1>3. CASE cmd.start # NoStart
  <2>1. cmd.start \in Int
    BY <1>1, <1>3 DEF Command
  <2>2. Appointed = SEC * cmd.start
    BY <1>1, <1>3, <2>1 DEF Appointed
  <2> QED
    BY <2>1, <2>2
<1> QED
  BY <1>2, <1>3

LEMMA WholeStep == DelayInv /\ [Next]_vars => WholeStart'
<1> SUFFICES ASSUME DelayInv, [Next]_vars PROVE WholeStart'
  OBVIOUS
<1>0. TypeOK /\ WholeStart
  BY DEF DelayInv, TypeInv
<1>1. CASE UNCHANGED <<begun, start>>
  BY <1>0, <1>1 DEF WholeStart
<1>2. CASE Begin
  <2>0. wall \in Int /\ SEC \in Nat \ {0}
    BY <1>0, TimerConstantsOK DEF TypeOK
  <2>1. wall \div SEC \in Int /\ SEC \in Int
    BY <2>0, Division
  <2>2. begun' = SEC * (wall \div SEC) /\ start' = start
    BY <1>2, <2>1 DEF Begin
  <2> QED
    BY <1>0, <2>1, <2>2 DEF WholeStart
<1>3. CASE Aim
  <2>1. start' = Appointed /\ begun' = begun
    BY <1>3 DEF Aim
  <2> QED
    BY <1>0, <2>1, AppointedWhole DEF WholeStart
<1> QED
  BY <1>1, <1>2, <1>3 DEF Next, Main, Refuse, End, Arm, Log, Open, Expire,
     Tick, SetClock, Handler, Deliver, ReadFirst, ReadSecond, PrintMsg, vars,
     mainVars, Gone

LEMMA CardStep == DelayInv /\ [Next]_vars => CardOpen'
<1> SUFFICES ASSUME DelayInv, [Next]_vars PROVE CardOpen'
  OBVIOUS
<1>0. TypeOK /\ CardOpen
  BY DEF DelayInv, TypeInv
<1> USE DEF mainVars, handlerVars, timerVars, clockVars, ReadsCard
<1>1. CASE UNCHANGED <<cmd, pc, fd, hpc, second>>
  BY <1>0, <1>1 DEF CardOpen
<1>2. CASE Main
  BY <1>2 DEF Main, Begin, Refuse, End, Gone, Aim, Arm, Log, Open, CardOpen
<1>3. CASE Deliver
  BY <1>0, <1>3 DEF Deliver, CardOpen
<1>4. CASE ReadFirst
  BY <1>0, <1>4 DEF ReadFirst, CardOpen
<1>5. CASE ReadSecond
  <2>1. UNCHANGED <<cmd, pc, fd>> /\ hpc' = "report"
    BY <1>5 DEF ReadSecond
  <2>2. ASSUME ReadsCard, cmd.mode = 1 => pc = "pause"
        PROVE  second'.value = second'.mono + CardAhead
    <3>1. CardReadings = {mono + CardAhead}
      BY <1>0, <2>2 DEF CardReadings, CardOpen
    <3>2. second'.value = mono + CardAhead /\ second'.mono = mono
      BY <1>5, <2>2, <3>1 DEF ReadSecond
    <3> QED
      BY <3>2
  <2> QED
    BY <1>0, <2>1, <2>2 DEF CardOpen
<1>6. CASE PrintMsg
  BY <1>0, <1>6 DEF PrintMsg, Gone, CardOpen
<1> QED
  BY <1>1, <1>2, <1>3, <1>4, <1>5, <1>6 DEF Next, Handler, Expire, Tick,
     SetClock, vars

LEMMA LastStep == DelayInv /\ [Next]_vars => LastFixed'
<1> SUFFICES ASSUME DelayInv, [Next]_vars PROVE LastFixed'
  OBVIOUS
<1>0. TypeOK /\ CardOpen /\ LastFixed
  BY DEF DelayInv, TypeInv
<1>1. cmd' = cmd
  BY DEF Next, Main, Begin, Refuse, End, Aim, Arm, Log, Open, Expire, Tick,
     SetClock, Handler, Deliver, ReadFirst, ReadSecond, PrintMsg, vars, mainVars,
     Gone
<1>2. CASE UNCHANGED last
  BY <1>0, <1>1, <1>2 DEF LastFixed, ReadsCard
<1>3. CASE last' # last
  <2>1. PrintMsg
    BY <1>3 DEF Next, Main, Begin, Refuse, End, Aim, Arm, Log, Open, Expire,
       Tick, SetClock, Handler, Deliver, ReadFirst, ReadSecond, vars,
       handlerVars
  <2>2. /\ hpc = "report"
        /\ last' = [value |-> Reported, first |-> first,
                    mono |-> second.mono, pc |-> pc]
    BY <1>3, <2>1 DEF PrintMsg
  <2>3. ASSUME ReadsCard, cmd.mode = 1 => pc = "pause"
        PROVE  Reported = second.mono + CardAhead - (first.wall % SEC)
    <3>1. second.value = second.mono + CardAhead
      BY <1>0, <2>2, <2>3 DEF CardOpen
    <3>2. Reported = second.value - (first.wall % SEC)
      BY <2>3 DEF Reported, Fixed, ReadsCard
    <3>3. second.mono \in Int /\ CardAhead \in Int
      BY <1>0, TimerConstantsOK DEF TypeOK, Reading
    <3>4. SEC \in Nat \ {0} /\ first.wall \in Int
      BY <1>0, TimerConstantsOK DEF TypeOK, Reading
    <3>5. first.wall % SEC \in Int
      BY <3>4
    <3> QED
      BY ONLY <3>1, <3>2, <3>3, <3>5, SMT
  <2> QED
    BY <1>1, <2>2, <2>3 DEF LastFixed, ReadsCard
<1> QED
  BY <1>2, <1>3

\* What the fraction of the clock's second is worth: with whole appointments
\* and whole intervals it is the fraction of the lag.
LEMMA FractionOfLag ==
  ASSUME TypeOK, WholeStart, cmd.iv % SEC = 0, Moved % SEC = 0
  PROVE  last.first.wall % SEC = Lag % SEC /\ Lag \in Int
<1>1. /\ SEC \in Nat \ {0} /\ cmd.iv \in Int
      /\ last.first.wall \in Int /\ last.first.mono \in Int
      /\ last.first.tick \in Int /\ aimed.ahead \in Int /\ start \in Int
  BY TimerConstantsOK DEF TypeOK, Command, Report, Reading
<1>2. PICK s \in Int : start = SEC * s
  BY DEF WholeStart
<1> DEFINE i == cmd.iv \div SEC
           v == Moved \div SEC
           t == last.first.tick - 1
<1>3. i \in Int /\ cmd.iv = SEC * i
  BY <1>1
<1>4. v \in Int /\ Moved \in Int /\ Moved = SEC * v
  <2>1. Moved \in Int
    BY <1>1 DEF Moved
  <2> QED
    BY <1>1, <2>1
<1>5. t \in Int
  BY <1>1
<1>6. t * cmd.iv \in Int /\ t * cmd.iv = SEC * (t * i)
  BY <1>1, <1>3, <1>5
<1>7. Lag = last.first.mono - (start + t * cmd.iv - aimed.ahead)
  BY DEF Lag
<1>8. Moved = last.first.wall - last.first.mono - aimed.ahead
  BY DEF Moved
<1> HIDE DEF i, v, t
<1>9. Lag \in Int
  BY <1>1, <1>6, <1>7
<1>10. last.first.wall = Lag + Moved + start + t * cmd.iv
  <2> DEFINE p == t * cmd.iv
             w == last.first.wall
             n == last.first.mono
             a == aimed.ahead
  <2>1. /\ p \in Int /\ w \in Int /\ n \in Int /\ a \in Int
        /\ start \in Int
    BY <1>1, <1>6
  <2>2. Lag = n - (start + p - a) /\ Moved = w - n - a
    BY <1>7, <1>8
  <2> HIDE DEF p, w, n, a
  <2>3. w = Lag + Moved + start + p
    BY <2>1, <2>2
  <2> QED
    BY <2>3 DEF p, w
<1> DEFINE k == v + s + t * i
<1>11. k \in Int /\ SEC * k = Moved + start + t * cmd.iv
  <2>1. t * i \in Int
    BY <1>3, <1>5
  <2>2. SEC * (v + s + t * i) = SEC * v + SEC * s + SEC * (t * i)
    BY <1>1, <1>2, <1>4, <2>1
  <2> QED
    BY <1>2, <1>4, <1>6, <2>1, <2>2
<1>12. last.first.wall = Lag + SEC * k
  BY <1>1, <1>4, <1>6, <1>9, <1>10, <1>11
<1> HIDE DEF k
<1>13. (Lag + SEC * k) % SEC = Lag % SEC
  BY <1>1, <1>9, <1>11, ModShift
<1> QED
  BY <1>9, <1>12, <1>13

LEMMA DelayFollows == DelayInv => DelayTakenAway
<1> SUFFICES ASSUME DelayInv, last # NoReport, ReadsCard,
                    cmd.mode = 1 => last.pc = "pause",
                    cmd.iv % SEC = 0, Moved % SEC = 0
             PROVE  last.value = last.first.mono - Lag + CardAhead
                      + (last.mono - last.first.mono) + (Lag \div SEC) * SEC
  BY DEF DelayTakenAway
<1>0. TypeOK /\ WholeStart /\ LastFixed
  BY DEF DelayInv, TypeInv
<1>1. last.first.wall % SEC = Lag % SEC /\ Lag \in Int
  BY <1>0, FractionOfLag
<1>2. last.value = last.mono + CardAhead - (Lag % SEC)
  BY <1>0, <1>1 DEF LastFixed
<1>3. /\ last.mono \in Int /\ last.first.mono \in Int /\ CardAhead \in Int
      /\ SEC \in Nat \ {0}
  BY <1>0, TimerConstantsOK DEF TypeOK, Report, Reading
<1>4. /\ Lag % SEC \in Int /\ Lag \div SEC \in Int
      /\ Lag = SEC * (Lag \div SEC) + (Lag % SEC)
  BY <1>1, <1>3
<1>5. SEC * (Lag \div SEC) = (Lag \div SEC) * SEC
      /\ SEC * (Lag \div SEC) \in Int
  BY <1>3, <1>4
<1> QED
  BY <1>1, <1>2, <1>3, <1>4, <1>5

\* For every length of a second, every whole interval, every moment the
\* clock is set, and however late the timer was armed, the signal delivered
\* and the clock read: the fixed time is the card's at the appointment.
THEOREM DelaysTakenAway == Spec => []DelayTakenAway
<1>1. Init => DelayInv
  <2> SUFFICES ASSUME Init PROVE WholeStart /\ CardOpen /\ LastFixed
    BY InitTypes DEF DelayInv
  <2>1. 0 \in Int /\ SEC * 0 = 0
    BY TimerConstantsOK
  <2>2. WholeStart
    BY <2>1 DEF Init, WholeStart
  <2> QED
    BY <2>2 DEF Init, CardOpen, LastFixed
<1>2. DelayInv /\ [Next]_vars => DelayInv'
  BY TypeStep, WholeStep, CardStep, LastStep DEF DelayInv
<1> QED
  BY <1>1, <1>2, DelayFollows, PTL DEF Spec

-----------------------------------------------------------------------------
(* Reports come in time.                                                   *)

\* The appointment is less than a word from the moment it was aimed at, and
\* not so far in the past that the wrapped difference ends within the
\* horizon.  A word is 2^64 nanoseconds, or microseconds: centuries.
WithinAWord ==
  /\ cmd.iv < Word
  /\ pc = "arm" =>
       start - aimed.ahead - aimed.aim \in Horizon - Word + 1 .. Word - 1

\* When the timer expires for the time after the first n, by mono.
Expiry(n) == start - aimed.ahead + (aimed.arm - aimed.aim) + n * cmd.iv

\* A reading that is not before its tick, nor after the next one.
Timely(r) ==
  /\ r.tick \in Nat \ {0}
  /\ Expiry(r.tick - 1) <= r.mono /\ r.mono <= Expiry(r.tick)

Unarmed == pc \in {"begin", "options", "arm"}

\* Until the timer is armed nothing has happened.
BeforeArming ==
  /\ Unarmed => /\ due = 0 /\ expiries = 0 /\ ~pending
                /\ hpc = "idle" /\ last = NoReport
  /\ pc = "arm" =>
       /\ aimed.aim <= mono
       /\ utime = (start - aimed.ahead - aimed.aim) % Word
  /\ aimed.aim <= aimed.arm

\* The timer does not run, or wrapped past the horizon, or its last expiry
\* is behind, and its next not behind, the present.
Running ==
  /\ due # 0 /\ due = Expiry(expiries) /\ mono <= due
  /\ expiries # 0 => Expiry(expiries - 1) <= mono
  /\ pending \/ hpc = "first" => expiries # 0

DueRight ==
  \/ (due = 0 \/ (due > Horizon /\ expiries = 0)) /\ ~pending /\ hpc # "first"
  \/ ~Unarmed /\ Running

ReadingsTimely ==
  /\ hpc \in {"second", "report"} => Timely(first)
  /\ last # NoReport => Timely(last.first)

TimelyInv ==
  TypeInv /\ (cmd.iv > 0 => BeforeArming /\ DueRight /\ ReadingsTimely)

LEMMA OneMore ==
  ASSUME NEW n \in Int, NEW v \in Int
  PROVE  (n + 1) * v = n * v + v
OBVIOUS

LEMMA ExpiryNext ==
  ASSUME TypeOK, NEW n \in Int
  PROVE  Expiry(n) \in Int /\ Expiry(n + 1) = Expiry(n) + cmd.iv
<1>1. /\ cmd.iv \in Int /\ start \in Int /\ aimed.ahead \in Int
      /\ aimed.arm \in Int /\ aimed.aim \in Int
  BY TimerConstantsOK DEF TypeOK, Command
<1> DEFINE b == start - aimed.ahead + (aimed.arm - aimed.aim)
           p == n * cmd.iv
           q == (n + 1) * cmd.iv
<1>2. b \in Int /\ p \in Int
  BY <1>1
<1>3. q = p + cmd.iv
  BY <1>1, OneMore
<1>4. Expiry(n) = b + p /\ Expiry(n + 1) = b + q
  BY DEF Expiry
<1> HIDE DEF b, p, q
<1> QED
  BY <1>1, <1>2, <1>3, <1>4

\* Steps that leave the appointment and the armed timer alone.
LEMMA ExpiryKept ==
  ASSUME UNCHANGED <<cmd, start, aimed>>
  PROVE  \A n \in Int : Expiry(n)' = Expiry(n)
BY DEF Expiry

LEMMA ReadingsKept ==
  ASSUME TypeOK, UNCHANGED <<cmd, start, aimed, first, last>>, ReadingsTimely,
         hpc' \in {"second", "report"} => hpc \in {"second", "report"}
  PROVE  ReadingsTimely'
<1>1. /\ first.tick \in Int /\ last.first.tick \in Int
  BY DEF TypeOK, Reading, Report
<1>2. /\ first.tick - 1 \in Int /\ last.first.tick - 1 \in Int
  BY <1>1
<1>3. \A n \in Int : Expiry(n)' = Expiry(n)
  BY ExpiryKept
<1>4. ASSUME Timely(first) PROVE Timely(first)'
  BY <1>1, <1>2, <1>3, <1>4 DEF Timely
<1>5. ASSUME Timely(last.first) PROVE Timely(last.first)'
  BY <1>1, <1>2, <1>3, <1>5 DEF Timely
<1> QED
  BY <1>4, <1>5 DEF ReadingsTimely

LEMMA LastKept ==
  ASSUME TypeOK, UNCHANGED <<cmd, start, aimed, last>>, ReadingsTimely,
         hpc' = "idle"
  PROVE  ReadingsTimely'
<1>1. last.first.tick \in Int /\ last.first.tick - 1 \in Int
  BY DEF TypeOK, Reading, Report
<1>2. \A n \in Int : Expiry(n)' = Expiry(n)
  BY ExpiryKept
<1>3. ASSUME Timely(last.first) PROVE Timely(last.first)'
  BY <1>1, <1>2, <1>3 DEF Timely
<1> QED
  BY <1>3 DEF ReadingsTimely

LEMMA MainTimely ==
  ASSUME TimelyInv, WithinAWord, cmd.iv > 0, Main
  PROVE  BeforeArming' /\ DueRight' /\ ReadingsTimely'
<1>0. /\ TypeOK /\ BeforeArming /\ DueRight /\ ReadingsTimely
      /\ hpc = "idle" /\ UNCHANGED <<cmd, rd_num, hpc, first, second, last>>
      /\ UNCHANGED <<expiries, mono>>
  BY DEF TimelyInv, TypeInv, Main, Begin, Refuse, End, Gone, Aim, Arm, Log,
         Open, handlerVars, timerVars, clockVars
<1> USE DEF mainVars, handlerVars, timerVars, clockVars
<1>1. CASE Begin
  <2>1. pc = "begin" /\ pc' = "options" /\ UNCHANGED <<due, pending, start, aimed>>
    BY <1>1 DEF Begin
  <2>2. due = 0 /\ expiries = 0 /\ ~pending /\ last = NoReport
    BY <1>0, <2>1 DEF BeforeArming, Unarmed
  <2> QED
    BY <1>0, <2>1, <2>2 DEF BeforeArming, DueRight, ReadingsTimely, Unarmed
<1>2. CASE End
  <2>1. /\ pc' = "ended" /\ due' = 0 /\ pending' = FALSE
        /\ UNCHANGED <<start, aimed>>
    BY <1>2 DEF End, Gone
  <2>2. ReadingsTimely'
    BY <1>0, <2>1, ReadingsKept
  <2> QED
    BY <1>0, <2>1, <2>2 DEF BeforeArming, DueRight, Unarmed
<1>3. CASE Aim
  <2>1. /\ pc = "options" /\ pc' = "arm" /\ UNCHANGED <<due, pending>>
        /\ utime' = (start' - wall) % Word
        /\ aimed' = [ahead |-> wall - mono, aim |-> mono, arm |-> mono]
    BY <1>3 DEF Aim
  <2>2. due = 0 /\ expiries = 0 /\ ~pending /\ last = NoReport
    BY <1>0, <2>1 DEF BeforeArming, Unarmed
  <2>3. start' \in Int /\ wall \in Int /\ mono \in Int
    BY <1>0, <1>3, AppointedInt DEF Aim, TypeOK
  <2>4. start' - aimed'.ahead - aimed'.aim = start' - wall
    <3>1. aimed'.ahead = wall - mono /\ aimed'.aim = mono
      BY <2>1
    <3> QED
      BY <2>3, <3>1
  <2>5. aimed'.aim <= mono' /\ aimed'.aim <= aimed'.arm
    BY <1>0, <2>1, <2>3
  <2> QED
    BY <1>0, <2>1, <2>2, <2>4, <2>5 DEF BeforeArming, DueRight, ReadingsTimely, Unarmed
<1>4. CASE Arm
  <2>1. /\ pc = "arm" /\ pc' = "log" /\ UNCHANGED <<start, pending>>
        /\ aimed' = [aimed EXCEPT !.arm = mono]
        /\ due' = Countdown
    <3>1. cmd.iv \in Int /\ ~(cmd.iv < 0)
      BY <1>0, TimerConstantsOK DEF TypeOK, Command
    <3> QED
      BY <1>4, <3>1 DEF Arm, ArmItimer, ArmPosix
  <2>2. /\ expiries = 0 /\ ~pending /\ last = NoReport /\ aimed.aim <= mono
        /\ utime = (start - aimed.ahead - aimed.aim) % Word
    BY <1>0, <2>1 DEF BeforeArming, Unarmed
  <2> DEFINE x == start - aimed.ahead - aimed.aim
  <2>3. /\ start \in Int /\ aimed.ahead \in Int /\ aimed.aim \in Int
        /\ mono \in Nat /\ Horizon \in Nat /\ Word \in Nat \ {0}
        /\ mono <= Horizon /\ utime \in Nat
    BY <1>0, TimerConstantsOK DEF TypeOK
  <2>4. /\ aimed'.ahead = aimed.ahead /\ aimed'.aim = aimed.aim
        /\ aimed'.arm = mono
    BY <1>0, <2>1 DEF TypeOK
  <2>5. x \in Horizon - Word + 1 .. Word - 1 /\ x \in Int /\ utime = x % Word
    BY <2>1, <2>2, <2>3 DEF WithinAWord
  <2>6. CASE x < 0
    <3>1. utime = x + Word
      <4> HIDE DEF x
      <4>1. x + Word \in 0..Word - 1 /\ x \in Int
        BY <2>3, <2>5, <2>6
      <4>2. Word \in Nat \ {0} /\ 1 \in Int
        BY <2>3
      <4>3. (x + Word * 1) % Word = x % Word
        BY <4>1, <4>2, ModShift
      <4>4. (x + Word) % Word = x + Word
        BY <4>1, <4>2
      <4> QED
        BY <2>5, <4>1, <4>2, <4>3, <4>4
    <3>2. due' > Horizon
      <4> HIDE DEF x
      <4> QED
        BY <2>1, <2>3, <2>5, <2>6, <3>1 DEF Countdown
    <3> QED
      BY <1>0, <2>1, <2>2, <2>3, <2>4, <3>2 DEF BeforeArming, DueRight, ReadingsTimely, Unarmed
  <2>7. CASE x = 0
    <3>1. due' = 0
      BY <2>1, <2>3, <2>5, <2>7 DEF Countdown
    <3> QED
      BY <1>0, <2>1, <2>2, <2>3, <2>4, <3>1 DEF BeforeArming, DueRight, ReadingsTimely, Unarmed
  <2>8. CASE x > 0
    <3>1. utime = x
      <4> HIDE DEF x
      <4> QED
        BY <2>3, <2>5, <2>8
    <3>2. due' = mono + x
      <4> HIDE DEF x
      <4> QED
        BY <2>1, <2>3, <2>8, <3>1 DEF Countdown
    <3>3. Expiry(0)' = start - aimed.ahead + (mono - aimed.aim) + 0 * cmd.iv
      BY <1>0, <2>1, <2>4 DEF Expiry
    <3>4. cmd.iv \in Int
      BY <1>0, TimerConstantsOK DEF TypeOK, Command
    <3>5. due' # 0 /\ Expiry(0)' = due' /\ mono <= due'
      BY <2>3, <2>8, <3>2, <3>3, <3>4
    <3>6. Running'
      BY <1>0, <2>1, <2>2, <3>5 DEF Running
    <3> QED
      BY <1>0, <2>1, <2>2, <2>3, <2>4, <3>6 DEF BeforeArming, DueRight, ReadingsTimely, Unarmed
  <2> QED
    BY <2>5, <2>6, <2>7, <2>8
<1>5. CASE ~Unarmed /\ ~Unarmed' /\ UNCHANGED <<start, aimed, due, pending>>
  <2>1. ReadingsTimely'
    BY <1>0, <1>5, ReadingsKept
  <2>2. \A n \in Int : Expiry(n)' = Expiry(n)
    BY <1>0, <1>5, ExpiryKept
  <2>3. expiries \in Int /\ expiries - 1 \in Int
    BY <1>0 DEF TypeOK
  <2>4. Running => Running'
    BY <1>0, <1>5, <2>2, <2>3 DEF Running
  <2> QED
    BY <1>0, <1>5, <2>1, <2>4 DEF BeforeArming, DueRight, Unarmed
<1>6. CASE (Log \/ Open) /\ ~End
  BY <1>5, <1>6 DEF Log, Open, Unarmed
<1> QED
  BY <1>1, <1>2, <1>3, <1>4, <1>6 DEF Main, Refuse

LEMMA KernelTimely ==
  ASSUME TimelyInv, WithinAWord, cmd.iv > 0, Expire \/ Tick \/ SetClock
  PROVE  BeforeArming' /\ DueRight' /\ ReadingsTimely'
<1>0. /\ TypeOK /\ BeforeArming /\ DueRight /\ ReadingsTimely
      /\ UNCHANGED <<mainVars, handlerVars>>
  BY DEF TimelyInv, TypeInv, Expire, Tick, SetClock
<1> USE DEF mainVars, handlerVars, timerVars, clockVars
<1>1. /\ ReadingsTimely'
      /\ \A n \in Int : Expiry(n)' = Expiry(n)
  BY <1>0, ReadingsKept, ExpiryKept
<1>2. /\ expiries \in Nat /\ expiries \in Int /\ expiries - 1 \in Int
      /\ expiries + 1 \in Int /\ mono \in Nat /\ due \in Nat
      /\ mono <= Horizon /\ Horizon \in Nat /\ cmd.iv \in Int
  BY <1>0, TimerConstantsOK DEF TypeOK, Command
<1>3. CASE Expire
  <2>1. /\ due # 0 /\ due <= mono /\ pending' = TRUE /\ mono' = mono
        /\ expiries' = expiries + 1
    BY <1>3 DEF Expire
  <2>2. ~Unarmed /\ Running
    BY <1>0, <1>2, <2>1 DEF DueRight
  <2>3. Interval = cmd.iv
    <3>1. cmd.iv % Word = cmd.iv
      BY <1>2, TimerConstantsOK DEF WithinAWord
    <3> QED
      BY <3>1 DEF Interval
  <2>4. PICK k \in Int : k = expiries
    BY <1>2
  <2>5. Expiry(k) \in Int /\ Expiry(k + 1) = Expiry(k) + cmd.iv
    BY <1>0, ExpiryNext
  <2>6. due = Expiry(k) /\ due' = Expiry(k + 1)
    BY <1>2, <1>3, <2>2, <2>3, <2>4, <2>5 DEF Expire, Running
  <2>7. k + 1 \in Int /\ expiries' = k + 1 /\ expiries' - 1 = k /\ expiries' # 0
    BY <1>2, <2>1, <2>4
  <2>8. Expiry(k)' = Expiry(k) /\ Expiry(k + 1)' = Expiry(k + 1)
    BY <1>1, <2>7
  <2>9. mono' <= due' /\ Expiry(k) <= mono' /\ due' # 0
    BY <1>2, <2>1, <2>2, <2>5, <2>6 DEF Running
  <2>10. Running'
    BY <2>6, <2>7, <2>8, <2>9 DEF Running
  <2> QED
    BY <1>0, <1>1, <2>2, <2>10 DEF BeforeArming, DueRight, Unarmed
<1>4. CASE Tick
  <2>1. /\ due # 0 => mono < due
        /\ mono' = mono + 1 /\ UNCHANGED <<due, pending, expiries>>
    BY <1>4 DEF Tick
  <2>2. ASSUME Running PROVE Running'
    <3>1. Expiry(expiries - 1) \in Int
      BY <1>0, <1>2, ExpiryNext
    <3>2. mono' <= due /\ (expiries # 0 => Expiry(expiries - 1) <= mono')
      BY <1>2, <2>1, <2>2, <3>1 DEF Running
    <3> QED
      BY <1>0, <1>1, <1>2, <2>1, <2>2, <3>2 DEF Running
  <2>3. DueRight'
    BY <1>0, <2>1, <2>2 DEF DueRight, Unarmed
  <2>4. BeforeArming'
    BY <1>0, <1>2, <2>1 DEF BeforeArming, Unarmed, TypeOK
  <2> QED
    BY <1>1, <2>3, <2>4
<1>5. CASE SetClock
  <2>1. UNCHANGED <<due, pending, expiries, mono>>
    BY <1>5 DEF SetClock
  <2>2. Running => Running'
    BY <1>0, <1>1, <1>2, <2>1 DEF Running
  <2> QED
    BY <1>0, <1>1, <2>1, <2>2 DEF BeforeArming, DueRight, Unarmed
<1> QED
  BY <1>3, <1>4, <1>5

LEMMA HandlerTimely ==
  ASSUME TimelyInv, cmd.iv > 0, Handler
  PROVE  BeforeArming' /\ DueRight' /\ ReadingsTimely'
<1>0. /\ TypeOK /\ BeforeArming /\ DueRight /\ ReadingsTimely
      /\ UNCHANGED <<cmd, start, aimed, utime, mono, expiries>>
      /\ ~Gone => UNCHANGED <<pc, due>>
  BY DEF TimelyInv, TypeInv, Handler, Deliver, ReadFirst, ReadSecond, PrintMsg,
         Gone, mainVars, clockVars, timerVars
<1> USE DEF mainVars, handlerVars, timerVars, clockVars
<1>1. \A n \in Int : Expiry(n)' = Expiry(n)
  BY <1>0, ExpiryKept
<1>2. /\ expiries \in Nat /\ expiries \in Int /\ expiries - 1 \in Int
      /\ mono \in Nat /\ cmd.iv \in Int
  BY <1>0, TimerConstantsOK DEF TypeOK, Command
<1> DEFINE Kept == UNCHANGED <<pc, due>>
<1>3. CASE Deliver
  <2>1. /\ Kept /\ hpc = "idle" /\ pending /\ hpc' = "first" /\ pending' = FALSE
        /\ UNCHANGED <<first, last>>
    BY <1>3 DEF Deliver
  <2>2. ~Unarmed /\ Running
    BY <1>0, <2>1 DEF DueRight
  <2>3. Running'
    BY <1>0, <1>1, <1>2, <2>1, <2>2 DEF Running
  <2>4. ReadingsTimely'
    BY <1>0, <2>1, ReadingsKept
  <2> QED
    BY <1>0, <2>1, <2>2, <2>3, <2>4 DEF BeforeArming, DueRight, Unarmed
<1>4. CASE ReadFirst
  <2>1. /\ Kept /\ hpc = "first" /\ hpc' = "second" /\ UNCHANGED <<last, pending>>
        /\ first' = [wall |-> wall, mono |-> mono, tick |-> expiries]
    BY <1>4 DEF ReadFirst
  <2>2. ~Unarmed /\ Running
    BY <1>0, <2>1 DEF DueRight
  <2>3. Running'
    BY <1>0, <1>1, <1>2, <2>1, <2>2 DEF Running
  <2>4. Timely(first)'
    <3>1. first'.mono = mono /\ first'.tick = expiries
      BY <2>1
    <3>2. /\ expiries \in Nat \ {0}
          /\ Expiry(expiries - 1) <= mono /\ mono <= Expiry(expiries)
      BY <1>2, <2>1, <2>2 DEF Running
    <3> QED
      BY <1>1, <1>2, <3>1, <3>2 DEF Timely
  <2>5. ASSUME Timely(last.first) PROVE Timely(last.first)'
    <3>1. last.first.tick \in Int /\ last.first.tick - 1 \in Int
      BY <1>0 DEF TypeOK, Report, Reading
    <3> QED
      BY <1>1, <2>1, <2>5, <3>1 DEF Timely
  <2> QED
    BY <1>0, <2>1, <2>2, <2>3, <2>4, <2>5 DEF BeforeArming, DueRight, Unarmed, ReadingsTimely
<1>5. CASE ReadSecond
  <2>1. /\ Kept /\ hpc = "second" /\ hpc' = "report"
        /\ UNCHANGED <<first, last, pending>>
    BY <1>5 DEF ReadSecond
  <2>2. Running => Running'
    BY <1>0, <1>1, <1>2, <2>1 DEF Running
  <2>3. ReadingsTimely'
    BY <1>0, <2>1, ReadingsKept
  <2> QED
    BY <1>0, <2>1, <2>2, <2>3 DEF BeforeArming, DueRight, Unarmed
<1>6. CASE PrintMsg /\ UNCHANGED <<mainVars, timerVars>>
  <2>1. /\ Kept /\ hpc = "report" /\ hpc' \in {"idle", "hung"} /\ UNCHANGED pending
        /\ last' = last \/ last'.first = first
    BY <1>6 DEF PrintMsg
  <2>2. ~Unarmed
    BY <1>0, <2>1 DEF BeforeArming
  <2>3. Running => Running'
    BY <1>0, <1>1, <1>2, <2>1 DEF Running
  <2>4. ReadingsTimely'
    <3>1. Timely(first) /\ (last # NoReport => Timely(last.first))
      BY <1>0, <2>1 DEF ReadingsTimely
    <3>2. /\ first.tick \in Int /\ first.tick - 1 \in Int
          /\ last.first.tick \in Int /\ last.first.tick - 1 \in Int
      BY <1>0 DEF TypeOK, Report, Reading
    <3>3. last'.first = first => Timely(last.first)'
      BY <1>1, <3>1, <3>2 DEF Timely
    <3>4. last' = last /\ last # NoReport => Timely(last.first)'
      BY <1>1, <3>1, <3>2 DEF Timely
    <3> QED
      BY <2>1, <3>3, <3>4 DEF ReadingsTimely
  <2> QED
    BY <1>0, <2>1, <2>2, <2>3, <2>4 DEF BeforeArming, DueRight, Unarmed
<1>7. CASE PrintMsg /\ ~UNCHANGED <<mainVars, timerVars>>
  <2>1. /\ hpc = "report" /\ hpc' = "idle" /\ UNCHANGED last
        /\ pc' = "ended" /\ due' = 0 /\ pending' = FALSE
    BY <1>7 DEF PrintMsg, Gone
  <2>2. ReadingsTimely'
    BY <1>0, <2>1, LastKept
  <2> QED
    BY <1>0, <2>1, <2>2 DEF BeforeArming, DueRight, Unarmed
<1> QED
  BY <1>3, <1>4, <1>5, <1>6, <1>7 DEF Handler

LEMMA TimelyStep ==
  TimelyInv /\ WithinAWord /\ [Next]_vars => TimelyInv'
<1> SUFFICES ASSUME TimelyInv, WithinAWord, [Next]_vars, cmd'.iv > 0
             PROVE  BeforeArming' /\ DueRight' /\ ReadingsTimely'
  BY TypeStep DEF TimelyInv
<1>1. cmd' = cmd
  BY DEF Next, Main, Begin, Refuse, End, Aim, Arm, Log, Open, Expire, Tick,
     SetClock, Handler, Deliver, ReadFirst, ReadSecond, PrintMsg, vars, mainVars,
     Gone
<1>2. cmd.iv > 0
  BY <1>1
<1>3. CASE UNCHANGED vars
  <2>1. UNCHANGED <<cmd, pc, start, aimed, utime, mono, due, expiries, hpc,
                    first, last, pending>>
    BY <1>3 DEF vars, mainVars, handlerVars, timerVars, clockVars
  <2>2. TypeOK /\ BeforeArming /\ DueRight /\ ReadingsTimely
    BY <1>2 DEF TimelyInv, TypeInv
  <2>3. ReadingsTimely'
    BY <2>1, <2>2, ReadingsKept
  <2>4. Running => Running'
    <3>1. expiries \in Int /\ expiries - 1 \in Int
      BY <2>2 DEF TypeOK
    <3> QED
      BY <2>1, <3>1, ExpiryKept DEF Running
  <2> QED
    BY <2>1, <2>2, <2>3, <2>4 DEF BeforeArming, DueRight, Unarmed
<1> QED
  BY <1>2, <1>3, MainTimely, KernelTimely, HandlerTimely DEF Next

\* The lag of a timely reading.
LEMMA TimelyReport ==
  ASSUME TimelyInv
  PROVE  ReportsInTime
<1> SUFFICES ASSUME last # NoReport, cmd.iv > 0
             PROVE  Lag \in 0 .. cmd.iv + (aimed.arm - aimed.aim)
  BY DEF ReportsInTime
<1> DEFINE n == last.first.tick - 1
           m == last.first.mono
           late == aimed.arm - aimed.aim
<1>1. TypeOK /\ Timely(last.first) /\ aimed.aim <= aimed.arm
  BY DEF TimelyInv, TypeInv, ReadingsTimely, BeforeArming
<1>2. /\ cmd.iv \in Int /\ n \in Int /\ m \in Int /\ late \in Int /\ late >= 0
      /\ start \in Int /\ aimed.ahead \in Int /\ last.first.tick = n + 1
  BY <1>1, TimerConstantsOK DEF TypeOK, Command, Report, Reading
<1>3. n * cmd.iv \in Int
  BY <1>2
<1>4. /\ Lag = m - (start + n * cmd.iv - aimed.ahead)
      /\ Expiry(n) = start - aimed.ahead + late + n * cmd.iv
  BY DEF Lag, Expiry
<1>5. Expiry(n + 1) = Expiry(n) + cmd.iv /\ Expiry(n) \in Int
  BY <1>1, <1>2, ExpiryNext
<1>6. Expiry(n) <= m /\ m <= Expiry(n + 1)
  BY <1>1, <1>2 DEF Timely
<1> DEFINE p == n * cmd.iv
<1> HIDE DEF n, m, late, p
<1>7. Lag = m - Expiry(n) + late
  BY <1>2, <1>3, <1>4 DEF p
<1> QED
  BY <1>2, <1>5, <1>6, <1>7 DEF late

\* For every interval and however often ticks are merged, the timer is armed
\* late, or the clock is set: no report comes before its appointment, nor
\* more than an interval and the time of arming after its tick.
THEOREM ReportsTimely == Spec /\ []WithinAWord => []ReportsInTime
<1>1. Init => TimelyInv
  <2> SUFFICES ASSUME Init PROVE BeforeArming /\ DueRight /\ ReadingsTimely
    BY InitTypes DEF TimelyInv
  <2> QED
    BY DEF Init, BeforeArming, DueRight, ReadingsTimely, Unarmed
<1> QED
  BY <1>1, TimelyStep, TimelyReport, PTL DEF Spec
=============================================================================
