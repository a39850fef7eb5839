------------------------------ MODULE ClockServo ------------------------------
(***************************************************************************)
(* update_clock(): one process disciplines the system clock against the    *)
(* card.  A large offset is removed by setting the clock, a small one by   *)
(* a PI controller on the clock's frequency.                               *)
(*                                                                         *)
(* All times are kept relative to the card: err is how far the system      *)
(* clock is ahead of it now, and a reading of the system clock taken       *)
(* earlier loses d when d nanoseconds pass.  That timespec arithmetic on   *)
(* absolute times computes the same sums and differences is the subject    *)
(* of TimeArith.  Between two rounds the clock runs for a period, at the   *)
(* default of 10 ms by a fraction of a nanosecond when it is nearly right: *)
(* frac keeps what a reading does not show.  Within a round the clocks     *)
(* differ by less than a nanosecond.                                       *)
(***************************************************************************)
EXTENDS Integers

CONSTANTS
  THRESHOLD,     \* 100000000 ns: a larger offset is stepped
  ADJ_FREQ_MAX,  \* 512000: the clamp of the integrator
  INT_MAX,       \* 2^31 - 1
  MAXFREQ,       \* 500 ppm in timex units, the kernel's clamp of freq
  GUEST_TAI,     \* TAI_OFFSET of guest_sync, 35 (nanoseconds)
  Second,        \* units of time that make a second
  Programs,      \* what is run: host_sync (FALSE) or guest_sync (TRUE), and
                 \* its sync_period, of -s or the default, in these units
  Delays,        \* what may pass between two statements
  Skews,         \* what the undisciplined clock gains per second
  Errors,        \* how far the clock may be off at the start, or put off
  Tolerance,     \* what a settled clock may be off by
  Low,           \* 2^32 ns: the low word of the card's counter
  Wraps,         \* by how many wraps of it a reading may be torn
  MaxFaults      \* bound on jumps, restarts, refused calls, torn readings,
                 \* for each program

ASSUME ServoConstantsOK ==
  /\ THRESHOLD \in Nat /\ ADJ_FREQ_MAX \in Nat /\ INT_MAX \in Nat
  /\ MAXFREQ \in Nat /\ GUEST_TAI \in Nat /\ Tolerance \in Nat
  /\ Second \in Nat \ {0} /\ Programs \subseteq BOOLEAN \X Nat
  /\ MaxFaults \in [Programs -> Nat]
  /\ Low \in Nat /\ Wraps \in Nat
  /\ Delays \subseteq Nat /\ Skews \subseteq Int /\ Errors \subseteq Int

VARIABLES
  guest,        \* guest_sync, which reads the clocks one by one
  period,       \* sync_period
  pc,           \* where the round is
  err,          \* system clock less card, in whole nanoseconds
  frac,         \* and the rest of it, in parts of which Second make one
  skew,         \* the oscillator's own rate, in ns per second
  freq,         \* the frequency the kernel applies, in timex units
  drift,        \* observed_drift
  offset,       \* the offset measured in this round
  tA,           \* timeTmpA, then the target of the step
  gap,          \* timeTmpC
  landed,       \* history: the clock was stepped, and nothing went wrong
                \* from that round on
  disturbed,    \* history: the clock was put off during this round
  torn,         \* history: the wraps the measured offset is torn by
  faults        \* jumps, restarts, refusals and torn readings so far

vars == <<guest, period, pc, err, frac, skew, freq, drift, offset, tA, gap,
          landed, disturbed, torn, faults>>

\* What stays for the life of the clock and of the command line.
fixed == <<guest, period, skew>>

Labels == {"measure", "hypercall", "decide", "readB", "readD", "set", "sleep"}

TypeOK ==
  /\ <<guest, period>> \in Programs /\ pc \in Labels
  /\ err \in Int /\ frac \in 0..Second - 1
  /\ skew \in Skews /\ offset \in Int /\ tA \in Int
  /\ gap \in Int
  /\ freq \in -MAXFREQ..MAXFREQ
  /\ drift \in -ADJ_FREQ_MAX..ADJ_FREQ_MAX
  /\ landed \in BOOLEAN /\ disturbed \in BOOLEAN
  /\ torn \in 0..Wraps /\ faults \in 0..MaxFaults[<<guest, period>>]

Init ==
  /\ \E p \in Programs : guest = p[1] /\ period = p[2]
  /\ pc = "measure"
  /\ err \in Errors /\ frac = 0 /\ skew \in Skews
  /\ freq = 0 /\ drift = 0
  /\ offset = 0 /\ tA = 0 /\ gap = 0
  /\ landed = FALSE /\ disturbed = FALSE
  /\ torn = 0 /\ faults = 0

\* Something more may go wrong.
MayFail == faults < MaxFaults[<<guest, period>>]

AbsVal(n)      == IF n >= 0 THEN n ELSE -n
Clamp(n, most) == IF n > most THEN most ELSE IF n < -most THEN -most ELSE n
CDiv(a, b)     == IF a >= 0 THEN a \div b ELSE -((-a) \div b)

\* A product of ints keeps 32 bits.
WrapInt(n) == ((n + INT_MAX + 1) % (2 * (INT_MAX + 1))) - (INT_MAX + 1)

\* The kernel clamps freq; 65536 of its units are a microsecond per second,
\* so that one is worth 125/8192 ns per second.
KernelFreq(f) == Clamp(f, MAXFREQ)
Gain(f)       == CDiv(f * 125, 8192)

-----------------------------------------------------------------------------
(* Reading the offset.                                                     *)

\* HOST_GET_OFFSET reads both clocks with interrupts off; but when another
\* process reads the card between its two halves, the time of the card is
\* late by whole wraps of its low word (CardCounter, OffsetOffByWraps).
HostMeasure ==
  /\ pc = "measure" /\ ~guest
  /\ \/ torn' = 0 /\ UNCHANGED faults
     \/ /\ MayFail
        /\ faults' = faults + 1
        /\ torn' \in 1..Wraps
  /\ offset' = err - torn' * Low
  /\ landed' = (landed /\ torn = 0 /\ torn' = 0)
  /\ pc' = "decide"
  /\ disturbed' = FALSE
  /\ UNCHANGED <<fixed, err, frac, freq, drift, tA, gap>>

\* get_offset() of guest_sync: the system clock first, ...
GuestReadSystem ==
  /\ pc = "measure" /\ guest
  /\ tA' = err
  /\ pc' = "hypercall"
  /\ disturbed' = FALSE
  /\ UNCHANGED <<fixed, err, frac, freq, drift, offset, gap, landed,
                 faults, torn>>

\* Bug: the time the readings take is counted on the wrong side.
GuestReadCardLate ==
  /\ pc = "hypercall"
  /\ \E d \in Delays : offset' = tA + d + GUEST_TAI
  /\ pc' = "decide"
  /\ UNCHANGED <<fixed, err, frac, freq, drift, tA, gap, landed, disturbed,
                 faults, torn>>

\* ... then the card, by hypercall, less 35 nanoseconds.
GuestReadCard ==
  /\ pc = "hypercall"
  /\ \E d \in Delays : offset' = tA - d + GUEST_TAI
  /\ pc' = "decide"
  /\ UNCHANGED <<fixed, err, frac, freq, drift, tA, gap, landed, disturbed,
                 faults, torn>>

-----------------------------------------------------------------------------
(* update_clock().                                                         *)

Large == AbsVal(offset) > THRESHOLD

\* timeTmpA.
BeginStep ==
  /\ pc = "decide" /\ Large
  /\ tA' = err
  /\ pc' = "readB"
  /\ UNCHANGED <<fixed, err, frac, freq, drift, offset, gap, landed,
                 disturbed, faults, torn>>

\* timeTmpB, and timeTmpC = B - A: A is d older than B.
ReadB ==
  /\ pc = "readB"
  /\ \E d \in Delays : gap' = err - (tA - d)
  /\ pc' = "readD"
  /\ UNCHANGED <<fixed, err, frac, freq, drift, offset, tA, landed,
                 disturbed, faults, torn>>

\* Bug: the gap is subtracted.
ReadDLessGap ==
  /\ pc = "readD"
  /\ tA' = err - offset - gap
  /\ pc' = "set"
  /\ UNCHANGED <<fixed, err, frac, freq, drift, offset, gap, landed,
                 disturbed, faults, torn>>

\* Bug: the offset is added, as if it were the card that is ahead.
ReadDPlusOffset ==
  /\ pc = "readD"
  /\ tA' = err + offset + gap
  /\ pc' = "set"
  /\ UNCHANGED <<fixed, err, frac, freq, drift, offset, gap, landed,
                 disturbed, faults, torn>>

\* timeTmpD, and timeTmpF = D - offset + C.
ReadD ==
  /\ pc = "readD"
  /\ tA' = err - offset + gap
  /\ pc' = "set"
  /\ UNCHANGED <<fixed, err, frac, freq, drift, offset, gap, landed,
                 disturbed, faults, torn>>

\* clock_settime(timeTmpF), whose result nobody looks at.
SetTime ==
  /\ pc = "set"
  /\ \/ /\ \E d \in Delays : err' = tA - d
        /\ landed' = ~disturbed
        /\ UNCHANGED faults
     \/ /\ MayFail
        /\ faults' = faults + 1
        /\ landed' = FALSE
        /\ UNCHANGED err
  /\ pc' = "sleep"
  /\ UNCHANGED <<fixed, frac, freq, drift, offset, tA, gap, disturbed, torn>>

\* Bug: the integrator is not clamped.
IntegrateFreely == drift + CDiv(offset, 10)

\* Bug: observed_drift is not static, and forgotten between the rounds.
IntegrateAfresh == Clamp(CDiv(offset, 10), ADJ_FREQ_MAX)

Integrate == Clamp(drift + CDiv(offset, 10), ADJ_FREQ_MAX)
Output    == CDiv(offset, 2) + Integrate

\* Bug: adj_freq(adj).
SlewWrongWay ==
  /\ pc = "decide" /\ ~Large
  /\ drift' = Integrate
  /\ \/ /\ freq' = KernelFreq(WrapInt(Output * 65))
        /\ UNCHANGED <<faults, landed>>
     \/ /\ MayFail
        /\ faults' = faults + 1 /\ landed' = FALSE
        /\ UNCHANGED freq
  /\ pc' = "sleep"
  /\ UNCHANGED <<fixed, err, frac, offset, tA, gap, disturbed, torn>>

\* The PI controller and adj_freq(-adj), whose result nobody looks at either.
Slew ==
  /\ pc = "decide" /\ ~Large
  /\ drift' = Integrate
  /\ \/ /\ freq' = KernelFreq(WrapInt(-Output * 65))
        /\ UNCHANGED <<faults, landed>>
     \/ /\ MayFail
        /\ faults' = faults + 1 /\ landed' = FALSE
        /\ UNCHANGED freq
  /\ pc' = "sleep"
  /\ UNCHANGED <<fixed, err, frac, offset, tA, gap, disturbed, torn>>

\* What the clock gains in a period, at its own rate as corrected by f, in
\* parts of a nanosecond on top of those it has.
Gained(f) == frac + (skew + Gain(f)) * period

\* usleep(sync_period).
Sleep ==
  /\ pc = "sleep"
  /\ err' = err + Gained(freq) \div Second
  /\ frac' = Gained(freq) % Second
  /\ pc' = "measure"
  /\ UNCHANGED <<fixed, freq, drift, offset, tA, gap, landed, disturbed,
                 faults, torn>>

-----------------------------------------------------------------------------
(* What happens around the program.                                        *)

\* Somebody else sets the clock (hwclock, date), or the card's time jumps.
Jump ==
  /\ MayFail
  /\ faults' = faults + 1
  /\ err' \in Errors
  /\ disturbed' = TRUE /\ landed' = FALSE
  /\ UNCHANGED <<fixed, frac, pc, freq, drift, offset, tA, gap, torn>>

\* The process is killed and started again: observed_drift is lost, the
\* frequency in the kernel is not.
Restart ==
  /\ MayFail
  /\ faults' = faults + 1
  /\ pc' = "measure" /\ drift' = 0
  /\ offset' = 0 /\ tA' = 0 /\ gap' = 0 /\ landed' = FALSE /\ torn' = 0
  /\ UNCHANGED <<fixed, err, frac, freq, disturbed>>

Round == \/ HostMeasure \/ GuestReadSystem \/ GuestReadCard
         \/ BeginStep \/ ReadB \/ ReadD \/ SetTime
         \/ Slew \/ Sleep

Next == Round \/ Jump \/ Restart

Spec == Init /\ [][Next]_vars

\* The process is scheduled and usleep() returns.
FairSpec == Spec /\ WF_vars(Round)
-----------------------------------------------------------------------------
(* What the servo promises.                                                *)

\* Where a step may leave the clock: the gap that is added and the time that
\* passes between the last reading and the setting do not cancel out, and
\* the guest does not see the time its hypercall takes.
Landing ==
  IF guest
    THEN {d + g - l - GUEST_TAI : d, g, l \in Delays}
    ELSE {g - l : g, l \in Delays}

\* An undisturbed step lands within the delays of its own statements,
\* however far the clock was off; a torn reading puts the clock ahead by
\* exactly the wraps it is torn by.
StepLands == pc = "sleep" /\ landed /\ Large => err - torn * Low \in Landing

\* What keeps the clock near the card, once it is: no two statements are more
\* than M apart; the oscillator is off by at most S, which the kernel's largest
\* frequency outweighs; no period is longer than L; and the furthest the clock
\* gets - where the output exceeds that frequency for certain, and a period's
\* run beyond - is below the threshold and no output at that offset, times 65,
\* overflows.
Fast  == MAXFREQ \div 65 + 1
Turn  == 2 * (ADJ_FREQ_MAX + Fast)
Run(S, L)      == ((S + Gain(MAXFREQ)) * L) \div Second + 1
Reach(M, S, L) == Turn + 2 * M + GUEST_TAI + Run(S, L)
Seen(M, S, L)  == Reach(M, S, L) + M + GUEST_TAI

KeepsNear(M, S, L) ==
  /\ \A d \in Delays : d <= M
  /\ \A s \in Skews : AbsVal(s) <= S
  /\ \A p \in Programs : p[2] <= L
  /\ S <= Gain(MAXFREQ)
  /\ Seen(M, S, L) <= THRESHOLD
  /\ (Seen(M, S, L) \div 2 + ADJ_FREQ_MAX) * 65 <= INT_MAX

\* One step is enough: once an undisturbed step was made, update_clock() only
\* slews, in every later round, until the clock is put off, a call is refused,
\* a reading is torn or the process ends - however the integrator winds up
\* while the frequency is clamped.
OneStepEnough == pc \in {"readB", "readD", "set"} => ~landed

\* "apply controller output as a clock tick rate adjustment": the frequency
\* is the output of the controller, as far as the kernel's clamp allows.
AppliesOutput ==
  [][pc = "decide" /\ pc' = "sleep"
       => freq' \in {freq, KernelFreq(-Output * 65)}]_vars

\* Wherever the clock starts, whatever its own rate, and also after jumps,
\* restarts, refused calls and torn readings, it comes to stay within the
\* tolerance.
Settles == <>[](AbsVal(err) <= Tolerance)
=============================================================================
