---------------------------- MODULE MCClockServo ----------------------------
(* Errors and oscillators for the TLC runs of ClockServo. *)
EXTENDS ClockServo

\* The constants of the code, in microseconds instead of nanoseconds.
RealError == {-100001, -99000, 40000, 66000, 100000, 200000}
RealSkew  == {-40, 0, 50}

\* Periods in hundredths of a second: the default, which is the least that is
\* accepted, -s 200000, -s 1000000 and -s 3000000.
DefaultPeriod == 1
ASecond       == 100
ThreeSeconds  == 300

HostAndGuest == {<<FALSE, DefaultPeriod>>, <<FALSE, ASecond>>,
                 <<FALSE, ThreeSeconds>>, <<TRUE, 20>>, <<TRUE, ASecond>>}
HostOnly     == {<<FALSE, ASecond>>}

\* At a second anything may go wrong, once.  At the default a course takes
\* thousands of rounds, and nothing does but where the clock is at the start;
\* the integrator is wound up to its clamp on the way all the same.
OnceASecond == [p \in Programs |-> IF p[2] = ASecond THEN 1 ELSE 0]

\* With them the clock is kept near: by less than 4 ms, far below 100 ms.
ASSUME KeepsNear(1, 50, ThreeSeconds) /\ Reach(1, 50, ThreeSeconds) < 4000
=============================================================================
