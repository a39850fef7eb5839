------------------------------ MODULE TimeArith ------------------------------
(***************************************************************************)
(* The time arithmetic the synchronisation programs share: a timespec is   *)
(* normalised after every sum and difference, an offset in nanoseconds is  *)
(* split into seconds and nanoseconds by C's truncating division, and the  *)
(* offset itself is computed on unsigned 64-bit counters and then read as  *)
(* a signed number.                                                        *)
(***************************************************************************)
EXTENDS Integers

CONSTANTS
  NSEC,         \* nanoseconds in a second
  Word          \* 2^64: the counters and their difference are unsigned

ASSUME TimeConstantsOK ==
  /\ NSEC \in Nat \ {0}
  /\ Word \in Nat \ {0}
  /\ Word % 2 = 0

Timespec == [tv_sec : Int, tv_nsec : Int]

\* What a timespec means, in nanoseconds.
Value(t) == t.tv_sec * NSEC + t.tv_nsec

AbsVal(n) == IF n >= 0 THEN n ELSE -n

\* The / and % of C, which truncate towards zero.
CDiv(a, b) == IF a >= 0 THEN a \div b ELSE -((-a) \div b)
CMod(a, b) == IF a >= 0 THEN a % b ELSE -((-a) % b)

\* Bug: the borrowed second is added back on the wrong side.
BorrowTwice(t) ==
  CASE t.tv_sec > 0 /\ t.tv_nsec < 0 ->
         [tv_sec |-> t.tv_sec - 1, tv_nsec |-> t.tv_nsec + NSEC]
    [] t.tv_sec < 0 /\ t.tv_nsec > 0 ->
         [tv_sec |-> t.tv_sec + 1, tv_nsec |-> t.tv_nsec + NSEC]
    [] OTHER -> t

\* Give both fields the same sign.
Borrow(t) ==
  CASE t.tv_sec > 0 /\ t.tv_nsec < 0 ->
         [tv_sec |-> t.tv_sec - 1, tv_nsec |-> t.tv_nsec + NSEC]
    [] t.tv_sec < 0 /\ t.tv_nsec > 0 ->
         [tv_sec |-> t.tv_sec + 1, tv_nsec |-> t.tv_nsec - NSEC]
    [] OTHER -> t

\* Carry whole seconds out of the nanoseconds.
Carry(t) == [tv_sec  |-> t.tv_sec + CDiv(t.tv_nsec, NSEC),
             tv_nsec |-> t.tv_nsec - CDiv(t.tv_nsec, NSEC) * NSEC]

normalize_time(t) == Borrow(Carry(t))

add_time(x, y) == normalize_time([tv_sec  |-> x.tv_sec + y.tv_sec,
                                  tv_nsec |-> x.tv_nsec + y.tv_nsec])

sub_time(x, y) == normalize_time([tv_sec  |-> x.tv_sec - y.tv_sec,
                                  tv_nsec |-> x.tv_nsec - y.tv_nsec])

\* Bug: the remainder of a floored division, never negative.
SplitFloored(offset) == [tv_sec  |-> CDiv(offset, NSEC),
                         tv_nsec |-> offset % NSEC]

\* offset_from_PCIE in main(): offset / NSEC and offset % NSEC.
Split(offset) == [tv_sec  |-> CDiv(offset, NSEC),
                  tv_nsec |-> CMod(offset, NSEC)]

\* Bug: a late clock is never stepped.
FarAhead(o, threshold) == o.tv_sec # 0 \/ o.tv_nsec > threshold

\* update_clock() steps the clock when this holds of the split offset.
Far(o, threshold) == o.tv_sec # 0 \/ AbsVal(o.tv_nsec) > threshold

\* A number modulo Word, read as two's complement.
Signed(n) == IF n % Word < Word \div 2 THEN n % Word ELSE (n % Word) - Word

\* HOST_GET_OFFSET and get_offset(): cur and tmr are counters below Word,
\* compared as unsigned numbers.
Offset(cur, tmr) ==
  IF tmr > cur THEN Signed(-(tmr - cur)) ELSE Signed(cur - tmr)

\* tmr_cnt -= TAI_OFFSET, which wraps when the card has just been reset.
TakeTAI(tmr, tai) == (tmr - tai) % Word

\* Bug: the gap is taken away instead of added.
TargetLate(A, B, D, offset) ==
  sub_time(sub_time(D, offset), sub_time(B, A))

\* The step of update_clock(): from the third reading of the system clock,
\* less the offset, plus the time between the first two readings.
Target(A, B, D, offset) ==
  add_time(sub_time(D, offset), sub_time(B, A))

\* What clock_settime() accepts.
Settable(t) == t.tv_sec >= 0 /\ t.tv_nsec \in 0..NSEC - 1
-----------------------------------------------------------------------------
(* What the arithmetic promises, of any of its inputs.                     *)

\* Below a second, and of the sign of the seconds.
Normal(t) ==
  /\ AbsVal(t.tv_nsec) < NSEC
  /\ t.tv_sec > 0 => t.tv_nsec >= 0
  /\ t.tv_sec < 0 => t.tv_nsec <= 0
=============================================================================
