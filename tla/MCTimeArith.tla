---------------------------- MODULE MCTimeArith ----------------------------
(***************************************************************************)
(* The time arithmetic on every timespec of a few seconds, denormal ones   *)
(* included, and on every pair of counters of a small word; and the        *)
(* messages of tcp_client, with seconds of more than one word of 32 bits.  *)
(***************************************************************************)
EXTENDS TimeArith, WireFormat

CONSTANTS Secs, Nsecs, Tais, Thresholds, TvSecs, TvNsecs

ASSUME ArgumentsOK ==
  /\ Secs \subseteq Int /\ Nsecs \subseteq Int
  /\ Tais \subseteq 0..Word - 1 /\ Thresholds \subseteq 0..NSEC - 1
  /\ TvSecs \subseteq Int /\ TvNsecs \subseteq 0..TwoTo32 - 1

VARIABLES
  x, y,         \* two timespecs
  cur, tmr,     \* the system's and the card's counter
  tai, threshold,
  msg           \* the numbers in a message

vars == <<x, y, cur, tmr, tai, threshold, msg>>

SecondsRange     == -3..3
NanosecondsRange == -7..7
TvSecsRange      == -300..300

Timespecs == [tv_sec : Secs, tv_nsec : Nsecs]
Zero      == [tv_sec |-> 0, tv_nsec |-> 0]
Messages  == [hour : {0, 23}, min : {59}, sec : {0, 7}, tv_sec : TvSecs,
              tv_nsec : TvNsecs]
Empty     == [hour |-> 0, min |-> 0, sec |-> 0, tv_sec |-> 0, tv_nsec |-> 0]

Init ==
  /\ x = Zero /\ y = Zero
  /\ cur = 0 /\ tmr = 0 /\ tai = 0 /\ threshold = 0
  /\ msg = Empty

Untouched == x = Zero /\ y = Zero /\ cur = 0 /\ tmr = 0 /\ msg = Empty

\* The arguments of a sum.
PickTimes ==
  /\ Untouched
  /\ x' \in Timespecs /\ y' \in Timespecs
  /\ UNCHANGED <<cur, tmr, tai, threshold, msg>>

\* The counters behind an offset.
PickCounters ==
  /\ Untouched
  /\ cur' \in 0..Word - 1 /\ tmr' \in 0..Word - 1
  /\ tai' \in Tais /\ threshold' \in Thresholds
  /\ UNCHANGED <<x, y, msg>>

\* What a client sends.
PickMessage ==
  /\ Untouched
  /\ msg' \in Messages
  /\ UNCHANGED <<x, y, cur, tmr, tai, threshold>>

Next == PickTimes \/ PickCounters \/ PickMessage

Spec == Init /\ [][Next]_vars

\* normalize_time() never changes a time and gives both fields its sign, so
\* sums and differences are exact, and so is what update_clock() makes of
\* them: the step aims at the third reading, less the offset, plus the gap;
\* with the readings y, x and x and the offset y.
SumsRight ==
  /\ Value(add_time(x, y)) = Value(x) + Value(y)
  /\ Value(sub_time(x, y)) = Value(x) - Value(y)
  /\ Normal(add_time(x, y)) /\ Normal(sub_time(x, y))
  /\ LET F == Target(y, x, x, y)
     IN  /\ Value(F) = Value(x) - Value(y) + (Value(x) - Value(y))
         /\ Value(F) >= 0 => Settable(F)

\* The true difference of the clocks, whenever a signed word can hold it.
TrueOffset == cur - (tmr - tai)
Fits       == TrueOffset \in -(Word \div 2)..(Word \div 2) - 1

\* Unsigned subtraction, the comparison, the wrap of the TAI offset and the
\* split into seconds and nanoseconds together give the true difference.
OffsetRight ==
  Fits => Value(Split(Offset(cur, TakeTAI(tmr, tai)))) = TrueOffset

\* The choice between stepping and slewing looks at two fields and decides
\* about the whole offset.
FarRight ==
  Fits => (Far(Split(Offset(cur, TakeTAI(tmr, tai))), threshold)
             <=> AbsVal(TrueOffset) > threshold)

\* A message of which the server has read as many bytes as it looks at, or
\* more, comes out as it was sent: the time of day, the nanoseconds, and the
\* seconds if an int can hold them; others are off by multiples of 2^32.
MessageArrives ==
  \A size \in {UsedBytes, UsedBytes + 1, MessageBytes} :
    LET got == Decode(Received(Encode(msg), size))
    IN  /\ got = [msg EXCEPT !.tv_sec = got.tv_sec]
        /\ (got.tv_sec - msg.tv_sec) % TwoTo32 = 0
        /\ msg.tv_sec \in -(TwoTo32 \div 2)..(TwoTo32 \div 2) - 1
             => got = msg
=============================================================================
