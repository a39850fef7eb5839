--------------------------- MODULE CardCounterProofs ---------------------------
(***************************************************************************)
(* What a reading of the card's counter is worth, for every number of      *)
(* readers, every width of the low word and every time.                    *)
(***************************************************************************)
EXTENDS CardCounter, TLAPS

\* A process between its two readings: the low word it has is the counter's
\* of then, and no high word it may still get is older.
HalfReadOK(c) ==
  /\ c.lo = c.seen.lo
  /\ c.sys = Value(c.seen) + c.truth
  /\ c.seen.hi <= card.hi
  /\ Latches => c.seen.hi <= latch

CounterInv ==
  /\ TypeOK
  /\ latch <= card.hi
  /\ \A r \in Readers : call[r].at = "low" => HalfReadOK(call[r])
  /\ TornByWraps
  /\ OffsetOffByWraps

LEMMA CountTypes ==
  /\ Low \in Int /\ Low > 0 /\ MaxHigh \in Nat
  /\ \A c \in Count : /\ c.hi \in Int /\ c.hi >= 0 /\ c.hi <= MaxHigh
                      /\ c.lo \in Int /\ c.lo >= 0 /\ c.lo < Low
                      /\ Value(c) \in Int
  /\ \A hi \in 0..MaxHigh, lo \in 0..Low - 1 : [hi |-> hi, lo |-> lo] \in Count
  BY CounterConstantsOK DEF Count, Value

\* Where a call is says what it holds.
LEMMA CallKinds ==
  ASSUME NEW c \in {Idle} \union ClockRead \union HalfReads
  PROVE  /\ c.at = "low" => c \in HalfReads
         /\ c.at = "clock" => c \in ClockRead /\ c.sys \in Int
         /\ Idle.at = "user"
  BY DEF Idle, ClockRead, HalfReads

LEMMA InitOK == Init => CounterInv
<1> SUFFICES ASSUME Init PROVE CounterInv
  OBVIOUS
<1>1. TypeOK
  <2>1. ahead \in Int /\ latch \in 0..MaxHigh
    BY CounterConstantsOK, CountTypes DEF Init
  <2>2. reply \in [Readers -> Replies]
    BY DEF Init, Replies
  <2> QED
    BY <2>1, <2>2 DEF Init, TypeOK
<1>2. latch <= card.hi
  BY CountTypes DEF Init
<1> QED
  BY <1>1, <1>2 DEF Init, CounterInv, TornByWraps, OffsetOffByWraps, Idle

\* A reply stays true as the counter goes on.
LEMMA RepliesKept ==
  ASSUME CounterInv, card' \in Count, card'.hi >= card.hi, reply' = reply
  PROVE  TornByWraps' /\ OffsetOffByWraps'
<1>1. TornByWraps'
  <2> SUFFICES ASSUME NEW r \in Readers, reply[r].kind = "time"
               PROVE  /\ reply[r].tmr.lo = reply[r].seen.lo
                      /\ reply[r].tmr.hi \in reply[r].seen.hi .. card'.hi
    BY DEF TornByWraps
  <2>1. reply[r].tmr \in Count /\ reply[r].seen \in Count
    BY DEF CounterInv, TypeOK, Replies
  <2>2. /\ reply[r].tmr.lo = reply[r].seen.lo
        /\ reply[r].tmr.hi \in reply[r].seen.hi .. card.hi
    BY DEF CounterInv, TornByWraps
  <2>3. card \in Count
    BY DEF CounterInv, TypeOK
  <2> QED
    BY <2>1, <2>2, <2>3, CountTypes
<1>2. OffsetOffByWraps'
  <2> SUFFICES ASSUME NEW r \in Readers, reply[r].kind = "offset"
               PROVE  \E wraps \in 0..(card'.hi - reply[r].seen.hi) :
                        reply[r].value = reply[r].truth - wraps * Low
    BY DEF OffsetOffByWraps
  <2>1. reply[r].seen \in Count /\ card \in Count
    BY DEF CounterInv, TypeOK, Replies
  <2>2. PICK wraps \in 0..(card.hi - reply[r].seen.hi) :
                reply[r].value = reply[r].truth - wraps * Low
    BY DEF CounterInv, OffsetOffByWraps
  <2>3. wraps \in 0..(card'.hi - reply[r].seen.hi)
    BY <2>1, CountTypes
  <2> QED
    BY <2>2, <2>3
<1> QED
  BY <1>1, <1>2

LEMMA TickOK == CounterInv /\ Tick => CounterInv'
<1> SUFFICES ASSUME CounterInv, Tick PROVE CounterInv'
  OBVIOUS
<1>1. card \in Count /\ card' \in Count /\ card'.hi >= card.hi
  BY CountTypes DEF CounterInv, TypeOK, Tick, Count
<1>2. /\ latch' = latch /\ ahead' = ahead /\ call' = call /\ reply' = reply
      /\ last' = last
  BY DEF Tick
<1>3. TypeOK'
  BY <1>1, <1>2 DEF CounterInv, TypeOK
<1>4. latch' <= card'.hi
  BY <1>1, <1>2, CountTypes DEF CounterInv, TypeOK
<1>5. \A r \in Readers : call'[r].at = "low" => HalfReadOK(call[r])'
  <2> SUFFICES ASSUME NEW r \in Readers, call[r].at = "low"
               PROVE  HalfReadOK(call[r])'
    BY <1>2
  <2>0. call[r] \in HalfReads
    BY CallKinds DEF CounterInv, TypeOK
  <2>1. HalfReadOK(call[r]) /\ call[r].seen \in Count
    BY <2>0 DEF CounterInv, HalfReads
  <2> QED
    BY <1>1, <1>2, <2>1, CountTypes DEF HalfReadOK, Value
<1> QED
  BY <1>1, <1>2, <1>3, <1>4, <1>5, RepliesKept DEF CounterInv

LEMMA AdjustOK == CounterInv /\ Adjust => CounterInv'
<1> SUFFICES ASSUME CounterInv, Adjust PROVE CounterInv'
  OBVIOUS
<1>1. /\ card' = card /\ latch' = latch /\ call' = call /\ reply' = reply
      /\ ahead' \in Int /\ last' = last
  BY CounterConstantsOK DEF Adjust
<1> QED
  BY <1>1 DEF CounterInv, TypeOK, HalfReadOK, Value, TornByWraps,
              OffsetOffByWraps

LEMMA GetLocalTimeOK ==
  ASSUME CounterInv, NEW r \in Readers, GetLocalTime(r)
  PROVE  CounterInv'
<1>1. PICK k \in {"local", "fault"} :
              reply' = [reply EXCEPT ![r] = [kind |-> k]]
  BY DEF GetLocalTime
<1>2. /\ card' = card /\ latch' = latch /\ ahead' = ahead /\ call' = call
      /\ last' = last
  BY DEF GetLocalTime
<1>3. TypeOK'
  BY <1>1, <1>2 DEF CounterInv, TypeOK, Replies
<1>4. \A q \in Readers :
         reply'[q].kind \in {"time", "offset"} => reply'[q] = reply[q]
  BY <1>1 DEF CounterInv, TypeOK
<1>5. TornByWraps' /\ OffsetOffByWraps'
  BY <1>2, <1>4 DEF CounterInv, TornByWraps, OffsetOffByWraps
<1> QED
  BY <1>2, <1>3, <1>5 DEF CounterInv, HalfReadOK, Value

LEMMA ReadSystemOK ==
  ASSUME CounterInv, NEW r \in Readers, ReadSystem(r)
  PROVE  CounterInv'
<1> DEFINE new == [at |-> "clock", sys |-> Value(card) + ahead]
<1>1. /\ card' = card /\ ahead' = ahead /\ latch' = latch /\ last' = last
      /\ reply' = [reply EXCEPT ![r] = [kind |-> "none"]]
      /\ call' = [call EXCEPT ![r] = new]
  BY DEF ReadSystem
<1>2. new \in ClockRead
  BY CountTypes DEF CounterInv, TypeOK, ClockRead
<1>3. TypeOK'
  <2>1. call' \in [Readers -> {Idle} \union ClockRead \union HalfReads]
    BY <1>1, <1>2 DEF CounterInv, TypeOK
  <2>2. reply' \in [Readers -> Replies]
    BY <1>1 DEF CounterInv, TypeOK, Replies
  <2> QED
    BY <1>1, <2>1, <2>2 DEF CounterInv, TypeOK
<1>4. ASSUME NEW q \in Readers, call'[q].at = "low"
      PROVE  call'[q] = call[q]
  <2>1. q = r => call'[q].at = "clock"
    BY <1>1 DEF CounterInv, TypeOK
  <2> QED
    BY <1>1, <1>4, <2>1 DEF CounterInv, TypeOK
<1>5. \A q \in Readers : call'[q].at = "low" => HalfReadOK(call[q])'
  BY <1>1, <1>4 DEF CounterInv, HalfReadOK, Value
<1>6. \A q \in Readers :
         reply'[q].kind \in {"time", "offset"} => reply'[q] = reply[q]
  BY <1>1 DEF CounterInv, TypeOK
<1>7. TornByWraps' /\ OffsetOffByWraps'
  BY <1>1, <1>6 DEF CounterInv, TornByWraps, OffsetOffByWraps
<1> QED
  BY <1>1, <1>3, <1>5, <1>7 DEF CounterInv

\* What TMR_CNT_L leaves with a call, whatever it had of the system clock.
LEMMA HalvedOK ==
  ASSUME CounterInv, NEW cmd \in {"HOST_GET_PCIE_TIME", "HOST_GET_OFFSET"},
         NEW sys \in Int
  PROVE  /\ Halved(cmd, sys) \in HalfReads
         /\ Halved(cmd, sys).lo = card.lo /\ Halved(cmd, sys).seen = card
         /\ Halved(cmd, sys).sys = Value(card) + Halved(cmd, sys).truth
<1>1. /\ card \in Count /\ card.hi \in 0..MaxHigh /\ card.lo \in 0..Low - 1
      /\ Value(card) \in Int
  BY CountTypes DEF CounterInv, TypeOK
<1> QED
  BY <1>1 DEF Halved, HalfReads, Commands

\* The low word is read by a call that has the clock's time, or needs none.
LEMMA LowRead ==
  ASSUME CounterInv, NEW r \in Readers, ReadLow(r)
  PROVE  \E cmd \in {"HOST_GET_PCIE_TIME", "HOST_GET_OFFSET"}, sys \in Int :
           call' = [call EXCEPT ![r] = Halved(cmd, sys)]
<1>1. CASE call' = [call EXCEPT ![r] = Halved("HOST_GET_PCIE_TIME", 0)]
  <2>1. 0 \in Int
    OBVIOUS
  <2> QED
    BY <1>1, <2>1, Zenon
<1>2. CASE /\ call[r].at = "clock"
           /\ call' = [call EXCEPT ![r] = Halved("HOST_GET_OFFSET", call[r].sys)]
  <2>1. call[r].sys \in Int
    BY <1>2, CallKinds DEF CounterInv, TypeOK
  <2> QED
    BY <1>2, <2>1
<1> QED
  BY <1>1, <1>2 DEF ReadLow

LEMMA ReadLowOK ==
  ASSUME CounterInv, NEW r \in Readers, ReadLow(r)
  PROVE  CounterInv'
<1>1. PICK cmd \in {"HOST_GET_PCIE_TIME", "HOST_GET_OFFSET"}, sys \in Int :
        call' = [call EXCEPT ![r] = Halved(cmd, sys)]
  BY LowRead
<1>2. /\ card' = card /\ ahead' = ahead /\ latch' = card.hi /\ last' = r
      /\ reply' = [reply EXCEPT ![r] = [kind |-> "none"]]
  BY DEF ReadLow
<1> DEFINE new == Halved(cmd, sys)
<1>3. /\ card \in Count /\ card.hi \in 0..MaxHigh /\ card.lo \in 0..Low - 1
      /\ Value(card) \in Int /\ ahead \in Int
  BY CountTypes DEF CounterInv, TypeOK
<1>4. /\ new \in HalfReads /\ new.lo = card.lo /\ new.seen = card
      /\ new.sys = Value(card) + new.truth
  BY HalvedOK
<1> HIDE DEF new
<1>5. TypeOK'
  <2>1. call' \in [Readers -> {Idle} \union ClockRead \union HalfReads]
    BY <1>1, <1>4 DEF CounterInv, TypeOK, new
  <2>2. reply' \in [Readers -> Replies]
    BY <1>2 DEF CounterInv, TypeOK, Replies
  <2> QED
    BY <1>2, <1>3, <2>1, <2>2 DEF TypeOK
<1>6. \A q \in Readers : call'[q].at = "low" => HalfReadOK(call[q])'
  <2> SUFFICES ASSUME NEW q \in Readers, call'[q].at = "low"
               PROVE  HalfReadOK(call[q])'
    OBVIOUS
  <2>1. CASE q = r
    <3>1. call'[q] = new
      BY <1>1, <2>1 DEF CounterInv, TypeOK, new
    <3> QED
      BY <1>2, <1>3, <1>4, <3>1 DEF HalfReadOK, Value
  <2>2. CASE q # r
    <3>1. call'[q] = call[q]
      BY <1>1, <2>2 DEF CounterInv, TypeOK
    <3>2. call[q] \in HalfReads /\ HalfReadOK(call[q])
      BY <3>1, CallKinds DEF CounterInv, TypeOK
    <3>3. call[q].seen.hi <= card.hi
      BY <3>2 DEF HalfReadOK
    <3> QED
      BY <1>2, <3>1, <3>2, <3>3 DEF HalfReadOK, Value
  <2> QED
    BY <2>1, <2>2
<1>7. \A q \in Readers :
         reply'[q].kind \in {"time", "offset"} => reply'[q] = reply[q]
  BY <1>2 DEF CounterInv, TypeOK
<1>8. TornByWraps' /\ OffsetOffByWraps'
  BY <1>2, <1>7 DEF CounterInv, TornByWraps, OffsetOffByWraps
<1>9. latch' <= card'.hi
  BY <1>2, <1>3, CountTypes
<1> QED
  BY <1>5, <1>6, <1>8, <1>9 DEF CounterInv

\* The register a half-read gets is its own high word, or later by wraps
\* that have happened.
LEMMA HighRegister ==
  ASSUME CounterInv, NEW r \in Readers, call[r].at = "low"
  PROVE  /\ call[r] \in HalfReads /\ HalfReadOK(call[r])
         /\ TMR_CNT_H \in call[r].seen.hi .. card.hi
         /\ TMR_CNT_H \in 0..MaxHigh
<1>1. call[r] \in HalfReads /\ HalfReadOK(call[r])
  BY CallKinds DEF CounterInv, TypeOK
<1>2. call[r].seen \in Count /\ card \in Count
  BY <1>1 DEF HalfReads, CounterInv, TypeOK
<1> QED
  BY <1>1, <1>2, CountTypes DEF TMR_CNT_H, HalfReadOK, CounterInv, TypeOK

\* An offset from a later high word is less by its wraps.
LEMMA OffsetOff ==
  ASSUME NEW hi \in Int, NEW s \in Count, NEW t \in Int
  PROVE  (Value(s) + t) - Value([hi |-> hi, lo |-> s.lo])
            = t - (hi - s.hi) * Low
<1>1. s.hi \in Int /\ s.lo \in Int /\ Low \in Int
  BY CountTypes
<1>2. (hi - s.hi) * Low = hi * Low - s.hi * Low
  BY <1>1
<1> QED
  BY <1>1, <1>2 DEF Value

\* A reply that is true by itself keeps the replies true.
TrueReply(a) ==
  /\ a \in Replies
  /\ a.kind = "time" => /\ a.tmr.lo = a.seen.lo
                        /\ a.tmr.hi \in a.seen.hi .. card.hi
  /\ a.kind = "offset" => \E wraps \in 0..(card.hi - a.seen.hi) :
                             a.value = a.truth - wraps * Low

LEMMA ReplyPut ==
  ASSUME CounterInv, NEW r \in Readers, NEW a, TrueReply(a),
         reply' = [reply EXCEPT ![r] = a], card' = card
  PROVE  reply' \in [Readers -> Replies] /\ TornByWraps' /\ OffsetOffByWraps'
<1>1. reply' \in [Readers -> Replies]
  BY DEF CounterInv, TypeOK, TrueReply
<1>2. ASSUME NEW q \in Readers
      PROVE  reply'[q] = reply[q] \/ (q = r /\ reply'[q] = a)
  BY DEF CounterInv, TypeOK
<1>3. TornByWraps'
  BY <1>2 DEF CounterInv, TornByWraps, TrueReply
<1>4. OffsetOffByWraps'
  BY <1>2 DEF CounterInv, OffsetOffByWraps, TrueReply
<1> QED
  BY <1>1, <1>3, <1>4

LEMMA ReadHighOK ==
  ASSUME CounterInv, NEW r \in Readers, ReadHigh(r)
  PROVE  CounterInv'
<1> DEFINE tmr == Combine(TMR_CNT_H, call[r].lo)
           answer == IF call[r].cmd = "HOST_GET_OFFSET"
                       THEN OffsetReply(call[r], tmr, last = r)
                       ELSE TimeReply(call[r], tmr, last = r)
<1>1. /\ call[r] \in HalfReads /\ HalfReadOK(call[r])
      /\ TMR_CNT_H \in call[r].seen.hi .. card.hi /\ TMR_CNT_H \in 0..MaxHigh
  BY HighRegister DEF ReadHigh
<1>2. /\ card' = card /\ latch' = latch /\ ahead' = ahead /\ last' = last
      /\ call' = [call EXCEPT ![r] = Idle]
      /\ \/ reply' = [reply EXCEPT ![r] = answer]
         \/ reply' = [reply EXCEPT ![r] = [kind |-> "fault"]]
  BY DEF ReadHigh
<1>3. /\ tmr \in Count /\ tmr = [hi |-> TMR_CNT_H, lo |-> call[r].seen.lo]
      /\ call[r].seen \in Count /\ call[r].truth \in Int /\ Value(tmr) \in Int
      /\ call[r].sys \in Int
  BY <1>1, CountTypes DEF Combine, HalfReads, HalfReadOK
<1> HIDE DEF tmr
<1>4. TrueReply(answer)
  <2>1. CASE answer.kind = "time"
    <3>1. answer = [kind |-> "time", tmr |-> tmr, seen |-> call[r].seen,
                    alone |-> (last = r)]
      BY <2>1 DEF TimeReply, OffsetReply
    <3> HIDE DEF answer
    <3>2. answer \in Replies
      BY <1>3, <3>1 DEF Replies
    <3> QED
      BY <1>1, <1>3, <3>1, <3>2 DEF TrueReply
  <2>2. CASE answer.kind = "offset"
    <3>1. answer = [kind |-> "offset", value |-> call[r].sys - Value(tmr),
                    seen |-> call[r].seen, truth |-> call[r].truth,
                    alone |-> (last = r)]
      BY <2>2 DEF TimeReply, OffsetReply
    <3> HIDE DEF answer
    <3>2. answer \in Replies
      BY <1>3, <3>1 DEF Replies
    <3> DEFINE w == TMR_CNT_H - call[r].seen.hi
    <3>3. w \in 0..(card.hi - call[r].seen.hi)
      BY <1>1, <1>3, CountTypes DEF CounterInv, TypeOK
    <3>4. call[r].sys - Value(tmr) = call[r].truth - w * Low
      BY <1>1, <1>3, OffsetOff DEF HalfReadOK
    <3> HIDE DEF w
    <3> QED
      BY <3>1, <3>2, <3>3, <3>4 DEF TrueReply
  <2>3. CASE answer.kind = "empty"
    <3>1. answer = [kind |-> "empty"]
      BY <2>3 DEF TimeReply, OffsetReply
    <3> HIDE DEF answer
    <3> QED
      BY <3>1 DEF TrueReply, Replies
  <2> QED
    BY <2>1, <2>2, <2>3 DEF TimeReply, OffsetReply
<1>5. TrueReply([kind |-> "fault"])
  BY DEF TrueReply, Replies
<1> HIDE DEF answer
<1>6. reply' \in [Readers -> Replies] /\ TornByWraps' /\ OffsetOffByWraps'
  BY <1>2, <1>4, <1>5, ReplyPut
<1>7. ASSUME NEW q \in Readers, call'[q].at = "low"
      PROVE  call'[q] = call[q]
  <2>1. q # r
    BY <1>2, <1>7, CallKinds DEF CounterInv, TypeOK
  <2> QED
    BY <1>2, <2>1 DEF CounterInv, TypeOK
<1>8. \A q \in Readers : call'[q].at = "low" => HalfReadOK(call[q])'
  BY <1>2, <1>7 DEF CounterInv, HalfReadOK, Value
<1>9. TypeOK' /\ latch' <= card'.hi
  BY <1>2, <1>6 DEF CounterInv, TypeOK
<1> QED
  BY <1>6, <1>8, <1>9 DEF CounterInv

\* The invariant, of every step.
LEMMA CounterStep == CounterInv /\ [Next]_vars => CounterInv'
<1>1. CounterInv /\ UNCHANGED vars => CounterInv'
  BY DEF vars, CounterInv, TypeOK, HalfReadOK, Value, TornByWraps,
         OffsetOffByWraps
<1> QED
  BY <1>1, TickOK, AdjustOK, GetLocalTimeOK, ReadSystemOK, ReadLowOK, ReadHighOK
     DEF Next

\* The counter's readers are well typed.
THEOREM TypeCorrect == Spec => []TypeOK
  BY InitOK, CounterStep, PTL DEF Spec, CounterInv

\* However many readers interleave, latched or not, a time is late by whole
\* wraps of the low word at most, and only by wraps that have happened.
THEOREM TimesTornByWraps == Spec => []TornByWraps
  BY InitOK, CounterStep, PTL DEF Spec, CounterInv

\* And an offset is too small by whole wraps at most.
THEOREM OffsetsOffByWraps == Spec => []OffsetOffByWraps
  BY InitOK, CounterStep, PTL DEF Spec, CounterInv

-----------------------------------------------------------------------------
(* A reader that nobody disturbs.                                          *)

\* The latch holds the high word that goes with the low word read last.
LatchInv ==
  /\ CounterInv
  /\ ExactUnlessShared
  /\ call[last].at = "low" => latch = call[last].seen.hi

LEMMA LatchReadHigh ==
  ASSUME LatchInv, NEW r \in Readers, ReadHigh(r)
  PROVE  ExactUnlessShared'
<1> DEFINE c == call[r]
           tmr == Combine(TMR_CNT_H, c.lo)
           answer == IF c.cmd = "HOST_GET_OFFSET"
                       THEN OffsetReply(c, tmr, last = r)
                       ELSE TimeReply(c, tmr, last = r)
<1>1. /\ c \in HalfReads /\ HalfReadOK(c)
      /\ c.seen \in Count /\ c.truth \in Int
  BY HighRegister DEF LatchInv, ReadHigh, HalfReads
<1>4. \/ reply' = [reply EXCEPT ![r] = answer]
      \/ reply' = [reply EXCEPT ![r] = [kind |-> "fault"]]
  BY DEF ReadHigh
<1>5. ASSUME Latches, last = r
      PROVE  /\ answer.kind = "time" => answer.tmr = answer.seen
             /\ answer.kind = "offset" => answer.value = answer.truth
  <2>1. TMR_CNT_H = c.seen.hi
    BY <1>5 DEF LatchInv, ReadHigh, TMR_CNT_H
  <2>2. tmr = c.seen
    BY <1>1, <2>1 DEF Combine, HalfReadOK, Count
  <2>3. c.sys - Value(tmr) = c.truth
    BY <1>1, <2>2, CountTypes DEF HalfReadOK
  <2> QED
    BY <2>2, <2>3 DEF OffsetReply, TimeReply
<1>6. answer.kind \in {"time", "offset"} => answer.alone = (last = r)
  BY DEF OffsetReply, TimeReply
<1> HIDE DEF answer
<1> SUFFICES ASSUME Latches, NEW q \in Readers,
                    reply'[q].kind \in {"time", "offset"}, reply'[q].alone
             PROVE  Exact(q)'
  BY DEF ExactUnlessShared
<1>7. CASE q # r
  <2>1. reply'[q] = reply[q]
    BY <1>4, <1>7 DEF LatchInv, CounterInv, TypeOK
  <2>2. Exact(q)
    BY <2>1 DEF LatchInv, ExactUnlessShared
  <2> QED
    BY <2>1, <2>2 DEF Exact
<1>8. CASE q = r
  <2>1. reply'[r] = answer
    BY <1>4, <1>8 DEF LatchInv, CounterInv, TypeOK
  <2>2. last = r
    BY <1>6, <1>8, <2>1
  <2> QED
    BY <1>5, <1>8, <2>1, <2>2 DEF Exact
<1> QED
  BY <1>7, <1>8

LEMMA LatchStep == LatchInv /\ [Next]_vars => LatchInv'
<1> SUFFICES ASSUME LatchInv, [Next]_vars
             PROVE  /\ ExactUnlessShared'
                    /\ call'[last'].at = "low" => latch' = call'[last'].seen.hi
  BY CounterStep DEF LatchInv
<1>1. CASE UNCHANGED vars \/ Tick \/ Adjust
  BY <1>1 DEF LatchInv, ExactUnlessShared, Exact, vars, Tick, Adjust
<1>2. CASE \E r \in Readers : GetLocalTime(r)
  BY <1>2 DEF LatchInv, CounterInv, TypeOK, ExactUnlessShared, Exact,
              GetLocalTime
<1>3. CASE \E r \in Readers : ReadSystem(r)
  <2>1. PICK r \in Readers : ReadSystem(r)
    BY <1>3
  <2>2. /\ last' = last /\ latch' = latch /\ last \in Readers
        /\ \A q \in Readers : call'[q].at = "low" => call'[q] = call[q]
        /\ \A q \in Readers :
             reply'[q].kind \in {"time", "offset"} => reply'[q] = reply[q]
    BY <2>1 DEF LatchInv, CounterInv, TypeOK, ReadSystem
  <2> QED
    BY <2>2 DEF LatchInv, ExactUnlessShared, Exact
<1>4. CASE \E r \in Readers : ReadLow(r)
  <2>1. PICK r \in Readers : ReadLow(r)
    BY <1>4
  <2>2. ExactUnlessShared'
    BY <2>1 DEF LatchInv, CounterInv, TypeOK, ExactUnlessShared, Exact,
                ReadLow
  <2>3. last' = r /\ call'[r].seen = card /\ latch' = card.hi
    BY <2>1 DEF LatchInv, CounterInv, TypeOK, ReadLow, Halved
  <2> QED
    BY <2>2, <2>3
<1>5. CASE \E r \in Readers : ReadHigh(r)
  <2>1. PICK r \in Readers : ReadHigh(r)
    BY <1>5
  <2>2. /\ last' = last /\ latch' = latch
        /\ call' = [call EXCEPT ![r] = Idle]
    BY <2>1 DEF ReadHigh
  <2>3. call'[last].at = "low" => last # r /\ call'[last] = call[last]
    BY <2>2, CallKinds DEF LatchInv, CounterInv, TypeOK
  <2> QED
    BY <2>1, <2>2, <2>3, LatchReadHigh DEF LatchInv
<1> QED
  BY <1>1, <1>2, <1>3, <1>4, <1>5 DEF Next

\* A latching card gives the exact time and the exact offset to every process
\* that no other process's reading came between.
THEOREM ExactUndisturbed == Spec => []ExactUnlessShared
<1>1. Init => LatchInv
  BY InitOK DEF LatchInv, CounterInv, TypeOK, Init, ExactUnlessShared, Idle
<1>2. LatchInv => ExactUnlessShared
  BY DEF LatchInv
<1> QED
  BY <1>1, <1>2, LatchStep, PTL DEF Spec

-----------------------------------------------------------------------------
(* The counter at zero.                                                    *)

LEMMA ZeroCount ==
  ASSUME NEW c \in Count
  PROVE  /\ Value(c) = 0 => c.hi = 0 /\ c.lo = 0
         /\ c.hi = 0 /\ c.lo = 0 => Value(c) = 0
<1>1. c.hi \in Nat /\ c.lo \in Nat /\ Low \in Nat /\ Low > 0
  BY CountTypes
<1>2. c.hi * Low \in Nat
  BY <1>1
<1>3. ASSUME c.hi * Low = 0 PROVE c.hi = 0
  BY <1>1, <1>3
<1> QED
  BY <1>1, <1>2, <1>3 DEF Value

\* HOST_GET_PCIE_TIME leaves the caller's buffer alone only when the counter
\* was zero as its low word was read, however the readers interleave.
THEOREM EmptyMeansReset == Spec => EmptyOnlyAtReset
<1>1. ASSUME CounterInv, [Next]_vars, NEW r \in Readers,
             reply[r].kind # "empty", reply'[r].kind = "empty"
      PROVE  Value(call[r].seen) = 0
  <2>1. ReadHigh(r)
    <3>1. \A q \in Readers : reply[q] \in Replies
      BY <1>1 DEF CounterInv, TypeOK
    <3>2. ~UNCHANGED vars /\ ~Tick /\ ~Adjust
      BY <1>1 DEF vars, Tick, Adjust
    <3>3. ASSUME NEW q \in Readers,
                 GetLocalTime(q) \/ ReadSystem(q) \/ ReadLow(q)
          PROVE  FALSE
      BY <1>1, <3>3
         DEF CounterInv, TypeOK, GetLocalTime, ReadSystem, ReadLow
    <3>4. ASSUME NEW q \in Readers, ReadHigh(q) PROVE q = r
      BY <1>1, <3>4 DEF CounterInv, TypeOK, ReadHigh
    <3> QED
      BY <1>1, <3>2, <3>3, <3>4 DEF Next
  <2> DEFINE tmr == Combine(TMR_CNT_H, call[r].lo)
  <2>2. /\ call[r] \in HalfReads /\ HalfReadOK(call[r])
        /\ TMR_CNT_H \in call[r].seen.hi .. card.hi
        /\ TMR_CNT_H \in 0..MaxHigh
    BY <1>1, <2>1, HighRegister DEF ReadHigh
  <2>3. /\ tmr \in Count /\ tmr.hi = TMR_CNT_H /\ tmr.lo = call[r].seen.lo
        /\ call[r].seen \in Count
    BY <2>2, CountTypes DEF Combine, HalfReads, HalfReadOK
  <2>4. Value(tmr) = 0
    BY <1>1, <2>1 DEF ReadHigh, TimeReply, OffsetReply, CounterInv, TypeOK
  <2>5. call[r].seen.hi = 0 /\ call[r].seen.lo = 0
    BY <1>1, <2>2, <2>3, <2>4, ZeroCount, CountTypes DEF CounterInv, TypeOK
  <2> QED
    BY <2>3, <2>5, ZeroCount
<1>2. CounterInv /\ [Next]_vars
        => [\A r \in Readers :
              reply[r].kind # "empty" /\ reply'[r].kind = "empty"
                => Value(call[r].seen) = 0]_vars
  BY <1>1
<1> QED
  BY <1>2, InitOK, CounterStep, PTL DEF Spec, EmptyOnlyAtReset
===============================================================================
