------------------------------ MODULE CardCounter ------------------------------
(***************************************************************************)
(* host_ioctl(): processes read the card's 64-bit nanosecond counter as    *)
(* two 32-bit registers.  Interrupts are off from the reading of the       *)
(* system clock to that of TMR_CNT_L only, and priv->lock is never taken,  *)
(* so that time passes and other processes read between one process's      *)
(* TMR_CNT_L and its TMR_CNT_H.                                            *)
(***************************************************************************)
EXTENDS Integers

CONSTANTS
  Readers,      \* the processes that call host_ioctl()
  Low,          \* 2^32: TMR_CNT_L counts to Low - 1
  MaxHigh,      \* bound on the time modelled, in wraps of TMR_CNT_L
  Latches,      \* the card: reading TMR_CNT_L freezes TMR_CNT_H until it is
                \* read; FALSE if TMR_CNT_H always shows the running counter
  Offsets       \* how far the system clock may be ahead of the card

ASSUME CounterConstantsOK ==
  /\ Low \in Nat \ {0} /\ MaxHigh \in Nat
  /\ Latches \in BOOLEAN
  /\ Offsets \subseteq Int

VARIABLES
  card,         \* the counter
  latch,        \* what TMR_CNT_H shows when the card latches
  ahead,        \* system clock less card (its TAI_OFFSET taken away)
  call,         \* what each process has on the kernel's stack
  reply,        \* what its last call left in the caller's buffer
  last          \* history: who read TMR_CNT_L last

vars == <<card, latch, ahead, call, reply, last>>

Commands == {"HOST_GET_PCIE_TIME", "HOST_GET_OFFSET",
             "HOST_GET_LOCAL_SYSTEM_TIME"}

Count == [hi : 0..MaxHigh, lo : 0..Low - 1]

\* No call is under way; the system clock has been read; the low word has.
Idle == [at |-> "user"]
ClockRead == [at : {"clock"}, sys : Int]
HalfReads ==
  [at : {"low"}, cmd : Commands, lo : 0..Low - 1, sys : Int,
   seen : Count, truth : Int]     \* history: the counter then, and what of
                                  \* it the system clock read is ahead

Replies ==
  [kind : {"none", "fault", "empty", "local"}]
    \union [kind : {"time"}, tmr : Count, seen : Count, alone : BOOLEAN]
    \union [kind : {"offset"}, value : Int, seen : Count, truth : Int,
               alone : BOOLEAN]     \* history: nobody else read in between

TypeOK ==
  /\ card \in Count /\ latch \in 0..MaxHigh /\ ahead \in Int
  /\ call \in [Readers -> {Idle} \union ClockRead \union HalfReads]
  /\ reply \in [Readers -> Replies]
  /\ last \in Readers

Init ==
  /\ card \in Count /\ latch = card.hi /\ ahead \in Offsets
  /\ call = [r \in Readers |-> Idle]
  /\ reply = [r \in Readers |-> [kind |-> "none"]]
  /\ last \in Readers

Value(c) == c.hi * Low + c.lo

\* Bug: the high word is shifted as a u32 and lost.
CombineShort(hi, lo) == [hi |-> 0, lo |-> lo]

\* Bug: the two registers are taken for each other.
CombineSwapped(hi, lo) == [hi |-> lo, lo |-> hi]

\* tmr_cnt = lo | ((u64) hi << 32).
Combine(hi, lo) == [hi |-> hi, lo |-> lo]

TMR_CNT_H == IF Latches THEN latch ELSE card.hi
-----------------------------------------------------------------------------
(* Time passes, and somebody adjusts the system clock.                     *)

Tick ==
  /\ \/ card.lo < Low - 1 /\ card' = [card EXCEPT !.lo = @ + 1]
     \/ /\ card.lo = Low - 1 /\ card.hi < MaxHigh
        /\ card' = [hi |-> card.hi + 1, lo |-> 0]
  /\ UNCHANGED <<latch, ahead, call, reply, last>>

Adjust ==
  /\ ahead' \in Offsets
  /\ UNCHANGED <<card, latch, call, reply, last>>

-----------------------------------------------------------------------------
(* host_ioctl().                                                           *)

\* HOST_GET_LOCAL_SYSTEM_TIME never looks at the card.
GetLocalTime(r) ==
  /\ call[r] = Idle
  /\ reply' \in {[reply EXCEPT ![r] = [kind |-> k]] : k \in {"local", "fault"}}
  /\ UNCHANGED <<card, latch, ahead, call, last>>

\* getnstimeofday() of HOST_GET_OFFSET, with interrupts off: of this processor,
\* and time passes all the same.
ReadSystem(r) ==
  /\ call[r] = Idle
  /\ call' = [call EXCEPT ![r] = [at |-> "clock", sys |-> Value(card) + ahead]]
  /\ reply' = [reply EXCEPT ![r] = [kind |-> "none"]]
  /\ UNCHANGED <<card, latch, ahead, last>>

\* TMR_CNT_L is read for a command that has sys of the system clock.
Halved(cmd, sys) ==
  [at |-> "low", cmd |-> cmd, lo |-> card.lo, sys |-> sys,
   seen |-> card, truth |-> sys - Value(card)]

\* TMR_CNT_L: what HOST_GET_PCIE_TIME begins with.
ReadLow(r) ==
  /\ \/ /\ call[r] = Idle
        /\ call' = [call EXCEPT ![r] = Halved("HOST_GET_PCIE_TIME", 0)]
     \/ /\ call[r].at = "clock"
        /\ call' = [call EXCEPT ![r] = Halved("HOST_GET_OFFSET", call[r].sys)]
  /\ latch' = card.hi
  /\ reply' = [reply EXCEPT ![r] = [kind |-> "none"]]
  /\ last' = r
  /\ UNCHANGED <<card, ahead>>

\* The reply of HOST_GET_PCIE_TIME: a counter of zero succeeds and writes
\* nothing.
TimeReply(c, tmr, alone) ==
  IF Value(tmr) = 0
    THEN [kind |-> "empty"]
    ELSE [kind |-> "time", tmr |-> tmr, seen |-> c.seen, alone |-> alone]

\* Bug: the card's time less the system's.
OffsetReplyNegated(c, tmr, alone) ==
  [kind |-> "offset", value |-> Value(tmr) - c.sys,
   seen |-> c.seen, truth |-> c.truth, alone |-> alone]

\* The reply of HOST_GET_OFFSET: the system's time less the card's.
OffsetReply(c, tmr, alone) ==
  [kind |-> "offset", value |-> c.sys - Value(tmr),
   seen |-> c.seen, truth |-> c.truth, alone |-> alone]

\* TMR_CNT_H, the conversion, and copy_to_user(), which may fail.
ReadHigh(r) ==
  /\ call[r].at = "low"
  /\ LET tmr    == Combine(TMR_CNT_H, call[r].lo)
         answer == IF call[r].cmd = "HOST_GET_OFFSET"
                     THEN OffsetReply(call[r], tmr, last = r)
                     ELSE TimeReply(call[r], tmr, last = r)
     IN  \/ reply' = [reply EXCEPT ![r] = answer]
         \/ /\ answer.kind # "empty"
            /\ reply' = [reply EXCEPT ![r] = [kind |-> "fault"]]
  /\ call' = [call EXCEPT ![r] = Idle]
  /\ UNCHANGED <<card, latch, ahead, last>>

Next ==
  \/ Tick \/ Adjust
  \/ \E r \in Readers :
       GetLocalTime(r) \/ ReadSystem(r) \/ ReadLow(r) \/ ReadHigh(r)

Spec == Init /\ [][Next]_vars
-----------------------------------------------------------------------------
(* What the readings are worth.                                            *)

\* However the readers interleave: a time is the counter at the reading of
\* TMR_CNT_L, or later than it by whole wraps of the low word, and never by
\* a wrap that has not happened.
TornByWraps ==
  \A r \in Readers :
    reply[r].kind = "time" =>
      /\ reply[r].tmr.lo = reply[r].seen.lo
      /\ reply[r].tmr.hi \in reply[r].seen.hi .. card.hi

\* And an offset is by how much the system clock as it was read is ahead of
\* the counter when TMR_CNT_L was, or less than that by whole wraps: never
\* too large.
OffsetOffByWraps ==
  \A r \in Readers :
    reply[r].kind = "offset" =>
      \E wraps \in 0..(card.hi - reply[r].seen.hi) :
        reply[r].value = reply[r].truth - wraps * Low

Exact(r) ==
  /\ reply[r].kind = "time"   => reply[r].tmr = reply[r].seen
  /\ reply[r].kind = "offset" => reply[r].value = reply[r].truth

\* A card that latches gives the exact time and the exact offset to a process
\* that no other process's reading came between: whatever the counter and
\* the system clock do meanwhile.
ExactUnlessShared ==
  Latches =>
    \A r \in Readers :
      reply[r].kind \in {"time", "offset"} /\ reply[r].alone => Exact(r)

\* "So you can get the exact time": every reading is the counter at one
\* moment of the call, and every offset the difference at that moment.
ExactTime == \A r \in Readers : Exact(r)

\* A call that succeeds has left something in the caller's buffer, unless the
\* card was reset just before its low word was read: no other interleaving
\* makes a counter of zero.
EmptyOnlyAtReset ==
  [][\A r \in Readers :
       reply[r].kind # "empty" /\ reply'[r].kind = "empty"
         => Value(call[r].seen) = 0]_vars
=============================================================================
