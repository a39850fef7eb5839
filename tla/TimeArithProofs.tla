--------------------------- MODULE TimeArithProofs ---------------------------
(***************************************************************************)
(* The time arithmetic is exact for every timespec and every offset: what  *)
(* TLC evaluates on small seconds, proved for seconds of any length.       *)
(***************************************************************************)
EXTENDS TimeArith, TLAPS

\* Truncating division: quotient and remainder of the numerator's sign.
LEMMA CDivMod ==
  ASSUME NEW a \in Int, NEW b \in Nat \ {0}
  PROVE  /\ CDiv(a, b) \in Int /\ CMod(a, b) \in Int
         /\ a = CDiv(a, b) * b + CMod(a, b)
         /\ AbsVal(CMod(a, b)) < b
         /\ a >= 0 => CDiv(a, b) >= 0 /\ CMod(a, b) >= 0
         /\ a <= 0 => CDiv(a, b) <= 0 /\ CMod(a, b) <= 0
BY DEF CDiv, CMod, AbsVal

LEMMA CarryExact ==
  ASSUME NEW t \in Timespec
  PROVE  /\ Carry(t) \in Timespec
         /\ Value(Carry(t)) = Value(t)
         /\ AbsVal(Carry(t).tv_nsec) < NSEC
<1> DEFINE s == t.tv_sec
           n == t.tv_nsec
           q == CDiv(n, NSEC)
           r == CMod(n, NSEC)
<1>1. s \in Int /\ n \in Int
  BY DEF Timespec
<1>2. q \in Int /\ r \in Int /\ n = q * NSEC + r /\ AbsVal(r) < NSEC
  BY <1>1, CDivMod, TimeConstantsOK
<1>3. NSEC \in Int
  BY TimeConstantsOK
<1> HIDE DEF q, r
<1>4. n - q * NSEC = r
  BY <1>1, <1>2, <1>3
<1>5. (s + q) * NSEC + r = s * NSEC + n
  BY <1>1, <1>2, <1>3
<1>6. Carry(t) = [tv_sec |-> s + q, tv_nsec |-> r]
  BY <1>4 DEF Carry, q
<1> QED
  BY <1>1, <1>2, <1>5, <1>6 DEF Value, Timespec

LEMMA BorrowExact ==
  ASSUME NEW t \in Timespec, AbsVal(t.tv_nsec) < NSEC
  PROVE  /\ Borrow(t) \in Timespec
         /\ Value(Borrow(t)) = Value(t)
         /\ Normal(Borrow(t))
<1> DEFINE s == t.tv_sec
           n == t.tv_nsec
<1>1. s \in Int /\ n \in Int /\ NSEC \in Int /\ AbsVal(n) < NSEC /\ NSEC > 0
  BY TimeConstantsOK DEF Timespec
<1>2. CASE s > 0 /\ n < 0
  <2>1. Borrow(t) = [tv_sec |-> s - 1, tv_nsec |-> n + NSEC]
    BY <1>1, <1>2 DEF Borrow
  <2>2. (s - 1) * NSEC + (n + NSEC) = s * NSEC + n
    BY <1>1
  <2> QED
    BY <1>1, <1>2, <2>1, <2>2 DEF Value, Timespec, Normal, AbsVal
<1>3. CASE s < 0 /\ n > 0
  <2>1. Borrow(t) = [tv_sec |-> s + 1, tv_nsec |-> n - NSEC]
    BY <1>1, <1>3 DEF Borrow
  <2>2. (s + 1) * NSEC + (n - NSEC) = s * NSEC + n
    BY <1>1
  <2> QED
    BY <1>1, <1>3, <2>1, <2>2 DEF Value, Timespec, Normal, AbsVal
<1>4. CASE ~(s > 0 /\ n < 0) /\ ~(s < 0 /\ n > 0)
  <2>1. Borrow(t) = t
    BY <1>4 DEF Borrow
  <2> QED
    BY <1>1, <1>4, <2>1 DEF Normal
<1> QED
  BY <1>2, <1>3, <1>4

\* normalize_time() changes how a time is written, never the time, and both
\* fields get the sign of the time.
THEOREM NormalizeExact ==
  ASSUME NEW t \in Timespec
  PROVE  /\ normalize_time(t) \in Timespec
         /\ Value(normalize_time(t)) = Value(t)
         /\ Normal(normalize_time(t))
BY CarryExact, BorrowExact DEF normalize_time

\* add_time() and sub_time() add and subtract.
THEOREM SumsExact ==
  ASSUME NEW x \in Timespec, NEW y \in Timespec
  PROVE  /\ add_time(x, y) \in Timespec /\ sub_time(x, y) \in Timespec
         /\ Value(add_time(x, y)) = Value(x) + Value(y)
         /\ Value(sub_time(x, y)) = Value(x) - Value(y)
         /\ Normal(add_time(x, y)) /\ Normal(sub_time(x, y))
<1> DEFINE a == [tv_sec  |-> x.tv_sec + y.tv_sec,
                 tv_nsec |-> x.tv_nsec + y.tv_nsec]
           d == [tv_sec  |-> x.tv_sec - y.tv_sec,
                 tv_nsec |-> x.tv_nsec - y.tv_nsec]
<1>1. a \in Timespec /\ d \in Timespec
  BY DEF Timespec
<1>2. /\ x.tv_sec \in Int /\ y.tv_sec \in Int /\ NSEC \in Int
      /\ x.tv_nsec \in Int /\ y.tv_nsec \in Int
  BY TimeConstantsOK DEF Timespec
<1>3. Value(a) = Value(x) + Value(y) /\ Value(d) = Value(x) - Value(y)
  BY <1>2 DEF Value
<1>4. add_time(x, y) = normalize_time(a) /\ sub_time(x, y) = normalize_time(d)
  BY DEF add_time, sub_time
<1> HIDE DEF a, d
<1> QED
  BY <1>1, <1>3, <1>4, NormalizeExact

\* The seconds and nanoseconds of an offset are that offset.
THEOREM SplitExact ==
  ASSUME NEW o \in Int
  PROVE  /\ Split(o) \in Timespec
         /\ Value(Split(o)) = o
         /\ Normal(Split(o))
BY CDivMod, TimeConstantsOK DEF Split, Value, Timespec, Normal

\* update_clock() steps the clock exactly when the offset is larger than the
\* threshold, although it looks at the two fields one after the other.
THEOREM FarIsLarge ==
  ASSUME NEW o \in Int, NEW threshold \in Nat, threshold < NSEC
  PROVE  Far(Split(o), threshold) <=> AbsVal(o) > threshold
<1> DEFINE s == CDiv(o, NSEC)
           n == CMod(o, NSEC)
<1>1. /\ s \in Int /\ n \in Int /\ o = s * NSEC + n /\ AbsVal(n) < NSEC
      /\ o >= 0 => s >= 0 /\ n >= 0
      /\ o <= 0 => s <= 0 /\ n <= 0
      /\ NSEC \in Int /\ NSEC > 0
  BY CDivMod, TimeConstantsOK
<1>2. Far(Split(o), threshold) <=> (s # 0 \/ AbsVal(n) > threshold)
  BY DEF Far, Split
<1> HIDE DEF s, n
<1>3. CASE s = 0
  <2>1. o = n
    BY <1>1, <1>3
  <2> QED
    BY <1>2, <1>3, <2>1
<1>4. CASE s > 0
  <2>1. s * NSEC >= NSEC
    BY <1>1, <1>4
  <2>2. n >= 0
    BY <1>1, <1>4
  <2>3. o >= NSEC
    BY <1>1, <2>1, <2>2
  <2> QED
    BY <1>1, <1>2, <1>4, <2>3 DEF AbsVal
<1>5. CASE s < 0
  <2>1. s * NSEC <= -NSEC
    BY <1>1, <1>5
  <2>2. n <= 0
    BY <1>1, <1>5
  <2>3. o <= -NSEC
    BY <1>1, <2>1, <2>2
  <2> QED
    BY <1>1, <1>2, <1>5, <2>3 DEF AbsVal
<1> QED
  BY <1>1, <1>3, <1>4, <1>5

\* A signed reading is the number itself when that is small enough.
LEMMA SignedExact ==
  ASSUME NEW n \in Int, NEW k \in Int,
         -(Word \div 2) <= k, k < Word \div 2,
         n % Word = k % Word
  PROVE  Signed(n) = k
<1>1. /\ Word \in Int /\ Word > 0 /\ Word \div 2 \in Int
      /\ Word = 2 * (Word \div 2)
  BY TimeConstantsOK
<1>2. CASE k >= 0
  <2>1. k % Word = k
    BY <1>1, <1>2
  <2> QED
    BY <1>1, <1>2, <2>1 DEF Signed
<1>3. CASE k < 0
  <2>1. k + Word \in 0..Word - 1
    BY <1>1, <1>3
  <2>2. k % Word = k + Word
    BY <1>1, <1>3, <2>1
  <2> QED
    BY <1>1, <1>3, <2>2 DEF Signed
<1> QED
  BY <1>2, <1>3

\* The offset is the true difference whenever that fits a signed word: the
\* unsigned comparison of the counters picks no wrong branch.
THEOREM OffsetExact ==
  ASSUME NEW cur \in 0..Word - 1, NEW tmr \in 0..Word - 1,
         -(Word \div 2) <= cur - tmr, cur - tmr < Word \div 2
  PROVE  Offset(cur, tmr) = cur - tmr
<1>1. cur \in Int /\ tmr \in Int /\ cur - tmr \in Int
  BY TimeConstantsOK
<1>2. -(tmr - cur) = cur - tmr
  BY <1>1
<1>3. Signed(cur - tmr) = cur - tmr
  BY <1>1, SignedExact
<1> QED
  BY <1>2, <1>3 DEF Offset

\* Also when the card has just been reset and subtracting the TAI offset
\* wraps its counter around.
THEOREM OffsetAfterTAI ==
  ASSUME NEW cur \in 0..Word - 1, NEW tmr \in 0..Word - 1,
         NEW tai \in 0..Word - 1,
         -(Word \div 2) <= cur - (tmr - tai),
         cur - (tmr - tai) < Word \div 2
  PROVE  Offset(cur, TakeTAI(tmr, tai)) = cur - (tmr - tai)
<1> DEFINE w == TakeTAI(tmr, tai)
           k == cur - (tmr - tai)
<1>1. cur \in Int /\ tmr \in Int /\ tai \in Int /\ Word \in Int /\ Word > 0
  BY TimeConstantsOK
<1>2. w = tmr - tai \/ w = tmr - tai + Word
  <2>1. CASE tmr >= tai
    <3>1. tmr - tai \in 0..Word - 1
      BY <1>1, <2>1
    <3> QED
      BY <1>1, <3>1 DEF TakeTAI
  <2>2. CASE tmr < tai
    <3>1. tmr - tai + Word \in 0..Word - 1
      BY <1>1, <2>2
    <3> QED
      BY <1>1, <3>1 DEF TakeTAI
  <2> QED
    BY <1>1, <2>1, <2>2
<1>3. w \in Int /\ k \in Int
  BY <1>1, <1>2
<1>4. (cur - w) % Word = k % Word
  <2>1. CASE w = tmr - tai
    BY <1>1, <2>1
  <2>2. CASE w = tmr - tai + Word
    <3>1. cur - w = k - Word
      BY <1>1, <2>2
    <3>2. (k - Word) % Word = k % Word
      BY <1>1, <1>3
    <3> QED
      BY <3>1, <3>2
  <2> QED
    BY <1>2, <2>1, <2>2
<1>5. -(w - cur) = cur - w /\ cur - w \in Int
  BY <1>1, <1>3
<1> HIDE DEF w, k
<1>6. Signed(cur - w) = k
  BY <1>3, <1>4, <1>5, SignedExact DEF k
<1>7. Offset(cur, w) = k
  BY <1>5, <1>6 DEF Offset
<1> QED
  BY <1>7 DEF w, k

\* The time update_clock() sets is the third reading less the offset plus
\* the gap, and clock_settime() accepts it unless it lies before the epoch.
THEOREM TargetExact ==
  ASSUME NEW A \in Timespec, NEW B \in Timespec, NEW D \in Timespec,
         NEW o \in Timespec
  PROVE  LET F == Target(A, B, D, o) IN
           /\ Value(F) = Value(D) - Value(o) + (Value(B) - Value(A))
           /\ Value(F) >= 0 => Settable(F)
<1> DEFINE C == sub_time(B, A)
           E == sub_time(D, o)
           F == Target(A, B, D, o)
<1>1. /\ C \in Timespec /\ Value(C) = Value(B) - Value(A)
      /\ E \in Timespec /\ Value(E) = Value(D) - Value(o)
  BY SumsExact
<1>2. F \in Timespec /\ Value(F) = Value(E) + Value(C) /\ Normal(F)
  BY <1>1, SumsExact DEF Target
<1> HIDE DEF C, E, F
<1>3. \A t \in Timespec : Value(t) \in Int
  BY TimeConstantsOK DEF Value, Timespec
<1>4. Value(F) = Value(D) - Value(o) + (Value(B) - Value(A))
  BY <1>1, <1>2, <1>3
<1>5. ASSUME Value(F) >= 0 PROVE Settable(F)
  <2> DEFINE s == F.tv_sec
             n == F.tv_nsec
  <2>1. /\ s \in Int /\ n \in Int /\ NSEC \in Int /\ NSEC > 0
        /\ s * NSEC + n >= 0 /\ AbsVal(n) < NSEC
        /\ s > 0 => n >= 0
        /\ s < 0 => n <= 0
    BY <1>2, <1>5, TimeConstantsOK DEF Timespec, Normal, Value
  <2> HIDE DEF s, n
  <2>2. s >= 0
    <3> SUFFICES ASSUME s < 0 PROVE FALSE
      BY <2>1
    <3>1. s * NSEC <= -NSEC
      BY <2>1
    <3>2. n <= 0
      BY <2>1
    <3> QED
      BY <2>1, <3>1, <3>2
  <2>3. n >= 0
    BY <2>1, <2>2
  <2>4. n < NSEC
    BY <2>1, <2>3 DEF AbsVal
  <2> QED
    BY <2>1, <2>2, <2>3, <2>4 DEF Settable, s, n
<1> QED
  BY <1>4, <1>5 DEF F
=============================================================================
