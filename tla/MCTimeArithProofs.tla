-------------------------- MODULE MCTimeArithProofs --------------------------
(***************************************************************************)
(* What TLC evaluates on small numbers, for all: sums, differences and     *)
(* offsets from TimeArithProofs; and that a message of tcp_client arrives, *)
(* whatever number of values a byte has.                                   *)
(***************************************************************************)
EXTENDS MCTimeArith, TimeArithProofs, SequenceTheorems

ArgumentTypes ==
  /\ x \in Timespec /\ y \in Timespec
  /\ cur \in 0..Word - 1 /\ tmr \in 0..Word - 1
  /\ tai \in 0..Word - 1 /\ threshold \in 0..NSEC - 1
  /\ msg \in Messages \union {Empty}

LEMMA ArgumentsTyped == Spec => []ArgumentTypes
<1>1. Init => ArgumentTypes
  <2> SUFFICES ASSUME Init PROVE ArgumentTypes
    OBVIOUS
  <2>1. 0 \in 0..Word - 1 /\ 0 \in 0..NSEC - 1
    BY TimeConstantsOK
  <2> QED
    BY <2>1 DEF Init, ArgumentTypes, Zero, Timespec
<1>2. ArgumentTypes /\ [Next]_vars => ArgumentTypes'
  <2> SUFFICES ASSUME ArgumentTypes, [Next]_vars PROVE ArgumentTypes'
    OBVIOUS
  <2>1. CASE PickTimes
    <3>1. x' \in Timespec /\ y' \in Timespec
      BY <2>1, ArgumentsOK DEF PickTimes, Timespecs, Timespec
    <3> QED
      BY <2>1, <3>1 DEF PickTimes, ArgumentTypes
  <2>2. CASE PickCounters
    BY <2>2, ArgumentsOK DEF PickCounters, ArgumentTypes
  <2>3. CASE PickMessage
    BY <2>3 DEF PickMessage, ArgumentTypes
  <2>4. CASE UNCHANGED vars
    BY <2>4 DEF vars, ArgumentTypes
  <2> QED
    BY <2>1, <2>2, <2>3, <2>4 DEF Next
<1> QED
  BY <1>1, <1>2, PTL DEF Spec

\* Sums, differences and the target of a step are exact for all timespecs.
THEOREM SumsAlwaysRight == Spec => []SumsRight
<1>1. ArgumentTypes => SumsRight
  <2> SUFFICES ASSUME ArgumentTypes PROVE SumsRight
    OBVIOUS
  <2>1. x \in Timespec /\ y \in Timespec
    BY DEF ArgumentTypes
  <2> QED
    BY <2>1, SumsExact, TargetExact DEF SumsRight
<1> QED
  BY <1>1, ArgumentsTyped, PTL

LEMMA OffsetIsTrue ==
  ASSUME ArgumentTypes, Fits
  PROVE  /\ Offset(cur, TakeTAI(tmr, tai)) = TrueOffset
         /\ TrueOffset \in Int
<1>1. Word \in Int /\ Word \div 2 \in Int
  BY TimeConstantsOK
<1>2. cur \in Int /\ tmr \in Int /\ tai \in Int
  BY <1>1 DEF ArgumentTypes
<1>3. -(Word \div 2) <= cur - (tmr - tai) /\ cur - (tmr - tai) < Word \div 2
  BY <1>1, <1>2 DEF Fits, TrueOffset
<1> QED
  BY <1>2, <1>3, OffsetAfterTAI DEF ArgumentTypes, TrueOffset

\* For counters of every width: subtraction, wrap, comparison and split
\* together give the true offset, if a signed counter can hold it.
THEOREM OffsetsAlwaysRight == Spec => []OffsetRight
<1>1. ArgumentTypes => OffsetRight
  BY OffsetIsTrue, SplitExact DEF OffsetRight
<1> QED
  BY <1>1, ArgumentsTyped, PTL

\* And update_clock() steps the clock exactly when that offset is larger
\* than the threshold.
THEOREM FarAlwaysRight == Spec => []FarRight
<1>1. ArgumentTypes => FarRight
  <2> SUFFICES ASSUME ArgumentTypes PROVE FarRight
    OBVIOUS
  <2>1. threshold \in Nat /\ threshold < NSEC
    BY TimeConstantsOK DEF ArgumentTypes
  <2> QED
    BY <2>1, OffsetIsTrue, FarIsLarge DEF FarRight
<1> QED
  BY <1>1, ArgumentsTyped, PTL

-----------------------------------------------------------------------------
(* Numbers and their bytes.                                                *)

LEMMA Product ==
  ASSUME NEW a \in Nat, NEW b \in Nat, a < b, NEW d \in Nat \ {0}
  PROVE  d * a + d <= d * b
<1>1. a + 1 <= b
  OBVIOUS
<1>2. d * (a + 1) <= d * b
  BY <1>1
<1> QED
  BY <1>2

\* Quotient and remainder are the only ones.
LEMMA Quotient ==
  ASSUME NEW n \in Int, NEW d \in Nat \ {0}, NEW q \in Int, NEW r \in 0..d - 1,
         n = d * q + r
  PROVE  n \div d = q /\ n % d = r
<1> DEFINE p == n \div d
           s == n % d
<1>1. p \in Int /\ s \in 0..d - 1 /\ n = d * p + s
  OBVIOUS
<1> HIDE DEF p, s
<1>2. p = q
  <2>1. CASE p > q
    <3>1. d * (p - q) >= d
      BY <1>1, <2>1
    <3>2. d * (p - q) = d * p - d * q
      BY <1>1
    <3> QED
      BY <1>1, <3>1, <3>2
  <2>2. CASE q > p
    <3>1. d * (q - p) >= d
      BY <1>1, <2>2
    <3>2. d * (q - p) = d * q - d * p
      BY <1>1
    <3> QED
      BY <1>1, <3>1, <3>2
  <2> QED
    BY <1>1, <2>1, <2>2
<1>3. s = r
  BY <1>1, <1>2
<1> QED
  BY <1>2, <1>3 DEF p, s

\* Dividing twice is dividing by the product.
LEMMA DivideTwice ==
  ASSUME NEW n \in Int, NEW c \in Nat \ {0}, NEW d \in Nat \ {0}
  PROVE  /\ c * d \in Nat \ {0}
         /\ n \div (c * d) = (n \div c) \div d
         /\ n % (c * d) = c * ((n \div c) % d) + (n % c)
<1> DEFINE q == n \div c
           r == n % c
           p == q \div d
           t == q % d
           e == c * d
<1>1. q \in Int /\ r \in 0..c - 1 /\ n = c * q + r
  OBVIOUS
<1>2. p \in Int /\ t \in 0..d - 1 /\ q = d * p + t
  BY <1>1
<1>3. e \in Nat \ {0}
  OBVIOUS
<1> HIDE DEF q, r, p, t
<1>4. c * t + r \in 0..e - 1
  <2>1. c * t + c <= c * d
    BY <1>2, Product
  <2>2. c * t \in Nat
    BY <1>2
  <2> QED
    BY <1>1, <1>3, <2>1, <2>2
<1>5. n = e * p + (c * t + r)
  <2>1. c * (d * p + t) = c * (d * p) + c * t
    BY <1>2
  <2>2. c * (d * p) = (c * d) * p
    BY <1>2
  <2>3. c * q = (c * d) * p + c * t
    BY <1>2, <2>1, <2>2
  <2> QED
    BY <1>1, <1>2, <2>3
<1> HIDE DEF e
<1>6. n \div e = p /\ n % e = c * t + r
  BY <1>2, <1>3, <1>4, <1>5, Quotient
<1> QED
  BY <1>3, <1>6 DEF e, p, q, t, r

\* The bytes of a number, put together again, are its low 32 bits.
LEMMA DigitsSum ==
  ASSUME NEW n \in Int
  PROVE  /\ \A u \in {1, Byte, TwoTo16, TwoTo16 * Byte} : Digit(n, u) \in Int
         /\ Digit(n, 1) + Digit(n, Byte) * Byte + Digit(n, TwoTo16) * TwoTo16
              + Digit(n, TwoTo16 * Byte) * (TwoTo16 * Byte) = n % TwoTo32
<1> DEFINE b  == Byte
           b2 == Byte * Byte
           b3 == (Byte * Byte) * Byte
           d0 == n % b
           d1 == (n \div b) % b
           d2 == (n \div b2) % b
           d3 == (n \div b3) % b
<1>1. b \in Nat \ {0} /\ b2 \in Nat \ {0} /\ b3 \in Nat \ {0}
  BY ByteOK, DivideTwice
<1>2. d0 \in Int /\ d1 \in Int /\ d2 \in Int /\ d3 \in Int
  <2>1. \A m \in Int, e \in Nat \ {0} : m \div e \in Int /\ m % e \in Int
    OBVIOUS
  <2> HIDE DEF b, b2, b3
  <2> QED
    BY <1>1, <2>1
<1>3. n % b2 = b * d1 + d0
  BY <1>1, DivideTwice
<1>4. n % b3 = b2 * d2 + (n % b2)
  BY <1>1, DivideTwice
<1>5. n % (b3 * b) = b3 * d3 + (n % b3)
  BY <1>1, DivideTwice
<1>6. TwoTo32 = b3 * b
  <2>1. TwoTo32 = (b * b) * (b * b)
    BY DEF TwoTo32, TwoTo16
  <2>2. (b * b) * (b * b) = ((b * b) * b) * b
    <3> HIDE DEF b
    <3> QED
      BY <1>1
  <2> QED
    BY <2>1, <2>2
<1>7. /\ Digit(n, 1) = d0 /\ Digit(n, Byte) = d1
      /\ Digit(n, TwoTo16) = d2 /\ Digit(n, TwoTo16 * Byte) = d3
  <2>1. n \div 1 = n
    OBVIOUS
  <2> QED
    BY <2>1 DEF Digit, TwoTo16
<1>8. d0 + d1 * b + d2 * b2 + d3 * b3 = b3 * d3 + (b2 * d2 + (b * d1 + d0))
  <2> HIDE DEF b, b2, b3, d0, d1, d2, d3
  <2> QED
    BY <1>1, <1>2
<1>9. TwoTo16 = b2 /\ TwoTo16 * Byte = b3
  BY DEF TwoTo16
<1>10. /\ Digit(n, 1) + Digit(n, Byte) * Byte + Digit(n, TwoTo16) * TwoTo16
            + Digit(n, TwoTo16 * Byte) * (TwoTo16 * Byte)
          = d0 + d1 * b + d2 * b2 + d3 * b3
  BY <1>7, <1>9
<1>11. n % TwoTo32 = b3 * d3 + (b2 * d2 + (b * d1 + d0))
  BY <1>3, <1>4, <1>5, <1>6
<1> QED
  BY <1>2, <1>7, <1>8, <1>10, <1>11

LEMMA WordOf32 ==
  /\ TwoTo32 \in Nat \ {0} /\ TwoTo32 % 2 = 0
  /\ TwoTo32 \div 2 \in Nat /\ TwoTo32 = 2 * (TwoTo32 \div 2)
<1>1. TwoTo16 \in Nat \ {0} /\ TwoTo32 \in Nat \ {0}
  BY ByteOK, DivideTwice DEF TwoTo16, TwoTo32
<1>2. PICK h \in Nat : Byte = 2 * h
  BY ByteOK
<1> DEFINE k == h * (Byte * TwoTo16)
<1>3. k \in Int
  BY <1>1, <1>2, ByteOK
<1>4. TwoTo32 = 2 * k
  <2>1. TwoTo32 = (Byte * Byte) * TwoTo16
    BY DEF TwoTo32, TwoTo16
  <2>2. (Byte * Byte) * TwoTo16 = Byte * (Byte * TwoTo16)
    BY <1>1, ByteOK
  <2> DEFINE m == Byte * TwoTo16
  <2>3. m \in Int
    BY <1>1, ByteOK
  <2> HIDE DEF m
  <2>4. (2 * h) * m = 2 * (h * m)
    BY <1>2, <2>3
  <2> QED
    BY <1>2, <2>1, <2>2, <2>4 DEF m
<1> HIDE DEF k
<1>5. TwoTo32 % 2 = 0 /\ TwoTo32 \div 2 = k
  BY <1>3, <1>4
<1> QED
  BY <1>1, <1>3, <1>4, <1>5

\* Equal low bits, equal ints; an int is its own.
LEMMA AsIntExact ==
  ASSUME NEW n \in Int
  PROVE  /\ AsInt(n) \in Int
         /\ AsInt(n % TwoTo32) = AsInt(n)
         /\ (AsInt(n) - n) % TwoTo32 = 0
         /\ n \in -(TwoTo32 \div 2)..(TwoTo32 \div 2) - 1 => AsInt(n) = n
<1> DEFINE w == TwoTo32
           h == TwoTo32 \div 2
           q == n \div w
           r == n % w
<1>1. w \in Nat \ {0} /\ h \in Nat /\ w = 2 * h
  BY WordOf32
<1>2. q \in Int /\ r \in 0..w - 1 /\ n = w * q + r
  BY <1>1
<1>3. AsInt(n) = IF r < h THEN r ELSE r - w
  BY DEF AsInt
<1> HIDE DEF q, r, w, h
<1>4. r % w = r
  BY <1>1, <1>2
<1>5. AsInt(r) = AsInt(n)
  BY <1>3, <1>4 DEF AsInt, r, w, h
<1>6. AsInt(n) \in Int
  BY <1>1, <1>2, <1>3
<1> DEFINE a == AsInt(n) - n
<1>7. a % w = 0
  <2>1. CASE AsInt(n) = r
    <3>1. a = w * (-q) + 0
      BY <1>1, <1>2, <2>1
    <3>2. 0 \in 0..w - 1 /\ -q \in Int /\ a \in Int
      BY <1>1, <1>2, <1>6
    <3> HIDE DEF a
    <3> QED
      BY <1>1, <3>1, <3>2, Quotient
  <2>2. CASE AsInt(n) = r - w
    <3>1. w * (-q - 1) = -(w * q) - w
      BY <1>1, <1>2
    <3>2. a = w * (-q - 1) + 0
      BY <1>1, <1>2, <2>2, <3>1
    <3>3. 0 \in 0..w - 1 /\ -q - 1 \in Int /\ a \in Int
      BY <1>1, <1>2, <1>6
    <3> HIDE DEF a
    <3> QED
      BY <1>1, <3>2, <3>3, Quotient
  <2> QED
    BY <1>3, <2>1, <2>2
<1>8. ASSUME n \in -h..h - 1 PROVE AsInt(n) = n
  <2>1. CASE n >= 0
    <3>1. r = n
      <4>1. n \in 0..w - 1 /\ n = w * 0 + n
        BY <1>1, <1>8, <2>1
      <4> QED
        BY <1>1, <4>1, Quotient DEF r
    <3>2. r < h
      BY <1>1, <1>8, <3>1
    <3> QED
      BY <1>3, <3>1, <3>2
  <2>2. CASE n < 0
    <3>1. r = n + w
      <4>1. n + w \in 0..w - 1 /\ n = w * (-1) + (n + w)
        BY <1>1, <1>8, <2>2
      <4> QED
        BY <1>1, <4>1, Quotient DEF r
    <3>2. ~(r < h)
      BY <1>1, <1>8, <2>2, <3>1
    <3> QED
      BY <1>1, <1>3, <3>1, <3>2
  <2> QED
    BY <1>1, <2>1, <2>2
<1> QED
  BY <1>5, <1>6, <1>7, <1>8 DEF r, w, h

-----------------------------------------------------------------------------
(* Messages.                                                               *)

LEMMA FrontKept ==
  ASSUME NEW s \in Seq(Int), NEW t \in Seq(Int)
  PROVE  /\ s \o t \in Seq(Int) /\ Len(s \o t) = Len(s) + Len(t)
         /\ \A i \in 1..Len(s) : (s \o t)[i] = s[i]
         /\ \A i \in 1..Len(t) : (s \o t)[Len(s) + i] = t[i]
BY ConcatProperties

LEMMA JoinedTwice ==
  ASSUME NEW s \in Seq(Int), NEW t \in Seq(Int), NEW u \in Seq(Int)
  PROVE  (s \o t) \o u = s \o (t \o u)
BY ConcatAssociative

\* Four bytes that begin at byte k are those of a number.
HasInt(b, k, n) == /\ b[k + 1] = Digit(n, 1) /\ b[k + 2] = Digit(n, Byte)
                   /\ b[k + 3] = Digit(n, TwoTo16)
                   /\ b[k + 4] = Digit(n, TwoTo16 * Byte)

LEMMA FourBytes ==
  ASSUME NEW n \in Int
  PROVE  /\ int32_to_byte(n) \in Seq(Int) /\ Len(int32_to_byte(n)) = 4
         /\ HasInt(int32_to_byte(n), 0, n)
BY DigitsSum DEF int32_to_byte, HasInt

\* The first bytes of a buffer are those of another.
Kept(b, c, k) == \A i \in 1..k : c[i] = b[i]

\* A number appended to a buffer is found behind it, and others stay.
LEMMA Appended ==
  ASSUME NEW b \in Seq(Int), NEW n \in Int, NEW k \in Nat, Len(b) = k
  PROVE  /\ b \o int32_to_byte(n) \in Seq(Int)
         /\ Len(b \o int32_to_byte(n)) = k + 4
         /\ HasInt(b \o int32_to_byte(n), k, n)
         /\ Kept(b, b \o int32_to_byte(n), k)
<1> DEFINE t == int32_to_byte(n)
<1>1. t \in Seq(Int) /\ Len(t) = 4 /\ HasInt(t, 0, n)
  BY FourBytes
<1> DEFINE c == b \o t
<1>2. /\ c \in Seq(Int) /\ Len(c) = Len(b) + Len(t)
      /\ \A i \in 1..Len(b) : c[i] = b[i]
      /\ \A i \in 1..Len(t) : c[Len(b) + i] = t[i]
  BY <1>1, FrontKept, Zenon
<1> HIDE DEF t, c
<1>3. /\ c[k + 1] = t[1] /\ c[k + 2] = t[2]
      /\ c[k + 3] = t[3] /\ c[k + 4] = t[4]
  BY <1>1, <1>2
<1>4. HasInt(c, k, n)
  BY <1>1, <1>3 DEF HasInt
<1> QED
  BY <1>1, <1>2, <1>4 DEF Kept, t, c

LEMMA LowOf ==
  ASSUME NEW b, NEW k \in Nat, NEW n \in Int, HasInt(b, k, n)
  PROVE  Low(b, k) = n % TwoTo32
BY DigitsSum DEF HasInt, Low

LEMMA IntKept ==
  ASSUME NEW b, NEW c, NEW j \in Nat, NEW k \in Nat, NEW n,
         HasInt(b, j, n), j + 4 <= k, Kept(b, c, k)
  PROVE  HasInt(c, j, n)
<1>1. /\ c[j + 1] = b[j + 1] /\ c[j + 2] = b[j + 2]
      /\ c[j + 3] = b[j + 3] /\ c[j + 4] = b[j + 4]
  BY DEF Kept
<1> QED
  BY <1>1 DEF HasInt

\* A message, of any integers.
Numbers == [hour : Int, min : Int, sec : Int, tv_sec : Int, tv_nsec : Int]

\* Where the numbers are in the buffer.
Laid(b, m) ==
  /\ HasInt(b, 0, m.hour) /\ HasInt(b, 4, m.min) /\ HasInt(b, 8, m.sec)
  /\ HasInt(b, 12, m.tv_sec) /\ HasInt(b, 16, m.tv_sec \div TwoTo32)
  /\ HasInt(b, 20, m.tv_nsec)

LEMMA LaidKept ==
  ASSUME NEW b, NEW c, NEW m, Laid(b, m), Kept(b, c, 24)
  PROVE  Laid(c, m)
BY IntKept DEF Laid

LEMMA EncodeLays ==
  ASSUME NEW m \in Numbers
  PROVE  Laid(Encode(m), m)
<1> DEFINE high == m.tv_sec \div TwoTo32
           b1 == int32_to_byte(m.hour)
           b2 == b1 \o int32_to_byte(m.min)
           b3 == b2 \o int32_to_byte(m.sec)
           b4 == b3 \o int32_to_byte(m.tv_sec)
           b5 == b4 \o int32_to_byte(high)
           b6 == b5 \o int32_to_byte(m.tv_nsec)
<1>1. /\ m.hour \in Int /\ m.min \in Int /\ m.sec \in Int /\ m.tv_sec \in Int
      /\ m.tv_nsec \in Int
  BY DEF Numbers
<1>2. high \in Int
  BY <1>1, WordOf32
<1> HIDE DEF high
<1>3. b1 \in Seq(Int) /\ Len(b1) = 4 /\ HasInt(b1, 0, m.hour)
  BY <1>1, FourBytes
<1> HIDE DEF b1
<1>4. /\ b2 \in Seq(Int) /\ Len(b2) = 8 /\ HasInt(b2, 4, m.min)
      /\ Kept(b1, b2, 4)
  <2>1. 4 \in Nat /\ 4 + 4 = 8
    OBVIOUS
  <2> QED
    BY <1>1, <1>3, <2>1, Appended, Zenon
<1> HIDE DEF b2
<1>5. /\ b3 \in Seq(Int) /\ Len(b3) = 12 /\ HasInt(b3, 8, m.sec)
      /\ Kept(b2, b3, 8)
  <2>1. 8 \in Nat /\ 8 + 4 = 12
    OBVIOUS
  <2> QED
    BY <1>1, <1>4, <2>1, Appended, Zenon
<1> HIDE DEF b3
<1>6. /\ b4 \in Seq(Int) /\ Len(b4) = 16 /\ HasInt(b4, 12, m.tv_sec)
      /\ Kept(b3, b4, 12)
  <2>1. 12 \in Nat /\ 12 + 4 = 16
    OBVIOUS
  <2> QED
    BY <1>1, <1>5, <2>1, Appended, Zenon
<1> HIDE DEF b4
<1>7. /\ b5 \in Seq(Int) /\ Len(b5) = 20 /\ HasInt(b5, 16, high)
      /\ Kept(b4, b5, 16)
  <2>1. 16 \in Nat /\ 16 + 4 = 20
    OBVIOUS
  <2> QED
    BY <1>2, <1>6, <2>1, Appended, Zenon
<1> HIDE DEF b5
<1>8. /\ b6 \in Seq(Int) /\ Len(b6) = 24 /\ HasInt(b6, 20, m.tv_nsec)
      /\ Kept(b5, b6, 20)
  <2>1. 20 \in Nat /\ 20 + 4 = 24
    OBVIOUS
  <2> QED
    BY <1>1, <1>7, <2>1, Appended, Zenon
<1> HIDE DEF b6
<1>9. Laid(b6, m)
  <2>1. HasInt(b2, 0, m.hour)
    BY <1>3, <1>4, IntKept
  <2>2. HasInt(b3, 0, m.hour) /\ HasInt(b3, 4, m.min)
    BY <1>4, <1>5, <2>1, IntKept
  <2>3. HasInt(b4, 0, m.hour) /\ HasInt(b4, 4, m.min) /\ HasInt(b4, 8, m.sec)
    BY <1>5, <1>6, <2>2, IntKept
  <2>4. /\ HasInt(b5, 0, m.hour) /\ HasInt(b5, 4, m.min) /\ HasInt(b5, 8, m.sec)
        /\ HasInt(b5, 12, m.tv_sec)
    BY <1>6, <1>7, <2>3, IntKept
  <2>5. /\ HasInt(b6, 0, m.hour) /\ HasInt(b6, 4, m.min) /\ HasInt(b6, 8, m.sec)
        /\ HasInt(b6, 12, m.tv_sec) /\ HasInt(b6, 16, high)
    BY <1>7, <1>8, <2>4, IntKept
  <2> QED
    BY <1>8, <2>5 DEF Laid, high
<1>10. Padding \in Seq(Int)
  <2>1. MessageBytes - UsedBytes = 26 /\ 26 \in Nat
    BY DEF MessageBytes, UsedBytes
  <2> QED
    BY <2>1, IsASeq DEF Padding
<1>11. Encode(m) = b6 \o Padding
  <2>1. int64_to_byte(m.tv_sec) = int32_to_byte(m.tv_sec) \o int32_to_byte(high)
    BY DEF int64_to_byte, high
  <2>2. b3 \o int64_to_byte(m.tv_sec) = b5
    <3> DEFINE low  == int32_to_byte(m.tv_sec)
               rest == int32_to_byte(high)
    <3>1. low \in Seq(Int) /\ rest \in Seq(Int)
      BY <1>1, <1>2, FourBytes
    <3>2. (b3 \o low) \o rest = b3 \o (low \o rest)
      <4>1. b3 \in Seq(Int)
        BY <1>5
      <4> HIDE DEF low, rest
      <4> QED
        BY <3>1, <4>1, JoinedTwice, Zenon
    <3> QED
      BY <2>1, <3>2, Zenon DEF b4, b5
  <2> QED
    BY <2>2, Zenon DEF Encode, b1, b2, b3, b6
<1>12. Kept(b6, Encode(m), 24)
  <2> DEFINE e == b6 \o Padding
  <2>1. \A i \in 1..Len(b6) : e[i] = b6[i]
    BY <1>8, <1>10, FrontKept, Zenon
  <2> HIDE DEF e
  <2>2. \A i \in 1..24 : e[i] = b6[i]
    BY <1>8, <2>1
  <2> QED
    BY <1>11, <2>2 DEF Kept, e
<1> QED
  BY <1>9, <1>12, LaidKept

\* For bytes of four values and more: a message of which the server has read
\* the part it looks at comes out as it was sent, the seconds if an int can
\* hold them.
LEMMA Decoded ==
  ASSUME Byte >= 4, NEW m \in Messages \union {Empty},
         NEW size \in {UsedBytes, UsedBytes + 1, MessageBytes}
  PROVE  LET got == Decode(Received(Encode(m), size))
         IN  /\ got = [m EXCEPT !.tv_sec = got.tv_sec]
             /\ (got.tv_sec - m.tv_sec) % TwoTo32 = 0
             /\ m.tv_sec \in -(TwoTo32 \div 2)..(TwoTo32 \div 2) - 1
                  => got = m
<1> DEFINE w == TwoTo32
           h == w \div 2
           b == Received(Encode(m), size)
           got == Decode(b)
           seconds == AsInt(m.tv_sec)
<1>1. w \in Nat \ {0} /\ h \in Nat /\ w = 2 * h
  BY WordOf32
<1>2. w >= 256
  <2>1. Byte * Byte >= 16
    <3>1. Byte * Byte >= 4 * Byte
      BY ByteOK
    <3> QED
      BY <3>1, ByteOK
  <2> DEFINE q == Byte * Byte
  <2>2. q \in Nat
    BY ByteOK
  <2>3. w = q * q
    BY DEF TwoTo32, TwoTo16
  <2> HIDE DEF q, w
  <2>4. q >= 16
    BY <2>1 DEF q
  <2>5. q * q >= 16 * q
    BY <2>2, <2>4
  <2> QED
    BY <2>2, <2>3, <2>4, <2>5
<1>3. /\ m \in Numbers
      /\ m.hour \in -h..h - 1 /\ m.min \in -h..h - 1 /\ m.sec \in -h..h - 1
      /\ m.tv_nsec \in 0..w - 1
  <2> HIDE DEF h, w
  <2>1. /\ 0 \in -h..h - 1 /\ 7 \in -h..h - 1 /\ 23 \in -h..h - 1
        /\ 59 \in -h..h - 1 /\ 0 \in 0..w - 1
    BY <1>1, <1>2
  <2>2. CASE m = Empty
    BY <2>1, <2>2 DEF Empty, Numbers
  <2>3. CASE m \in Messages
    <3>1. TvSecs \subseteq Int /\ TvNsecs \subseteq 0..w - 1
      BY ArgumentsOK DEF w
    <3>2. /\ m.hour \in {0, 23} /\ m.min = 59 /\ m.sec \in {0, 7}
          /\ m.tv_sec \in Int /\ m.tv_nsec \in 0..w - 1
      BY <2>3, <3>1 DEF Messages
    <3>3. m \in Numbers
      <4>1. m.hour \in Int /\ m.min \in Int /\ m.sec \in Int /\ m.tv_nsec \in Int
        BY <1>1, <3>2
      <4>2. m = [hour |-> m.hour, min |-> m.min, sec |-> m.sec,
                 tv_sec |-> m.tv_sec, tv_nsec |-> m.tv_nsec]
        BY <2>3 DEF Messages
      <4> QED
        BY <3>2, <4>1, <4>2 DEF Numbers
    <3>4. m.hour \in -h..h - 1 /\ m.min \in -h..h - 1 /\ m.sec \in -h..h - 1
      BY <2>1, <3>2
    <3> QED
      BY <3>2, <3>3, <3>4
  <2> QED
    BY <2>2, <2>3
<1>4. /\ m.hour \in Int /\ m.min \in Int /\ m.sec \in Int /\ m.tv_sec \in Int
      /\ m.tv_nsec \in Int /\ m.tv_sec \div w \in Int
      /\ m.tv_sec % w \in 0..w - 1 /\ m.tv_nsec % w = m.tv_nsec
      /\ m.tv_sec = w * (m.tv_sec \div w) + (m.tv_sec % w)
  <2>1. /\ m.hour \in Int /\ m.min \in Int /\ m.sec \in Int
        /\ m.tv_sec \in Int /\ m.tv_nsec \in Int
    BY <1>3 DEF Numbers
  <2> DEFINE v == m.tv_sec
             n == m.tv_nsec
  <2>2. v \in Int /\ n \in 0..w - 1
    BY <1>3, <2>1
  <2> HIDE DEF v, n, w
  <2>3. v \div w \in Int /\ v % w \in 0..w - 1 /\ v = w * (v \div w) + (v % w)
    BY <1>1, <2>2
  <2>4. n % w = n
    BY <1>1, <2>2
  <2> QED
    BY <2>1, <2>3, <2>4 DEF v, n
<1>5. Laid(b, m)
  <2> DEFINE e == Encode(m)
  <2>1. Laid(e, m)
    BY <1>3, EncodeLays
  <2> HIDE DEF e
  <2>2. \A i \in 1..24 : i \in 1..MessageBytes /\ i <= size
    BY DEF UsedBytes, MessageBytes
  <2>3. Kept(e, b, 24)
    BY <2>2 DEF Kept, Received, e
  <2> QED
    BY <2>1, <2>3, LaidKept
<1> HIDE DEF b, w, h
<1>6. /\ Low(b, 0) = m.hour % w /\ Low(b, 4) = m.min % w /\ Low(b, 8) = m.sec % w
      /\ Low(b, 12) = m.tv_sec % w /\ Low(b, 16) = (m.tv_sec \div w) % w
      /\ Low(b, 20) = m.tv_nsec % w
  <2>1. /\ 0 \in Nat /\ 4 \in Nat /\ 8 \in Nat /\ 12 \in Nat /\ 16 \in Nat
        /\ 20 \in Nat
    OBVIOUS
  <2> QED
    BY <1>4, <1>5, <2>1, LowOf DEF Laid, w
<1>7. /\ AsInt(m.hour % w) = m.hour /\ AsInt(m.min % w) = m.min
      /\ AsInt(m.sec % w) = m.sec
  BY <1>3, <1>4, AsIntExact DEF w, h
<1>8. AsInt(m.tv_nsec) % w = m.tv_nsec
  <2> DEFINE n == m.tv_nsec
             a == AsInt(n)
  <2>1. a = n \/ a = n - w
    BY <1>4 DEF AsInt, w
  <2>2. n \in 0..w - 1 /\ n = w * 0 + n /\ n - w = w * (-1) + n
    BY <1>1, <1>3
  <2>3. a \in Int
    BY <1>1, <2>1, <2>2
  <2> HIDE DEF n, a
  <2>4. a % w = n
    BY <1>1, <2>1, <2>2, <2>3, Quotient
  <2> QED
    BY <2>4 DEF n, a
<1>9. bytes_to_int64(b, 12) = seconds
  <2> DEFINE v == m.tv_sec % w
             u == (m.tv_sec \div w) % w
             all == v + u * w
  <2>1. v \in 0..w - 1 /\ u \in Int
    BY <1>1, <1>4
  <2>2. all \in Int /\ all = w * u + v
    BY <1>1, <2>1
  <2> HIDE DEF v, u, all
  <2>3. all % w = v
    BY <1>1, <2>1, <2>2, Quotient
  <2>4. AsInt(all) = AsInt(v)
    BY <2>2, <2>3, AsIntExact DEF w
  <2>5. AsInt(v) = seconds
    BY <1>4, AsIntExact DEF w, v
  <2>6. bytes_to_int64(b, 12) = AsInt(Low(b, 12) + Low(b, 12 + 4) * w)
    BY DEF bytes_to_int64, w
  <2>7. 12 + 4 = 16
    OBVIOUS
  <2>8. bytes_to_int64(b, 12) = AsInt(all)
    BY <1>6, <2>6, <2>7 DEF all, u, v
  <2> QED
    BY <2>4, <2>5, <2>8
<1>10. got = [hour |-> m.hour, min |-> m.min, sec |-> m.sec,
              tv_sec |-> seconds, tv_nsec |-> m.tv_nsec]
  BY <1>4, <1>6, <1>7, <1>8, <1>9, Zenon DEF Decode, bytes_to_int32, w
<1>11. /\ (seconds - m.tv_sec) % w = 0
       /\ m.tv_sec \in -h..h - 1 => seconds = m.tv_sec
  BY <1>4, AsIntExact DEF w, h
<1>12. m = [hour |-> m.hour, min |-> m.min, sec |-> m.sec,
            tv_sec |-> m.tv_sec, tv_nsec |-> m.tv_nsec]
  BY <1>3 DEF Numbers
<1> HIDE DEF got, seconds
<1>13. got.tv_sec = seconds
  BY <1>10
<1>14. got = [m EXCEPT !.tv_sec = seconds]
  BY <1>10, <1>12
<1> QED
  BY <1>10, <1>11, <1>12, <1>13, <1>14 DEF got, b, w, h

\* In every run of a message through the wire, for every byte of four values
\* and more.
THEOREM MessagesArrive ==
  ASSUME Byte >= 4
  PROVE  Spec => []MessageArrives
<1>1. ArgumentTypes => MessageArrives
  BY Decoded DEF ArgumentTypes, MessageArrives
<1> QED
  BY <1>1, ArgumentsTyped, PTL
=============================================================================
