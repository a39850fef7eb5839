--------------------------- MODULE ClockServoProofs ---------------------------
(***************************************************************************)
(* Proofs about ClockServo, for any thresholds, clamps, delays, rates,     *)
(* errors and numbers of faults: the types, where a step lands, that one   *)
(* step is enough, and when the frequency is the controller's output.      *)
(***************************************************************************)
EXTENDS ClockServo, TLAPS

LEMMA ClampBounds ==
  ASSUME NEW n \in Int, NEW most \in Nat
  PROVE  Clamp(n, most) \in -most..most
BY DEF Clamp

LEMMA CDivInt ==
  ASSUME NEW a \in Int, NEW b \in Nat \ {0}
  PROVE  CDiv(a, b) \in Int
BY DEF CDiv

LEMMA WrapIntInt ==
  ASSUME NEW n \in Int
  PROVE  WrapInt(n) \in Int
<1>1. 2 * (INT_MAX + 1) \in Nat \ {0} /\ n + INT_MAX + 1 \in Int
  BY ServoConstantsOK
<1> QED
  BY <1>1, ServoConstantsOK DEF WrapInt

LEMMA ConstantTypes ==
  /\ \A d \in Delays : d \in Int /\ d >= 0
  /\ \A s \in Skews : s \in Int
  /\ \A e \in Errors : e \in Int
  /\ GUEST_TAI \in Int /\ GUEST_TAI >= 0
  /\ Low \in Int /\ Wraps \in Nat
BY ServoConstantsOK

\* Division by the length of a second.
LEMMA DivSecond ==
  ASSUME NEW n \in Int
  PROVE  /\ n \div Second \in Int /\ n % Second \in 0..Second - 1
         /\ n = Second * (n \div Second) + (n % Second)
BY ServoConstantsOK

-----------------------------------------------------------------------------
(* Types.                                                                  *)

\* How often something may go wrong with the program that runs.
Most == MaxFaults[<<guest, period>>]

LEMMA MostInt ==
  ASSUME TypeOK
  PROVE  /\ Most \in Nat /\ period \in Nat /\ faults \in 0..Most
         /\ MayFail => faults + 1 \in 0..Most
<1>1. <<guest, period>> \in Programs /\ faults \in 0..Most
  BY DEF TypeOK, Most
<1>2. Most \in Nat /\ period \in Nat
  BY <1>1, ServoConstantsOK DEF Most
<1> QED
  BY <1>1, <1>2 DEF MayFail, Most

LEMMA ControllerTypes ==
  ASSUME TypeOK
  PROVE  /\ Integrate \in -ADJ_FREQ_MAX..ADJ_FREQ_MAX
         /\ Output \in Int
         /\ KernelFreq(WrapInt(-Output * 65)) \in -MAXFREQ..MAXFREQ
         /\ Gain(freq) \in Int
<1>1. /\ offset \in Int /\ drift \in Int /\ freq \in Int
      /\ ADJ_FREQ_MAX \in Nat /\ MAXFREQ \in Nat
  BY ServoConstantsOK DEF TypeOK
<1>2. CDiv(offset, 10) \in Int /\ CDiv(offset, 2) \in Int
  BY <1>1, CDivInt
<1>3. Integrate \in -ADJ_FREQ_MAX..ADJ_FREQ_MAX
  <2>1. drift + CDiv(offset, 10) \in Int
    BY <1>1, <1>2
  <2> QED
    BY <1>1, <2>1, ClampBounds DEF Integrate
<1>4. Output \in Int
  BY <1>1, <1>2, <1>3 DEF Output
<1>5. KernelFreq(WrapInt(-Output * 65)) \in -MAXFREQ..MAXFREQ
  <2>1. -Output * 65 \in Int
    BY <1>4
  <2>2. WrapInt(-Output * 65) \in Int
    BY <2>1, WrapIntInt
  <2> QED
    BY <1>1, <2>2, ClampBounds DEF KernelFreq
<1>6. Gain(freq) \in Int
  BY <1>1, CDivInt DEF Gain
<1> QED
  BY <1>3, <1>4, <1>5, <1>6

\* A wrap counter of the history is a number, and so is what it tears off.
LEMMA TornInt ==
  ASSUME NEW w \in 0..Wraps
  PROVE  w * Low \in Int
BY ServoConstantsOK

LEMMA TypeStep == TypeOK /\ [Next]_vars => TypeOK'
<1> SUFFICES ASSUME TypeOK, [Next]_vars PROVE TypeOK'
  OBVIOUS
<1>0. /\ MayFail => faults + 1 \in 0..Most
      /\ faults \in 0..Most
      /\ 0 \in -ADJ_FREQ_MAX..ADJ_FREQ_MAX
  BY MostInt, ServoConstantsOK
<1>1. CASE UNCHANGED vars
  BY <1>1 DEF vars, TypeOK
<1>2. CASE HostMeasure
  <2>1. torn' \in 0..Wraps /\ faults' \in 0..Most
    BY <1>0, <1>2, ServoConstantsOK DEF HostMeasure, fixed
  <2>2. err \in Int /\ torn' * Low \in Int /\ offset' = err - torn' * Low
    BY <1>2, <2>1, TornInt DEF HostMeasure, TypeOK, fixed
  <2>3. offset' \in Int
    BY <2>2
  <2>4. landed' \in BOOLEAN
    BY <1>2 DEF HostMeasure, TypeOK, fixed
  <2> QED
    BY <1>2, <2>1, <2>3, <2>4 DEF HostMeasure, TypeOK, Labels, fixed, Most
<1>3. CASE GuestReadSystem
  BY <1>3 DEF GuestReadSystem, TypeOK, Labels, fixed, Most
<1>4. CASE GuestReadCard
  BY <1>4, ConstantTypes DEF GuestReadCard, TypeOK, Labels, fixed, Most
<1>5. CASE BeginStep
  BY <1>5 DEF BeginStep, TypeOK, Labels, fixed, Most
<1>6. CASE ReadB
  BY <1>6, ConstantTypes DEF ReadB, TypeOK, Labels, fixed, Most
<1>7. CASE ReadD
  BY <1>7 DEF ReadD, TypeOK, Labels, fixed, Most
<1>8. CASE SetTime
  <2>1. err' \in Int
    BY <1>8, ConstantTypes DEF SetTime, TypeOK, fixed
  <2>2. faults' \in 0..Most
    BY <1>0, <1>8 DEF SetTime, TypeOK, fixed
  <2>3. landed' \in BOOLEAN
    BY <1>8 DEF SetTime, TypeOK, fixed
  <2> QED
    BY <1>8, <2>1, <2>2, <2>3 DEF SetTime, TypeOK, Labels, fixed, Most
<1>9. CASE Slew
  <2>1. freq' \in -MAXFREQ..MAXFREQ
    BY <1>9, ControllerTypes DEF Slew, TypeOK, fixed
  <2>2. drift' \in -ADJ_FREQ_MAX..ADJ_FREQ_MAX
    BY <1>9, ControllerTypes DEF Slew, fixed
  <2>3. faults' \in 0..Most
    BY <1>0, <1>9 DEF Slew, TypeOK, fixed
  <2> QED
    BY <1>9, <2>1, <2>2, <2>3 DEF Slew, TypeOK, Labels, fixed, Most
<1>10. CASE Sleep
  <2>1. Gained(freq) \in Int
    <3>1. Gain(freq) \in Int /\ skew \in Int /\ frac \in Int /\ period \in Int
      BY MostInt, ControllerTypes, ConstantTypes DEF TypeOK
    <3> QED
      BY <3>1 DEF Gained
  <2>2. err' \in Int /\ frac' \in 0..Second - 1
    BY <1>10, <2>1, DivSecond DEF Sleep, TypeOK
  <2> QED
    BY <1>10, <2>2 DEF Sleep, TypeOK, Labels, fixed, Most
<1>11. CASE Jump
  <2>1. err' \in Int /\ faults' \in 0..Most
    BY <1>0, <1>11, ConstantTypes DEF Jump, fixed
  <2> QED
    BY <1>11, <2>1 DEF Jump, TypeOK, fixed, Most
<1>12. CASE Restart
  <2>1. drift' \in -ADJ_FREQ_MAX..ADJ_FREQ_MAX
    BY <1>0, <1>12 DEF Restart, fixed
  <2>2. offset' \in Int /\ tA' \in Int /\ gap' \in Int /\ pc' \in Labels
    BY <1>12 DEF Restart, Labels, fixed
  <2>3. faults' \in 0..Most /\ torn' \in 0..Wraps
    BY <1>0, <1>12, ServoConstantsOK DEF Restart, fixed
  <2>4. landed' \in BOOLEAN
    BY <1>12 DEF Restart, fixed
  <2> QED
    BY <1>12, <2>1, <2>2, <2>3, <2>4 DEF Restart, TypeOK, fixed, Most
<1> QED
  BY <1>1, <1>2, <1>3, <1>4, <1>5, <1>6, <1>7, <1>8, <1>9, <1>10, <1>11,
     <1>12 DEF Next, Round

LEMMA InitTypes == Init => TypeOK
<1> SUFFICES ASSUME Init PROVE TypeOK
  OBVIOUS
<1>1. drift \in -ADJ_FREQ_MAX..ADJ_FREQ_MAX
  BY ServoConstantsOK DEF Init
<1>2. freq \in -MAXFREQ..MAXFREQ
  BY ServoConstantsOK DEF Init
<1>3. /\ <<guest, period>> \in Programs
      /\ faults \in 0..MaxFaults[<<guest, period>>]
  <2>1. PICK p \in Programs : guest = p[1] /\ period = p[2]
    BY DEF Init
  <2>2. <<guest, period>> = p
    BY <2>1, ServoConstantsOK
  <2> QED
    BY <2>1, <2>2, ServoConstantsOK DEF Init
<1>4. err \in Int /\ offset \in Int /\ tA \in Int /\ gap \in Int
  BY ConstantTypes DEF Init
<1>5. landed \in BOOLEAN /\ disturbed \in BOOLEAN
  BY DEF Init
<1>6. torn \in 0..Wraps /\ frac \in 0..Second - 1
  BY ServoConstantsOK DEF Init
<1> QED
  BY <1>1, <1>2, <1>3, <1>4, <1>5, <1>6 DEF Init, TypeOK, Labels

\* The variables keep their types; observed_drift stays within its clamp and
\* the frequency within the kernel's.
THEOREM TypeCorrect == Spec => []TypeOK
BY InitTypes, TypeStep, PTL DEF Spec

-----------------------------------------------------------------------------
(* Where a step lands.                                                     *)

\* What offset may be when the clock is err ahead and nothing disturbed it.
Measured(o, e) ==
  IF guest THEN \E d \in Delays : o = e - d + GUEST_TAI
           ELSE o = e - torn * Low

\* Only the host reads the card's registers.
GuestWhole == guest => torn = 0

\* The readings of an undisturbed round mean what they are taken for.
ReadingsOK ==
  ~disturbed =>
    /\ pc = "hypercall" => guest /\ tA = err
    /\ pc \in {"decide", "readB", "readD", "set"} => Measured(offset, err)
    /\ pc = "readB" => tA = err
    /\ pc \in {"readD", "set"} => gap \in Delays
    /\ pc = "set" => tA = err - offset + gap

LandInv == TypeOK /\ GuestWhole /\ ReadingsOK /\ StepLands

LEMMA WholeStep == GuestWhole /\ [Next]_vars => GuestWhole'
BY DEF GuestWhole, Next, Round, vars, HostMeasure, GuestReadSystem,
       GuestReadCard, BeginStep, ReadB, ReadD, SetTime, Slew, Sleep, Jump,
       Restart, fixed

\* Where an undisturbed step lands, of an offset that may be torn.
LEMMA SetLandsTorn ==
  ASSUME LandInv, SetTime, landed'
  PROVE  err' - torn * Low \in Landing
<1>0. TypeOK /\ GuestWhole /\ ReadingsOK /\ pc = "set"
  BY DEF LandInv, SetTime, fixed
<1>1. ~disturbed
  BY DEF SetTime, fixed
<1>2. PICK l \in Delays : err' = tA - l
  BY DEF SetTime, fixed
<1>3. gap \in Delays /\ tA = err - offset + gap /\ Measured(offset, err)
  BY <1>0, <1>1 DEF ReadingsOK
<1>4. /\ err \in Int /\ offset \in Int /\ l \in Int /\ gap \in Int
      /\ GUEST_TAI \in Int /\ torn * Low \in Int
  BY <1>0, ConstantTypes, TornInt DEF TypeOK
<1>5. CASE guest
  <2>1. PICK d \in Delays : offset = err - d + GUEST_TAI
    BY <1>3, <1>5 DEF Measured
  <2>2. err' = d + gap - l - GUEST_TAI
    BY <1>2, <1>3, <1>4, <2>1, ConstantTypes
  <2>3. torn = 0 /\ 0 * Low = 0
    BY <1>0, <1>5, ConstantTypes DEF GuestWhole
  <2>4. err' - torn * Low = d + gap - l - GUEST_TAI
    BY <1>3, <1>4, <2>2, <2>3, ConstantTypes
  <2> QED
    BY <1>3, <1>5, <2>4 DEF Landing
<1>6. CASE ~guest
  <2>1. err' - torn * Low = gap - l
    BY <1>2, <1>3, <1>4, <1>6 DEF Measured
  <2> QED
    BY <1>3, <1>6, <2>1 DEF Landing
<1> QED
  BY <1>5, <1>6

\* The same of an offset that is not.
LEMMA SetLands ==
  ASSUME LandInv, SetTime, landed', torn = 0
  PROVE  err' \in Landing
<1>1. err' - 0 * Low \in Landing /\ err' \in Int
  BY SetLandsTorn, TypeStep DEF LandInv, TypeOK, Next, Round
<1> QED
  BY <1>1, ConstantTypes

LEMMA LandStep == LandInv /\ [Next]_vars => LandInv'
<1> SUFFICES ASSUME LandInv, [Next]_vars PROVE ReadingsOK' /\ StepLands'
  BY TypeStep, WholeStep DEF LandInv
<1>0. TypeOK /\ GuestWhole /\ ReadingsOK /\ StepLands
  BY DEF LandInv
<1>1. CASE UNCHANGED vars
  BY <1>0, <1>1 DEF vars, ReadingsOK, StepLands, Measured, Landing, Large,
                    AbsVal
<1>2. CASE HostMeasure
  BY <1>0, <1>2 DEF HostMeasure, ReadingsOK, StepLands, Measured, fixed
<1>3. CASE GuestReadSystem
  BY <1>0, <1>3 DEF GuestReadSystem, ReadingsOK, StepLands, fixed
<1>4. CASE GuestReadCard
  BY <1>0, <1>4 DEF GuestReadCard, ReadingsOK, StepLands, Measured, fixed
<1>5. CASE BeginStep
  BY <1>0, <1>5 DEF BeginStep, ReadingsOK, StepLands, Measured, fixed
<1>6. CASE ReadB
  <2>1. pc = "readB" /\ pc' = "readD"
    BY <1>6 DEF ReadB, fixed
  <2>2. ASSUME ~disturbed PROVE gap' \in Delays
    <3>1. tA = err
      BY <1>0, <2>1, <2>2 DEF ReadingsOK
    <3>2. PICK d \in Delays : gap' = err - (tA - d)
      BY <1>6 DEF ReadB, fixed
    <3>3. gap' = d
      BY <1>0, <3>1, <3>2, ConstantTypes DEF TypeOK
    <3> QED
      BY <3>3
  <2> QED
    BY <1>0, <1>6, <2>1, <2>2 DEF ReadB, ReadingsOK, StepLands, Measured, fixed
<1>7. CASE ReadD
  BY <1>0, <1>7 DEF ReadD, ReadingsOK, StepLands, Measured, fixed
<1>8. CASE SetTime
  <2>1. pc = "set" /\ pc' = "sleep"
    BY <1>8 DEF SetTime, fixed
  <2>2. landed' => err' - torn * Low \in Landing
    BY <1>8, SetLandsTorn
  <2>3. torn' = torn /\ guest' = guest
    BY <1>8 DEF SetTime, fixed
  <2> QED
    BY <2>1, <2>2, <2>3 DEF ReadingsOK, StepLands, Landing
<1>9. CASE Slew
  BY <1>9 DEF Slew, ReadingsOK, StepLands, Large, AbsVal, fixed
<1>10. CASE Sleep
  BY <1>10 DEF Sleep, ReadingsOK, StepLands, fixed
<1>11. CASE Jump
  BY <1>11 DEF Jump, ReadingsOK, StepLands, fixed
<1>12. CASE Restart
  BY <1>12 DEF Restart, ReadingsOK, StepLands, fixed
<1> QED
  BY <1>1, <1>2, <1>3, <1>4, <1>5, <1>6, <1>7, <1>8, <1>9, <1>10, <1>11,
     <1>12 DEF Next, Round

\* However far the clock is off, a step that nothing disturbs leaves it
\* within the delays between the statements of update_clock(), and of the
\* guest's two readings and its 35 nanoseconds; a torn reading adds exactly
\* the wraps that tore it.
THEOREM StepsLand == Spec => []StepLands
<1>1. Init => LandInv
  BY InitTypes DEF Init, LandInv, GuestWhole, ReadingsOK, StepLands
<1>2. LandInv => StepLands
  BY DEF LandInv
<1> QED
  BY <1>1, <1>2, LandStep, PTL DEF Spec

-----------------------------------------------------------------------------
(* What the frequency does.                                                *)

\* An int keeps what fits it.
LEMMA WrapFits ==
  ASSUME NEW n \in -INT_MAX..INT_MAX
  PROVE  WrapInt(n) = n
<1>1. INT_MAX \in Nat /\ n \in Int
  BY ServoConstantsOK
<1>2. n + INT_MAX + 1 \in 0..2 * (INT_MAX + 1) - 1
  BY <1>1
<1>3. (n + INT_MAX + 1) % (2 * (INT_MAX + 1)) = n + INT_MAX + 1
  BY <1>1, <1>2
<1> QED
  BY <1>1, <1>3 DEF WrapInt

\* Half of an offset, as C divides, is at most half of its bound.
LEMMA HalfBounds ==
  ASSUME NEW o \in Int, NEW most \in Nat, AbsVal(o) <= most
  PROVE  CDiv(o, 2) \in -(most \div 2)..(most \div 2)
BY DEF CDiv, AbsVal

\* The output for a bounded offset is bounded, and passes the int when 65
\* times that bound does.
LEMMA OutputFits ==
  ASSUME TypeOK, NEW most \in Nat, AbsVal(offset) <= most,
         (most \div 2 + ADJ_FREQ_MAX) * 65 <= INT_MAX
  PROVE  WrapInt(-Output * 65) = -Output * 65
<1> DEFINE half == most \div 2
<1>1. /\ half \in Nat /\ CDiv(offset, 2) \in -half..half
  BY HalfBounds DEF TypeOK
<1>2. /\ Integrate \in -ADJ_FREQ_MAX..ADJ_FREQ_MAX /\ Output \in Int
      /\ ADJ_FREQ_MAX \in Nat /\ INT_MAX \in Nat
  BY ControllerTypes, ServoConstantsOK
<1> HIDE DEF half
<1>3. Output \in -(half + ADJ_FREQ_MAX)..(half + ADJ_FREQ_MAX)
  BY <1>1, <1>2 DEF Output
<1>4. -Output * 65 \in -INT_MAX..INT_MAX
  BY <1>1, <1>2, <1>3 DEF half
<1> QED
  BY <1>4, WrapFits

\* What the kernel can add to the clock's rate.
LEMMA GainBounds ==
  /\ Gain(MAXFREQ) \in Nat /\ Gain(-MAXFREQ) = -Gain(MAXFREQ)
  /\ \A f \in -MAXFREQ..MAXFREQ :
       Gain(f) \in -Gain(MAXFREQ)..Gain(MAXFREQ)
<1>1. MAXFREQ \in Nat
  BY ServoConstantsOK
<1>2. Gain(MAXFREQ) = (MAXFREQ * 125) \div 8192 /\ Gain(MAXFREQ) \in Nat
  BY <1>1 DEF Gain, CDiv
<1>3. Gain(-MAXFREQ) = -Gain(MAXFREQ)
  BY <1>1 DEF Gain, CDiv
<1>4. ASSUME NEW f \in -MAXFREQ..MAXFREQ
      PROVE  Gain(f) \in -Gain(MAXFREQ)..Gain(MAXFREQ)
  BY <1>1, <1>4 DEF Gain, CDiv
<1> QED
  BY <1>2, <1>3, <1>4

\* A clock off by Turn or more gets the whole correction, against its offset:
\* the integrator cannot outweigh the proportional part there.
LEMMA FullCorrection ==
  ASSUME TypeOK
  PROVE  /\ offset >= Turn => KernelFreq(-Output * 65) = -MAXFREQ
         /\ offset <= -Turn => KernelFreq(-Output * 65) = MAXFREQ
<1>1. /\ offset \in Int /\ MAXFREQ \in Nat /\ ADJ_FREQ_MAX \in Nat
      /\ Integrate \in -ADJ_FREQ_MAX..ADJ_FREQ_MAX /\ Output \in Int
  BY ControllerTypes, ServoConstantsOK DEF TypeOK
<1>2. Fast \in Nat /\ Fast * 65 > MAXFREQ
  BY <1>1 DEF Fast
<1>3. ASSUME offset >= Turn PROVE KernelFreq(-Output * 65) = -MAXFREQ
  <2>1. CDiv(offset, 2) >= ADJ_FREQ_MAX + Fast /\ CDiv(offset, 2) \in Int
    BY <1>1, <1>2, <1>3 DEF Turn, CDiv
  <2>2. Output >= Fast
    BY <1>1, <1>2, <2>1 DEF Output
  <2>3. -Output * 65 < -MAXFREQ
    BY <1>1, <1>2, <2>2
  <2> QED
    BY <1>1, <2>3 DEF KernelFreq, Clamp
<1>4. ASSUME offset <= -Turn PROVE KernelFreq(-Output * 65) = MAXFREQ
  <2>1. CDiv(offset, 2) <= -(ADJ_FREQ_MAX + Fast) /\ CDiv(offset, 2) \in Int
    BY <1>1, <1>2, <1>4 DEF Turn, CDiv
  <2>2. Output <= -Fast
    BY <1>1, <1>2, <2>1 DEF Output
  <2>3. -Output * 65 > MAXFREQ
    BY <1>1, <1>2, <2>2
  <2> QED
    BY <1>1, <2>3 DEF KernelFreq, Clamp
<1> QED
  BY <1>3, <1>4

\* By how much a reading of the clock's error changes over a period.
Ran(f) == Gained(f) \div Second

\* A gain of a period's bound, and less than a nanosecond left from before,
\* move a reading by no more than the bound in nanoseconds, rounded up.
LEMMA DivBounds ==
  ASSUME NEW A \in Nat, NEW n \in Int, -A <= n, n <= A + Second - 1
  PROVE  n \div Second \in -(A \div Second + 1)..(A \div Second + 1)
<1> DEFINE q == n \div Second
           Q == A \div Second
<1>1. /\ q \in Int /\ n % Second \in 0..Second - 1
      /\ n = Second * q + (n % Second)
  BY DivSecond
<1>2. /\ Q \in Int /\ A % Second \in 0..Second - 1
      /\ A = Second * Q + (A % Second)
  BY DivSecond
<1> HIDE DEF q, Q
<1>3. Second \in Nat /\ Second > 0
  BY ServoConstantsOK
<1>4. \A x, y \in Int : Second * x < Second * y => x < y
  BY <1>3
<1>5. /\ Second * q < Second * (Q + 2)
      /\ Second * (-(Q + 2)) < Second * q
  <2>1. /\ Second * (Q + 2) = Second * Q + 2 * Second
        /\ Second * (-(Q + 2)) = -(Second * Q) - 2 * Second
    BY <1>2, <1>3
  <2> QED
    BY <1>1, <1>2, <1>3, <2>1
<1>6. q < Q + 2 /\ -(Q + 2) < q
  BY <1>1, <1>2, <1>4, <1>5
<1> QED
  BY <1>1, <1>2, <1>6 DEF q, Q

\* A gain that is not positive does not move a reading up, and one that is
\* not negative does not move it down.
LEMMA DivSigns ==
  ASSUME NEW n \in Int
  PROVE  /\ n <= Second - 1 => n \div Second <= 0
         /\ n >= 0 => n \div Second >= 0
<1> DEFINE q == n \div Second
<1>1. /\ q \in Int /\ n % Second \in 0..Second - 1
      /\ n = Second * q + (n % Second)
  BY DivSecond
<1> HIDE DEF q
<1>2. Second \in Nat /\ Second > 0
  BY ServoConstantsOK
<1>3. \A x, y \in Int : Second * x < Second * y => x < y
  BY <1>2
<1>4. Second * 1 = Second /\ Second * (-1) = -Second
  BY <1>2
<1>5. n <= Second - 1 => q < 1
  BY <1>1, <1>2, <1>3, <1>4
<1>6. n >= 0 => -1 < q
  BY <1>1, <1>2, <1>3, <1>4
<1> QED
  BY <1>1, <1>5, <1>6 DEF q

\* In a period the clock runs away by at most Run, whatever its frequency,
\* and never away from the card when the whole correction is against it.
LEMMA RunBounds ==
  ASSUME NEW M \in Nat, NEW S \in Nat, NEW L \in Nat,
         KeepsNear(M, S, L), TypeOK
  PROVE  /\ Run(S, L) \in Nat
         /\ \A f \in -MAXFREQ..MAXFREQ : Ran(f) \in -Run(S, L)..Run(S, L)
         /\ Ran(-MAXFREQ) \in -Run(S, L)..0
         /\ Ran(MAXFREQ) \in 0..Run(S, L)
<1> DEFINE G == Gain(MAXFREQ)
           A == (S + G) * L
<1>1. /\ skew \in -S..S /\ S <= G /\ G \in Nat
      /\ period \in Nat /\ period <= L
      /\ frac \in 0..Second - 1 /\ Second \in Nat /\ Second > 0
  <2>1. skew \in Skews /\ <<guest, period>> \in Programs
    BY DEF TypeOK
  <2>2. period <= L
    BY <2>1 DEF KeepsNear
  <2> QED
    BY <2>1, <2>2, MostInt, ConstantTypes, GainBounds, ServoConstantsOK
    DEF KeepsNear, AbsVal, TypeOK
<1> HIDE DEF G
<1>2. A \in Nat
  BY <1>1
<1>3. Run(S, L) = A \div Second + 1 /\ Run(S, L) \in Nat
  BY <1>1, <1>2 DEF Run, G
<1>4. ASSUME NEW n \in -(S + G)..(S + G)
      PROVE  /\ n * period \in Int /\ n * period >= -A /\ n * period <= A
             /\ n <= 0 => n * period <= 0
             /\ n >= 0 => n * period >= 0
  <2>1. /\ (S + G) * period <= A /\ (S + G) * period \in Int
        /\ (-(S + G)) * period = -((S + G) * period)
    BY <1>1
  <2>2. n * period <= (S + G) * period /\ (-(S + G)) * period <= n * period
    BY <1>1, <1>4
  <2>3. n * period \in Int
    BY <1>1, <1>4
  <2>4. (n <= 0 => n * period <= 0) /\ (n >= 0 => n * period >= 0)
    BY <1>1, <1>4
  <2> HIDE DEF A
  <2> QED
    BY <1>2, <2>1, <2>2, <2>3, <2>4
<1> HIDE DEF A
<1>5. ASSUME NEW f \in -MAXFREQ..MAXFREQ
      PROVE  /\ skew + Gain(f) \in -(S + G)..(S + G)
             /\ Gained(f) = frac + (skew + Gain(f)) * period
             /\ Gained(f) \in Int
             /\ -A <= Gained(f) /\ Gained(f) <= A + Second - 1
  <2>1. skew + Gain(f) \in -(S + G)..(S + G)
    BY <1>1, <1>5, GainBounds DEF G
  <2>2. /\ (skew + Gain(f)) * period \in Int
        /\ (skew + Gain(f)) * period >= -A
        /\ (skew + Gain(f)) * period <= A
    BY <1>4, <2>1
  <2>3. Gained(f) = frac + (skew + Gain(f)) * period
    BY DEF Gained
  <2> QED
    BY <1>1, <1>2, <2>1, <2>2, <2>3
<1>6. ASSUME NEW f \in -MAXFREQ..MAXFREQ
      PROVE  Ran(f) \in -Run(S, L)..Run(S, L)
  BY <1>2, <1>3, <1>5, <1>6, DivBounds DEF Ran
<1>7. MAXFREQ \in Nat /\ -MAXFREQ \in -MAXFREQ..MAXFREQ
      /\ MAXFREQ \in -MAXFREQ..MAXFREQ
  BY ServoConstantsOK
<1>8. Ran(-MAXFREQ) <= 0
  <2>1. skew + Gain(-MAXFREQ) <= 0
    BY <1>1, GainBounds DEF G
  <2>2. (skew + Gain(-MAXFREQ)) * period <= 0
    BY <1>4, <1>5, <1>7, <2>1
  <2>3. Gained(-MAXFREQ) <= Second - 1 /\ Gained(-MAXFREQ) \in Int
    BY <1>1, <1>5, <1>7, <2>2, <1>4
  <2> QED
    BY <2>3, DivSigns DEF Ran
<1>9. Ran(MAXFREQ) >= 0
  <2>1. skew + Gain(MAXFREQ) >= 0
    BY <1>1, GainBounds DEF G
  <2>2. (skew + Gain(MAXFREQ)) * period >= 0
    BY <1>4, <1>5, <1>7, <2>1
  <2>3. Gained(MAXFREQ) >= 0 /\ Gained(MAXFREQ) \in Int
    BY <1>1, <1>5, <1>7, <2>2, <1>4
  <2> QED
    BY <2>3, DivSigns DEF Ran
<1> QED
  BY <1>3, <1>6, <1>7, <1>8, <1>9

-----------------------------------------------------------------------------
(* One step is enough.                                                     *)

\* While landed: where the clock is before it is read, what is read, and
\* where the clock will be after the period that begins.  A torn step is far
\* off, but then the next reading is not landed any more.
StaysNear(M, S, L) ==
  landed =>
    /\ pc = "measure" /\ torn = 0 => AbsVal(err) <= Reach(M, S, L)
    /\ pc \in {"hypercall", "decide"} =>
         torn = 0 /\ ~disturbed /\ AbsVal(err) <= Reach(M, S, L)
    /\ pc = "sleep" /\ torn = 0 =>
         AbsVal(err + Ran(freq)) <= Reach(M, S, L)
    /\ pc \notin {"readB", "readD", "set"}

NearInv(M, S, L) == LandInv /\ StaysNear(M, S, L)

LEMMA ReachTypes ==
  ASSUME NEW M \in Nat, NEW S \in Nat, NEW L \in Nat,
         KeepsNear(M, S, L)
  PROVE  /\ Turn \in Nat /\ Run(S, L) \in Nat /\ Reach(M, S, L) \in Nat
         /\ Seen(M, S, L) \in Nat
         /\ Reach(M, S, L) = Turn + 2 * M + GUEST_TAI + Run(S, L)
         /\ Seen(M, S, L) = Reach(M, S, L) + M + GUEST_TAI
         /\ GUEST_TAI \in Nat /\ THRESHOLD \in Nat
<1>1. /\ MAXFREQ \in Nat /\ ADJ_FREQ_MAX \in Nat /\ GUEST_TAI \in Nat
      /\ THRESHOLD \in Nat /\ Gain(MAXFREQ) \in Nat
  BY ServoConstantsOK, GainBounds
<1>2. Fast \in Nat
  BY <1>1 DEF Fast
<1>3. Turn \in Nat
  BY <1>1, <1>2 DEF Turn
<1>4. Run(S, L) \in Nat
  <2>1. (S + Gain(MAXFREQ)) * L \in Nat
    BY <1>1
  <2> QED
    BY <2>1, ServoConstantsOK DEF Run
<1> QED
  BY <1>1, <1>3, <1>4 DEF Reach, Seen

LEMMA LandingNear ==
  ASSUME NEW M \in Nat, NEW S \in Nat, NEW L \in Nat,
         KeepsNear(M, S, L), NEW e \in Landing
  PROVE  e \in Int /\ AbsVal(e) <= 2 * M + GUEST_TAI
<1>1. \A d \in Delays : d \in Int /\ d >= 0 /\ d <= M
  BY ConstantTypes DEF KeepsNear
<1>2. GUEST_TAI \in Int /\ GUEST_TAI >= 0
  BY ConstantTypes
<1>3. CASE guest
  <2>1. PICK d, g, l \in Delays : e = d + g - l - GUEST_TAI
    BY <1>3 DEF Landing
  <2> QED
    BY <1>1, <1>2, <2>1 DEF AbsVal
<1>4. CASE ~guest
  <2>1. PICK g, l \in Delays : e = g - l
    BY <1>4 DEF Landing
  <2> QED
    BY <1>1, <1>2, <2>1 DEF AbsVal
<1> QED
  BY <1>3, <1>4

\* What is measured of a clock that is near differs from its error by no more
\* than the delays and the guest's 35.
LEMMA MeasuredNear ==
  ASSUME NEW M \in Nat, NEW S \in Nat, NEW L \in Nat,
         KeepsNear(M, S, L), NearInv(M, S, L),
         landed, pc = "decide"
  PROVE  /\ offset \in Int /\ err \in Int /\ AbsVal(err) <= Reach(M, S, L)
         /\ AbsVal(offset - err) <= M + GUEST_TAI
         /\ AbsVal(offset) <= Seen(M, S, L)
<1>1. /\ offset \in Int /\ err \in Int /\ torn = 0 /\ Measured(offset, err)
      /\ AbsVal(err) <= Reach(M, S, L)
  BY DEF NearInv, LandInv, TypeOK, ReadingsOK, StaysNear
<1>2. AbsVal(offset - err) <= M + GUEST_TAI
  <2>1. CASE guest
    <3>1. PICK d \in Delays : offset = err - d + GUEST_TAI
      BY <1>1, <2>1 DEF Measured
    <3>2. d \in Int /\ d >= 0 /\ d <= M
      BY ConstantTypes DEF KeepsNear
    <3> QED
      BY <1>1, <3>1, <3>2, ConstantTypes DEF AbsVal
  <2>2. CASE ~guest
    <3>1. offset = err - 0 * Low
      BY <1>1, <2>2 DEF Measured
    <3>2. offset = err
      BY <1>1, <3>1, ConstantTypes
    <3> QED
      BY <1>1, <3>2, ConstantTypes DEF AbsVal
  <2> QED
    BY <2>1, <2>2
<1> QED
  BY <1>1, <1>2, ReachTypes DEF AbsVal

\* A slew leaves the clock where the period that follows keeps it within
\* Reach: beyond Turn the whole correction is against the offset, and below
\* it no frequency gets the clock further than a period's run.
LEMMA SlewNear ==
  ASSUME NEW M \in Nat, NEW S \in Nat, NEW L \in Nat,
         KeepsNear(M, S, L), NearInv(M, S, L),
         Slew, landed'
  PROVE  AbsVal(err + Ran(freq')) <= Reach(M, S, L)
<1>1. /\ TypeOK /\ landed /\ pc = "decide"
      /\ freq' = KernelFreq(WrapInt(-Output * 65))
  BY DEF Slew, NearInv, LandInv, fixed
<1>2. /\ offset \in Int /\ err \in Int /\ AbsVal(err) <= Reach(M, S, L)
      /\ AbsVal(offset - err) <= M + GUEST_TAI
      /\ AbsVal(offset) <= Seen(M, S, L)
  BY <1>1, MeasuredNear
<1>3. freq' = KernelFreq(-Output * 65)
  BY <1>1, <1>2, OutputFits, ReachTypes DEF KeepsNear
<1> DEFINE run == Ran(freq')
<1>4. freq' \in -MAXFREQ..MAXFREQ
  BY <1>1, ControllerTypes
<1>5. run \in -Run(S, L)..Run(S, L) /\ run \in Int
  <2>1. PICK r \in -Run(S, L)..Run(S, L) : r = run
    BY <1>1, <1>4, RunBounds
  <2> HIDE DEF run
  <2> QED
    BY <2>1, ReachTypes
<1>6. offset >= Turn => run <= 0
  <2>1. offset >= Turn => freq' = -MAXFREQ
    BY <1>1, <1>3, FullCorrection
  <2>2. Ran(-MAXFREQ) <= 0
    BY <1>1, RunBounds, ReachTypes
  <2> QED
    BY <2>1, <2>2
<1>7. offset <= -Turn => run >= 0
  <2>1. offset <= -Turn => freq' = MAXFREQ
    BY <1>1, <1>3, FullCorrection
  <2>2. Ran(MAXFREQ) >= 0
    BY <1>1, RunBounds, ReachTypes
  <2> QED
    BY <2>1, <2>2
<1> HIDE DEF run
<1>8. AbsVal(err + run) <= Reach(M, S, L)
  <2>1. CASE offset >= Turn
    BY <1>2, <1>5, <1>6, <2>1, ReachTypes DEF AbsVal
  <2>2. CASE offset <= -Turn
    BY <1>2, <1>5, <1>7, <2>2, ReachTypes DEF AbsVal
  <2>3. CASE offset > -Turn /\ offset < Turn
    BY <1>2, <1>5, <2>3, ReachTypes DEF AbsVal
  <2> QED
    BY <1>2, <2>1, <2>2, <2>3, ReachTypes
<1> QED
  BY <1>8 DEF run

LEMMA NearStep ==
  ASSUME NEW M \in Nat, NEW S \in Nat, NEW L \in Nat,
         KeepsNear(M, S, L)
  PROVE  NearInv(M, S, L) /\ [Next]_vars => NearInv(M, S, L)'
<1> SUFFICES ASSUME NearInv(M, S, L), [Next]_vars PROVE StaysNear(M, S, L)'
  BY LandStep DEF NearInv
<1>0. LandInv /\ TypeOK /\ GuestWhole /\ ReadingsOK /\ StaysNear(M, S, L)
  BY DEF NearInv, LandInv
<1>1. CASE UNCHANGED vars
  BY <1>0, <1>1 DEF vars, StaysNear, Ran, Gained
<1>2. CASE HostMeasure
  BY <1>0, <1>2 DEF HostMeasure, StaysNear, fixed
<1>3. CASE GuestReadSystem
  BY <1>0, <1>3 DEF GuestReadSystem, StaysNear, GuestWhole, fixed
<1>4. CASE GuestReadCard
  BY <1>0, <1>4 DEF GuestReadCard, StaysNear, fixed
<1>5. CASE BeginStep
  <2>1. ~landed
    <3>1. offset \in Int /\ AbsVal(offset) > THRESHOLD /\ pc = "decide"
      BY <1>0, <1>5 DEF BeginStep, Large, TypeOK, fixed
    <3>2. AbsVal(offset) \in Int
      BY <3>1 DEF AbsVal
    <3>3. landed => AbsVal(offset) <= Seen(M, S, L)
      BY <3>1, MeasuredNear
    <3>4. Seen(M, S, L) <= THRESHOLD
      BY DEF KeepsNear
    <3>5. Seen(M, S, L) \in Int /\ THRESHOLD \in Int
      BY ReachTypes
    <3> QED
      BY <3>1, <3>2, <3>3, <3>4, <3>5
  <2> QED
    BY <1>5, <2>1 DEF BeginStep, StaysNear, fixed
<1>6. CASE ReadB
  BY <1>0, <1>6 DEF ReadB, StaysNear, fixed
<1>7. CASE ReadD
  BY <1>0, <1>7 DEF ReadD, StaysNear, fixed
<1>8. CASE SetTime
  <2>1. ASSUME landed', torn = 0
        PROVE  AbsVal(err' + Ran(freq)) <= Reach(M, S, L)
    <3>1. err' \in Landing
      BY <1>8, <2>1, SetLands DEF NearInv
    <3>2. PICK e \in Landing : e = err'
      BY <3>1
    <3>3. e \in Int /\ AbsVal(e) <= 2 * M + GUEST_TAI
      BY LandingNear
    <3>4. Ran(freq) \in -Run(S, L)..Run(S, L)
      BY <1>0, RunBounds DEF TypeOK
    <3>5. PICK r \in -Run(S, L)..Run(S, L) : r = Ran(freq)
      BY <3>4
    <3>6. AbsVal(e + r) <= Reach(M, S, L)
      BY <3>3, ReachTypes DEF AbsVal
    <3> QED
      BY <3>2, <3>5, <3>6
  <2> QED
    <3>1. Ran(freq)' = Ran(freq)
      BY <1>8 DEF SetTime, Ran, Gained, fixed
    <3> QED
      BY <1>8, <2>1, <3>1 DEF SetTime, StaysNear, fixed
<1>9. CASE Slew
  <2>1. Ran(freq)' = Ran(freq')
    BY <1>9 DEF Slew, Ran, Gained, fixed
  <2>2. landed' => AbsVal(err + Ran(freq')) <= Reach(M, S, L)
    BY <1>9, SlewNear
  <2> QED
    BY <1>0, <1>9, <2>1, <2>2 DEF Slew, StaysNear, fixed
<1>10. CASE Sleep
  <2>1. err' = err + Ran(freq)
    BY <1>10 DEF Sleep, Ran
  <2> QED
    BY <1>0, <1>10, <2>1 DEF Sleep, StaysNear, fixed
<1>11. CASE Jump
  BY <1>11 DEF Jump, StaysNear, fixed
<1>12. CASE Restart
  BY <1>12 DEF Restart, StaysNear, fixed
<1> QED
  BY <1>1, <1>2, <1>3, <1>4, <1>5, <1>6, <1>7, <1>8, <1>9, <1>10, <1>11,
     <1>12 DEF Next, Round

LEMMA NearAlways ==
  ASSUME NEW M \in Nat, NEW S \in Nat, NEW L \in Nat,
         KeepsNear(M, S, L)
  PROVE  Spec => []NearInv(M, S, L)
<1>1. Init => NearInv(M, S, L)
  BY InitTypes DEF Init, NearInv, LandInv, GuestWhole, ReadingsOK, StepLands,
                    StaysNear
<1>2. NearInv(M, S, L) /\ [Next]_vars => NearInv(M, S, L)'
  BY NearStep
<1> QED
  BY <1>1, <1>2, PTL DEF Spec

\* Once an undisturbed step was made, update_clock() never steps again until
\* something goes wrong, for all constants that keep the clock near.
THEOREM OneStepSuffices ==
  ASSUME NEW M \in Nat, NEW S \in Nat, NEW L \in Nat,
         KeepsNear(M, S, L)
  PROVE  Spec => []OneStepEnough
<1>1. NearInv(M, S, L) => OneStepEnough
  BY DEF NearInv, StaysNear, OneStepEnough
<1> QED
  BY <1>1, NearAlways, PTL

\* And from then on the clock is read, round after round, when it is within
\* Reach of the card: 4 ms with the constants of the code and periods of up
\* to three seconds.
THEOREM StaysInReach ==
  ASSUME NEW M \in Nat, NEW S \in Nat, NEW L \in Nat,
         KeepsNear(M, S, L)
  PROVE  Spec => [](landed /\ pc = "decide" => AbsVal(err) <= Reach(M, S, L))
<1>1. NearInv(M, S, L) => (landed /\ pc = "decide" => AbsVal(err) <= Reach(M, S, L))
  BY DEF NearInv, StaysNear
<1> QED
  BY <1>1, NearAlways, PTL

-----------------------------------------------------------------------------
(* When the frequency is the controller's output.                          *)

\* For every value of the constants: the frequency given to the kernel is the
\* output of the controller whenever 65 times the largest output the offset
\* can lead to fits an int.  With the constants of the code that is every
\* offset below 65 ms; from there to the threshold of 100 ms the product in
\* adj_freq() may overflow, as AppliesOutput's run shows.
THEOREM OutputApplied ==
  Spec => [][pc = "decide" /\ pc' = "sleep"
               /\ (AbsVal(offset) \div 2 + ADJ_FREQ_MAX) * 65 <= INT_MAX
             => freq' \in {freq, KernelFreq(-Output * 65)}]_vars
<1>1. TypeOK /\ [Next]_vars
        => [pc = "decide" /\ pc' = "sleep"
              /\ (AbsVal(offset) \div 2 + ADJ_FREQ_MAX) * 65 <= INT_MAX
            => freq' \in {freq, KernelFreq(-Output * 65)}]_vars
  <2> SUFFICES ASSUME TypeOK, Next,
                      (AbsVal(offset) \div 2 + ADJ_FREQ_MAX) * 65 <= INT_MAX
               PROVE  freq' \in {freq, KernelFreq(-Output * 65)}
                        \/ ~(pc = "decide" /\ pc' = "sleep")
    OBVIOUS
  <2>1. Slew \/ UNCHANGED freq
    BY DEF Next, Round, HostMeasure, GuestReadSystem, GuestReadCard,
           BeginStep, ReadB, ReadD, SetTime, Sleep, Jump, Restart, fixed
  <2>2. CASE Slew /\ freq' # freq
    <3>1. freq' = KernelFreq(WrapInt(-Output * 65))
      BY <2>2 DEF Slew
    <3>2. AbsVal(offset) \in Nat /\ AbsVal(offset) <= AbsVal(offset)
      BY DEF TypeOK, AbsVal
    <3> QED
      BY <3>1, <3>2, OutputFits
  <2> QED
    BY <2>1, <2>2
<1> QED
  BY <1>1, TypeCorrect, PTL DEF Spec
=============================================================================
