----------------------- MODULE CmididCalibrationProofs -----------------------
(***************************************************************************)
(* Theorems about the velocity curves and the calibration, for every word  *)
(* size, every set of stroke times and every module parameter.             *)
(***************************************************************************)
EXTENDS CmididCalibration, TLAPS

(* A quotient of unsigned words is a natural number. *)
LEMMA QuotientType ==
    ASSUME NEW x \in Int, NEW y \in Int
    PROVE  Quotient(x, y) \in Nat
<1>1. Word(x) \in 0..(U32 - 1) /\ Word(y) \in 0..(U32 - 1)
  BY U32Assumption DEF Word
<1>2. CASE Word(y) = 0
  BY <1>2 DEF Quotient
<1>3. CASE Word(y) # 0
  <2>1. /\ Word(x) \in Nat
        /\ Word(y) \in Nat
        /\ Word(y) > 0
    BY <1>1, <1>3, U32Assumption
  <2>2. \A a, b \in Nat : b > 0 => a \div b \in Nat
    OBVIOUS
  <2>3. Word(x) \div Word(y) \in Nat
    BY <2>1, <2>2
  <2>4. QED
    BY <1>3, <2>3 DEF Quotient
<1>4. QED
  BY <1>2, <1>3

(* time_to_velocity returns an unsigned char on every curve. *)
LEMMA VelocityType ==
    ASSUME NEW t \in Int, NEW min \in Int, NEW max \in Int, NEW curve \in VEL_CURVE
    PROVE  time_to_velocity(t, min, max, curve) \in 0..255
<1>1. \A x \in Int : x % 256 \in 0..255
  OBVIOUS
<1>2. \A x \in Int : Word(x) \in Int
  BY U32Assumption DEF Word
<1>3. ASSUME NEW lo \in Int, NEW c \in Int
      PROVE  Hyperbola(t, lo, max, c) \in 0..255
  <2> DEFINE a == Quotient((c * c - 127 * c) * (max - lo), 127)
             b == c * max + 127 * lo - c * lo
  <2>1. /\ (c * c - 127 * c) * (max - lo) \in Int
        /\ b \in Int
    OBVIOUS
  <2>2. a \in Int
    BY <2>1, QuotientType
  <2>3. t - b \in Int
    BY <2>1
  <2> HIDE DEF a, b
  <2>4. Quotient(a, t - b) \in Int
    BY <2>2, <2>3, QuotientType
  <2>5. Word(Quotient(a, t - b) + c) \in Int
    BY <2>4, <1>2
  <2>6. QED
    BY <2>5, <1>1 DEF Hyperbola, a, b
<1>4. LinearVelocity(t, min, max) \in 0..255
  <2>1. 127 * (max - t) \in Int /\ max - min \in Int
    OBVIOUS
  <2>2. Quotient(127 * (max - t), max - min) \in Int
    BY <2>1, QuotientType
  <2>3. QED
    BY <2>2, <1>1 DEF LinearVelocity
<1>5. min + (max - min) \div 2 \in Int
  OBVIOUS
<1>6. CurveVelocity(t, min, max, curve) \in 0..255
  BY <1>3, <1>4, <1>5 DEF CurveVelocity, VEL_CURVE
<1>7. QED
  BY <1>6 DEF time_to_velocity

-----------------------------------------------------------------------------
(* Division by a positive number of something below 127 times it. *)
LEMMA QuotientBound ==
    ASSUME NEW p \in Nat, NEW d \in Nat, d > 0, p < 127 * d
    PROVE  p \div d \in 0..126
<1> DEFINE q == p \div d
<1>1. q \in Int /\ q * d <= p /\ p < (q + 1) * d
  OBVIOUS
<1>2. q >= 0
  OBVIOUS
<1>3. q < 127
  <2>1. SUFFICES ASSUME q >= 127 PROVE FALSE
    BY <1>1
  <2>2. q * d >= 127 * d
    BY <1>1, <2>1
  <2>3. QED
    BY <1>1, <2>2
<1>4. QED
  BY <1>1, <1>2, <1>3

(* A number below the modulus is its own word; a word is not larger. *)
LEMMA WordBound ==
    ASSUME NEW x \in Nat
    PROVE  /\ Word(x) \in Nat
           /\ Word(x) <= x
           /\ x < U32 => Word(x) = x
BY U32Assumption DEF Word

(* The linear curve stays below 127 between the two calibrated times, even *)
(* when the product wraps around.                                          *)
LEMMA LinearBound ==
    ASSUME NEW t \in Word32, NEW min \in Word32, NEW max \in Word32,
           min < t, t < max
    PROVE  LinearVelocity(t, min, max) \in 0..126
<1> DEFINE x == 127 * (max - t)
           d == max - min
<1>1. /\ x \in Nat /\ d \in Nat
      /\ d > 0 /\ d < U32
      /\ x < 127 * d
  BY U32Assumption DEF Word32
<1>2. Word(d) = d
  BY <1>1, WordBound
<1>3. Word(x) \in Nat /\ Word(x) <= x
  BY <1>1, WordBound
<1>4. Word(x) \div d \in 0..126
  <2>1. Word(x) < 127 * d
    BY <1>1, <1>3
  <2> HIDE DEF x, d
  <2>2. QED
    BY <1>1, <1>3, <2>1, QuotientBound
<1>5. Quotient(x, d) \in 0..126
  BY <1>1, <1>2, <1>4 DEF Quotient
<1> HIDE DEF x, d
<1>6. Quotient(x, d) % 256 \in 0..126
  BY <1>5
<1>7. QED
  BY <1>6 DEF LinearVelocity, x, d

(* The settings are words and only selected curves are in force. *)
CalInv ==
    /\ {last_stroke_time, stroke_time_min, stroke_time_max} \subseteq Word32
    /\ vel_curve = "LINEAR"

(***************************************************************************)
(* With the linear curve every velocity the driver computes is a MIDI      *)
(* velocity, for every word size, every module parameter and every sequence *)
(* of strokes and calibrations - a maximum below the minimum and a product  *)
(* that wraps around included (time_to_velocity).                          *)
(***************************************************************************)
THEOREM LinearVelocityInRange ==
    ASSUME Curves \subseteq {"LINEAR"}
    PROVE  CalSpec => []VelocityInRange
<1>1. CalInit => CalInv
  BY TimesAssumption DEF CalInit, CalInv
<1>2. CalInv /\ [CalNext]_calVars => CalInv'
  BY TimesAssumption
  DEF CalInv, CalNext, CalIoctl, calVars, Measure, cmidid_set_min_stroke_time,
      cmidid_set_max_stroke_time, cmidid_set_vel_curve
<1>3. CalInv => VelocityInRange
  <2> SUFFICES ASSUME CalInv, NEW t \in StrokeTimes
               PROVE  Velocity(t) \in 0..127
    BY DEF VelocityInRange
  <2>1. /\ t \in Word32 /\ stroke_time_min \in Word32 /\ stroke_time_max \in Word32
        /\ t \in Int /\ stroke_time_min \in Int /\ stroke_time_max \in Int
    BY TimesAssumption, U32Assumption DEF CalInv, Word32
  <2>2. CASE t <= stroke_time_min
    BY <2>1, <2>2 DEF Velocity, time_to_velocity
  <2>3. CASE t > stroke_time_min /\ t >= stroke_time_max
    BY <2>1, <2>3 DEF Velocity, time_to_velocity
  <2>4. CASE t > stroke_time_min /\ t < stroke_time_max
    <3>1. LinearVelocity(t, stroke_time_min, stroke_time_max) \in 0..126
      BY <2>1, <2>4, LinearBound
    <3>2. Velocity(t) = LinearVelocity(t, stroke_time_min, stroke_time_max)
      BY <2>1, <2>4 DEF Velocity, time_to_velocity, CurveVelocity, CalInv
    <3>3. QED
      BY <3>1, <3>2
  <2>5. QED
    BY <2>1, <2>2, <2>3, <2>4
<1>4. QED
  BY <1>1, <1>2, <1>3, PTL DEF CalSpec

-----------------------------------------------------------------------------
(* The settings and the answers of cmidid_ioctl are always unsigned words, *)
(* and the curve is one of the enumeration, whatever a client selects.     *)
THEOREM CalTypeCorrect == CalSpec => []CalTypeOK
<1>1. CalInit => CalTypeOK
  BY TimesAssumption, U32Assumption DEF CalInit, CalTypeOK, NoReply, VEL_CURVE, Word32
<1>2. CalTypeOK /\ [CalNext]_calVars => CalTypeOK'
  <2> SUFFICES ASSUME CalTypeOK, [CalNext]_calVars
               PROVE  CalTypeOK'
    OBVIOUS
  <2>1. ASSUME NEW t \in StrokeTimes, Measure(t)
        PROVE  CalTypeOK'
    BY <2>1, TimesAssumption DEF CalTypeOK, Measure
  <2>2. CASE cmidid_set_min_stroke_time
    BY <2>2 DEF CalTypeOK, cmidid_set_min_stroke_time
  <2>3. CASE cmidid_set_max_stroke_time
    BY <2>3 DEF CalTypeOK, cmidid_set_max_stroke_time
  <2>4. ASSUME NEW curve \in Curves, cmidid_set_vel_curve(curve)
        PROVE  CalTypeOK'
    <3>1. 0 \in Word32
      BY U32Assumption DEF Word32
    <3>2. QED
      BY <2>4, <3>1, CurvesAssumption DEF CalTypeOK, cmidid_set_vel_curve
  <2>5. CASE UNCHANGED calVars
    BY <2>5 DEF CalTypeOK, calVars
  <2>6. QED
    BY <2>1, <2>2, <2>3, <2>4, <2>5 DEF CalNext, CalIoctl
<1>3. QED
  BY <1>1, <1>2, PTL DEF CalSpec

(* An answer to CMIDID_CALIBRATE_MAX_TIME is the maximum in force. *)
MaxAnswered == reply.cmd = "MAX" => stroke_time_max = reply.value

(***************************************************************************)
(* On every curve, a stroke as slow as the one that                        *)
(* CMIDID_CALIBRATE_MAX_TIME was called after is silent, unless it is       *)
(* within the minimum: no later stroke, curve or minimum changes the        *)
(* maximum without a new answer (cmidid_set_max_stroke_time).              *)
(***************************************************************************)
THEOREM CalibratedMaxIsSilent == CalSpec => []MaxStrokeIsSilent
<1>1. CalInit => MaxAnswered
  BY DEF CalInit, MaxAnswered, NoReply
<1>2. MaxAnswered /\ [CalNext]_calVars => MaxAnswered'
  BY DEF MaxAnswered, CalNext, CalIoctl, calVars, Measure, cmidid_set_min_stroke_time,
         cmidid_set_max_stroke_time, cmidid_set_vel_curve
<1>3. CalTypeOK /\ MaxAnswered => MaxStrokeIsSilent
  <2> SUFFICES ASSUME CalTypeOK, MaxAnswered,
                      reply.cmd = "MAX", reply.value > stroke_time_min
               PROVE  Velocity(reply.value) = 0
    BY DEF MaxStrokeIsSilent
  <2>1. /\ stroke_time_min \in Int /\ stroke_time_max \in Int /\ reply.value \in Int
        /\ reply.value = stroke_time_max
    BY U32Assumption DEF CalTypeOK, Word32, MaxAnswered
  <2>2. ~(reply.value <= stroke_time_min) /\ reply.value >= stroke_time_max
    BY <2>1
  <2>3. QED
    BY <2>1, <2>2 DEF Velocity, time_to_velocity
<1>4. QED
  BY <1>1, <1>2, <1>3, CalTypeCorrect, PTL DEF CalSpec

-----------------------------------------------------------------------------
(* A quotient lies between the two multiples of its divisor. *)
LEMMA QuotientIsFloor ==
    ASSUME NEW p \in Nat, NEW d \in Nat, d > 0
    PROVE  /\ p \div d \in Nat
           /\ (p \div d) * d <= p
           /\ p < (p \div d + 1) * d
OBVIOUS

(* A larger dividend does not give a smaller quotient. *)
LEMMA QuotientMonotone ==
    ASSUME NEW p \in Nat, NEW q \in Nat, NEW d \in Nat, d > 0, p <= q
    PROVE  p \div d <= q \div d
<1> DEFINE a == p \div d
           b == q \div d
<1>1. /\ a \in Nat /\ a * d <= p
      /\ b \in Nat /\ q < (b + 1) * d
  BY QuotientIsFloor
<1> HIDE DEF a, b
<1>2. SUFFICES ASSUME a > b PROVE FALSE
  BY <1>1 DEF a, b
<1>3. (b + 1) * d <= a * d
  BY <1>1, <1>2
<1>4. QED
  <2>1. (b + 1) * d \in Nat /\ a * d \in Nat
    BY <1>1
  <2>2. QED
    BY <1>1, <1>3, <2>1

(* Between the two calibrated times, where 127 times the maximum is a word, *)
(* the linear curve is the quotient of whole numbers.                      *)
LEMMA LinearIsQuotient ==
    ASSUME NEW t \in Word32, NEW min \in Word32, NEW max \in Word32,
           min < t, t < max, 127 * max < U32
    PROVE  /\ 127 * (max - t) \in Nat
           /\ max - min \in Nat
           /\ max - min > 0
           /\ LinearVelocity(t, min, max) = (127 * (max - t)) \div (max - min)
<1> DEFINE x == 127 * (max - t)
           d == max - min
<1>1. /\ x \in Nat /\ d \in Nat
      /\ d > 0 /\ d < U32
      /\ x < 127 * d /\ x < U32
  BY U32Assumption DEF Word32
<1> HIDE DEF x, d
<1>2. Word(x) = x /\ Word(d) = d
  BY <1>1, WordBound
<1>3. Quotient(x, d) = x \div d
  BY <1>1, <1>2 DEF Quotient
<1>4. x \div d \in 0..126
  BY <1>1, QuotientBound
<1>5. Quotient(x, d) % 256 = x \div d
  BY <1>3, <1>4
<1>6. QED
  BY <1>1, <1>5 DEF LinearVelocity, x, d

(* Every time a client can calibrate, times 127, is still a word: with 32   *)
(* bits, no stroke takes longer than 34 seconds.                           *)
NoWrap == \A t \in StrokeTimes \cup {MaxParam, LastInit} : 127 * t < U32

(* The linear curve is in force, and every setting is a time measured or a  *)
(* module parameter.                                                       *)
CurveInv ==
    /\ {last_stroke_time, stroke_time_max} \subseteq StrokeTimes \cup {MaxParam, LastInit}
    /\ stroke_time_min = MinParam
    /\ vel_curve = "LINEAR"

(* CurveInv holds as long as only the linear curve is selected. *)
LEMMA CurveInvariant ==
    ASSUME Curves \subseteq {"LINEAR"}
    PROVE  CalSpec => []CurveInv
<1>1. CalInit => CurveInv
  BY DEF CalInit, CurveInv
<1>2. CurveInv /\ [CalNext]_calVars => CurveInv'
  BY DEF CurveInv, CalNext, CalIoctl, calVars, Measure, cmidid_set_min_stroke_time,
         cmidid_set_max_stroke_time, cmidid_set_vel_curve
<1>3. QED
  BY <1>1, <1>2, PTL DEF CalSpec

(* What the velocity of a stroke is in a state where CurveInv holds. *)
LEMMA LineVelocity ==
    ASSUME NoWrap, CurveInv, NEW t \in StrokeTimes
    PROVE  /\ t \in Word32 /\ stroke_time_min \in Word32 /\ stroke_time_max \in Word32
           /\ 127 * stroke_time_max < U32
           /\ t <= stroke_time_min => Velocity(t) = 127
           /\ stroke_time_min < t /\ t >= stroke_time_max => Velocity(t) = 0
           /\ stroke_time_min < t /\ t < stroke_time_max =>
                  Velocity(t) = LinearVelocity(t, stroke_time_min, stroke_time_max)
<1>1. /\ t \in Word32 /\ stroke_time_min \in Word32 /\ stroke_time_max \in Word32
      /\ 127 * stroke_time_max < U32
  BY TimesAssumption DEF CurveInv, NoWrap
<1>2. t \in Int /\ stroke_time_min \in Int /\ stroke_time_max \in Int
  BY <1>1, U32Assumption DEF Word32
<1>3. vel_curve = "LINEAR"
  BY DEF CurveInv
<1>4. QED
  BY <1>1, <1>2, <1>3 DEF Velocity, time_to_velocity, CurveVelocity

(***************************************************************************)
(* While no product wraps around, the linear curve is the straight line     *)
(* from (min, 127) to (max, 0), rounded down, for every word size and every *)
(* sequence of strokes and calibrations, and it never divides by zero       *)
(* (time_to_velocity).                                                     *)
(***************************************************************************)
THEOREM LinearCurveIsTheLine ==
    ASSUME Curves \subseteq {"LINEAR"}, NoWrap
    PROVE  CalSpec => []LinearIsTheLine
<1>1. CurveInv => LinearIsTheLine
  <2> SUFFICES ASSUME CurveInv, NEW t \in StrokeTimes,
                      stroke_time_min < t, t < stroke_time_max
               PROVE  LET v == Velocity(t)
                          span == stroke_time_max - stroke_time_min
                      IN  /\ span # 0
                          /\ v * span <= 127 * (stroke_time_max - t)
                          /\ 127 * (stroke_time_max - t) < (v + 1) * span
    BY DEF LinearIsTheLine
  <2> DEFINE x == 127 * (stroke_time_max - t)
             d == stroke_time_max - stroke_time_min
  <2>1. /\ t \in Word32 /\ stroke_time_min \in Word32 /\ stroke_time_max \in Word32
        /\ 127 * stroke_time_max < U32
        /\ Velocity(t) = LinearVelocity(t, stroke_time_min, stroke_time_max)
    BY LineVelocity
  <2>2. x \in Nat /\ d \in Nat /\ d > 0 /\ Velocity(t) = x \div d
    BY <2>1, LinearIsQuotient
  <2> HIDE DEF x, d
  <2>3. d # 0 /\ Velocity(t) * d <= x /\ x < (Velocity(t) + 1) * d
    BY <2>2, QuotientIsFloor
  <2>4. QED
    BY <2>3 DEF x, d
<1>2. QED
  BY <1>1, CurveInvariant, PTL

(***************************************************************************)
(* While no product wraps around, a slower stroke is never louder: the      *)
(* linear curve is monotone for every word size and every sequence of       *)
(* strokes and calibrations, one that puts the maximum below the minimum    *)
(* included (time_to_velocity).                                            *)
(***************************************************************************)
THEOREM LinearCurveIsMonotone ==
    ASSUME Curves \subseteq {"LINEAR"}, NoWrap
    PROVE  CalSpec => []SlowerIsNotLouder
<1>1. CurveInv => SlowerIsNotLouder
  <2> SUFFICES ASSUME CurveInv, NEW s \in StrokeTimes, NEW t \in StrokeTimes, s <= t
               PROVE  Velocity(s) >= Velocity(t)
    BY DEF SlowerIsNotLouder
  <2> DEFINE min == stroke_time_min
             max == stroke_time_max
  <2>1. /\ s \in Word32 /\ t \in Word32 /\ min \in Word32 /\ max \in Word32
        /\ s \in Int /\ t \in Int /\ min \in Int /\ max \in Int
        /\ 127 * max < U32
    BY LineVelocity, U32Assumption DEF Word32
  <2>2. ASSUME NEW u \in {s, t}
        PROVE  Velocity(u) \in 0..127
    BY <2>1, LineVelocity, LinearBound
  <2>3. CASE s <= min
    <3>1. Velocity(s) = 127
      BY <2>3, LineVelocity
    <3>2. QED
      BY <2>2, <3>1
  <2>4. CASE min < t /\ t >= max
    <3>1. Velocity(t) = 0
      BY <2>4, LineVelocity
    <3>2. QED
      BY <2>2, <3>1
  <2>5. CASE min < s /\ t < max
    <3> DEFINE p == 127 * (max - t)
               q == 127 * (max - s)
               d == max - min
    <3>1. min < t /\ s < max
      BY <2>1, <2>5
    <3>2. /\ p \in Nat /\ q \in Nat /\ d \in Nat /\ d > 0
          /\ Velocity(s) = q \div d
          /\ Velocity(t) = p \div d
      BY <2>1, <2>5, <3>1, LineVelocity, LinearIsQuotient
    <3>3. p <= q
      BY <2>1
    <3> HIDE DEF p, q, d
    <3>4. p \div d <= q \div d /\ p \div d \in Nat /\ q \div d \in Nat
      BY <3>2, <3>3, QuotientMonotone, QuotientIsFloor
    <3>5. QED
      BY <3>2, <3>4
  <2>6. QED
    BY <2>1, <2>3, <2>4, <2>5
<1>2. QED
  BY <1>1, CurveInvariant, PTL

=============================================================================
