-------------------------- MODULE CmididCalibration --------------------------
(***************************************************************************)
(* Stroke time measurement, calibration and velocity curves of the cmidid  *)
(* driver (src/module/cmidid_gpio.c), and the ioctl commands that set them *)
(* (cmidid_ioctl in src/module/cmidid_main.c).                             *)
(*                                                                         *)
(* Times are in units of 2^10 ns, as in the code (stime64_to_utime32).     *)
(* Arithmetic is that of uint32_t: modulo U32, which is 2^32 in the code.   *)
(***************************************************************************)
EXTENDS Integers

CONSTANTS
    U32,            \* the modulus of uint32_t
    StrokeTimes,    \* time differences a stroke can measure
    MinParam,       \* module parameter stroke_time_min
    MaxParam,       \* module parameter stroke_time_max
    LastInit,       \* initial last_stroke_time
    Curves          \* the velocity curves a client selects

ASSUME U32Assumption == U32 \in Nat /\ U32 >= 256
Word32 == 0..(U32 - 1)

ASSUME TimesAssumption == /\ StrokeTimes \subseteq Word32
                          /\ {MinParam, MaxParam, LastInit} \subseteq Word32

VEL_CURVE == {"LINEAR", "CONCAVE", "CONVEX", "SATURATED"}

ASSUME CurvesAssumption == Curves \subseteq VEL_CURVE

NoReply == [cmd |-> "none", value |-> 0]

VARIABLES
    last_stroke_time,   \* time difference of the last stroke
    stroke_time_min,    \* strokes up to this time have velocity 127
    stroke_time_max,    \* strokes from this time on have velocity 0
    vel_curve,
    reply               \* command and result of the last ioctl

calVars == <<last_stroke_time, stroke_time_min, stroke_time_max, vel_curve, reply>>

-----------------------------------------------------------------------------
(* An unsigned word. *)
Word(x) == x % U32

(* Unsigned division; __div0 of the ARM build makes x/0 return 0. *)
Quotient(x, y) == IF Word(y) = 0 THEN 0 ELSE Word(x) \div Word(y)

(* The hyperbola a / (t - b) + c through the points lo and max.           *)
Hyperbola(t, lo, max, c) ==
    LET a == Quotient((c * c - 127 * c) * (max - lo), 127)
        b == c * max + 127 * lo - c * lo
    IN  Word(Quotient(a, t - b) + c) % 256

(* A bug for LinearVelocity: dividing by max instead of the span. *)
LinearVelocityNoSpan(t, min, max) == Quotient(127 * (max - t), max) % 256

LinearVelocity(t, min, max) == Quotient(127 * (max - t), max - min) % 256

CurveVelocity(t, min, max, curve) ==
    CASE curve = "LINEAR"    -> LinearVelocity(t, min, max)
      [] curve = "CONCAVE"   -> Hyperbola(t, min, max, 255)
      [] curve = "CONVEX"    -> Hyperbola(t, min, max, -40)
      [] curve = "SATURATED" -> Hyperbola(t, min + (max - min) \div 2, max, 140)

(* A bug for time_to_velocity: the test for slow strokes is left out. *)
time_to_velocityNoMax(t, min, max, curve) ==
    IF t <= min THEN 127 ELSE CurveVelocity(t, min, max, curve)

time_to_velocity(t, min, max, curve) ==
    CASE t <= min             -> 127
      [] t > min /\ t >= max  -> 0
      [] t > min /\ t < max   -> CurveVelocity(t, min, max, curve)

(* The velocity of a stroke of time t under the present settings. *)
Velocity(t) == time_to_velocity(t, stroke_time_min, stroke_time_max, vel_curve)

-----------------------------------------------------------------------------
CalInit ==
    /\ last_stroke_time = LastInit
    /\ stroke_time_min = MinParam
    /\ stroke_time_max = MaxParam
    /\ vel_curve = "LINEAR"
    /\ reply = NoReply

(* handle_button_event measures a stroke before it computes the velocity. *)
Measure(t) ==
    /\ last_stroke_time' = t
    /\ UNCHANGED <<stroke_time_min, stroke_time_max, vel_curve, reply>>

(* The code assigns the maximum here, too. *)
cmidid_set_min_stroke_time ==
    /\ stroke_time_max' = last_stroke_time
    /\ reply' = [cmd |-> "MIN", value |-> last_stroke_time]
    /\ UNCHANGED <<last_stroke_time, stroke_time_min, vel_curve>>

(* A bug for cmidid_set_max_stroke_time: only the answer is computed. *)
cmidid_set_max_stroke_timeStale ==
    /\ reply' = [cmd |-> "MAX", value |-> last_stroke_time]
    /\ UNCHANGED <<last_stroke_time, stroke_time_min, stroke_time_max, vel_curve>>

cmidid_set_max_stroke_time ==
    /\ stroke_time_max' = last_stroke_time
    /\ reply' = [cmd |-> "MAX", value |-> last_stroke_time]
    /\ UNCHANGED <<last_stroke_time, stroke_time_min, vel_curve>>

cmidid_set_vel_curve(curve) ==
    /\ vel_curve' = curve
    /\ reply' = [cmd |-> "CURVE", value |-> 0]
    /\ UNCHANGED <<last_stroke_time, stroke_time_min, stroke_time_max>>

CalIoctl ==
    \/ cmidid_set_min_stroke_time
    \/ cmidid_set_max_stroke_time
    \/ \E curve \in Curves : cmidid_set_vel_curve(curve)

CalNext ==
    \/ \E t \in StrokeTimes : Measure(t)
    \/ CalIoctl

CalSpec == CalInit /\ [][CalNext]_calVars

-----------------------------------------------------------------------------
(* The settings are unsigned words, and the curve is one of the four. *)
CalTypeOK ==
    /\ {last_stroke_time, stroke_time_min, stroke_time_max} \subseteq Word32
    /\ vel_curve \in VEL_CURVE
    /\ reply \in [cmd : {"none", "MIN", "MAX", "CURVE"}, value : Word32]

(***************************************************************************)
(* The velocity handed to cmidid_note_on is a MIDI velocity for every      *)
(* stroke and every setting a client can reach by calibrating              *)
(* (time_to_velocity and the comment before stime64_to_utime32).           *)
(***************************************************************************)
VelocityInRange == \A t \in StrokeTimes : Velocity(t) \in 0..127

(***************************************************************************)
(* A slower stroke is never louder: the settings a client reaches by       *)
(* calibrating keep time_to_velocity monotone, also when the maximum was    *)
(* set below the minimum.                                                  *)
(***************************************************************************)
SlowerIsNotLouder ==
    \A s, t \in StrokeTimes : s <= t => Velocity(s) >= Velocity(t)

(***************************************************************************)
(* Between the two calibrated times the linear curve is the straight line   *)
(* from (min, 127) to (max, 0), rounded down, and never divides by zero.   *)
(***************************************************************************)
LinearIsTheLine ==
    \A t \in StrokeTimes :
        (stroke_time_min < t /\ t < stroke_time_max /\ vel_curve = "LINEAR") =>
            LET v == Velocity(t)
                span == stroke_time_max - stroke_time_min
            IN  /\ span # 0
                /\ v * span <= 127 * (stroke_time_max - t)
                /\ 127 * (stroke_time_max - t) < (v + 1) * span

(***************************************************************************)
(* Calibrating works: a stroke as slow as the one CMIDID_CALIBRATE_MAX_TIME *)
(* was called after is silent, unless it is within the minimum.            *)
(***************************************************************************)
MaxStrokeIsSilent ==
    reply.cmd = "MAX" /\ reply.value > stroke_time_min => Velocity(reply.value) = 0

=============================================================================
