------------------------ MODULE CmididKeyboardProofs ------------------------
(***************************************************************************)
(* Theorems about the run-time keyboard of CmididKeyboard, for every set   *)
(* of keys, every note mapping, polarity and calibration.                  *)
(***************************************************************************)
EXTENDS CmididKeyboard, CmididCalibrationProofs, TLAPS

(* The note of an event is in the MIDI range. *)
LEMMA EventNoteType ==
    ASSUME NEW n \in 0..255, NEW tr \in -128..127
    PROVE  EventNote(n, tr) \in Pitches
BY DEF EventNote, Pitches

(* The set of pitches after a note off. *)
LEMMA NoteOffType ==
    ASSUME NEW S \in SUBSET Pitches, NEW n \in 0..255, NEW tr \in -128..127
    PROVE  cmidid_note_off(S, n, tr) \subseteq SUBSET Pitches
BY DEF cmidid_note_off, dispatch_event

(* The set of pitches after a note on. *)
LEMMA NoteOnType ==
    ASSUME NEW S \in SUBSET Pitches, NEW n \in 0..255, NEW tr \in -128..127, NEW v
    PROVE  cmidid_note_on(S, n, tr, v) \subseteq SUBSET Pitches
BY EventNoteType DEF cmidid_note_on, dispatch_event

(* A key event keeps the key, the notes and the calibration well typed. *)
LEMMA EventType ==
    ASSUME TypeOK, NEW k \in Keys, NEW b \in Buttons, NEW active \in BOOLEAN,
           handle_button_event(k, b, active)
    PROVE  /\ state' \in [Keys -> KEY_STATE]
           /\ last_velocity' \in [Keys -> 0..255]
           /\ transpose' = transpose
           /\ sounding' \subseteq Pitches
           /\ {last_stroke_time', stroke_time_min', stroke_time_max'} \subseteq Word32
           /\ vel_curve' \in VEL_CURVE
<1> USE DEF TypeOK, KEY_STATE
<1>0. Note[k] \in 0..255
  BY NoteAssumption
<1>1. CASE Touch(k, b, active)
  BY <1>1 DEF Touch, midiVars, calVars
<1>2. CASE ReleaseAgain(k, b, active)
  <2>1. sounding' \in SUBSET Pitches
    BY <1>0, <1>2, NoteOffType DEF ReleaseAgain
  <2>2. QED
    BY <2>1, <1>2 DEF ReleaseAgain, calVars
<1>3. CASE Release(k, b, active)
  <2>1. sounding' \in SUBSET Pitches
    BY <1>0, <1>3, NoteOffType DEF Release
  <2>2. QED
    BY <2>1, <1>3 DEF Release, calVars
<1>4. ASSUME NEW t \in StrokeTimes, Stroke(k, b, active, t)
      PROVE  /\ state' \in [Keys -> KEY_STATE]
             /\ last_velocity' \in [Keys -> 0..255]
             /\ transpose' = transpose
             /\ sounding' \subseteq Pitches
             /\ {last_stroke_time', stroke_time_min', stroke_time_max'} \subseteq Word32
             /\ vel_curve' \in VEL_CURVE
  <2>1. t \in Word32 /\ t \in Int /\ stroke_time_min \in Int /\ stroke_time_max \in Int
    BY TimesAssumption, U32Assumption DEF Word32
  <2>2. Velocity(t) \in 0..255
    BY <2>1, VelocityType DEF Velocity
  <2>3. sounding' \in SUBSET Pitches
    BY <1>0, <1>4, <2>2, NoteOnType DEF Stroke
  <2>4. last_velocity' \in [Keys -> 0..255] /\ state' \in [Keys -> KEY_STATE]
    BY <1>4, <2>2 DEF Stroke
  <2>5. QED
    BY <1>4, <2>1, <2>3, <2>4 DEF Stroke, Measure
<1>5. CASE Retrigger(k, b, active)
  <2>1. PICK silenced \in cmidid_note_off(sounding, Note[k], transpose) :
            sounding' \in cmidid_note_on(silenced, Note[k], transpose, last_velocity[k])
    BY <1>5 DEF Retrigger
  <2>2. silenced \in SUBSET Pitches
    BY <1>0, <2>1, NoteOffType
  <2>3. sounding' \in SUBSET Pitches
    BY <1>0, <2>1, <2>2, NoteOnType
  <2>4. QED
    BY <1>5, <2>3 DEF Retrigger, keyVars, calVars
<1>6. CASE NoEvent(k, b, active)
  BY <1>6 DEF NoEvent, keyVars, midiVars, calVars
<1>7. QED
  BY <1>1, <1>2, <1>3, <1>4, <1>5, <1>6 DEF handle_button_event

(***************************************************************************)
(* Every variable keeps its type: in particular the pitches that sound are *)
(* MIDI notes and every velocity fits an unsigned char, whatever the       *)
(* transposition and the curve.                                            *)
(***************************************************************************)
THEOREM TypeCorrect == Spec => []TypeOK
<1>1. Init => TypeOK
  BY TimesAssumption DEF Init, CalInit, TypeOK, KEY_STATE, Pitches, VEL_CURVE
<1>2. TypeOK /\ [Next]_vars => TypeOK'
  <2> SUFFICES ASSUME TypeOK, [Next]_vars PROVE TypeOK'
    OBVIOUS
  <2>1. ASSUME NEW i \in Lines, PinEdge(i) PROVE TypeOK'
    BY <2>1 DEF TypeOK, PinEdge, keyVars, midiVars, calVars
  <2>2. ASSUME NEW i \in Lines, IrqIgnored(i) PROVE TypeOK'
    BY <2>2 DEF TypeOK, IrqIgnored, keyVars, midiVars, calVars
  <2>3. ASSUME NEW i \in Lines, IrqStart(i) PROVE TypeOK'
    BY <2>3 DEF TypeOK, IrqStart, keyVars, midiVars, calVars
  <2>4. ASSUME NEW i \in Lines, IrqLock(i) PROVE TypeOK'
    BY <2>4 DEF TypeOK, IrqLock, keyVars, midiVars, calVars
  <2>5. ASSUME NEW i \in Lines, TimerSample(i) PROVE TypeOK'
    BY <2>5 DEF TypeOK, TimerSample, keyVars, midiVars, calVars
  <2>6. ASSUME NEW i \in Lines, TimerDispatch(i) PROVE TypeOK'
    <3>1. /\ i[1] \in Keys
          /\ i[2] \in Buttons
          /\ handle_button_event(i[1], i[2], sample[i] = "active")
      BY <2>6 DEF Lines, TimerDispatch
    <3>2. (sample[i] = "active") \in BOOLEAN
      OBVIOUS
    <3>3. /\ state' \in [Keys -> KEY_STATE]
          /\ last_velocity' \in [Keys -> 0..255]
          /\ transpose' = transpose
          /\ sounding' \subseteq Pitches
          /\ {last_stroke_time', stroke_time_min', stroke_time_max'} \subseteq Word32
          /\ vel_curve' \in VEL_CURVE
      BY <3>1, <3>2, EventType
    <3>4. QED
      BY <2>6, <3>3 DEF TypeOK, TimerDispatch
  <2>7. CASE IoctlSettings
    BY <2>7, CurvesAssumption
    DEF TypeOK, IoctlSettings, CalIoctl, cmidid_set_min_stroke_time,
        cmidid_set_max_stroke_time, cmidid_set_vel_curve, lineVars, keyVars, midiVars
  <2>8. ASSUME NEW semitones \in TransposeArgs, IoctlTranspose(semitones) PROVE TypeOK'
    <3>1. cmidid_transpose(transpose, semitones) \in -128..127
      BY TransposeAssumption DEF TypeOK, cmidid_transpose
    <3>2. QED
      BY <2>8, <3>1 DEF TypeOK, IoctlTranspose, lineVars, keyVars
  <2>9. CASE UNCHANGED vars
    BY <2>9 DEF TypeOK, vars, lineVars, keyVars, midiVars, calVars
  <2>10. QED
    BY <2>1, <2>2, <2>3, <2>4, <2>5, <2>6, <2>7, <2>8, <2>9 DEF Next, Handler
<1>3. QED
  BY <1>1, <1>2, PTL DEF Spec

-----------------------------------------------------------------------------
(***************************************************************************)
(* The inductive invariant of the lines on one CPU.                        *)
(***************************************************************************)

(* At most one handler is running. *)
OneHandler ==
    /\ irqs # {} => \A i \in Lines : sample[i] = "none"
    /\ \A i, j \in irqs : i = j
    /\ \A i, j \in Lines : sample[i] # "none" /\ sample[j] # "none" => i = j

(* How the flag of a line relates to its timer, also inside the handlers. *)
FlagAndTimer ==
    \A i \in Lines :
        /\ i \in irqs => i \in armed /\ i \notin timer_started
        /\ i \in timer_started => i \in armed \/ sample[i] # "none"
        /\ i \in armed => (i \in timer_started \/ i \in irqs) /\ sample[i] = "none"

(* What timer_irq has read is still true unless another edge is latched. *)
SampleIsFresh ==
    \A i \in Lines :
        i \notin edge /\ sample[i] # "none" => (sample[i] = "active") = Active(i)

(* A start contact with nothing left to do agrees with its key. *)
KeyAgrees ==
    \A k \in Keys :
        LET s == <<k, START_BUTTON>>
        IN  s \notin edge /\ s \notin armed /\ sample[s] = "none" =>
                (state[k] # "INACTIVE") = Active(s)

LineInv == TypeOK /\ OneHandler /\ FlagAndTimer /\ SampleIsFresh /\ KeyAgrees

(* A key event of the start button sets the key to what the button says;   *)
(* one of the end button leaves inactive keys inactive and others not.     *)
LEMMA EventKey ==
    ASSUME TypeOK, NEW k \in Keys, NEW b \in Buttons, NEW active \in BOOLEAN,
           handle_button_event(k, b, active)
    PROVE  /\ \A j \in Keys \ {k} : state'[j] = state[j]
           /\ b = START_BUTTON => (state'[k] # "INACTIVE") = active
           /\ b # START_BUTTON => (state'[k] # "INACTIVE") = (state[k] # "INACTIVE")
<1> USE DEF TypeOK, KEY_STATE, Buttons, START_BUTTON, END_BUTTON
<1>1. CASE Touch(k, b, active)
  BY <1>1 DEF Touch
<1>2. CASE ReleaseAgain(k, b, active)
  BY <1>2 DEF ReleaseAgain
<1>3. CASE Release(k, b, active)
  BY <1>3 DEF Release
<1>4. ASSUME NEW t \in StrokeTimes, Stroke(k, b, active, t)
      PROVE  /\ \A j \in Keys \ {k} : state'[j] = state[j]
             /\ b = START_BUTTON => (state'[k] # "INACTIVE") = active
             /\ b # START_BUTTON => (state'[k] # "INACTIVE") = (state[k] # "INACTIVE")
  BY <1>4 DEF Stroke
<1>5. CASE Retrigger(k, b, active)
  BY <1>5 DEF Retrigger, keyVars
<1>6. CASE NoEvent(k, b, active)
  BY <1>6 DEF NoEvent, keyVars
<1>7. QED
  BY <1>1, <1>2, <1>3, <1>4, <1>5, <1>6 DEF handle_button_event

(* The inductive invariant holds throughout, on one CPU. *)
LEMMA LineInvHolds ==
    ASSUME SMP = FALSE
    PROVE  Spec => []LineInv
<1>1. Init => LineInv
  <2> SUFFICES ASSUME Init PROVE LineInv
    OBVIOUS
  <2>1. TypeOK
    BY TimesAssumption DEF Init, CalInit, TypeOK, KEY_STATE, Pitches, VEL_CURVE
  <2>2. OneHandler /\ FlagAndTimer /\ SampleIsFresh
    BY DEF Init, OneHandler, FlagAndTimer, SampleIsFresh
  <2>3. KeyAgrees
    <3> SUFFICES ASSUME NEW k \in Keys, <<k, START_BUTTON>> \notin edge
                 PROVE  (state[k] # "INACTIVE") = Active(<<k, START_BUTTON>>)
      BY DEF KeyAgrees
    <3>1. <<k, START_BUTTON>> \in Lines
      BY DEF Lines, Buttons
    <3>2. ~Active(<<k, START_BUTTON>>)
      BY <3>1 DEF Init
    <3>3. state[k] = "INACTIVE"
      BY DEF Init
    <3>4. Active(<<k, START_BUTTON>>) \in BOOLEAN
      BY DEF Active
    <3>5. QED
      BY <3>2, <3>3, <3>4
  <2>4. QED
    BY <2>1, <2>2, <2>3 DEF LineInv
<1>2. TypeOK' /\ LineInv /\ [Next]_vars => LineInv'
  <2> SUFFICES ASSUME TypeOK', LineInv, [Next]_vars PROVE LineInv'
    OBVIOUS
  <2> USE DEF LineInv
  <2>0. CanEnter => irqs = {} /\ \A i \in Lines : sample[i] = "none"
    BY DEF CanEnter, Running
  <2>a. \A k \in Keys : <<k, START_BUTTON>> \in Lines
    BY DEF Lines, Buttons
  <2>1. ASSUME NEW i \in Lines, PinEdge(i) PROVE LineInv'
    <3>1. (OneHandler /\ FlagAndTimer)'
      BY <2>1 DEF PinEdge, OneHandler, FlagAndTimer
    <3>2. \A j \in Lines : j \notin edge' => j \notin edge /\ Active(j)' = Active(j)
      BY <2>1 DEF PinEdge, Active, TypeOK
    <3>3. SampleIsFresh' /\ KeyAgrees'
      BY <2>1, <2>a, <3>2 DEF PinEdge, SampleIsFresh, KeyAgrees, keyVars
    <3>4. QED
      BY <3>1, <3>3
  <2>2. ASSUME NEW i \in Lines, IrqIgnored(i) PROVE LineInv'
    <3>1. (OneHandler /\ FlagAndTimer)'
      BY <2>2 DEF IrqIgnored, OneHandler, FlagAndTimer
    <3>2. i \in armed
      BY <2>0, <2>2 DEF IrqIgnored, FlagAndTimer
    <3>3. \A j \in Lines : Active(j)' = Active(j)
      BY <2>2 DEF IrqIgnored, Active
    <3>4. SampleIsFresh' /\ KeyAgrees'
      BY <2>0, <2>2, <2>a, <3>2, <3>3 DEF IrqIgnored, SampleIsFresh, KeyAgrees, keyVars
    <3>5. QED
      BY <3>1, <3>4
  <2>3. ASSUME NEW i \in Lines, IrqStart(i) PROVE LineInv'
    <3>1. (OneHandler /\ FlagAndTimer)'
      BY <2>0, <2>3 DEF IrqStart, OneHandler, FlagAndTimer
    <3>2. \A j \in Lines : Active(j)' = Active(j)
      BY <2>3 DEF IrqStart, Active
    <3>3. SampleIsFresh' /\ KeyAgrees'
      BY <2>0, <2>3, <2>a, <3>2 DEF IrqStart, SampleIsFresh, KeyAgrees, keyVars
    <3>4. QED
      BY <3>1, <3>3
  <2>4. ASSUME NEW i \in Lines, IrqLock(i) PROVE LineInv'
    <3>1. (OneHandler /\ FlagAndTimer)'
      BY <2>4 DEF IrqLock, OneHandler, FlagAndTimer
    <3>2. \A j \in Lines : Active(j)' = Active(j)
      BY <2>4 DEF IrqLock, Active
    <3>3. SampleIsFresh' /\ KeyAgrees'
      BY <2>4, <2>a, <3>2 DEF IrqLock, SampleIsFresh, KeyAgrees, keyVars
    <3>4. QED
      BY <3>1, <3>3
  <2>5. ASSUME NEW i \in Lines, TimerSample(i) PROVE LineInv'
    <3>1. sample \in [Lines -> {"none", "active", "inactive"}]
      BY DEF TypeOK
    <3>2. (OneHandler /\ FlagAndTimer)'
      BY <2>0, <2>5, <3>1 DEF TimerSample, OneHandler, FlagAndTimer
    <3>3. \A j \in Lines : Active(j)' = Active(j)
      BY <2>5 DEF TimerSample, Active
    <3>4. Active(i) \in BOOLEAN
      BY DEF Active
    <3>5. SampleIsFresh'
      BY <2>0, <2>5, <3>1, <3>3, <3>4 DEF TimerSample, SampleIsFresh
    <3>6. KeyAgrees'
      BY <2>0, <2>5, <2>a, <3>1, <3>3 DEF TimerSample, KeyAgrees, keyVars
    <3>7. QED
      BY <3>2, <3>5, <3>6
  <2>6. ASSUME NEW i \in Lines, TimerDispatch(i) PROVE LineInv'
    <3>1. sample \in [Lines -> {"none", "active", "inactive"}]
      BY DEF TypeOK
    <3>2. (OneHandler /\ FlagAndTimer)'
      BY <2>6, <3>1 DEF TimerDispatch, OneHandler, FlagAndTimer
    <3>3. \A j \in Lines : Active(j)' = Active(j)
      BY <2>6 DEF TimerDispatch, Active
    <3>4. SampleIsFresh'
      BY <2>6, <3>1, <3>3 DEF TimerDispatch, SampleIsFresh
    <3>5. PICK k \in Keys, b \in Buttons : i = <<k, b>>
      BY DEF Lines
    <3>6. handle_button_event(k, b, sample[i] = "active") /\ (sample[i] = "active") \in BOOLEAN
      BY <2>6, <3>5 DEF TimerDispatch
    <3>7. /\ \A j \in Keys \ {k} : state'[j] = state[j]
          /\ b = START_BUTTON => (state'[k] # "INACTIVE") = (sample[i] = "active")
          /\ b # START_BUTTON => (state'[k] # "INACTIVE") = (state[k] # "INACTIVE")
      BY <3>6, EventKey
    <3>8. KeyAgrees'
      <4> SUFFICES ASSUME NEW j \in Keys,
                          <<j, START_BUTTON>> \notin edge',
                          <<j, START_BUTTON>> \notin armed',
                          sample'[<<j, START_BUTTON>>] = "none"
                   PROVE  (state'[j] # "INACTIVE") = Active(<<j, START_BUTTON>>)'
        BY DEF KeyAgrees
      <4>1. CASE i = <<j, START_BUTTON>>
        <5>1. k = j /\ b = START_BUTTON
          BY <3>5, <4>1
        <5>2. i \notin edge /\ sample[i] # "none"
          BY <2>6, <4>1 DEF TimerDispatch
        <5>3. (sample[i] = "active") = Active(i)
          BY <5>2 DEF SampleIsFresh
        <5>4. QED
          BY <3>3, <3>7, <4>1, <5>1, <5>3
      <4>2. CASE i # <<j, START_BUTTON>>
        <5>1. (state'[j] # "INACTIVE") = (state[j] # "INACTIVE")
          BY <3>5, <3>7, <4>2
        <5>2. /\ <<j, START_BUTTON>> \notin edge
              /\ <<j, START_BUTTON>> \notin armed
              /\ sample[<<j, START_BUTTON>>] = "none"
          BY <2>6, <2>a, <3>1, <4>2 DEF TimerDispatch
        <5>3. (state[j] # "INACTIVE") = Active(<<j, START_BUTTON>>)
          BY <5>2 DEF KeyAgrees
        <5>4. QED
          BY <2>a, <3>3, <5>1, <5>3
      <4>3. QED
        BY <4>1, <4>2
    <3>9. QED
      BY <3>2, <3>4, <3>8
  <2>7. ASSUME UNCHANGED <<lineVars, keyVars>> PROVE LineInv'
    BY <2>7 DEF OneHandler, FlagAndTimer, SampleIsFresh, KeyAgrees, Active,
                lineVars, keyVars
  <2>8. QED
    BY <2>1, <2>2, <2>3, <2>4, <2>5, <2>6, <2>7
    DEF Next, Handler, IoctlSettings, IoctlTranspose, vars
<1>3. QED
  BY <1>1, <1>2, TypeCorrect, PTL DEF Spec

(***************************************************************************)
(* No edge is lost on one CPU, for any number of keys: once the start      *)
(* contact of a key is quiet, the key is inactive exactly when the contact *)
(* is open (irq_handler, timer_irq, handle_button_event).                  *)
(***************************************************************************)
THEOREM NoEdgeIsLost ==
    ASSUME SMP = FALSE
    PROVE  Spec => []KeyFollowsStartButton
<1>1. LineInv => KeyFollowsStartButton
  BY DEF LineInv, KeyAgrees, KeyFollowsStartButton, Quiet
<1>2. QED
  BY <1>1, LineInvHolds, PTL

(***************************************************************************)
(* The timer_started flags track the pending timers on one CPU: no line is *)
(* locked without a timer that will unlock it.                             *)
(***************************************************************************)
THEOREM FlagsTrackTimers ==
    ASSUME SMP = FALSE
    PROVE  Spec => []FlagMeansTimer
<1>1. LineInv => FlagMeansTimer
  BY DEF LineInv, TypeOK, FlagAndTimer, FlagMeansTimer, Running
<1>2. QED
  BY <1>1, LineInvHolds, PTL

-----------------------------------------------------------------------------
(***************************************************************************)
(* What is heard.  A setting without surprises: every event reaches the    *)
(* listener and nobody transposes.                                         *)
(***************************************************************************)
Delivered == Client > 0 /\ DispatchFails = FALSE /\ TransposeArgs \subseteq {0}

(* Every key has a pitch of its own. *)
OwnPitch ==
    \A j, k \in Keys : EventNote(Note[j], 0) = EventNote(Note[k], 0) => j = k

(* A delivered note off removes its pitch and no other. *)
LEMMA NoteOffEffect ==
    ASSUME Delivered, NEW S, NEW n, NEW tr, NEW R \in cmidid_note_off(S, n, tr)
    PROVE  R = S \ {EventNote(n, tr)}
BY DEF Delivered, cmidid_note_off, dispatch_event

(* A delivered note on adds its pitch, or removes it at velocity 0. *)
LEMMA NoteOnEffect ==
    ASSUME Delivered, NEW S, NEW n, NEW tr, NEW v \in 0..255,
           NEW R \in cmidid_note_on(S, n, tr, v)
    PROVE  R = IF v = 0 THEN S \ {EventNote(n, tr)} ELSE S \cup {EventNote(n, tr)}
<1>1. EventVelocity(v) = 0 <=> v = 0
  BY DEF EventVelocity
<1>2. QED
  BY <1>1 DEF Delivered, cmidid_note_on, dispatch_event

(* The keys and the sound after a key event, in the terms of pitches:      *)
(* only key k and its pitch change, and the pitch follows the key.         *)
LEMMA EventSound ==
    ASSUME TypeOK, Delivered, NEW k \in Keys, NEW b \in Buttons,
           NEW active \in BOOLEAN, handle_button_event(k, b, active)
    PROVE  /\ \A j \in Keys \ {k} : /\ state'[j] = state[j]
                                    /\ last_velocity'[j] = last_velocity[j]
           /\ \/ UNCHANGED <<state, last_velocity, sounding>>
              \/ state[k] # "PRESSED" /\ state'[k] # "PRESSED" /\ sounding' = sounding
              \/ state'[k] # "PRESSED" /\ sounding' = sounding \ {Pitch(k)}
              \/ /\ state'[k] = "PRESSED"
                 /\ sounding' = IF last_velocity'[k] = 0 THEN sounding \ {Pitch(k)}
                                ELSE sounding \cup {Pitch(k)}
<1> USE DEF TypeOK, KEY_STATE, Pitch
<1>1. CASE Touch(k, b, active)
  BY <1>1 DEF Touch, midiVars
<1>2. CASE ReleaseAgain(k, b, active)
  BY <1>2, NoteOffEffect DEF ReleaseAgain
<1>3. CASE Release(k, b, active)
  BY <1>3, NoteOffEffect DEF Release
<1>4. ASSUME NEW t \in StrokeTimes, Stroke(k, b, active, t)
      PROVE  /\ \A j \in Keys \ {k} : /\ state'[j] = state[j]
                                      /\ last_velocity'[j] = last_velocity[j]
             /\ state'[k] = "PRESSED"
             /\ sounding' = IF last_velocity'[k] = 0 THEN sounding \ {Pitch(k)}
                            ELSE sounding \cup {Pitch(k)}
  <2>1. t \in Int /\ stroke_time_min \in Int /\ stroke_time_max \in Int
    BY TimesAssumption, U32Assumption DEF Word32
  <2>2. Velocity(t) \in 0..255
    BY <2>1, VelocityType DEF Velocity
  <2>3. last_velocity'[k] = Velocity(t)
    BY <1>4 DEF Stroke
  <2>4. sounding' = IF Velocity(t) = 0 THEN sounding \ {Pitch(k)}
                    ELSE sounding \cup {Pitch(k)}
    BY <1>4, <2>2, NoteOnEffect DEF Stroke
  <2>5. QED
    BY <1>4, <2>3, <2>4 DEF Stroke
<1>5. CASE Retrigger(k, b, active)
  <2>1. PICK silenced \in cmidid_note_off(sounding, Note[k], transpose) :
            sounding' \in cmidid_note_on(silenced, Note[k], transpose, last_velocity[k])
    BY <1>5 DEF Retrigger
  <2>2. silenced = sounding \ {Pitch(k)} /\ last_velocity[k] \in 0..255
    BY <2>1, NoteOffEffect
  <2>3. sounding' = IF last_velocity[k] = 0 THEN sounding \ {Pitch(k)}
                    ELSE sounding \cup {Pitch(k)}
    BY <2>1, <2>2, NoteOnEffect
  <2>4. QED
    BY <1>5, <2>3 DEF Retrigger, keyVars
<1>6. CASE NoEvent(k, b, active)
  BY <1>6 DEF NoEvent, keyVars, midiVars
<1>7. QED
  BY <1>1, <1>2, <1>3, <1>4, <1>5, <1>6 DEF handle_button_event

(* With nobody transposing the transposition stays 0. *)
LEMMA NotTransposed ==
    ASSUME Delivered
    PROVE  Spec => [](transpose = 0)
<1>1. Init => transpose = 0
  BY DEF Init
<1>2. TypeOK /\ transpose = 0 /\ [Next]_vars => (transpose = 0)'
  <2> SUFFICES ASSUME TypeOK, transpose = 0, [Next]_vars PROVE transpose' = 0
    OBVIOUS
  <2>1. ASSUME NEW i \in Lines, TimerDispatch(i) PROVE transpose' = 0
    <3>1. /\ i[1] \in Keys
          /\ i[2] \in Buttons
          /\ handle_button_event(i[1], i[2], sample[i] = "active")
          /\ (sample[i] = "active") \in BOOLEAN
      BY <2>1 DEF Lines, TimerDispatch
    <3>2. QED
      BY <3>1, EventType
  <2>2. ASSUME NEW semitones \in TransposeArgs, IoctlTranspose(semitones) PROVE transpose' = 0
    BY <2>2 DEF IoctlTranspose, cmidid_transpose, Delivered
  <2>3. QED
    BY <2>1, <2>2 DEF Next, Handler, PinEdge, IrqIgnored, IrqStart, IrqLock, TimerSample,
                      IoctlSettings, vars, midiVars
<1>3. QED
  BY <1>1, <1>2, TypeCorrect, PTL DEF Spec

(***************************************************************************)
(* No note hangs: as long as events are delivered and nobody transposes, a *)
(* pitch sounds only while a key of that pitch is pressed, also when keys  *)
(* share pitches.                                                          *)
(***************************************************************************)
THEOREM NoNoteHangs ==
    ASSUME Delivered, SMP = FALSE
    PROVE  Spec => []SoundingHasKey
<1>1. Init => SoundingHasKey
  BY DEF Init, SoundingHasKey
<1>2. TypeOK /\ transpose = 0 /\ (transpose = 0)' /\ SoundingHasKey /\ [Next]_vars
        => SoundingHasKey'
  <2> SUFFICES ASSUME TypeOK, transpose = 0, transpose' = 0, SoundingHasKey, [Next]_vars
               PROVE  SoundingHasKey'
    OBVIOUS
  <2>1. \A k \in Keys : Pitch(k)' = Pitch(k)
    BY DEF Pitch
  <2>2. ASSUME NEW i \in Lines, TimerDispatch(i) PROVE SoundingHasKey'
    <3>1. PICK k \in Keys, b \in Buttons :
              handle_button_event(k, b, sample[i] = "active")
      BY <2>2 DEF Lines, TimerDispatch
    <3>2. /\ \A j \in Keys \ {k} : state'[j] = state[j]
          /\ \/ UNCHANGED <<state, last_velocity, sounding>>
             \/ state[k] # "PRESSED" /\ state'[k] # "PRESSED" /\ sounding' = sounding
             \/ state'[k] # "PRESSED" /\ sounding' = sounding \ {Pitch(k)}
             \/ /\ state'[k] = "PRESSED"
                /\ sounding' = IF last_velocity'[k] = 0 THEN sounding \ {Pitch(k)}
                               ELSE sounding \cup {Pitch(k)}
      <4>1. (sample[i] = "active") \in BOOLEAN
        OBVIOUS
      <4>2. QED
        BY <3>1, <4>1, EventSound
    <3> HIDE DEF Pitch
    <3>3. QED
      BY <2>1, <3>2 DEF SoundingHasKey
  <2>3. ASSUME UNCHANGED <<state, sounding>> PROVE SoundingHasKey'
    BY <2>1, <2>3 DEF SoundingHasKey
  <2>4. QED
    BY <2>2, <2>3 DEF Next, Handler, PinEdge, IrqIgnored, IrqStart, IrqLock, TimerSample,
                      IoctlSettings, IoctlTranspose, vars, keyVars, midiVars
<1>3. QED
  BY <1>1, <1>2, TypeCorrect, NotTransposed, PTL DEF Spec

(***************************************************************************)
(* With every key released nothing sounds, for any keys, with any pitches,  *)
(* as long as events are delivered and nobody transposes.                  *)
(***************************************************************************)
THEOREM SilentWithoutTransposing ==
    ASSUME Delivered, SMP = FALSE
    PROVE  Spec => []SilentAtRest
<1>1. SoundingHasKey => SilentAtRest
  <2>1. "INACTIVE" # "PRESSED"
    OBVIOUS
  <2>2. QED
    BY <2>1 DEF SoundingHasKey, SilentAtRest
<1>2. QED
  BY <1>1, NoNoteHangs, PTL

(***************************************************************************)
(* What is heard is what is pressed: if moreover every key has a pitch of   *)
(* its own, the sounding pitches are exactly those of the keys that are     *)
(* pressed and were not struck with velocity 0.                            *)
(***************************************************************************)
THEOREM HeardIsPressed ==
    ASSUME Delivered, OwnPitch, SMP = FALSE
    PROVE  Spec => []SoundingIsPressed
<1> DEFINE Sounds(k) == state[k] = "PRESSED" /\ last_velocity[k] # 0
<1>1. Init => SoundingIsPressed
  BY DEF Init, SoundingIsPressed
<1>2. TypeOK /\ transpose = 0 /\ (transpose = 0)' /\ SoundingIsPressed /\ [Next]_vars
        => SoundingIsPressed'
  <2> SUFFICES ASSUME TypeOK, transpose = 0, transpose' = 0, SoundingIsPressed, [Next]_vars
               PROVE  SoundingIsPressed'
    OBVIOUS
  <2>1. \A k \in Keys : Pitch(k)' = Pitch(k)
    BY DEF Pitch
  <2>2. \A j, k \in Keys : Pitch(j) = Pitch(k) => j = k
    BY DEF OwnPitch, Pitch
  <2>3. ASSUME NEW i \in Lines, TimerDispatch(i) PROVE SoundingIsPressed'
    <3>1. PICK k \in Keys, b \in Buttons :
              handle_button_event(k, b, sample[i] = "active")
      BY <2>3 DEF Lines, TimerDispatch
    <3>2. (sample[i] = "active") \in BOOLEAN
      OBVIOUS
    <3>3. /\ \A j \in Keys \ {k} : /\ state'[j] = state[j]
                                   /\ last_velocity'[j] = last_velocity[j]
          /\ \/ UNCHANGED <<state, last_velocity, sounding>>
             \/ state[k] # "PRESSED" /\ state'[k] # "PRESSED" /\ sounding' = sounding
             \/ state'[k] # "PRESSED" /\ sounding' = sounding \ {Pitch(k)}
             \/ /\ state'[k] = "PRESSED"
                /\ sounding' = IF last_velocity'[k] = 0 THEN sounding \ {Pitch(k)}
                               ELSE sounding \cup {Pitch(k)}
      BY <3>1, <3>2, EventSound
    <3>4. \A p : p \in sounding <=> \E j \in Keys : Sounds(j) /\ Pitch(j) = p
      BY DEF SoundingIsPressed
    <3>5. \A p : p \in sounding' <=> \E j \in Keys : Sounds(j)' /\ Pitch(j) = p
      BY <2>2, <3>3, <3>4
    <3>6. QED
      BY <2>1, <3>5 DEF SoundingIsPressed
  <2>4. ASSUME UNCHANGED <<state, last_velocity, sounding>> PROVE SoundingIsPressed'
    BY <2>1, <2>4 DEF SoundingIsPressed
  <2>5. QED
    BY <2>3, <2>4 DEF Next, Handler, PinEdge, IrqIgnored, IrqStart, IrqLock, TimerSample,
                      IoctlSettings, IoctlTranspose, vars, keyVars, midiVars
<1>3. QED
  BY <1>1, <1>2, TypeCorrect, NotTransposed, PTL DEF Spec

(***************************************************************************)
(* A key event in the terms of the instrument: key k is touched, struck or *)
(* lifted, or nothing changes for the musician.                            *)
(***************************************************************************)
LEMMA EventIsMove ==
    ASSUME TypeOK, Delivered, NEW k \in Keys, NEW b \in Buttons,
           NEW active \in BOOLEAN, handle_button_event(k, b, active)
    PROVE  \/ UNCHANGED <<state, last_velocity>>
           \/ state[k] = "INACTIVE" /\ state' = [state EXCEPT ![k] = "TOUCHED"]
           \/ state[k] = "TOUCHED" /\ state' = [state EXCEPT ![k] = "PRESSED"]
           \/ state[k] # "INACTIVE" /\ state' = [state EXCEPT ![k] = "INACTIVE"]
<1> USE DEF TypeOK, KEY_STATE
<1>1. CASE Touch(k, b, active)
  BY <1>1 DEF Touch
<1>2. CASE ReleaseAgain(k, b, active)
  BY <1>2 DEF ReleaseAgain
<1>3. CASE Release(k, b, active)
  BY <1>3 DEF Release
<1>4. ASSUME NEW t \in StrokeTimes, Stroke(k, b, active, t)
      PROVE  state[k] = "TOUCHED" /\ state' = [state EXCEPT ![k] = "PRESSED"]
  BY <1>4 DEF Stroke
<1>5. CASE Retrigger(k, b, active)
  BY <1>5 DEF Retrigger, keyVars
<1>6. CASE NoEvent(k, b, active)
  BY <1>6 DEF NoEvent, keyVars
<1>7. QED
  BY <1>1, <1>2, <1>3, <1>4, <1>5, <1>6 DEF handle_button_event

(***************************************************************************)
(* The keyboard implements the instrument: in the setting of               *)
(* HeardIsPressed every step touches, strikes or lifts one key, or changes *)
(* nothing a musician can see or hear.  SoundingIsPressed before and after *)
(* the step says which keys are heard.                                     *)
(***************************************************************************)
THEOREM KeyboardIsInstrument ==
    ASSUME Delivered, OwnPitch, SMP = FALSE
    PROVE  Spec => IsInstrument
<1> DEFINE Sounds(k) == state[k] = "PRESSED" /\ last_velocity[k] # 0
           Heard == {k \in Keys : Pitch(k) \in sounding}
<1>1. Init => Played!Init
  BY DEF Init, Played!Init
<1>2. TypeOK /\ transpose = 0 /\ SoundingIsPressed /\ (transpose = 0)' /\ SoundingIsPressed'
      /\ [Next]_vars => [Played!Next]_(Played!vars)
  <2> SUFFICES ASSUME TypeOK, transpose = 0, SoundingIsPressed,
                      transpose' = 0, SoundingIsPressed', [Next]_vars
               PROVE  [Played!Next]_(Played!vars)
    OBVIOUS
  <2>1. \A k \in Keys : Pitch(k)' = Pitch(k)
    BY DEF Pitch
  <2>2. \A j, k \in Keys : Pitch(j) = Pitch(k) => j = k
    BY DEF OwnPitch, Pitch
  <2>3. \A k \in Keys : k \in Heard <=> Sounds(k)
    BY <2>2 DEF SoundingIsPressed
  <2>4. \A k \in Keys : k \in Heard' <=> Sounds(k)'
    BY <2>1, <2>2 DEF SoundingIsPressed
  <2>5. Heard \subseteq Keys /\ Heard' \subseteq Keys
    OBVIOUS
  <2>6. ASSUME UNCHANGED <<state, last_velocity>>
        PROVE  state' = state /\ Heard' = Heard
    <3>1. \A k \in Keys : k \in Heard' <=> k \in Heard
      BY <2>3, <2>4, <2>6
    <3>2. QED
      BY <2>5, <2>6, <3>1
  <2>7. ASSUME NEW i \in Lines, TimerDispatch(i)
        PROVE  Played!Next \/ (state' = state /\ Heard' = Heard)
    <3>1. PICK k \in Keys, b \in Buttons :
              handle_button_event(k, b, sample[i] = "active")
      BY <2>7 DEF Lines, TimerDispatch
    <3>2. (sample[i] = "active") \in BOOLEAN
      OBVIOUS
    <3>3. \A j \in Keys \ {k} : state'[j] = state[j] /\ last_velocity'[j] = last_velocity[j]
      BY <3>1, <3>2, EventSound
    <3>4. \A j \in Keys \ {k} : j \in Heard' <=> j \in Heard
      BY <2>3, <2>4, <3>3
    <3> HIDE DEF Heard
    <3>5. CASE UNCHANGED <<state, last_velocity>>
      BY <2>6, <3>5
    <3>6. CASE state[k] = "INACTIVE" /\ state' = [state EXCEPT ![k] = "TOUCHED"]
      <4>1. k \notin Heard /\ k \notin Heard'
        BY <2>3, <2>4, <3>6 DEF TypeOK
      <4>2. Heard' = Heard
        BY <2>5, <3>4, <4>1
      <4>3. QED
        BY <3>6, <4>2 DEF Played!Next, Played!Touch, Heard
    <3>7. CASE state[k] = "TOUCHED" /\ state' = [state EXCEPT ![k] = "PRESSED"]
      <4>1. Heard' = Heard \/ Heard' = Heard \cup {k}
        <5>1. k \notin Heard
          BY <2>3, <3>7
        <5>2. QED
          BY <2>5, <3>4, <5>1
      <4>2. QED
        BY <3>7, <4>1 DEF Played!Next, Played!Strike, Heard
    <3>8. CASE state[k] # "INACTIVE" /\ state' = [state EXCEPT ![k] = "INACTIVE"]
      <4>1. k \notin Heard'
        BY <2>4, <3>8 DEF TypeOK
      <4>2. Heard' = Heard \ {k}
        BY <2>5, <3>4, <4>1
      <4>3. QED
        BY <3>8, <4>2 DEF Played!Next, Played!Lift, Heard
    <3>9. QED
      BY <3>1, <3>2, <3>5, <3>6, <3>7, <3>8, EventIsMove
  <2>8. Played!Next \/ (state' = state /\ Heard' = Heard)
    BY <2>6, <2>7 DEF Next, Handler, PinEdge, IrqIgnored, IrqStart, IrqLock, TimerSample,
                      IoctlSettings, IoctlTranspose, vars, keyVars
  <2>9. QED
    BY <2>8 DEF Played!vars
<1>3. QED
  BY <1>1, <1>2, TypeCorrect, NotTransposed, HeardIsPressed, PTL
  DEF Spec, IsInstrument, Played!Spec

(* A key event without a transposition makes no pitch hang: what begins to *)
(* sound is the pitch of a pressed key, and a key that is released takes   *)
(* its pitch with it.                                                      *)
LEMMA EventHangsNothing ==
    ASSUME TypeOK, NEW k \in Keys, NEW b \in Buttons,
           NEW active \in BOOLEAN, handle_button_event(k, b, active)
    PROVE  /\ transpose' = transpose
           /\ Hanging' \subseteq Hanging \/ Undelivered
<1> USE DEF TypeOK, KEY_STATE
<1>0. \A S, n, tr : \A R \in cmidid_note_off(S, n, tr) :
          \/ R = S \ {EventNote(n, tr)}
          \/ R = S /\ (DispatchFails \/ Client <= 0)
  BY ClientAssumption, DispatchFailsAssumption DEF cmidid_note_off, dispatch_event
<1>a. \A S, n, tr, v : \A R \in cmidid_note_on(S, n, tr, v) :
          R \subseteq S \cup {EventNote(n, tr)}
  BY DEF cmidid_note_on, dispatch_event
<1>b. ASSUME transpose' = transpose,
             \A j \in Keys \ {k} : state'[j] = state[j],
             \/ sounding' = sounding /\ (state[k] = "PRESSED" => state'[k] = "PRESSED")
             \/ sounding' = sounding \ {Pitch(k)}
             \/ state'[k] = "PRESSED" /\ sounding' \subseteq sounding \cup {Pitch(k)}
      PROVE  Hanging' \subseteq Hanging
  <2>1. \A j \in Keys : Pitch(j)' = Pitch(j)
    BY <1>b DEF Pitch
  <2> HIDE DEF Pitch
  <2>2. QED
    BY <1>b, <2>1 DEF Hanging
<1>1. CASE Touch(k, b, active)
  BY <1>1, <1>b DEF Touch, midiVars
<1>2. CASE ReleaseAgain(k, b, active)
  <2>1. sounding' = sounding \ {Pitch(k)} \/ sounding' = sounding
    BY <1>2, <1>0 DEF ReleaseAgain, Pitch
  <2>2. QED
    BY <1>2, <1>b, <2>1 DEF ReleaseAgain
<1>3. CASE Release(k, b, active)
  <2>1. sounding' = sounding \ {Pitch(k)} \/ Undelivered
    BY <1>3, <1>0 DEF Release, Pitch, Undelivered
  <2>2. QED
    BY <1>3, <1>b, <2>1 DEF Release
<1>4. ASSUME NEW t \in StrokeTimes, Stroke(k, b, active, t)
      PROVE  transpose' = transpose /\ Hanging' \subseteq Hanging
  <2>1. sounding' \subseteq sounding \cup {Pitch(k)}
    BY <1>4, <1>a DEF Stroke, Pitch
  <2>2. QED
    BY <1>4, <1>b, <2>1 DEF Stroke
<1>5. CASE Retrigger(k, b, active)
  <2>1. PICK silenced \in cmidid_note_off(sounding, Note[k], transpose) :
            sounding' \in cmidid_note_on(silenced, Note[k], transpose, last_velocity[k])
    BY <1>5 DEF Retrigger
  <2>2. silenced \subseteq sounding
    BY <2>1, <1>0
  <2>3. sounding' \subseteq silenced \cup {Pitch(k)}
    BY <2>1, <1>a DEF Pitch
  <2>4. QED
    BY <1>5, <1>b, <2>2, <2>3 DEF Retrigger, keyVars
<1>6. CASE NoEvent(k, b, active)
  BY <1>6, <1>b DEF NoEvent, keyVars, midiVars
<1>7. QED
  BY <1>1, <1>2, <1>3, <1>4, <1>5, <1>6 DEF handle_button_event

(***************************************************************************)
(* A note comes to hang only by CMIDID_TRANSPOSE or by a note off that     *)
(* could not be dispatched, for any keys, pitches and transpositions and   *)
(* on several CPUs as well.                                                *)
(***************************************************************************)
THEOREM OnlyTransposingHangs == Spec => HangsOnlyByTransposing
<1>1. TypeOK /\ [Next]_vars
        => [Hanging' \subseteq Hanging \/ transpose' # transpose \/ Undelivered]_vars
  <2> SUFFICES ASSUME TypeOK, Next, transpose' = transpose
               PROVE  Hanging' \subseteq Hanging \/ Undelivered
    OBVIOUS
  <2>1. ASSUME NEW i \in Lines, TimerDispatch(i)
        PROVE  Hanging' \subseteq Hanging \/ Undelivered
    <3>1. PICK k \in Keys, b \in Buttons :
              handle_button_event(k, b, sample[i] = "active")
      BY <2>1 DEF Lines, TimerDispatch
    <3>2. (sample[i] = "active") \in BOOLEAN
      OBVIOUS
    <3>3. QED
      BY <3>1, <3>2, EventHangsNothing
  <2>2. ASSUME UNCHANGED <<state, sounding>> PROVE Hanging' \subseteq Hanging
    <3>1. \A j \in Keys : Pitch(j)' = Pitch(j)
      BY DEF Pitch
    <3> HIDE DEF Pitch
    <3>2. QED
      BY <2>2, <3>1 DEF Hanging
  <2>3. QED
    BY <2>1, <2>2 DEF Next, Handler, PinEdge, IrqIgnored, IrqStart, IrqLock, TimerSample,
                      IoctlSettings, IoctlTranspose, keyVars, midiVars
<1>2. QED
  BY <1>1, TypeCorrect, PTL DEF Spec, HangsOnlyByTransposing

=============================================================================
