--------------------------- MODULE CmididKeyboard ---------------------------
(***************************************************************************)
(* The keyboard of the cmidid driver at run time: GPIO lines, interrupts,  *)
(* debouncing timers, the state machine of every key, the MIDI notes it    *)
(* triggers and the ioctl commands (src/module/cmidid_gpio.c, with         *)
(* cmidid_midi.c and the dispatcher of cmidid_main.c).                     *)
(*                                                                         *)
(* A line is a pair <<key, button>>.  The pins of the lines change at any  *)
(* time; the interrupt controller latches an edge until irq_handler is     *)
(* entered.  irq_handler and timer_irq are split where another step may    *)
(* come between: with one CPU (SMP = FALSE) that is only a change of a     *)
(* pin, since both run with interrupts disabled; with several CPUs the     *)
(* handlers of different lines, and the two handlers of one line, run in   *)
(* parallel.  Timers of one delay are allowed to expire in any order.      *)
(***************************************************************************)
EXTENDS CmididCalibration, CmididMidi

CONSTANTS
    Keys,           \* the keys of the keyboard (state.keys)
    Note,           \* Note[k]: the note number of key k
    ActiveHigh,     \* ActiveHigh[b]: polarity of button b
    SMP,            \* do the handlers run on several CPUs?
    TransposeArgs   \* the arguments clients pass to CMIDID_TRANSPOSE

START_BUTTON == 0
END_BUTTON == 1
Buttons == {START_BUTTON, END_BUTTON}
Lines == Keys \X Buttons
KEY_STATE == {"INACTIVE", "TOUCHED", "PRESSED"}

ASSUME NoteAssumption == Note \in [Keys -> 0..255]
ASSUME ActiveHighAssumption == ActiveHigh \in [Buttons -> BOOLEAN]
ASSUME SMPAssumption == SMP \in BOOLEAN
ASSUME TransposeAssumption == TransposeArgs \subseteq -128..127

VARIABLES
    high,           \* lines whose pin reads 1
    edge,           \* lines with an edge that irq_handler has not seen yet
    irqs,           \* lines whose irq_handler has started the timer only
    timer_started,  \* lines whose timer_started flag is set
    armed,          \* lines whose hrtimer is queued
    sample,         \* what timer_irq has read from the pin, if it runs
    state,          \* KEY_STATE of every key
    last_velocity,  \* velocity of the last stroke of every key
    transpose,      \* semitones added to every note
    sounding        \* the pitches a listener of the client hears

lineVars == <<high, edge, irqs, timer_started, armed, sample>>
keyVars == <<state, last_velocity>>
midiVars == <<transpose, sounding>>
vars == <<lineVars, keyVars, midiVars, calVars>>

Active(i) == (i \in high) = ActiveHigh[i[2]]

(* With one CPU a handler is entered only when no handler is running. *)
Running == irqs # {} \/ \E i \in Lines : sample[i] # "none"
CanEnter == SMP \/ ~Running

(* The pitch a key sounds at under the present transposition. *)
Pitch(k) == EventNote(Note[k], transpose)

-----------------------------------------------------------------------------
(* After loading: request_irq makes irq_handler run at once for a line      *)
(* that is active already.                                                 *)
Init ==
    /\ high \in SUBSET Lines
    /\ edge \in SUBSET Lines
    /\ \A i \in Lines : Active(i) => i \in edge
    /\ irqs = {}
    /\ timer_started = {}
    /\ armed = {}
    /\ sample = [i \in Lines |-> "none"]
    /\ state = [k \in Keys |-> "INACTIVE"]
    /\ last_velocity = [k \in Keys |-> 0]
    /\ transpose = 0
    /\ sounding = {}
    /\ CalInit

(* The contact of line i opens, closes or bounces. *)
PinEdge(i) ==
    /\ high' = IF i \in high THEN high \ {i} ELSE high \cup {i}
    /\ edge' = edge \cup {i}
    /\ UNCHANGED <<irqs, timer_started, armed, sample, keyVars, midiVars, calVars>>

-----------------------------------------------------------------------------
(* irq_handler while the timer_started flag is set: jitter, ignored. *)
IrqIgnored(i) ==
    /\ CanEnter
    /\ i \in edge
    /\ i \notin irqs
    /\ i \in timer_started
    /\ edge' = edge \ {i}
    /\ UNCHANGED <<high, irqs, timer_started, armed, sample, keyVars, midiVars, calVars>>

(* irq_handler up to and including hrtimer_start ... *)
IrqStart(i) ==
    /\ CanEnter
    /\ i \in edge
    /\ i \notin irqs
    /\ i \notin timer_started
    /\ edge' = edge \ {i}
    /\ armed' = armed \cup {i}
    /\ irqs' = irqs \cup {i}
    /\ UNCHANGED <<high, timer_started, sample, keyVars, midiVars, calVars>>

(* A bug for IrqLock: the flag is never set, so jitter restarts the timer. *)
IrqLockForgotten(i) ==
    /\ i \in irqs
    /\ irqs' = irqs \ {i}
    /\ UNCHANGED <<high, edge, timer_started, armed, sample, keyVars, midiVars, calVars>>

(* ... and the assignment of timer_started after it. *)
IrqLock(i) ==
    /\ i \in irqs
    /\ timer_started' = timer_started \cup {i}
    /\ irqs' = irqs \ {i}
    /\ UNCHANGED <<high, edge, armed, sample, keyVars, midiVars, calVars>>

(* timer_irq reads the pin when the hrtimer of the line expires ... *)
TimerSample(i) ==
    /\ CanEnter
    /\ i \in armed
    /\ sample[i] = "none"
    /\ armed' = armed \ {i}
    /\ sample' = [sample EXCEPT ![i] = IF Active(i) THEN "active" ELSE "inactive"]
    /\ UNCHANGED <<high, edge, irqs, timer_started, keyVars, midiVars, calVars>>

-----------------------------------------------------------------------------
(* handle_button_event(k, b, active): the cases of its switch.            *)

(* First contact closes: the stroke begins. *)
Touch(k, b, active) ==
    /\ state[k] = "INACTIVE" /\ b = START_BUTTON /\ active
    /\ state' = [state EXCEPT ![k] = "TOUCHED"]
    /\ UNCHANGED <<last_velocity, midiVars, calVars>>

(* A release of a key that counts as released already. *)
ReleaseAgain(k, b, active) ==
    /\ state[k] = "INACTIVE" /\ b = START_BUTTON /\ ~active
    /\ sounding' \in cmidid_note_off(sounding, Note[k], transpose)
    /\ UNCHANGED <<state, last_velocity, transpose, calVars>>

(* A bug for Release: the release of a touched key is not noticed. *)
ReleaseKeepsState(k, b, active) ==
    /\ state[k] \in {"TOUCHED", "PRESSED"} /\ b = START_BUTTON /\ ~active
    /\ sounding' \in cmidid_note_off(sounding, Note[k], transpose)
    /\ state' = IF state[k] = "TOUCHED" THEN state
                ELSE [state EXCEPT ![k] = "INACTIVE"]
    /\ UNCHANGED <<last_velocity, transpose, calVars>>

Release(k, b, active) ==
    /\ state[k] \in {"TOUCHED", "PRESSED"} /\ b = START_BUTTON /\ ~active
    /\ sounding' \in cmidid_note_off(sounding, Note[k], transpose)
    /\ state' = [state EXCEPT ![k] = "INACTIVE"]
    /\ UNCHANGED <<last_velocity, transpose, calVars>>

(* A bug for Stroke: the transposition is taken the wrong way. *)
StrokeTransposedDown(k, b, active, t) ==
    /\ state[k] = "TOUCHED" /\ b = END_BUTTON /\ active
    /\ Measure(t)
    /\ sounding' \in cmidid_note_on(sounding, Note[k], -transpose, Velocity(t))
    /\ last_velocity' = [last_velocity EXCEPT ![k] = Velocity(t)]
    /\ state' = [state EXCEPT ![k] = "PRESSED"]
    /\ UNCHANGED transpose

(* Second contact closes t after the first: the note begins. *)
Stroke(k, b, active, t) ==
    /\ state[k] = "TOUCHED" /\ b = END_BUTTON /\ active
    /\ Measure(t)
    /\ sounding' \in cmidid_note_on(sounding, Note[k], transpose, Velocity(t))
    /\ last_velocity' = [last_velocity EXCEPT ![k] = Velocity(t)]
    /\ state' = [state EXCEPT ![k] = "PRESSED"]
    /\ UNCHANGED transpose

(* A bug for Retrigger: only the note off is sent. *)
RetriggerOffOnly(k, b, active) ==
    /\ state[k] = "PRESSED" /\ b = END_BUTTON /\ active
    /\ sounding' \in cmidid_note_off(sounding, Note[k], transpose)
    /\ UNCHANGED <<keyVars, transpose, calVars>>

(* A bug for Retrigger: the note is repeated at full velocity. *)
RetriggerFull(k, b, active) ==
    /\ state[k] = "PRESSED" /\ b = END_BUTTON /\ active
    /\ \E silenced \in cmidid_note_off(sounding, Note[k], transpose) :
           sounding' \in cmidid_note_on(silenced, Note[k], transpose, 127)
    /\ last_velocity' = [last_velocity EXCEPT ![k] = 127]
    /\ UNCHANGED <<state, transpose, calVars>>

(* Second contact closes again: the note is repeated. *)
Retrigger(k, b, active) ==
    /\ state[k] = "PRESSED" /\ b = END_BUTTON /\ active
    /\ \E silenced \in cmidid_note_off(sounding, Note[k], transpose) :
           sounding' \in cmidid_note_on(silenced, Note[k], transpose, last_velocity[k])
    /\ UNCHANGED <<keyVars, transpose, calVars>>

(* No case of the switch applies. *)
NoEvent(k, b, active) ==
    /\ \/ state[k] # "INACTIVE" /\ b = START_BUTTON /\ active
       \/ state[k] = "INACTIVE" /\ b = END_BUTTON /\ active
       \/ b = END_BUTTON /\ ~active
    /\ UNCHANGED <<keyVars, midiVars, calVars>>

handle_button_event(k, b, active) ==
    \/ Touch(k, b, active)
    \/ ReleaseAgain(k, b, active)
    \/ Release(k, b, active)
    \/ \E t \in StrokeTimes : Stroke(k, b, active, t)
    \/ Retrigger(k, b, active)
    \/ NoEvent(k, b, active)

(* A bug for TimerDispatch: the flag is not reset. *)
TimerDispatchNoReset(i) ==
    /\ sample[i] # "none"
    /\ sample' = [sample EXCEPT ![i] = "none"]
    /\ handle_button_event(i[1], i[2], sample[i] = "active")
    /\ UNCHANGED <<high, edge, irqs, timer_started, armed>>

(* ... resets the flag and passes what it has read to the key.            *)
TimerDispatch(i) ==
    /\ sample[i] # "none"
    /\ timer_started' = timer_started \ {i}
    /\ sample' = [sample EXCEPT ![i] = "none"]
    /\ handle_button_event(i[1], i[2], sample[i] = "active")
    /\ UNCHANGED <<high, edge, irqs, armed>>

-----------------------------------------------------------------------------
(* Ioctl commands run in process context: never inside a handler when      *)
(* there is one CPU.                                                       *)
IoctlSettings ==
    /\ CanEnter
    /\ CalIoctl
    /\ UNCHANGED <<lineVars, keyVars, midiVars>>

(* CMIDID_TRANSPOSE answers the new transposition plus 128. *)
IoctlTranspose(semitones) ==
    /\ CanEnter
    /\ transpose' = cmidid_transpose(transpose, semitones)
    /\ reply' = [cmd |-> "TRANSPOSE", value |-> transpose' + 128]
    /\ UNCHANGED <<lineVars, keyVars, sounding, last_stroke_time,
                   stroke_time_min, stroke_time_max, vel_curve>>

Handler(i) == IrqIgnored(i) \/ IrqStart(i) \/ IrqLock(i) \/ TimerSample(i) \/ TimerDispatch(i)

Next ==
    \/ \E i \in Lines : PinEdge(i) \/ Handler(i)
    \/ IoctlSettings
    \/ \E semitones \in TransposeArgs : IoctlTranspose(semitones)

(* A latched edge and an expired timer are served in the end although      *)
(* other lines keep interrupting; a handler that runs continues.           *)
Fairness ==
    \A i \in Lines :
        /\ SF_vars(IrqIgnored(i) \/ IrqStart(i))
        /\ SF_vars(TimerSample(i))
        /\ WF_vars(IrqLock(i))
        /\ WF_vars(TimerDispatch(i))

Spec == Init /\ [][Next]_vars
FairSpec == Spec /\ Fairness

-----------------------------------------------------------------------------
(***************************************************************************)
(* Every pitch dispatched is a MIDI note, every velocity an unsigned char  *)
(* and the transposition a signed char, however often clients transpose    *)
(* and calibrate (cmidid_transpose, config_note_event, time_to_velocity).  *)
(***************************************************************************)
TypeOK ==
    /\ {high, edge, irqs, timer_started, armed} \subseteq SUBSET Lines
    /\ sample \in [Lines -> {"none", "active", "inactive"}]
    /\ state \in [Keys -> KEY_STATE]
    /\ last_velocity \in [Keys -> 0..255]
    /\ transpose \in -128..127
    /\ sounding \subseteq Pitches
    /\ {last_stroke_time, stroke_time_min, stroke_time_max} \subseteq Word32
    /\ vel_curve \in VEL_CURVE

(***************************************************************************)
(* Debouncing never closes a line for good and never lets two timers race: *)
(* when no handler is running the timer_started flags are exactly the      *)
(* lines whose hrtimer is still to come (irq_handler sets the flag after    *)
(* hrtimer_start, timer_irq resets it).                                    *)
(***************************************************************************)
FlagMeansTimer == ~Running => timer_started = armed

(* Nothing is under way on line i. *)
Quiet(i) == i \notin edge \cup irqs \cup armed /\ sample[i] = "none"

(***************************************************************************)
(* No edge is lost: whatever edges fell into the jitter window or between  *)
(* the reading of the pin and the reset of the flag, once a start contact  *)
(* is quiet its key is inactive exactly when the contact is open.          *)
(***************************************************************************)
KeyFollowsStartButton ==
    \A k \in Keys :
        Quiet(<<k, START_BUTTON>>) =>
            (state[k] # "INACTIVE") = Active(<<k, START_BUTTON>>)

(***************************************************************************)
(* What is heard is what is pressed: the sounding pitches are those of the *)
(* keys that are pressed and were not struck with velocity 0.  Holds when  *)
(* every key has a pitch of its own, no transposition happens while        *)
(* playing and every event is delivered.                                   *)
(***************************************************************************)
SoundingIsPressed ==
    sounding = {Pitch(k) : k \in {j \in Keys : state[j] = "PRESSED" /\ last_velocity[j] # 0}}

(***************************************************************************)
(* No note hangs: a pitch sounds only while a key of that pitch is pressed, *)
(* also when keys share a pitch.                                           *)
(***************************************************************************)
SoundingHasKey ==
    \A p \in sounding : \E k \in Keys : state[k] = "PRESSED" /\ Pitch(k) = p

(* With every key released nothing sounds. *)
SilentAtRest == (\A k \in Keys : state[k] = "INACTIVE") => sounding = {}

(* The pitches that sound although no key of that pitch is pressed. *)
Hanging == {p \in sounding : \A k \in Keys : state[k] = "PRESSED" => Pitch(k) # p}

(* A step whose event did not reach the listener. *)
Undelivered == (DispatchFails \/ Client <= 0) /\ sounding' = sounding

(***************************************************************************)
(* "started notes might not stop, if the transpose is changed inbetween":  *)
(* that, and a note off that could not be dispatched, are the only ways in *)
(* which a note comes to hang.  Note on, note off and the repeated note of *)
(* a key agree on its pitch under every transposition, also one that wraps *)
(* around or is capped (config_note_event), and a note off never misses    *)
(* what the key sounds since the last CMIDID_TRANSPOSE.                    *)
(***************************************************************************)
HangsOnlyByTransposing ==
    [][Hanging' \subseteq Hanging \/ transpose' # transpose \/ Undelivered]_vars

(***************************************************************************)
(* A start contact that stays open in the end leaves its key inactive, one *)
(* that stays closed leaves it touched or pressed, while all the other     *)
(* lines may bounce for ever.                                              *)
(***************************************************************************)
KeySettles ==
    \A k \in Keys :
        /\ <>[]~Active(<<k, START_BUTTON>>) => <>[](state[k] = "INACTIVE")
        /\ <>[]Active(<<k, START_BUTTON>>) => <>[](state[k] # "INACTIVE")

(***************************************************************************)
(* The instrument that the keyboard is: the keys whose pitch sounds are    *)
(* heard.                                                                  *)
(***************************************************************************)
Played == INSTANCE Instrument WITH
    key <- state,
    heard <- {k \in Keys : Pitch(k) \in sounding}

(***************************************************************************)
(* The keyboard is an instrument: however contacts bounce and handlers     *)
(* interleave, no step moves two keys, strikes a key that was not touched, *)
(* makes a key heard without a stroke or silences one that is held (the    *)
(* retrigger, which sends note off and note on, included).  Holds in the   *)
(* setting of SoundingIsPressed.                                           *)
(***************************************************************************)
IsInstrument == Played!Spec

=============================================================================
