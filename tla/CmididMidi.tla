----------------------------- MODULE CmididMidi -----------------------------
(***************************************************************************)
(* The MIDI component of the cmidid driver (src/module/cmidid_midi.c).      *)
(*                                                                         *)
(* The component turns a note number of a key into ALSA sequencer events.  *)
(* What a listener hears is a set of sounding pitches; the operators below *)
(* give the sets that may be sounding after an event was dispatched.       *)
(***************************************************************************)
EXTENDS Integers

CONSTANTS
    Client,         \* number of the sequencer client (state.client)
    DispatchFails   \* may snd_seq_kernel_client_dispatch return an error?

ASSUME ClientAssumption == Client \in Int
ASSUME DispatchFailsAssumption == DispatchFails \in BOOLEAN

Pitches == 0..127

-----------------------------------------------------------------------------
(* state.transpose is a signed char: the sum wraps around. *)
cmidid_transpose(transpose, semitones) ==
    ((transpose + semitones + 128) % 256) - 128

(* A bug for EventNote: the cap at the top of the MIDI range is forgotten. *)
EventNoteUncapped(note, transpose) == (note + transpose) % 256

(* The unsigned char note after `note += state.transpose', capped at 127.   *)
EventNote(note, transpose) ==
    LET pitch == (note + transpose) % 256
    IN  IF pitch >= 127 THEN 127 ELSE pitch

EventVelocity(velocity) == IF velocity >= 127 THEN 127 ELSE velocity

(* dispatch_event sends nothing without a client; a failure is only logged. *)
dispatch_event(before, after) ==
    IF Client > 0
    THEN {after} \cup (IF DispatchFails THEN {before} ELSE {})
    ELSE {before}

(* A note-on event of velocity 0 silences the pitch (MIDI 1.0). *)
cmidid_note_on(sounding, note, transpose, velocity) ==
    LET pitch == EventNote(note, transpose)
    IN  dispatch_event(sounding, IF EventVelocity(velocity) = 0
                                 THEN sounding \ {pitch}
                                 ELSE sounding \cup {pitch})

cmidid_note_off(sounding, note, transpose) ==
    dispatch_event(sounding, sounding \ {EventNote(note, transpose)})

=============================================================================
