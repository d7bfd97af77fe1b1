# A TLA+ model of the CMIDID kernel drivers

The repository holds two Linux kernel modules for a self-made MIDI keyboard on
a Raspberry Pi:

* **cmidid** (`src/module`): every key of the keyboard closes two contacts one
  after the other; the module measures the time between them on GPIO
  interrupts, turns it into a velocity and sends ALSA sequencer notes.
* **applemidi** (`src/applemidi`): an ALSA client that sends notes to AppleMIDI
  (RTP-MIDI) clients on the network: sessions, clock synchronization, RTP
  packets.

This directory models both, checks the models with TLC on small instances, and
proves the central properties with TLAPS for all instances.

## Inventory

| Component | State | Operations | Interacts with |
|---|---|---|---|
| keyboard (`cmidid_gpio.c`) | pins, latched interrupts, `timer_started`, hrtimers, key state, `last_velocity` | `irq_handler`, `timer_irq`, `handle_button_event` | interrupt controller, timers, MIDI component |
| calibration (`cmidid_gpio.c`) | `last_stroke_time`, `stroke_time_min/max`, `vel_curve` | setters, `time_to_velocity` | ioctl clients, strokes |
| MIDI (`cmidid_midi.c`) | sequencer client, card, `transpose` | note on/off, transpose, init, exit | ALSA sequencer |
| main (`cmidid_main.c`) | character device, class, device number | init, exit, ioctl | all of the above |
| RTP peers (`rtp.c`) | table of 16 peer pointers, reference counts | add, remove, find, next | session |
| AppleMIDI session (`applemidi.c`) | `sync`, `peer`, `command`, lock, timer, sockets | socket callback, idle timer, create, destroy | clients, network |
| RTP sender (`rtp.c`, `rtpmidi.c`) | sequence numbers, buffers | encode, send to every peer | network |
| ALSA input (`alsa.c`), messages (`message.c`), clock (`clock.c`), driver base (`midi.c`) | port, message objects, rate and offset | input, encode, now | sequencer |

What is hard here: pins that change in the middle of the handlers; the jitter
window, in which interrupts are ignored on purpose; ioctl commands between a
note on and its note off; 32 bit arithmetic at its limits; the goto chains of
a load that fails half way, with interrupts already arriving; a reference
counted table with colliding identifiers; a cached pointer into that table;
lost, repeated and reordered packets; a handshake that one lost packet
interrupts; notes that are sent while clients come and go, under a plain
spinlock that means something else on one CPU and in a hard interrupt; loading and
unloading with packets, events and timeouts already, or still, arriving.

What makes each part correct:

* keyboard: no edge is lost for good, no line stays locked, a released key is
  silent, a settled contact settles its key;
* calibration: velocities are MIDI velocities, slower is not louder, the curve
  meets its end points, calibrating has the effect it is meant to have;
* lifecycle: everything is given back once, handlers do not outlive their data -
  and where they do, in which ways;
* peers: the table holds the only reference of every peer;
* session: driver and clients agree on the members, every member is
  synchronized again and again;
* sender: every member of the session is sent every note once, in order and
  numbered without a gap, and can decode it;
* clock: it keeps time at any rate.

## Modules

| Module | Models | State and actions |
|---|---|---|
| `CmididMidi` | `cmidid_midi.c` at run time | operators: what may sound after a note on or off under the present transposition; a dispatch may fail |
| `CmididCalibration` | velocity and calibration | the settings and `reply` (the answer of the last ioctl); `Measure`, the setters |
| `CmididKeyboard` | `cmidid_gpio.c` at run time; extends both | see below |
| `CmididLifecycle` | `cmidid_init`, `cmidid_exit` and what they call | `pc` is the next call; one action per call, each with its failure and its label; `irq_handler` and `timer_irq` at any time |
| `RtpPeers` | peers and table of `rtp.c` | operators on a table record, with the memory peers are allocated from |
| `AppleMidiSession` | `applemidi.c`, extends `RtpPeers` | one action per packet type and `IdleTimeout`; the clients and the network are external |
| `RtpMidiPayload` | `message.c`, encoders of `rtpmidi.c` and `rtp.c` | operators from messages to bytes, and a receiver's way back |
| `AppleMidiSend` | `alsa.c` at run time, `RTPMIDISessionSend`, `RTPSessionSendPacket`, `_socket_callback`; extends `RtpPeers` and `RtpMidiPayload` | see below |
| `AppleMidiLifecycle` | creation and destruction in `applemidi.c`, `midi.c`, `alsa.c`, `rtp.c`, `rtpmidi.c`; extends `RtpPeers` and `MidiClock` | `pc` is the next call, one action per call with its failure; packets, events and the timer at any time |
| `MidiClock` | arithmetic of `clock.c` | operators: the loops over the primes, a clock and its readings |
| `Instrument` | abstract | what `CmididKeyboard` implements: keys are touched, struck, lifted |
| `MidiBroadcast` | abstract | what `AppleMidiSend` implements: clients join, leave, are told of what is played |
| `CmididCalibrationProofs`, `CmididKeyboardProofs`, `CmididLifecycleProofs`, `AppleMidiSessionProofs`, `AppleMidiSendProofs`, `RtpMidiPayloadProofs`, `AppleMidiLifecycleProofs` | theorems, each extending the module it is about | |
| `RtpPeersProofs` | lemmas on the table of peers | shared by the three of the applemidi driver |
| `MCCalibration`, `MCKeyboard`, `MCLifecycle`, `MCSession`, `MCSend`, `MCAppleMidiLifecycle` | values of constants for TLC | |

**CmididKeyboard.** A line is a pair of a key and a button. `PinEdge` changes a
pin and latches its interrupt. `irq_handler` is `IrqIgnored` (flag set) or
`IrqStart` (up to `hrtimer_start`) followed by `IrqLock` (the flag);
`timer_irq` is `TimerSample` (the pin is read) followed by `TimerDispatch`
(the flag is reset, `handle_button_event` runs). Between the halves pins may
change. With `SMP = FALSE`, the Raspberry Pi the driver is written for, no
other handler or ioctl comes between, because the handlers run with interrupts
disabled; with `SMP = TRUE` every other one may. `handle_button_event` is a
disjunction of the cases of its switch; it is one step, which is exact on one
CPU. Real time is left out: a stroke lasts any of `StrokeTimes`, timers expire
in any order. `sounding` is what a listener of the sequencer client hears; a
note on with velocity 0 silences, as MIDI 1.0 says.

**CmididCalibration.** Arithmetic is unsigned, modulo the constant `U32`
(2^32 in the code). Division by zero gives 0, as `__div0` of the ARM build
does. The runs use smaller words, since TLC's integers have 32 bits; what
depends on the word is said with the run.

**CmididLifecycle.** `held`, `gpios`, `irqs`, `timers` and `kref` are what the
driver has of the kernel. A use of something released is recorded in `fault`
and the code goes on, as it would: of the keys, of a pin that a handler reads
with `gpio_get_value` (`irq_handler` reads both pins of the key, `timer_irq` that
of its button), of the class. The results of `class_create` and `device_create`,
which the code does not test, may be failures. `failed` is a history variable: a call past
the set-up of the character device has failed (their error paths do not undo
everything, see the departures below).

**AppleMidiSession.** The callbacks run under `driver->lock`, so each is one
step; a packet that finds the lock taken is dropped, which is one case of
`Lose`. Messages in flight are a set, delivered in any order. The clients follow
the AppleMIDI session protocol: an invitation on the control port, then on the
data port, clock messages CK0, CK1, CK2, an end of session. `Losable` names the
commands that may be lost, `Retry` the sockets on which clients repeat
invitations, `Leavers` and `Initiators` the clients that leave and that start
handshakes themselves. Commands are records: their byte layout is not modelled.

**AppleMidiSend.** The contexts in `Inputs` call `_alsa_input`: processes, and
hard interrupts, as cmidid's timers are. Packets come in a soft interrupt, `RX`.
A `machine` has CPUs and says which inputs are hard interrupts; a call is made
on any of the CPUs (`at`), and a context runs unless one that outranks it is on
the same CPU (`Runs`). `driver->lock` is a plain spinlock: it disables
preemption, not interrupts. On several CPUs it is a lock; on a kernel for one CPU
there is no lock, and `spin_trylock` always succeeds (`Acquire`). An input takes
the lock (`spin_lock`), encodes the event (`ConvertNote`, or `ConvertOther` with
its early return, which keeps the lock), sends one packet per step to the peers
in the table (`SendPacket`, which may fail) and releases the lock. A command is
dropped when the lock is taken (`SocketCallbackDrop`); otherwise it is let in
(`spin_trylock`) and processed (`SocketCallback`). Processing is one step, also
for an interrupt in the middle of it: the table changes by one assignment.
`wire` holds the bytes of all packets sent to a client in its session, RTP
header, MIDI header and message list. The refinement to `MidiBroadcast` maps
the table to the members (`Members`), the event of the input past the conversion
to what is played (`Playing`), the slot the loop has come to, to the members not
told yet (`Todo`), and decodes `wire` (`Heard`). The clients join once per session: an invitation
repeated on the data port, which adds a peer twice, is not part of it
(`AppleMidiSession` has it), nor are clock messages, which leave the table alone.

**AppleMidiLifecycle.** `held` is the set of objects that exist. A callback
that needs an object that is not there (`Missing`) notes it in `fault` and does
nothing more; the driver is not loaded again after that. Unloading takes no
lock, so it is one step per access: `_applemidi_disconnect` finds a peer
(`disconnect`), reads its address (`get_address`), looks it up in the table
(`find_slot`), empties the slot (`clear_slot`) and releases it (`release_peer`).
A packet in between may free it; `stale` remembers that, and each further use is
a fault. Releasing a MIDI session that could not be created goes through a null
pointer: `rmmod` ends there (`pc` is "oops") and releases nothing more. The
handlers of packets and events are one step, that of the timer three, so that
`del_timer` may come between its `mod_timer` and its end (`raced`). Failures
of `kmalloc` that the code does not test are left out, as is the lock, which no part of loading and unloading takes. The end of
session that `_applemidi_disconnect_peer` sends is left out because no client
receives it: the address handed to `_applemidi_endsession` is that of a local
pointer.

**MidiClock.** The two loops over the primes are functions on the number
of rounds, with one operator per round (`DivideStep`, `NormalizeStep`); what
follows the loop is taken at a round that has gone through all primes. The
fraction is computed without wrapping around, which `ClockKeepsTime` justifies: its
sides stay words of 32 bits. The product of time and numerator is taken modulo
`U64`, as in the code, and `ProductFits` says when that makes no difference. With
the rate the driver asks for, the numerator is 1 and it never does.

## Runs

| Run | Instance | Shows |
|---|---|---|
| `calibration` | 12 stroke times, linear curve, 20 bit word, 444 states | the velocity is in 0..127, monotone, on the line; a stroke repeated after calibrating the maximum is silent. The limits are any pair that calibration reaches, the maximum below the minimum included |
| `calibration_curves` | four curves, times of the default magnitude, 30 bit word | violation: velocities above 127 |
| `keyboard_one_key` | one key, mixed polarity, failing dispatches, transposition by 64 and -128, 141728 states, fairness | types, flags and timers, `KeySettles`; a note hangs only by transposing or by a note off that was not dispatched (`HangsOnlyByTransposing`) |
| `keyboard_two_keys` | two keys, one stroke time, calibration, 1.9 million states | `KeyFollowsStartButton`, `SoundingIsPressed`; the keyboard implements `Instrument` |
| `lifecycle` | mappings of up to three keys, right and wrong; every call may fail; 456944 states | what a failure leaves behind, what handlers find, which pins a loaded driver has; all that an orderly unload uses after its release are pins, by timers that expire between `gpio_free_array` and `hrtimer_cancel` (`OnlyLateTimersFault`) |
| `session_clean` | two colliding clients, three slots, all but the end of session may be lost, 1.4 million states | ownership of peers, agreement on the members; `driver->peer` goes stale only when its own client leaves |
| `session_live` | two clients that stay, no loss, fairness, 3472 states | every client is synchronized for ever |
| `session_dangling` | two clients that leave, two slots | violation: `driver->peer` dangles |
| `session_missed_sync` | one client, clock messages may be lost, fairness | violation: no more handshakes |
| `send` | two inputs, a process and a hard interrupt on two CPUs or two hard interrupts on one; two colliding clients of which one leaves and comes back, three slots, three events out of a note on, a note off and another event, numbers modulo 3, fairness, 349626 states | sending implements `MidiBroadcast`; packets are numbered without a gap; message lists survive their encoding; a call of `_alsa_input` ends, or one of two named deadlocks has happened (`EveryNoteIsSent`) |
| `send_one_cpu` | the same with two processes on one CPU | violation: the peer a note is being sent to is freed |
| `applemidi_lifecycle` | every call may fail, up to three invitations, two slots, fairness, 1.9 million states | what stays after an unload (`OnlyClockAndTimerStay`), sessions outlive their users, all the ways in which something missing is used (`OnlyKnownFaults`), unloading that uses nothing missing ends; the clock keeps time |

*Bounds.* One key has both contacts, so it shows every order of the events of
one state machine; two keys show the interplay through the handlers, the
calibration and the sound, and every further key interacts in no other way.
One stroke time suffices there because calibration moves the maximum onto it,
so that strokes with and without sound occur. In the table three slots and two
identifiers that collide suffice for a hole in front of a displaced peer, the
case that breaks careless probing; peers of other identifiers occupy slots and
nothing else. Three keys are the least for which the loop at `free_buttons`
runs, since it skips the first key. The word of the `calibration` run is larger
than 127 times the largest stroke time, as 2^32 is for strokes of up to 34
seconds. In `calibration_curves` the velocity 255 that TLC finds on the concave
curve has the same value with 32 bits: the quotient is 0 in both.

In `send` three events suffice for numbers that wrap modulo 3, and for two
inputs of which one waits while the other sends; two CPUs suffice for a holder
of the lock and a context that waits for it, on the same CPU or on another;
the channel 17 of the note on is past the four bits it is cut to. The lists for `PayloadRoundTrips` are pairs
with differences on both sides of the limits of 7, 14, 21 and 28 bits, five
messages with every pattern of statuses (14 to 19 bytes, around the limit of the
short header) and forty messages of seven bytes (both bytes of the length). In
`applemidi_lifecycle` one client suffices, since it may be in the table twice;
three invitations are one more than the table has room for. The clock is
checked at sixteen rates that have the factors of the time unit (1000 instead of
10^9, with the same primes), others, or both, and 0 for the default, with words
of 10 and 20 bits; at the latest times the product of the rate 999 exceeds its
word, so that `ProductFits` is not always true.

*Deadlock* is checked in every run but those of these two models, whose bounds on
events and invitations let them end and in which deadlock and oops are what the
properties are about, and `lifecycle`, where an oops is the end.

*Fairness.* `KeySettles` assumes that a latched interrupt and an expired timer
are served in the end (strong fairness, because other handlers disable
interrupts again and again) and that a handler that runs continues (weak). The
kernel guarantees both: interrupts are latched by the controller, and both
handlers are short and do not block. Nothing is assumed of the pins. `session_live` assumes that the
idle timer keeps firing (`mod_timer` is its first call) and that messages are
delivered and answered; clients that do not answer are outside it, and
`session_missed_sync` shows what one lost message does. `EveryNoteIsSent`
assumes that a context that is not stopped by another one on its CPU continues
(weak) and that the inputs waiting for the lock get it in turn (strong: the
spinlocks of ARM are ticket locks). Nothing is assumed of a context that has
been interrupted: that a hard interrupt may wait for the holder it has
interrupted (`SelfDeadlock`) is one of the two ways in which a call may not end,
an event that is not a note and has kept the lock (`LockKept`) the other.
`UnloadEnds` assumes that unloading continues (weak), and is
about a bounded number of invitations: the loop in `_applemidi_disconnect`
removes peers without the lock, and a client that is invited again and again
keeps it going.

## Proofs

* `CmididKeyboardProofs` proves, for any keys, notes, polarities, curves and
  words: `TypeCorrect`; and on one CPU `NoEdgeIsLost`, `FlagsTrackTimers`,
  `NoNoteHangs` (events delivered, nobody transposes), `HeardIsPressed`
  (moreover, every key has its own pitch) and, in the same setting,
  `KeyboardIsInstrument`: the keyboard implements `Instrument`, with the keys
  whose pitch sounds as those heard. The invariants are not inductive by
  themselves: that a quiet line agrees with its key says nothing while the line
  is busy. `LineInv` adds that at most one handler runs (`OneHandler`), that a
  flag is set exactly while a timer is queued or a handler is between its
  halves (`FlagAndTimer`), that what `timer_irq` has read is still the pin's
  value unless a new edge is latched (`SampleIsFresh`), and that an
  edge-free line without timer agrees with its key (`KeyAgrees`). So an edge
  after the read is never lost: it is latched, and no handler can ignore it
  before the flag is reset. The theorems on sound use the types and the effect
  of one key event on one pitch. The refinement uses `SoundingIsPressed` before
  and after a step: it says that the keys heard are those pressed with a
  velocity above 0, so that it is enough to know which key moves and how
  (`EventIsMove`). `SilentWithoutTransposing`: for any pitches, shared ones included, a keyboard at
  rest is silent as long as nobody transposes. `OnlyTransposingHangs` proves the
  action property `HangsOnlyByTransposing`, on several CPUs too: note on and note
  off of a key compute the same pitch unless the transposition has changed.
* `CmididCalibrationProofs` proves `CalTypeCorrect` and, on the linear curve,
  `LinearVelocityInRange`: the velocity is in 0..127 for every word size of at
  least 8 bits and all settings, even when the product wraps around, since a
  wrapped product is smaller. `CalibratedMaxIsSilent` is about all curves; its
  invariant says that the last answer to `CMIDID_CALIBRATE_MAX_TIME` is the
  maximum in force. `LinearCurveIsTheLine` and `LinearCurveIsMonotone` assume
  `NoWrap`: 127 times any stroke time, or module parameter, is a word (34 seconds
  with 32 bits; without it they are false, see below). Their invariant
  `CurveInv` says that every setting is such a time; the rest is arithmetic of a
  division.
* `CmididLifecycleProofs` proves the six properties of the `lifecycle` run for
  every mapping, any number of keys and any number of loads: `LifecycleTypeCorrect`,
  `UnloadReleasesAll`, `HandlersFindContext`, `OnlyLateTimersUseReleased`,
  `LoadedPinsAreDistinct`, `DeviceNeverLeaks`. None is inductive, since what is
  released at a label depends on what the call before it has left. `LifecycleInv`
  says for each call what is held there. One part holds whatever failed before
  (`LoopInv`, `HeldInv`, `KrefInv`, `PinInv`: a key has valid pins of its own
  once it is set up), one until a call fails past the character device:
  `ExactInv` (exactly the resources of the place reached) and `LineInv`
  (interrupts, pins and timers are those of the keys the loop has gone through).
* `RtpPeersProofs` has what the operations of `rtp.c` do to a table of any size.
  `FirstSlotIsOne`: probing reaches every slot, so that the first hit exists (by
  the well-ordering of the naturals). `AddedIsOwned`, `RemovedIsOwned`: adding
  and removing leave the table as the only owner (`Owns`). `InvitedOneSlot`,
  `EndedOneSlot`: identifiers stay different (`OneSlotEach`). `RoomForAnother`:
  a table with a slot for every identifier has room (pigeonhole).
  `NextGoesOn`: advancing by `RTPSessionNextPeer` goes through the slots that
  are taken, each once.
* `AppleMidiSessionProofs` proves `PeersAreOwned` and `SessionTypeCorrect` for
  every table size, identifiers and memory, with full tables, repeated
  invitations on both ports and any loss; the invariant joins types and
  ownership, as either needs the other. `DriverAndClientsAgree` proves
  `SessionsAgree` under three hypotheses, each of which the code needs:
  `EnoughRoom` (a slot for every client), `InvitedOnce` (no repeated invitation
  on the data port) and `EndArrives` (the end of session is not lost). Its
  invariant `Agreed` says for each state of a client which of its messages may
  be in flight and whether it has a slot. `OnlyLeavingDangles` proves the action
  property `DanglesOnlyByLeaving` without any hypothesis: from the ownership of
  the peers, a step after which `driver->peer` is no longer valid is the end of
  session of the very client it points to. `PointerIsValidWithoutLeaving` adds
  that with `Leavers = {}` no end of session is ever in flight, so that the
  pointer is always valid: the finding of `session_dangling` has this one cause.
* `AppleMidiSendProofs` proves `SendTypeCorrect`, `PacketsAreNumbered` and
  `SendingRefinesBroadcast` for any number of inputs, clients and events, on the
  machines on which the lock excludes (`LockExcludes`): several CPUs, with
  processes and hard interrupts on any of them, or one CPU on which every input
  is a hard interrupt, as all of cmidid's are. The invariant `SendInv`: on
  several CPUs only the context that has the lock is past it, on one CPU there is
  one input at a time, which stops the soft interrupt (`ControlInv`, from which
  `OneInSection` and `NoneInSection`);
  the table owns its peers, one per identifier (`TableInv`); a sender is at a
  peer of the table with its event encoded in the buffer (`PeerInv`); a client
  that may invite is not in the table (`ClientInv`); the number of a peer is the
  count of the packets sent to its client (`WireInv`). `ListsSurvive` states
  `PayloadRoundTrips` by `ListSurvives` below. Three lemmas carry the bytes of
  the refinement: `PayloadOfOne` and `DecodedOne` (a list of one message, which is all
  that `_alsa_input` sends, is decoded to what was encoded) and `PacketIsRead`
  (number and payload are found behind the header). The refinement goes action
  by action: `ConvertNote` is `Play`, each `SendPacket` a `Tell` of the client
  whose peer the loop is at (by `NextGoesOn`), `spin_unlock` is `Done`, a
  received command is `Join` or `Leave`, and the rest is not visible. It assumes
  `EnoughRoom`: a client that finds the table full is accepted, and begins to
  count its packets anew, without becoming a member.
* `AppleMidiLifecycleProofs` proves `DriverTypeCorrect`, `KnownLeftovers`,
  `SessionIsLast` and the action property `FaultsAreKnown` for any number
  of clients and slots. `LifecycleInv` says for each call which objects exist
  (`HeldInv`), how many references the session and the clock have (`CountInv`),
  whether the timer may run (`TimerInv`), and that the table owns its peers
  while the session exists and no peer survives it (`TableInv`), apart from the
  one `rmmod` has taken out of its slot and not released yet (`VictimInv`). Once a
  peer has been freed under `rmmod`, what is left of this is that the peers in the
  table are alive (`Holds`). `TableInv` also says that peers have come through sockets that are still there, which is
  why a loaded driver without sockets does not use them.
* `AppleMidiLifecycleProofs` also proves `ClockIsAccurate` for all words, time
  units, rates and times. It is a fact about the operators of `MidiClock`, and the
  work is in the loops. Their induction is over the number of rounds
  and is made with `NatInduct`, stated for sets of numbers instead of
  predicates, which the well-ordering of the naturals gives (`IterationExists`
  turns a step into the function of all rounds). `DivideRound` has what one round
  keeps: the value `n / (d * f)` of the fraction, bounds on both sides, and a
  measure, the factor left plus the primes left, that decreases, so that
  `_divide_frac` ends within `fac + 4` rounds (`DivideFrac`). `NormalRound` and
  `NormalizeFrac` say the same of the second loop, and that the primes gone
  through stay cancelled. Hence `numer * NSEC_PER_SEC = denom * rate`
  (`ClockCreated`), from which accuracy is arithmetic of a division
  (`LessThanATick`).
* `RtpMidiPayloadProofs` proves `ListSurvives`: every non-empty list of messages
  whose payload fits into `session->buffer` is decoded to the messages sent, with
  the time between them in 28 bits. Encoder and decoder are recursive functions,
  over messages and over bytes; that they exist (`EncodedExists`, `ReadExists`)
  and what they compute is again induction with `NatInduct`. What is encoded
  stays where it is while the list grows (`EncodingStays`), and every message
  adds at least a byte, so that the decoder stops after the last message and not
  before. `NextIsRead` is the step: the decoder, at the place and with the
  running status the encoder had, reads a number of one to four bytes
  (`VarLenIsNumber`, `NumberIsRead`) and a message with or without its status
  (`MessageIsRead`). `HeaderIsRead` has both forms of the header; it is the one
  place that needs the bound, for a length of 12 bits.

Assumptions are those of the constants in the modules (sets of words, notes in
0..255, `NULL` not an address and so on) and the hypotheses named above.

Model-checked only: liveness (`KeySettles`, `CyclesThroughAllPeers`,
`EveryNoteIsSent`, `UnloadEnds`), which is out of the prover's reach.

## Departures of the code from its documentation

Shown by a violation run (details in `PROJECT.json`, findings):

1. The concave, convex and saturated curves leave the range 0..127
   (`calibration_curves`).
2. `driver->peer` may point to a freed peer (`session_dangling`).
3. A lost clock message ends synchronization (`session_missed_sync`).
4. On a kernel for one CPU the spinlock does not keep a packet from freeing the
   peer that a note of a process is being sent to (`send_one_cpu`).

Seen with the same models, and without a run of their own:

* `CMIDID_CALIBRATE_MIN_TIME` sets the maximum ("Use the last stroke time as new
  min_stroke_time.", `src/module/cmidid_gpio.c:181`): a stroke repeated after it
  has velocity 0, not 127;
* a failed `request_irq` leaves the interrupts of the earlier keys registered,
  and the pins of the first and of the failing key requested ("Free in reverse
  order.", `src/module/cmidid_gpio.c:695`: the loop frees pins only and stops
  before the first key); the next interrupt finds the keys freed;
* with `SMP = TRUE`, `FlagMeansTimer` fails: `timer_irq` may run between
  `hrtimer_start` and the assignment of the flag, and the line is locked for
  good;
* a calibrated span of more than `U32`/127 makes the product of the linear curve
  wrap, and `LinearIsTheLine` fails (about 35 seconds with 32 bits);
* any failure of `cmidid_midi_init` or `cmidid_gpio_init` puts the character
  device twice (`cdev_del` and `kobject_put`);
* when the sequencer client cannot be created `cmidid_midi_init` returns 0, the
  driver loads without a client, and unloading frees the card again; when the
  port cannot be created the client is leaked;
* an invitation repeated on the data port adds the client twice, and its end of
  session removes one of the two; with a full table an invitation is accepted
  although the peer is not added.
* a sequencer event that is no note makes `_alsa_input` return with the lock
  taken: every later event spins for ever and all packets of clients are dropped
  (`LockKept`); on several CPUs a hard interrupt spins for ever when it has
  interrupted the holder of the lock (`SelfDeadlock`). Without these two
  disjuncts `EveryNoteIsSent` fails;
* unloading cmidid gives the pins of a key back before it cancels the timers of
  the key; a timer in between reads a pin that is no longer the driver's;
* packets that arrive before `mod_init` has assigned the global pointer, events
  that arrive before the MIDI session exists, and invitations on the data port
  after the control socket was released use what is not there; so does a timer
  whose handler runs while the driver is freed. An end of session during
  `_applemidi_disconnect` frees the peer that `rmmod` is at, which is then read
  and released again; a MIDI session there was no memory for is used by the next
  event and kills `rmmod`. `OnlyKnownFaults` says that there is nothing else of
  the kind;
* one reference to the global clock is never given back
  (`src/applemidi/clock.c:145`);
* clients do not learn that the driver is unloaded, see `AppleMidiLifecycle`
  above ("This includes the proper disconnection of all active peers.",
  `src/documentation/felix/main.tex:95`).

## Not modelled, and the plan

Left out: `_uldivmod.S` (third-party assembler), `ioctl_test.c` (a client of the
ioctl interface, whose calls are actions here), the experiments in
`src/playground`, documentation and presentation; in the applemidi driver the
byte layout of commands, and code that nothing calls: the property accessors and
the decoder of `message.c`, RTP extensions and padding, the receiving side.

Every part of the two drivers that keeps state is modelled, and every safety
property of the passing runs is proved. Left to model is what the encoders do
with a list that does not fit into the buffer, which nothing sends yet.
