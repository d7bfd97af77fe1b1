------------------------- MODULE AppleMidiLifecycle -------------------------
(***************************************************************************)
(* Loading and unloading the applemidi driver (src/applemidi): mod_init,   *)
(* MIDIDriverAppleMIDICreate, MIDIDriverInit, ALSARegisterClient,          *)
(* _applemidi_connect and the sessions, and MIDIDriverAppleMIDIDestroy,    *)
(* with the packets, events and timeouts that arrive meanwhile.            *)
(*                                                                         *)
(* pc names the call that comes next; a call in MayFail may fail.  A use   *)
(* of something that does not exist (yet, or any more) is noted in `fault' *)
(* and has no further effect, unless rmmod dies of it (pc is then "oops"). *)
(* Callbacks may come between any two steps of loading and unloading,      *)
(* which take no lock.  The handler of a packet or an event is one step,   *)
(* the handler of the timer three.                                         *)
(***************************************************************************)
EXTENDS RtpPeers, MidiClock

CONSTANTS
    MayFail,        \* the calls that may fail
    MaxInvitations  \* bound on the invitations that arrive

ASSUME BoundAssumption == MaxInvitations \in Nat

VARIABLES
    pc,             \* the next call of loading or unloading
    failed,         \* did the creation of the MIDI session fail?
    raspi,          \* is the global pointer to the driver set?
    held,           \* the objects that exist
    refs,           \* references to the RTP session
    rtp,            \* its peers
    peer,           \* driver->peer
    victim,         \* the peer that _applemidi_disconnect is at
    slot,           \* the slot in which RTPSessionRemovePeer found it
    stale,          \* history: was it freed after it was found?
    clock,          \* references to the global clock
    timer,          \* is driver->timer queued?
    handler,        \* where its handler is: "idle", "entered" or "armed"
    raced,          \* history: was it running when the timer was deleted?
    fault,          \* uses of what does not exist
    invitations     \* invitations so far

driverVars == <<failed, raspi, held, refs, clock>>
victimVars == <<victim, slot, stale>>
peerVars == <<rtp, peer, victimVars, invitations>>
timerVars == <<timer, handler, raced>>
vars == <<pc, driverVars, peerVars, timerVars, fault>>

Objects == {"driver", "alsa", "card", "client", "port", "control_socket", "rtp_socket",
            "rtp_session", "rtpmidi_session"}

Init ==
    /\ pc = "unloaded"
    /\ failed = FALSE /\ raspi = FALSE /\ held = {} /\ refs = 0 /\ clock = 0
    /\ rtp = RTPSessionCreate /\ peer = NULL /\ invitations = 0
    /\ victim = NULL /\ slot = 0 /\ stale = FALSE
    /\ timer = FALSE /\ handler = "idle" /\ raced = FALSE
    /\ fault = {}

-----------------------------------------------------------------------------
(* A call of loading: it acquires the objects got, or fails.              *)
Acquire(call, got, next, onFailure) ==
    /\ pc = call
    /\ \/ held' = held \cup got /\ pc' = next /\ UNCHANGED failed
       \/ /\ call \in MayFail
          /\ failed' = (failed \/ call = "rtpmidi_session")
          /\ pc' = onFailure
          /\ UNCHANGED held

(* The module's memory is fresh; after a fault nothing more is known. *)
insmod ==
    /\ pc = "unloaded"
    /\ fault = {} /\ ~raced
    /\ pc' = "kmalloc"
    /\ failed' = FALSE /\ raspi' = FALSE /\ clock' = 0
    /\ UNCHANGED <<held, refs, peerVars, timerVars, fault>>

(* Without memory for the driver mod_init returns 1, which is no error     *)
(* code: the module stays, without a driver.                               *)
kmalloc ==
    /\ Acquire("kmalloc", {"driver", "alsa"}, "snd_card_create", "loaded")
    /\ UNCHANGED <<raspi, refs, clock, peerVars, timerVars, fault>>

(* ALSARegisterClient *)
snd_card_create ==
    /\ Acquire("snd_card_create", {"card"}, "create_client", "fail_card")
    /\ UNCHANGED <<raspi, refs, clock, peerVars, timerVars, fault>>

create_client ==
    /\ Acquire("create_client", {"client"}, "create_port", "fail_client")
    /\ UNCHANGED <<raspi, refs, clock, peerVars, timerVars, fault>>

(* From here on events of the sequencer may arrive. *)
create_port ==
    /\ Acquire("create_port", {"port"}, "snd_card_register", "fail_port")
    /\ UNCHANGED <<raspi, refs, clock, peerVars, timerVars, fault>>

snd_card_register ==
    /\ Acquire("snd_card_register", {}, "clock", "fail_port")
    /\ UNCHANGED <<raspi, refs, clock, peerVars, timerVars, fault>>

(* The labels at its end; the driver goes on without an ALSA client. *)
Unwind(label, what, next) ==
    /\ pc = label
    /\ held' = held \ what
    /\ pc' = next
    /\ UNCHANGED <<failed, raspi, refs, clock, peerVars, timerVars, fault>>

fail_port == Unwind("fail_port", {"client", "port"}, "fail_client")
fail_client == Unwind("fail_client", {"card"}, "fail_card")
fail_card == Unwind("fail_card", {"alsa"}, "clock")

(* MIDIClockProvide: the global clock is created and retained, too. *)
MIDIClockProvide ==
    /\ pc = "clock"
    /\ clock' = IF clock = 0 THEN 2 ELSE clock + 1
    /\ pc' = "control_socket"
    /\ UNCHANGED <<failed, raspi, held, refs, peerVars, timerVars, fault>>

-----------------------------------------------------------------------------
(* _applemidi_connect; its result is not looked at. *)
control_socket ==
    /\ Acquire("control_socket", {"control_socket"}, "rtp_socket", "sessions")
    /\ UNCHANGED <<raspi, refs, clock, peerVars, timerVars, fault>>

(* A bug for rtp_socket: on a failure the control socket is kept. *)
rtp_socketKeepsControl ==
    /\ Acquire("rtp_socket", {"rtp_socket"}, "sessions", "sessions")
    /\ UNCHANGED <<raspi, refs, clock, peerVars, timerVars, fault>>

(* On a failure the control socket is released, too. *)
rtp_socket ==
    /\ Acquire("rtp_socket", {"rtp_socket"}, "sessions", "control_fail")
    /\ UNCHANGED <<raspi, refs, clock, peerVars, timerVars, fault>>

control_fail == Unwind("control_fail", {"control_socket"}, "sessions")

(* RTPSessionCreate *)
sessions ==
    /\ pc = "sessions"
    /\ peer' = NULL
    /\ rtp' = RTPSessionCreate
    /\ held' = held \cup {"rtp_session"}
    /\ refs' = 1
    /\ pc' = "rtpmidi_session"
    /\ UNCHANGED <<failed, raspi, clock, victimVars, invitations, timerVars, fault>>

(* A bug for RTPMIDISessionCreate: the RTP session is not retained. *)
RTPMIDISessionCreateNoRetain ==
    /\ Acquire("rtpmidi_session", {"rtpmidi_session"}, "mod_timer", "mod_timer")
    /\ UNCHANGED <<refs, raspi, clock, peerVars, timerVars, fault>>

RTPMIDISessionCreate ==
    /\ Acquire("rtpmidi_session", {"rtpmidi_session"}, "mod_timer", "mod_timer")
    /\ refs' = refs + (IF "rtpmidi_session" \in held' THEN 1 ELSE 0)
    /\ UNCHANGED <<raspi, clock, peerVars, timerVars, fault>>

mod_timer ==
    /\ pc = "mod_timer"
    /\ timer' = TRUE
    /\ pc' = "raspi"
    /\ UNCHANGED <<driverVars, peerVars, handler, raced, fault>>

(* Only when the driver is complete, mod_init assigns the global pointer. *)
assign_raspi ==
    /\ pc = "raspi"
    /\ raspi' = TRUE
    /\ pc' = "loaded"
    /\ UNCHANGED <<failed, held, refs, clock, peerVars, timerVars, fault>>

-----------------------------------------------------------------------------
(* What does not exist of the objects that a step uses. *)
Missing(objects) == objects \ (held \cup (IF raspi THEN {"raspi"} ELSE {}))

rmmod ==
    /\ pc = "loaded"
    /\ pc' = IF raspi THEN "disconnect" ELSE "unloaded"
    /\ UNCHANGED <<driverVars, peerVars, timerVars, fault>>

(* A bug for disconnect: the peers are not removed. *)
disconnectForever ==
    /\ pc = "disconnect"
    /\ pc' = IF RTPSessionNextPeer(rtp, NULL) = NULL THEN "release_control" ELSE pc
    /\ UNCHANGED <<driverVars, peerVars, timerVars, fault>>

(* _applemidi_disconnect: the first peer is removed until there is none,   *)
(* without the lock that packets are handled under.                        *)
disconnect ==
    /\ pc = "disconnect"
    /\ victim' = RTPSessionNextPeer(rtp, NULL)
    /\ stale' = FALSE
    /\ pc' = IF victim' = NULL THEN "release_control" ELSE "get_address"
    /\ UNCHANGED <<driverVars, rtp, peer, slot, invitations, timerVars, fault>>

(* A use of the victim's memory, which another actor may have freed. *)
UseVictim == IF stale THEN {"peer"} ELSE {}

(* _applemidi_disconnect_peer (the end of session is never sent: the       *)
(* address passed on is that of a local pointer).                          *)
get_address ==
    /\ pc = "get_address"
    /\ fault' = fault \cup UseVictim \cup Missing({"control_socket"})
    /\ pc' = "find_slot"
    /\ UNCHANGED <<driverVars, peerVars, timerVars>>

(* RTPSessionRemovePeer: the peer is looked for ... *)
find_slot ==
    LET found == SlotsWith(rtp, victim)
    IN  /\ pc = "find_slot"
        /\ fault' = fault \cup UseVictim
        /\ slot' = IF found = {} THEN slot ELSE FirstSlot(found, rtp.ssrc[victim])
        /\ pc' = IF found = {} THEN "disconnect" ELSE "clear_slot"
        /\ UNCHANGED <<driverVars, rtp, peer, victim, stale, invitations, timerVars>>

(* ... the slot is emptied, whatever is in it by now ... *)
clear_slot ==
    /\ pc = "clear_slot"
    /\ rtp' = [rtp EXCEPT !.peers[slot] = NULL]
    /\ pc' = "release_peer"
    /\ UNCHANGED <<driverVars, peer, victimVars, invitations, timerVars, fault>>

(* ... and the peer released. *)
release_peer ==
    /\ pc = "release_peer"
    /\ fault' = fault \cup UseVictim
    /\ rtp' = IF stale THEN rtp ELSE RTPPeerRelease(rtp, victim)
    /\ pc' = "disconnect"
    /\ UNCHANGED <<driverVars, peer, victimVars, invitations, timerVars>>

(* A bug for release_control: the socket is not found to be meant. *)
release_controlSkipped == Unwind("release_control", {}, "release_rtp")

release_control == Unwind("release_control", {"control_socket"}, "release_rtp")
release_rtp == Unwind("release_rtp", {"rtp_socket"}, "rtpmidi_release")

(* A bug for RTPSessionRelease: the peers are not released with it. *)
RTPSessionReleaseKeepsPeers(gone) ==
    /\ refs' = refs - 1
    /\ held' = (held \ gone) \ (IF refs' = 0 THEN {"rtp_session"} ELSE {})
    /\ UNCHANGED rtp

(* The last reference frees the session and releases the peers in its      *)
(* table.  The objects in `gone' are freed in the same step.               *)
RTPSessionRelease(gone) ==
    /\ refs' = refs - 1
    /\ held' = (held \ gone) \ (IF refs' = 0 THEN {"rtp_session"} ELSE {})
    /\ rtp' = IF refs' = 0
              THEN [rtp EXCEPT !.refs = [a \in Addrs |-> rtp.refs[a] -
                                            (IF SlotsWith(rtp, a) # {} THEN 1 ELSE 0)]]
              ELSE rtp

(* The reference of a session that could not be created is decremented     *)
(* through NULL, and rmmod dies.                                           *)
RTPMIDISessionRelease ==
    /\ pc = "rtpmidi_release"
    /\ \/ /\ "rtpmidi_session" \in held
          /\ RTPSessionRelease({"rtpmidi_session"})
          /\ pc' = "rtp_release"
          /\ UNCHANGED fault
       \/ /\ "rtpmidi_session" \notin held
          /\ fault' = fault \cup {"rtpmidi_session"}
          /\ pc' = "oops"
          /\ UNCHANGED <<held, refs, rtp>>
    /\ UNCHANGED <<failed, raspi, clock, peer, victimVars, invitations, timerVars>>

rtp_release ==
    /\ pc = "rtp_release"
    /\ RTPSessionRelease({})
    /\ pc' = "base_release"
    /\ UNCHANGED <<failed, raspi, clock, peer, victimVars, invitations, timerVars, fault>>

(* MIDIDriverRelease: the clock is released, the ALSA client deleted. *)
base_release ==
    /\ pc = "base_release"
    /\ clock' = clock - 1
    /\ held' = held \ {"client", "port", "card", "alsa"}
    /\ pc' = "del_timer"
    /\ UNCHANGED <<failed, raspi, refs, peerVars, timerVars, fault>>

(* del_timer does not wait for the handler. *)
del_timer ==
    /\ pc = "del_timer"
    /\ timer' = FALSE
    /\ raced' = (handler # "idle")
    /\ pc' = "kfree"
    /\ UNCHANGED <<driverVars, peerVars, handler, fault>>

kfree == Unwind("kfree", {"driver"}, "unloaded")

-----------------------------------------------------------------------------
(* An invitation of client c on a socket.  It looks at both sockets and    *)
(* finds the driver through the global pointer; on the data port a peer is *)
(* added, if the table has room.                                           *)
RecvInvitation(sk, c) ==
    LET missing == Missing({"raspi", "driver", "rtp_session", "control_socket", "rtp_socket"})
    IN  /\ sk \in held
        /\ invitations < MaxInvitations
        /\ invitations' = invitations + 1
        /\ fault' = fault \cup missing
        /\ IF missing = {} /\ sk = "rtp_socket"
           THEN \E a \in FreeMemory(rtp) :
                    rtp' = RTPPeerRelease(RTPSessionAddPeer(RTPPeerCreate(rtp, a, c), a), a)
           ELSE UNCHANGED rtp
        /\ UNCHANGED <<pc, driverVars, peer, victimVars, timerVars>>

(* rmmod has found a peer in the table and not yet emptied its slot. *)
Disconnecting == pc \in {"get_address", "find_slot", "clear_slot"}

(* Client c ends its session; the peer is freed, rmmod's, too. *)
RecvEndSession(sk, c) ==
    LET missing == Missing({"raspi", "driver", "rtp_session"})
        found == RTPSessionFindPeerBySSRC(rtp, NULL, c)
        leaves == missing = {} /\ found # NULL
    IN  /\ sk \in held
        /\ fault' = fault \cup missing
        /\ rtp' = IF leaves THEN RTPSessionRemovePeer(rtp, found) ELSE rtp
        /\ stale' = (stale \/ (leaves /\ Disconnecting /\ found = victim))
        /\ UNCHANGED <<pc, driverVars, peer, victim, slot, invitations, timerVars>>

(* _alsa_input sends through the RTP session's socket, if there are peers. *)
_alsa_input ==
    /\ "port" \in held
    /\ fault' = fault \cup
          Missing({"driver", "rtpmidi_session"} \cup
                  (IF RTPSessionNextPeer(rtp, NULL) = NULL THEN {} ELSE {"rtp_socket"}))
    /\ UNCHANGED <<pc, driverVars, peerVars, timerVars>>

(* The timer expires, the handler arms it again ... *)
TimerExpires ==
    /\ timer /\ handler = "idle"
    /\ timer' = FALSE
    /\ handler' = "entered"
    /\ UNCHANGED <<pc, driverVars, peerVars, raced, fault>>

TimerRearm ==
    /\ handler = "entered"
    /\ timer' = TRUE
    /\ handler' = "armed"
    /\ fault' = fault \cup Missing({"driver"})
    /\ UNCHANGED <<pc, driverVars, peerVars, raced>>

(* ... and goes on to the next peer, with or without a new handshake.     *)
_applemidi_idle_timeout ==
    LET missing == Missing({"driver", "rtp_session"})
        next == RTPSessionNextPeer(rtp, peer)
    IN  /\ handler = "armed"
        /\ handler' = "idle"
        /\ peer' = IF missing = {} THEN next ELSE peer
        /\ fault' \in {fault \cup missing} \cup
               (IF missing = {} /\ next # NULL
                THEN {fault \cup Missing({"control_socket", "rtp_socket"})
                            \cup (IF rtp.refs[next] = 0 THEN {"peer"} ELSE {})}
                ELSE {})
        /\ UNCHANGED <<pc, driverVars, rtp, victimVars, invitations, timer, raced>>

Load ==
    \/ insmod \/ kmalloc \/ snd_card_create \/ create_client \/ create_port
    \/ snd_card_register \/ fail_port \/ fail_client \/ fail_card \/ MIDIClockProvide
    \/ control_socket \/ rtp_socket \/ control_fail \/ sessions \/ RTPMIDISessionCreate
    \/ mod_timer \/ assign_raspi

Disconnect == disconnect \/ get_address \/ find_slot \/ clear_slot \/ release_peer

Destroy ==
    \/ Disconnect \/ release_control \/ release_rtp \/ RTPMIDISessionRelease \/ rtp_release
    \/ base_release \/ del_timer \/ kfree

Callback ==
    \/ \E sk \in {"control_socket", "rtp_socket"}, c \in Ssrcs :
          RecvInvitation(sk, c) \/ RecvEndSession(sk, c)
    \/ _alsa_input
    \/ TimerExpires \/ TimerRearm \/ _applemidi_idle_timeout

Next == Load \/ rmmod \/ Destroy \/ Callback

Spec == Init /\ [][Next]_vars

(* Unloading, once begun, is not interrupted for ever. *)
FairSpec == Spec /\ WF_vars(Destroy)

-----------------------------------------------------------------------------
(* The types of the state; the RTP session is not released too often. *)
TypeOK ==
    /\ held \subseteq Objects
    /\ refs \in 0..2
    /\ rtp \in Tables
    /\ {peer, victim} \subseteq Addrs \cup {NULL} /\ slot \in Slots
    /\ clock \in 0..2
    /\ fault \subseteq Objects \cup {"raspi", "peer"}

(***************************************************************************)
(* What stays after an unload that used nothing that was gone, whatever    *)
(* calls of the load failed and whoever was invited or left meanwhile: one *)
(* reference to the global clock (MIDIClockProvide takes two, of which     *)
(* MIDIDriverRelease gives one back), and a timer that its running handler *)
(* armed again (del_timer does not wait for it).  No object, session or    *)
(* peer does, and no peer has been released without being freed.           *)
(***************************************************************************)
OnlyClockAndTimerStay ==
    pc = "unloaded" /\ fault = {} =>
        /\ held = {} /\ refs = 0 /\ \A a \in Addrs : rtp.refs[a] = 0
        /\ clock = IF raspi THEN 1 ELSE 0
        /\ timer \/ handler # "idle" => raced

(***************************************************************************)
(* The RTP session outlives its users: it exists while the MIDI session    *)
(* does, and while packets find their way to the driver (the order in      *)
(* MIDIDriverAppleMIDIDestroy and the references of the sessions).         *)
(***************************************************************************)
SessionOutlivesUsers ==
    "rtp_session" \notin held =>
        /\ "rtpmidi_session" \notin held
        /\ raspi => held \cap {"control_socket", "rtp_socket"} = {}

(***************************************************************************)
(* The clock the driver is provided with keeps time, whatever its rate: it *)
(* begins at 0 and, as long as the product in _get_real_time fits into 64  *)
(* bits, is less than a tick away from the ticks that have passed, so that *)
(* it never drifts.  Its fraction is made of 32-bit words other than 0, in *)
(* lowest terms as far as the primes go (MIDIClockCreate, MIDIClockGetNow). *)
(***************************************************************************)
ClockKeepsTime == clock > 0 => KeepsTime

(***************************************************************************)
(* The driver uses what does not exist only in these ways.  While it is    *)
(* loaded or unloaded, a callback may.  Once it is loaded, the timer uses  *)
(* a peer that has left, and an event the MIDI session whose creation      *)
(* failed.  rmmod uses that session, too, and a peer whose end of session  *)
(* arrived while rmmod was disconnecting it.                               *)
(***************************************************************************)
OnlyKnownFaults ==
    [][fault' # fault =>
          \/ Callback /\ pc # "loaded"
          \/ /\ fault' \ fault = {"peer"}
             /\ \/ _applemidi_idle_timeout /\ SlotsWith(rtp, peer) = {}
                \/ Disconnect /\ stale
          \/ /\ fault' \ fault = {"rtpmidi_session"}
             /\ failed /\ (_alsa_input \/ RTPMIDISessionRelease)]_vars

(***************************************************************************)
(* Unloading that uses nothing that is gone comes to an end although       *)
(* clients are invited and leave meanwhile, as long as their number is     *)
(* bounded.                                                                *)
(***************************************************************************)
UnloadEnds == pc = "disconnect" ~> (pc = "unloaded" \/ fault # {})

=============================================================================
