---------------------- MODULE AppleMidiLifecycleProofs ----------------------
(***************************************************************************)
(* Theorems about loading and unloading the applemidi driver, for tables   *)
(* and memory of every size, every set of calls that may fail and every    *)
(* number of clients and invitations; and about its MIDI clock, for every  *)
(* rate, every time and every word size: its fraction is the rate, in      *)
(* lowest terms and without overflow, and it keeps time to within a tick.  *)
(***************************************************************************)
EXTENDS AppleMidiLifecycle, RtpPeersProofs

(* The calls of loading before the RTP session exists, until the clock is   *)
(* provided and after it ...                                               *)
AlsaLabels == {"kmalloc", "snd_card_create", "create_client", "create_port",
               "snd_card_register", "fail_port", "fail_client", "fail_card", "clock"}
ConnectLabels == {"control_socket", "rtp_socket", "control_fail", "sessions"}
EarlyLabels == AlsaLabels \cup ConnectLabels
(* ... with it, and the calls of unloading with it and without it. *)
SessionLabels == {"rtpmidi_session", "mod_timer", "raspi"}
VictimLabels == {"get_address", "find_slot", "clear_slot", "release_peer"}
DisconnectLabels == {"disconnect"} \cup VictimLabels
DestroyLabels == DisconnectLabels \cup {"release_control", "release_rtp", "rtpmidi_release",
                                        "rtp_release", "oops"}
LateLabels == {"base_release", "del_timer", "kfree"}
Labels == EarlyLabels \cup SessionLabels \cup DestroyLabels \cup LateLabels
              \cup {"loaded", "unloaded"}

(* A driver is loaded; the RTP session exists. *)
Running == pc = "loaded" /\ raspi
Live == pc \in SessionLabels \cup DestroyLabels \/ Running

(* The global pointer is set from the end of loading until the next load. *)
ControlInv ==
    /\ pc \in Labels
    /\ raspi \in BOOLEAN /\ failed \in BOOLEAN
    /\ pc \in EarlyLabels \cup SessionLabels => ~raspi
    /\ pc \in DestroyLabels \cup LateLabels => raspi
    /\ pc \in EarlyLabels \cup {"rtpmidi_session"} => ~failed

(* The objects are held between their calls; both sockets are, or neither. *)
HeldInv ==
    /\ held \subseteq Objects
    /\ "driver" \in held <=> pc \notin {"unloaded", "kmalloc", "loaded"} \/ Running
    /\ held \cap {"alsa", "card", "client", "port"} # {} =>
           pc \notin {"unloaded", "kmalloc", "loaded", "del_timer", "kfree"} \/ Running
    /\ "control_socket" \in held =>
           \/ pc \in {"rtp_socket", "control_fail", "sessions", "release_control"}
           \/ pc \in SessionLabels \cup DisconnectLabels \/ Running
    /\ "rtp_socket" \in held =>
           \/ pc \in {"sessions", "release_control", "release_rtp"}
           \/ pc \in SessionLabels \cup DisconnectLabels \/ Running
    /\ pc \in SessionLabels \cup {"sessions"} \/ Running =>
           ("control_socket" \in held <=> "rtp_socket" \in held)
    /\ pc \in {"rtp_socket", "control_fail"} => "control_socket" \in held
    /\ "rtp_session" \in held <=> Live
    /\ "rtpmidi_session" \in held => Live /\ pc \notin {"rtpmidi_session", "rtp_release"}
    /\ Live /\ pc \notin {"rtpmidi_session", "rtp_release"} =>
           (failed <=> "rtpmidi_session" \notin held)

(* The references to the RTP session and to the clock. *)
CountInv ==
    /\ refs = (IF Live THEN 1 ELSE 0) + (IF "rtpmidi_session" \in held THEN 1 ELSE 0)
    /\ clock \in 0..2
    /\ pc \in AlsaLabels => clock = 0
    /\ pc \in ConnectLabels \cup {"base_release"} \/ Live => clock = 2
    /\ pc \in {"del_timer", "kfree"} => clock = 1
    /\ pc = "unloaded" => clock = IF raspi THEN 1 ELSE 0
    /\ pc = "loaded" /\ ~raspi => clock = 0

(* The timer runs while there is a driver, or after a race. *)
TimerInv ==
    /\ timer \in BOOLEAN /\ raced \in BOOLEAN /\ handler \in {"idle", "entered", "armed"}
    /\ pc \notin {"unloaded", "kfree"} => ~raced
    /\ pc \in EarlyLabels \cup {"rtpmidi_session", "mod_timer"} \/ (pc = "loaded" /\ ~raspi) =>
           ~timer /\ handler = "idle"
    /\ pc \in {"unloaded", "kfree"} /\ ~raced => ~timer /\ handler = "idle"

(* rmmod's peer is in the table until it has emptied the slot, and then    *)
(* exists until it has released it; unless a client has ended its session  *)
(* meanwhile.                                                              *)
VictimInv ==
    /\ victim \in Addrs \cup {NULL} /\ slot \in Slots /\ stale \in BOOLEAN
    /\ stale => pc \in DisconnectLabels
    /\ stale /\ pc = "disconnect" => fault # {}
    /\ pc \in VictimLabels => victim \in Addrs
    /\ Disconnecting /\ ~stale => SlotsWith(rtp, victim) # {}
    /\ pc = "clear_slot" /\ ~stale => rtp.peers[slot] = victim
    /\ pc = "release_peer" /\ ~stale => rtp.refs[victim] = 1 /\ SlotsWith(rtp, victim) = {}

(* The table owns its peers while the session exists, but for the one that *)
(* rmmod is about to release; afterwards they are all freed, if nothing    *)
(* that was gone was used.  Peers have come through the sockets.           *)
TableInv ==
    /\ rtp \in Tables
    /\ peer \in Addrs \cup {NULL}
    /\ Live => Holds(rtp)
    /\ Live /\ fault = {} /\ ~stale =>
           Loose(rtp) = IF pc = "release_peer" THEN {victim} ELSE {}
    /\ ~Live /\ fault = {} => \A a \in Addrs : rtp.refs[a] = 0
    /\ pc \in SessionLabels \cup DisconnectLabels \/ Running =>
           (peer # NULL \/ EmptySlots(rtp) # Slots \/ pc \in VictimLabels =>
                {"control_socket", "rtp_socket"} \subseteq held)

LifecycleInv ==
    /\ ControlInv /\ HeldInv /\ CountInv /\ TimerInv /\ VictimInv /\ TableInv
    /\ fault \subseteq Objects \cup {"raspi", "peer"}

USE DEF AlsaLabels, ConnectLabels, EarlyLabels, SessionLabels, VictimLabels, DisconnectLabels,
        DestroyLabels, LateLabels, Labels, Running, Live, driverVars, victimVars, peerVars,
        timerVars

-----------------------------------------------------------------------------
(* The control flow goes from call to call. *)
LEMMA ControlStep ==
    ASSUME ControlInv, Next
    PROVE  ControlInv'
<1>1. CASE Load
  <2>1. CASE insmod
    BY <2>1 DEF ControlInv, insmod
  <2>2. CASE MIDIClockProvide
    BY <2>2 DEF ControlInv, MIDIClockProvide
  <2>3. CASE sessions
    BY <2>3 DEF ControlInv, sessions
  <2>4. CASE mod_timer
    BY <2>4 DEF ControlInv, mod_timer
  <2>5. CASE assign_raspi
    BY <2>5 DEF ControlInv, assign_raspi
  <2>6. CASE fail_port \/ fail_client \/ fail_card \/ control_fail
    BY <2>6 DEF ControlInv, Unwind, fail_port, fail_client, fail_card, control_fail
  <2>7. CASE kmalloc \/ snd_card_create \/ create_client \/ create_port \/ snd_card_register
    BY <2>7 DEF ControlInv, Acquire, kmalloc, snd_card_create, create_client, create_port,
       snd_card_register
  <2>8. CASE control_socket \/ rtp_socket
    BY <2>8 DEF ControlInv, Acquire, control_socket, rtp_socket
  <2>9. CASE RTPMIDISessionCreate
    BY <2>9 DEF ControlInv, Acquire, RTPMIDISessionCreate
  <2>10. QED
    BY <1>1, <2>1, <2>2, <2>3, <2>4, <2>5, <2>6, <2>7, <2>8, <2>9 DEF Load
<1>2. CASE rmmod \/ Destroy
  <2>1. CASE rmmod
    BY <2>1 DEF ControlInv, rmmod
  <2>2. CASE Disconnect
    BY <2>2 DEF ControlInv, Disconnect, disconnect, get_address, find_slot, clear_slot,
       release_peer
  <2>3. CASE RTPMIDISessionRelease
    BY <2>3 DEF ControlInv, RTPMIDISessionRelease
  <2>4. CASE Destroy /\ ~Disconnect /\ ~RTPMIDISessionRelease
    BY <2>4 DEF ControlInv, Destroy, Unwind, release_control, release_rtp, rtp_release,
       base_release, del_timer, kfree
  <2>5. QED
    BY <1>2, <2>1, <2>2, <2>3, <2>4
<1>3. CASE Callback
  BY <1>3 DEF ControlInv, Callback, RecvInvitation, RecvEndSession, _alsa_input, TimerExpires,
     TimerRearm, _applemidi_idle_timeout
<1>4. QED
  BY <1>1, <1>2, <1>3 DEF Next

(* The objects are acquired and released in the order of the calls. *)
LEMMA HeldStep ==
    ASSUME ControlInv, HeldInv, CountInv, Next
    PROVE  HeldInv'
<1>1. CASE insmod
  BY <1>1 DEF ControlInv, HeldInv, Objects, insmod
<1>2. CASE kmalloc
  BY <1>2 DEF ControlInv, HeldInv, Objects, Acquire, kmalloc
<1>3. CASE snd_card_create
  BY <1>3 DEF ControlInv, HeldInv, Objects, Acquire, snd_card_create
<1>4. CASE create_client
  BY <1>4 DEF ControlInv, HeldInv, Objects, Acquire, create_client
<1>5. CASE create_port
  BY <1>5 DEF ControlInv, HeldInv, Objects, Acquire, create_port
<1>6. CASE snd_card_register
  BY <1>6 DEF ControlInv, HeldInv, Objects, Acquire, snd_card_register
<1>7. CASE fail_port
  BY <1>7 DEF ControlInv, HeldInv, Objects, Unwind, fail_port
<1>8. CASE fail_client
  BY <1>8 DEF ControlInv, HeldInv, Objects, Unwind, fail_client
<1>9. CASE fail_card
  BY <1>9 DEF ControlInv, HeldInv, Objects, Unwind, fail_card
<1>10. CASE MIDIClockProvide
  BY <1>10 DEF ControlInv, HeldInv, Objects, MIDIClockProvide
<1>11. CASE control_socket
  BY <1>11 DEF ControlInv, HeldInv, Objects, Acquire, control_socket
<1>12. CASE rtp_socket
  BY <1>12 DEF ControlInv, HeldInv, Objects, Acquire, rtp_socket
<1>13. CASE control_fail
  BY <1>13 DEF ControlInv, HeldInv, Objects, Unwind, control_fail
<1>14. CASE sessions
  BY <1>14 DEF ControlInv, HeldInv, Objects, sessions
<1>15. CASE RTPMIDISessionCreate
  <2>1. /\ pc = "rtpmidi_session" /\ pc' = "mod_timer"
        /\ raspi' = raspi /\ ~raspi /\ ~failed
        /\ "rtpmidi_session" \notin held
    BY <1>15 DEF Acquire, RTPMIDISessionCreate, ControlInv, HeldInv
  <2>2. \/ held' = held \cup {"rtpmidi_session"} /\ ~failed'
        \/ held' = held /\ failed'
    BY <1>15, <2>1 DEF Acquire, RTPMIDISessionCreate
  <2>3. QED
    BY <2>1, <2>2 DEF HeldInv, Objects
<1>16. CASE mod_timer
  BY <1>16 DEF ControlInv, HeldInv, Objects, mod_timer
<1>17. CASE assign_raspi
  BY <1>17 DEF ControlInv, HeldInv, Objects, assign_raspi
<1>18. CASE Load
  BY <1>1, <1>2, <1>3, <1>4, <1>5, <1>6, <1>7, <1>8, <1>9, <1>10,
     <1>11, <1>12, <1>13, <1>14, <1>15, <1>16, <1>17, <1>18 DEF Load
<1>19. CASE rmmod
  BY <1>19 DEF ControlInv, HeldInv, Objects, rmmod
<1>20. CASE Disconnect
  BY <1>20 DEF ControlInv, HeldInv, Objects, Disconnect, disconnect, get_address, find_slot,
     clear_slot, release_peer
<1>21. CASE release_control
  BY <1>21 DEF ControlInv, HeldInv, Objects, Unwind, release_control
<1>22. CASE release_rtp
  BY <1>22 DEF ControlInv, HeldInv, Objects, Unwind, release_rtp
<1>23. CASE RTPMIDISessionRelease
  BY <1>23 DEF ControlInv, HeldInv, Objects, CountInv, RTPSessionRelease, RTPMIDISessionRelease
<1>24. CASE rtp_release
  BY <1>24 DEF ControlInv, HeldInv, Objects, CountInv, RTPSessionRelease, rtp_release
<1>25. CASE base_release
  BY <1>25 DEF ControlInv, HeldInv, Objects, base_release
<1>26. CASE del_timer
  BY <1>26 DEF ControlInv, HeldInv, Objects, del_timer
<1>27. CASE kfree
  BY <1>27 DEF ControlInv, HeldInv, Objects, Unwind, kfree
<1>28. CASE Destroy
  BY <1>20, <1>21, <1>22, <1>23, <1>24, <1>25, <1>26, <1>27, <1>28 DEF Destroy
<1>29. CASE Callback
  BY <1>29 DEF HeldInv, Callback, RecvInvitation, RecvEndSession, _alsa_input, TimerExpires,
     TimerRearm, _applemidi_idle_timeout
<1>30. QED
  BY <1>18, <1>19, <1>28, <1>29 DEF Next

(* The references are counted. *)
LEMMA CountStep ==
    ASSUME ControlInv, HeldInv, CountInv, Next
    PROVE  CountInv'
<1>1. CASE insmod
  BY <1>1 DEF ControlInv, HeldInv, CountInv, insmod
<1>2. CASE kmalloc \/ snd_card_create \/ create_client \/ create_port \/ snd_card_register
  BY <1>2 DEF ControlInv, HeldInv, CountInv, Acquire, kmalloc, snd_card_create, create_client,
     create_port, snd_card_register
<1>3. CASE fail_port \/ fail_client \/ fail_card
  BY <1>3 DEF ControlInv, HeldInv, CountInv, Unwind, fail_port, fail_client, fail_card
<1>4. CASE MIDIClockProvide
  BY <1>4 DEF ControlInv, HeldInv, CountInv, MIDIClockProvide
<1>5. CASE control_socket \/ rtp_socket \/ control_fail
  BY <1>5 DEF ControlInv, HeldInv, CountInv, Acquire, Unwind, control_socket, rtp_socket,
     control_fail
<1>6. CASE sessions
  BY <1>6 DEF ControlInv, HeldInv, CountInv, sessions
<1>7. CASE RTPMIDISessionCreate
  BY <1>7 DEF ControlInv, HeldInv, CountInv, Acquire, RTPMIDISessionCreate
<1>8. CASE mod_timer
  BY <1>8 DEF ControlInv, HeldInv, CountInv, mod_timer
<1>9. CASE assign_raspi
  BY <1>9 DEF ControlInv, HeldInv, CountInv, assign_raspi
<1>10. CASE rmmod
  BY <1>10 DEF ControlInv, HeldInv, CountInv, rmmod
<1>11. CASE Disconnect
  BY <1>11 DEF ControlInv, HeldInv, CountInv, Disconnect, disconnect, get_address, find_slot,
     clear_slot, release_peer
<1>12. CASE release_control \/ release_rtp
  BY <1>12 DEF ControlInv, HeldInv, CountInv, Unwind, release_control, release_rtp
<1>13. CASE RTPMIDISessionRelease
  BY <1>13 DEF ControlInv, HeldInv, CountInv, RTPSessionRelease, RTPMIDISessionRelease
<1>14. CASE rtp_release
  BY <1>14 DEF ControlInv, HeldInv, CountInv, RTPSessionRelease, rtp_release
<1>15. CASE base_release
  BY <1>15 DEF ControlInv, HeldInv, CountInv, base_release
<1>16. CASE del_timer
  BY <1>16 DEF ControlInv, HeldInv, CountInv, del_timer
<1>17. CASE kfree
  BY <1>17 DEF ControlInv, HeldInv, CountInv, Unwind, kfree
<1>18. CASE Callback
  BY <1>18 DEF ControlInv, HeldInv, CountInv, Callback, RecvInvitation, RecvEndSession,
     _alsa_input, TimerExpires, TimerRearm, _applemidi_idle_timeout
<1>19. QED
  BY <1>1, <1>2, <1>3, <1>4, <1>5, <1>6, <1>7, <1>8, <1>9, <1>10, <1>11, <1>12, <1>13, <1>14,
     <1>15, <1>16, <1>17, <1>18 DEF Next, Load, Destroy

(* The timer is armed by the last call of loading and by its handler. *)
LEMMA TimerStep ==
    ASSUME ControlInv, TimerInv, Next
    PROVE  TimerInv'
<1>1. CASE insmod
  BY <1>1 DEF ControlInv, TimerInv, insmod
<1>2. CASE kmalloc \/ snd_card_create \/ create_client \/ create_port \/ snd_card_register
  BY <1>2 DEF ControlInv, TimerInv, Acquire, kmalloc, snd_card_create, create_client, create_port,
     snd_card_register
<1>3. CASE fail_port \/ fail_client \/ fail_card
  BY <1>3 DEF ControlInv, TimerInv, Unwind, fail_port, fail_client, fail_card
<1>4. CASE MIDIClockProvide
  BY <1>4 DEF ControlInv, TimerInv, MIDIClockProvide
<1>5. CASE control_socket \/ rtp_socket \/ control_fail
  BY <1>5 DEF ControlInv, TimerInv, Acquire, Unwind, control_socket, rtp_socket, control_fail
<1>6. CASE sessions
  BY <1>6 DEF ControlInv, TimerInv, sessions
<1>7. CASE RTPMIDISessionCreate
  BY <1>7 DEF ControlInv, TimerInv, Acquire, RTPMIDISessionCreate
<1>8. CASE mod_timer
  BY <1>8 DEF ControlInv, TimerInv, mod_timer
<1>9. CASE assign_raspi
  BY <1>9 DEF ControlInv, TimerInv, assign_raspi
<1>10. CASE rmmod
  BY <1>10 DEF ControlInv, TimerInv, rmmod
<1>11. CASE Disconnect
  BY <1>11 DEF ControlInv, TimerInv, Disconnect, disconnect, get_address, find_slot, clear_slot,
     release_peer
<1>12. CASE release_control \/ release_rtp
  BY <1>12 DEF ControlInv, TimerInv, Unwind, release_control, release_rtp
<1>13. CASE RTPMIDISessionRelease
  BY <1>13 DEF ControlInv, TimerInv, RTPSessionRelease, RTPMIDISessionRelease
<1>14. CASE rtp_release
  BY <1>14 DEF ControlInv, TimerInv, RTPSessionRelease, rtp_release
<1>15. CASE base_release
  BY <1>15 DEF ControlInv, TimerInv, base_release
<1>16. CASE del_timer
  BY <1>16 DEF ControlInv, TimerInv, del_timer
<1>17. CASE kfree
  BY <1>17 DEF ControlInv, TimerInv, Unwind, kfree
<1>18. CASE Callback
  <2>1. CASE \E sk \in {"control_socket", "rtp_socket"}, c \in Ssrcs :
                RecvInvitation(sk, c) \/ RecvEndSession(sk, c)
    BY <2>1 DEF TimerInv, RecvInvitation, RecvEndSession
  <2>2. CASE _alsa_input
    BY <2>2 DEF TimerInv, _alsa_input
  <2>3. CASE TimerExpires
    BY <2>3 DEF ControlInv, TimerInv, TimerExpires
  <2>4. CASE TimerRearm
    BY <2>4 DEF ControlInv, TimerInv, TimerRearm
  <2>5. CASE _applemidi_idle_timeout
    BY <2>5 DEF ControlInv, TimerInv, _applemidi_idle_timeout
  <2>6. QED
    BY <1>18, <2>1, <2>2, <2>3, <2>4, <2>5 DEF Callback
<1>19. QED
  BY <1>1, <1>2, <1>3, <1>4, <1>5, <1>6, <1>7, <1>8, <1>9, <1>10, <1>11, <1>12, <1>13, <1>14,
     <1>15, <1>16, <1>17, <1>18 DEF Next, Load, Destroy

(* A fault is noted for good. *)
LEMMA FaultGrows ==
    ASSUME Next
    PROVE  fault \subseteq fault'
<1>1. CASE Load \/ rmmod
  BY <1>1 DEF Load, rmmod, Acquire, Unwind, insmod, kmalloc, snd_card_create, create_client,
     create_port, snd_card_register, fail_port, fail_client, fail_card, MIDIClockProvide,
     control_socket, rtp_socket, control_fail, sessions, RTPMIDISessionCreate, mod_timer,
     assign_raspi
<1>2. CASE Destroy
  BY <1>2 DEF Destroy, Unwind, Disconnect, disconnect, get_address, find_slot, clear_slot,
     release_peer, release_control, release_rtp, RTPMIDISessionRelease, rtp_release, base_release,
     del_timer, kfree
<1>3. CASE Callback
  BY <1>3 DEF Callback, RecvInvitation, RecvEndSession, _alsa_input, TimerExpires, TimerRearm,
     _applemidi_idle_timeout
<1>4. QED
  BY <1>1, <1>2, <1>3 DEF Next

(* What an invitation does to the table. *)
LEMMA InvitationTable ==
    ASSUME ControlInv, HeldInv, NEW sk, NEW c \in Ssrcs, RecvInvitation(sk, c)
    PROVE  \/ rtp' = rtp
           \/ /\ Live /\ {"control_socket", "rtp_socket"} \subseteq held
              /\ \E a \in FreeMemory(rtp) : rtp' = Invited(rtp, a, c)
<1> DEFINE missing == Missing({"raspi", "driver", "rtp_session", "control_socket", "rtp_socket"})
<1>1. CASE ~(missing = {} /\ sk = "rtp_socket")
  BY <1>1 DEF RecvInvitation
<1>2. CASE missing = {} /\ sk = "rtp_socket"
  <2>1. {"rtp_session", "control_socket", "rtp_socket"} \subseteq held
    BY <1>2 DEF Missing, HeldInv, Objects
  <2>2. \E a \in FreeMemory(rtp) : rtp' = Invited(rtp, a, c)
    BY <1>2 DEF RecvInvitation, Invited
  <2>3. QED
    BY <2>1, <2>2 DEF HeldInv
<1>3. QED
  BY <1>1, <1>2

(* What an end of session does to the table and to rmmod's peer. *)
LEMMA EndSessionTable ==
    ASSUME ControlInv, HeldInv, VictimInv, NEW sk, NEW c \in Ssrcs, RecvEndSession(sk, c)
    PROVE  \/ rtp' = rtp /\ stale' = stale
           \/ /\ Live /\ rtp' = Ended(rtp, c)
              /\ RTPSessionFindPeerBySSRC(rtp, NULL, c) # NULL
              /\ stale' = (stale \/ (/\ Disconnecting
                                     /\ RTPSessionFindPeerBySSRC(rtp, NULL, c) = victim))
<1> DEFINE missing == Missing({"raspi", "driver", "rtp_session"})
           found == RTPSessionFindPeerBySSRC(rtp, NULL, c)
<1>1. CASE ~(missing = {} /\ found # NULL)
  BY <1>1 DEF RecvEndSession, VictimInv
<1>2. CASE missing = {} /\ found # NULL
  <2>1. "rtp_session" \in held
    BY <1>2 DEF Missing
  <2>2. rtp' = Ended(rtp, c) /\ stale' = (stale \/ (Disconnecting /\ found = victim))
    BY <1>2 DEF RecvEndSession, Ended
  <2>3. QED
    BY <1>2, <2>1, <2>2 DEF HeldInv
<1>3. QED
  BY <1>1, <1>2

(* rmmod's peer stays in its slot, or in memory, until it is disconnected  *)
(* or its session ended.                                                   *)
LEMMA VictimStep ==
    ASSUME ControlInv, HeldInv, VictimInv, TableInv, Next
    PROVE  VictimInv'
<1>1. CASE Load \/ rmmod
  <2>1. /\ victim' = victim /\ slot' = slot /\ stale' = stale
        /\ pc \notin DisconnectLabels /\ pc' \notin VictimLabels
    BY <1>1 DEF Load, rmmod, Acquire, Unwind, insmod, kmalloc, snd_card_create, create_client,
       create_port, snd_card_register, fail_port, fail_client, fail_card, MIDIClockProvide,
       control_socket, rtp_socket, control_fail, sessions, RTPMIDISessionCreate, mod_timer,
       assign_raspi
  <2>2. QED
    BY <2>1 DEF VictimInv, Disconnecting
<1>2. CASE Destroy /\ ~Disconnect
  <2>1. /\ victim' = victim /\ slot' = slot /\ stale' = stale
        /\ pc \notin DisconnectLabels /\ pc' \notin DisconnectLabels
    BY <1>2 DEF Destroy, Unwind, release_control, release_rtp, RTPMIDISessionRelease, rtp_release,
       base_release, del_timer, kfree
  <2>2. QED
    BY <2>1 DEF VictimInv, Disconnecting
<1>3. CASE disconnect
  <2> DEFINE first == RTPSessionNextPeer(rtp, NULL)
  <2>1. first = NULL \/ (first \in Addrs /\ SlotsWith(rtp, first) # {})
    BY NextIsPointer DEF TableInv
  <2>2. /\ victim' = first /\ slot' = slot /\ stale' = FALSE /\ rtp' = rtp
        /\ pc' = IF first = NULL THEN "release_control" ELSE "get_address"
    BY <1>3 DEF disconnect
  <2> HIDE DEF first
  <2>3. QED
    BY <2>1, <2>2 DEF VictimInv, Disconnecting
<1>4. CASE get_address
  BY <1>4 DEF VictimInv, Disconnecting, get_address
<1>5. CASE find_slot
  <2> DEFINE found == SlotsWith(rtp, victim)
             f == FirstSlot(found, rtp.ssrc[victim])
  <2>1. /\ pc = "find_slot" /\ victim' = victim /\ stale' = stale /\ rtp' = rtp
        /\ slot' = IF found = {} THEN slot ELSE f
        /\ pc' = IF found = {} THEN "disconnect" ELSE "clear_slot"
        /\ fault' = fault \cup UseVictim
    BY <1>5 DEF find_slot
  <2>2. victim \in Addrs /\ (found = {} => stale)
    BY <2>1 DEF VictimInv, Disconnecting
  <2>3. found # {} => f \in Slots /\ rtp.peers[f] = victim
    <3>1. rtp.ssrc[victim] \in Nat
      BY <2>2, SsrcIsNat DEF TableInv
    <3>2. found # {} => f \in found
      BY <3>1, FirstSlotIsOne DEF SlotsWith
    <3> HIDE DEF f
    <3>3. QED
      BY <3>2 DEF SlotsWith
  <2>4. stale => fault' # {}
    BY <2>1 DEF UseVictim
  <2> HIDE DEF f
  <2>5. QED
    BY <2>1, <2>2, <2>3, <2>4 DEF VictimInv, Disconnecting
<1>6. CASE clear_slot
  <2>1. /\ pc = "clear_slot" /\ pc' = "release_peer"
        /\ victim' = victim /\ slot' = slot /\ stale' = stale
        /\ rtp' = [rtp EXCEPT !.peers[slot] = NULL]
    BY <1>6 DEF clear_slot
  <2>2. ASSUME ~stale PROVE rtp'.refs[victim] = 1 /\ SlotsWith(rtp', victim) = {}
    <3>1. /\ slot \in Slots /\ rtp.peers[slot] = victim /\ victim \in Addrs /\ victim # NULL
          /\ Holds(rtp) /\ rtp \in Tables
      BY <2>1, <2>2, AddrsAssumption DEF VictimInv, TableInv
    <3>2. rtp.refs[victim] = 1 /\ \A p \in Slots : p # slot => rtp.peers[p] # victim
      BY <3>1 DEF Holds
    <3>3. /\ rtp'.refs = rtp.refs
          /\ \A p \in Slots : rtp'.peers[p] = IF p = slot THEN NULL ELSE rtp.peers[p]
      BY <2>1, <3>1 DEF Tables
    <3>4. QED
      BY <3>1, <3>2, <3>3 DEF SlotsWith
  <2>3. QED
    BY <2>1, <2>2 DEF VictimInv, Disconnecting
<1>7. CASE release_peer
  <2>1. /\ pc' = "disconnect" /\ victim' = victim /\ slot' = slot /\ stale' = stale
        /\ stale => fault' # {}
    BY <1>7 DEF release_peer, UseVictim
  <2>2. QED
    BY <2>1 DEF VictimInv, Disconnecting
<1>8. ASSUME NEW sk, NEW c \in Ssrcs, RecvInvitation(sk, c) PROVE VictimInv'
  <2>1. /\ pc' = pc /\ victim' = victim /\ slot' = slot /\ stale' = stale
        /\ fault' = {} => fault = {}
    BY <1>8 DEF RecvInvitation
  <2>2. CASE rtp' = rtp
    BY <2>1, <2>2 DEF VictimInv, Disconnecting
  <2>3. CASE rtp' # rtp
    <3>1. PICK a \in FreeMemory(rtp) : rtp' = Invited(rtp, a, c)
      BY <1>8, <2>3, InvitationTable
    <3>2. Holds(rtp) /\ rtp \in Tables
      BY <1>8, <2>3, InvitationTable DEF TableInv
    <3>3. /\ Loose(rtp') = Loose(rtp)
          /\ \A p \in Slots : rtp.peers[p] # NULL => rtp'.peers[p] = rtp.peers[p]
          /\ \A b \in Loose(rtp) : rtp'.refs[b] = rtp.refs[b]
      BY <3>1, <3>2, InvitedHolds
    <3>4. ASSUME Disconnecting, ~stale PROVE SlotsWith(rtp', victim) # {}
      BY <3>3, <3>4, AddrsAssumption DEF VictimInv, SlotsWith, Disconnecting
    <3>5. ASSUME pc = "clear_slot", ~stale PROVE rtp'.peers[slot] = victim
      BY <3>3, <3>5, AddrsAssumption DEF VictimInv
    <3>6. ASSUME pc = "release_peer", ~stale
          PROVE  rtp'.refs[victim] = 1 /\ SlotsWith(rtp', victim) = {}
      <4>1. victim \in Loose(rtp) /\ rtp.refs[victim] = 1
        BY <3>6 DEF VictimInv, Loose
      <4>2. QED
        BY <3>3, <4>1 DEF Loose
    <3>7. QED
      BY <2>1, <3>4, <3>5, <3>6 DEF VictimInv, Disconnecting
  <2>4. QED
    BY <2>2, <2>3
<1>9. ASSUME NEW sk, NEW c \in Ssrcs, RecvEndSession(sk, c) PROVE VictimInv'
  <2> DEFINE found == RTPSessionFindPeerBySSRC(rtp, NULL, c)
  <2>1. /\ pc' = pc /\ victim' = victim /\ slot' = slot
        /\ fault' = {} => fault = {}
    BY <1>9 DEF RecvEndSession
  <2>2. CASE rtp' = rtp /\ stale' = stale
    BY <2>1, <2>2 DEF VictimInv, Disconnecting
  <2>3. CASE ~(rtp' = rtp /\ stale' = stale)
    <3>1. /\ Live /\ rtp' = Ended(rtp, c) /\ found # NULL
          /\ stale' = (stale \/ (Disconnecting /\ found = victim))
      BY <1>9, <2>3, EndSessionTable
    <3>2. Holds(rtp) /\ rtp \in Tables
      BY <3>1 DEF TableInv
    <3>3. /\ Loose(rtp') = Loose(rtp)
          /\ \A p \in Slots : rtp.peers[p] # found => rtp'.peers[p] = rtp.peers[p]
          /\ \A b \in Loose(rtp) : rtp'.refs[b] = rtp.refs[b]
      BY <3>1, <3>2, EndedHolds
    <3> HIDE DEF found
    <3>4. ASSUME Disconnecting, ~stale' PROVE SlotsWith(rtp', victim) # {}
      BY <3>1, <3>3, <3>4 DEF VictimInv, SlotsWith, Disconnecting
    <3>5. ASSUME pc = "clear_slot", ~stale' PROVE rtp'.peers[slot] = victim
      BY <3>1, <3>3, <3>5 DEF VictimInv, Disconnecting
    <3>6. ASSUME pc = "release_peer", ~stale'
          PROVE  rtp'.refs[victim] = 1 /\ SlotsWith(rtp', victim) = {}
      <4>1. victim \in Loose(rtp) /\ rtp.refs[victim] = 1
        BY <3>1, <3>6 DEF VictimInv, Loose
      <4>2. QED
        BY <3>3, <4>1 DEF Loose
    <3>7. stale' \in BOOLEAN /\ (stale' => pc \in DisconnectLabels)
          /\ (stale' /\ pc = "disconnect" => fault' # {})
      BY <2>1, <3>1 DEF VictimInv, Disconnecting
    <3>8. QED
      BY <2>1, <3>4, <3>5, <3>6, <3>7 DEF VictimInv, Disconnecting
  <2>4. QED
    BY <2>2, <2>3
<1>10. CASE _alsa_input \/ TimerExpires \/ TimerRearm \/ _applemidi_idle_timeout
  <2>1. /\ pc' = pc /\ victim' = victim /\ slot' = slot /\ stale' = stale /\ rtp' = rtp
        /\ fault' = {} => fault = {}
    BY <1>10 DEF _alsa_input, TimerExpires, TimerRearm, _applemidi_idle_timeout
  <2>2. QED
    BY <2>1 DEF VictimInv, Disconnecting
<1>11. CASE Callback
  BY <1>8, <1>9, <1>10, <1>11 DEF Callback
<1>12. QED
  BY <1>1, <1>2, <1>3, <1>4, <1>5, <1>6, <1>7, <1>11 DEF Next, Destroy, Disconnect

(* The table owns its peers as long as it exists. *)
LEMMA TableStep ==
    ASSUME ControlInv, HeldInv, CountInv, VictimInv, TableInv, Next
    PROVE  TableInv'
<1>1. CASE insmod
  BY <1>1 DEF ControlInv, HeldInv, TableInv, insmod
<1>2. CASE kmalloc \/ snd_card_create \/ create_client \/ create_port \/ snd_card_register
  BY <1>2 DEF ControlInv, HeldInv, TableInv, Acquire, kmalloc, snd_card_create, create_client,
     create_port, snd_card_register
<1>3. CASE fail_port \/ fail_client \/ fail_card
  BY <1>3 DEF ControlInv, HeldInv, TableInv, Unwind, fail_port, fail_client, fail_card
<1>4. CASE MIDIClockProvide
  BY <1>4 DEF ControlInv, HeldInv, TableInv, MIDIClockProvide
<1>5. CASE control_socket \/ rtp_socket \/ control_fail
  BY <1>5 DEF ControlInv, HeldInv, TableInv, Acquire, Unwind, control_socket, rtp_socket,
     control_fail
<1>6. CASE sessions
  <2>1. /\ RTPSessionCreate \in Tables /\ Holds(RTPSessionCreate)
        /\ Loose(RTPSessionCreate) = {}
        /\ EmptySlots(RTPSessionCreate) = Slots
    BY DEF RTPSessionCreate, Tables, Holds, Loose, EmptySlots
  <2>2. rtp' = RTPSessionCreate /\ peer' = NULL /\ pc' = "rtpmidi_session"
    BY <1>6 DEF sessions
  <2>3. QED
    BY <2>1, <2>2 DEF TableInv
<1>7. CASE RTPMIDISessionCreate
  BY <1>7 DEF ControlInv, HeldInv, TableInv, Acquire, RTPMIDISessionCreate
<1>8. CASE mod_timer
  BY <1>8 DEF ControlInv, HeldInv, TableInv, mod_timer
<1>9. CASE assign_raspi
  BY <1>9 DEF ControlInv, HeldInv, TableInv, assign_raspi
<1>10. CASE rmmod
  BY <1>10 DEF ControlInv, HeldInv, TableInv, rmmod
<1>11. CASE Disconnect
  <2>1. /\ pc \in DisconnectLabels /\ peer' = peer /\ held' = held /\ raspi' = raspi
        /\ pc' \in DisconnectLabels \cup {"release_control"}
    BY <1>11 DEF Disconnect, disconnect, get_address, find_slot, clear_slot, release_peer
  <2>2. rtp \in Tables /\ Holds(rtp) /\ peer \in Addrs \cup {NULL}
    BY <2>1 DEF TableInv
  <2>3. fault' = {} => fault = {}
    BY FaultGrows
  <2>4. CASE disconnect
    <3> DEFINE first == RTPSessionNextPeer(rtp, NULL)
    <3>1. first = NULL \/ (first \in Addrs /\ SlotsWith(rtp, first) # {})
      BY <2>2, NextIsPointer
    <3>2. /\ pc = "disconnect" /\ rtp' = rtp
          /\ pc' = IF first = NULL THEN "release_control" ELSE "get_address"
      BY <2>4 DEF disconnect
    <3> HIDE DEF first
    <3>3. first # NULL => EmptySlots(rtp) # Slots
      BY <3>1, AddrsAssumption DEF SlotsWith, EmptySlots
    <3>4. fault = {} => Loose(rtp) = {}
      BY <3>2 DEF VictimInv, TableInv
    <3>5. QED
      BY <2>1, <2>2, <2>3, <3>2, <3>3, <3>4 DEF TableInv
  <2>5. CASE get_address \/ find_slot
    <3>1. /\ rtp' = rtp /\ victim' = victim /\ stale' = stale
          /\ pc \in VictimLabels /\ pc # "release_peer" /\ pc' # "release_peer"
          /\ pc' \in DisconnectLabels
      BY <2>5 DEF get_address, find_slot
    <3>2. QED
      BY <2>1, <2>2, <2>3, <3>1 DEF TableInv
  <2>6. CASE clear_slot
    <3>1. /\ pc = "clear_slot" /\ pc' = "release_peer" /\ slot \in Slots
          /\ victim' = victim /\ stale' = stale /\ fault' = fault
          /\ rtp' = [rtp EXCEPT !.peers[slot] = NULL]
      BY <2>6 DEF clear_slot, VictimInv
    <3>2. /\ rtp' \in Tables /\ rtp'.refs = rtp.refs
          /\ \A p \in Slots : rtp'.peers[p] = IF p = slot THEN NULL ELSE rtp.peers[p]
      BY <2>2, <3>1 DEF Tables
    <3>3. Holds(rtp')
      BY <2>2, <3>2 DEF Holds
    <3>4. ASSUME ~stale, fault = {} PROVE Loose(rtp') = {victim}
      <4>1. /\ rtp.peers[slot] = victim /\ victim \in Addrs /\ victim # NULL
            /\ Loose(rtp) = {}
        BY <3>1, <3>4, AddrsAssumption DEF VictimInv, TableInv
      <4>2. rtp.refs[victim] = 1 /\ \A p \in Slots : p # slot => rtp.peers[p] # victim
        BY <2>2, <3>1, <4>1 DEF Holds
      <4>3. SlotsWith(rtp', victim) = {}
        BY <3>2, <4>1, <4>2 DEF SlotsWith
      <4>4. \A b \in Addrs : b # victim => SlotsWith(rtp', b) = SlotsWith(rtp, b)
        BY <3>1, <3>2, <4>1, AddrsAssumption DEF SlotsWith
      <4>5. QED
        BY <3>2, <4>1, <4>2, <4>3, <4>4 DEF Loose
    <3>5. QED
      BY <2>1, <2>2, <3>1, <3>2, <3>3, <3>4 DEF TableInv
  <2>7. CASE release_peer
    <3>1. /\ pc = "release_peer" /\ pc' = "disconnect"
          /\ victim' = victim /\ stale' = stale
          /\ rtp' = IF stale THEN rtp ELSE RTPPeerRelease(rtp, victim)
      BY <2>7 DEF release_peer
    <3>2. CASE stale
      BY <2>1, <2>2, <3>1, <3>2 DEF TableInv
    <3>3. CASE ~stale
      <4>1. victim \in Addrs /\ rtp.refs[victim] = 1 /\ SlotsWith(rtp, victim) = {}
        BY <3>1, <3>3 DEF VictimInv
      <4>2. /\ rtp' \in Tables /\ rtp'.peers = rtp.peers
            /\ \A b \in Addrs : rtp'.refs[b] = IF b = victim THEN 0 ELSE rtp.refs[b]
        BY <2>2, <3>1, <3>3, <4>1 DEF RTPPeerRelease, Tables
      <4>3. \A p \in Slots : rtp.peers[p] # victim /\ rtp.peers[p] \in Addrs \cup {NULL}
        BY <2>2, <4>1 DEF SlotsWith, Tables
      <4>4. Holds(rtp')
        BY <2>2, <4>2, <4>3 DEF Holds
      <4>5. EmptySlots(rtp') = EmptySlots(rtp)
        BY <4>2 DEF EmptySlots
      <4>6. Loose(rtp') = Loose(rtp) \ {victim}
        BY <4>2 DEF Loose, SlotsWith
      <4>7. QED
        BY <2>1, <2>2, <2>3, <3>1, <3>3, <4>2, <4>4, <4>5, <4>6 DEF TableInv
    <3>4. QED
      BY <3>2, <3>3
  <2>8. QED
    BY <1>11, <2>4, <2>5, <2>6, <2>7 DEF Disconnect
<1>12. CASE release_control \/ release_rtp
  BY <1>12 DEF ControlInv, HeldInv, TableInv, Unwind, release_control, release_rtp
<1>13. CASE RTPMIDISessionRelease
  <2>1. /\ pc = "rtpmidi_release" /\ pc' \in {"rtp_release", "oops"} /\ peer' = peer
        /\ stale' = stale
    BY <1>13 DEF RTPMIDISessionRelease
  <2>2. "rtpmidi_session" \in held => refs = 2
    BY <2>1 DEF CountInv
  <2>3. rtp' = rtp
    BY <1>13, <2>2 DEF RTPMIDISessionRelease, RTPSessionRelease
  <2>4. fault' = {} => fault = {}
    BY FaultGrows
  <2>5. QED
    BY <2>1, <2>3, <2>4 DEF TableInv
<1>14. CASE rtp_release
  <2>1. /\ pc = "rtp_release" /\ pc' = "base_release" /\ peer' = peer
        /\ refs' = refs - 1 /\ fault' = fault
    BY <1>14 DEF rtp_release, RTPSessionRelease
  <2>2. refs = 1
    BY <2>1 DEF CountInv, HeldInv
  <2>3. rtp' = [rtp EXCEPT !.refs = [a \in Addrs |-> rtp.refs[a] -
                                       (IF SlotsWith(rtp, a) # {} THEN 1 ELSE 0)]]
    BY <1>14, <2>1, <2>2 DEF rtp_release, RTPSessionRelease
  <2>4. rtp \in Tables /\ Holds(rtp) /\ ~stale
    BY <2>1 DEF TableInv, VictimInv
  <2>5. \A a \in Addrs : SlotsWith(rtp, a) # {} => rtp.refs[a] = 1
    BY <2>4, AddrsAssumption DEF Holds, SlotsWith
  <2>6. \A a \in Addrs : rtp.refs[a] - (IF SlotsWith(rtp, a) # {} THEN 1 ELSE 0) \in Nat
    BY <2>4, <2>5 DEF Tables
  <2>7. rtp' \in Tables
    BY <2>3, <2>4, <2>6 DEF Tables
  <2>8. ASSUME fault = {} PROVE \A a \in Addrs : rtp'.refs[a] = 0
    <3>1. Loose(rtp) = {}
      BY <2>1, <2>4, <2>8 DEF TableInv
    <3>2. \A a \in Addrs : SlotsWith(rtp, a) = {} => rtp.refs[a] = 0
      BY <3>1 DEF Loose
    <3>3. QED
      BY <2>3, <2>4, <2>5, <3>2 DEF Tables
  <2>9. QED
    BY <2>1, <2>7, <2>8 DEF TableInv
<1>15. CASE base_release
  BY <1>15 DEF ControlInv, HeldInv, TableInv, base_release
<1>16. CASE del_timer
  BY <1>16 DEF ControlInv, HeldInv, TableInv, del_timer
<1>17. CASE kfree
  BY <1>17 DEF ControlInv, HeldInv, TableInv, Unwind, kfree
<1>18. ASSUME NEW sk, NEW c \in Ssrcs, RecvInvitation(sk, c) PROVE TableInv'
  <2>1. /\ pc' = pc /\ raspi' = raspi /\ held' = held /\ peer' = peer
        /\ victim' = victim /\ stale' = stale /\ (fault' = {} => fault = {})
    BY <1>18 DEF RecvInvitation
  <2>2. CASE rtp' = rtp
    BY <2>1, <2>2 DEF TableInv
  <2>3. CASE rtp' # rtp
    <3>1. Live /\ {"control_socket", "rtp_socket"} \subseteq held
      BY <1>18, <2>3, InvitationTable
    <3>2. PICK a \in FreeMemory(rtp) : rtp' = Invited(rtp, a, c)
      BY <1>18, <2>3, InvitationTable
    <3>3. rtp \in Tables /\ Holds(rtp)
      BY <3>1 DEF TableInv
    <3>4. rtp' \in Tables /\ Holds(rtp') /\ Loose(rtp') = Loose(rtp)
      BY <3>2, <3>3, InvitedHolds
    <3>5. QED
      BY <2>1, <3>1, <3>4 DEF TableInv
  <2>4. QED
    BY <2>2, <2>3
<1>19. ASSUME NEW sk, NEW c \in Ssrcs, RecvEndSession(sk, c) PROVE TableInv'
  <2> DEFINE found == RTPSessionFindPeerBySSRC(rtp, NULL, c)
  <2>1. /\ pc' = pc /\ raspi' = raspi /\ held' = held /\ peer' = peer
        /\ victim' = victim /\ (fault' = {} => fault = {})
    BY <1>19 DEF RecvEndSession
  <2>2. CASE rtp' = rtp /\ stale' = stale
    BY <2>1, <2>2 DEF TableInv
  <2>3. CASE ~(rtp' = rtp /\ stale' = stale)
    <3>1. /\ Live /\ rtp' = Ended(rtp, c) /\ found # NULL
          /\ stale' = (stale \/ (Disconnecting /\ found = victim))
      BY <1>19, <2>3, EndSessionTable
    <3>2. rtp \in Tables /\ Holds(rtp)
      BY <3>1 DEF TableInv
    <3>3. /\ rtp' \in Tables /\ Holds(rtp') /\ Loose(rtp') = Loose(rtp)
          /\ SlotsWith(rtp, found) # {}
      BY <3>1, <3>2, EndedHolds
    <3>4. EmptySlots(rtp) # Slots
      BY <3>1, <3>3 DEF EmptySlots, SlotsWith
    <3>5. ~stale' => ~stale
      BY <3>1
    <3>6. QED
      BY <2>1, <3>1, <3>3, <3>4, <3>5 DEF TableInv
  <2>4. QED
    BY <2>2, <2>3
<1>20. CASE _alsa_input \/ TimerExpires \/ TimerRearm
  <2>1. fault' = {} => fault = {}
    BY FaultGrows
  <2>2. QED
    BY <1>20, <2>1 DEF TableInv, _alsa_input, TimerExpires, TimerRearm
<1>21. CASE _applemidi_idle_timeout
  <2> DEFINE next == RTPSessionNextPeer(rtp, peer)
  <2>1. /\ pc' = pc /\ raspi' = raspi /\ held' = held /\ rtp' = rtp
        /\ victim' = victim /\ stale' = stale
        /\ peer' = next \/ peer' = peer
    BY <1>21 DEF _applemidi_idle_timeout
  <2>2. rtp \in Tables /\ peer \in Addrs \cup {NULL} /\ (fault' = {} => fault = {})
    BY FaultGrows DEF TableInv
  <2>3. \/ next = NULL \/ next = peer
        \/ next \in Addrs /\ SlotsWith(rtp, next) # {}
    BY <2>2, NextIsPointer
  <2> HIDE DEF next
  <2>4. SlotsWith(rtp, next) # {} /\ next \in Addrs => EmptySlots(rtp) # Slots
    BY AddrsAssumption DEF SlotsWith, EmptySlots
  <2>5. QED
    BY <2>1, <2>2, <2>3, <2>4 DEF TableInv
<1>22. CASE Callback
  BY <1>18, <1>19, <1>20, <1>21, <1>22 DEF Callback
<1>23. QED
  BY <1>1, <1>2, <1>3, <1>4, <1>5, <1>6, <1>7, <1>8, <1>9, <1>10, <1>11, <1>12, <1>13, <1>14,
     <1>15, <1>16, <1>17, <1>22 DEF Next, Load, Destroy

(* What may be noted as a fault. *)
LEMMA FaultStep ==
    ASSUME fault \subseteq Objects \cup {"raspi", "peer"}, Next
    PROVE  fault' \subseteq Objects \cup {"raspi", "peer"}
<1>1. \A S \in SUBSET (Objects \cup {"raspi"}) : Missing(S) \subseteq Objects \cup {"raspi", "peer"}
  BY DEF Missing
<1>2. CASE Load \/ rmmod
  BY <1>2 DEF Load, rmmod, Acquire, Unwind, insmod, kmalloc, snd_card_create, create_client,
     create_port, snd_card_register, fail_port, fail_client, fail_card, MIDIClockProvide,
     control_socket, rtp_socket, control_fail, sessions, RTPMIDISessionCreate, mod_timer,
     assign_raspi
<1>3. CASE Destroy
  BY <1>1, <1>3 DEF Destroy, Unwind, Disconnect, disconnect, get_address, UseVictim, find_slot,
     clear_slot, release_peer, release_control, release_rtp, RTPMIDISessionRelease, rtp_release,
     base_release, del_timer, kfree, Objects
<1>4. ASSUME NEW sk, NEW c, RecvInvitation(sk, c) \/ RecvEndSession(sk, c)
      PROVE  fault' \subseteq Objects \cup {"raspi", "peer"}
  BY <1>1, <1>4 DEF RecvInvitation, RecvEndSession, Objects
<1>5. CASE _alsa_input
  BY <1>1, <1>5 DEF _alsa_input, Objects
<1>6. CASE TimerExpires \/ TimerRearm
  BY <1>1, <1>6 DEF TimerExpires, TimerRearm, Objects
<1>7. CASE _applemidi_idle_timeout
  BY <1>1, <1>7 DEF _applemidi_idle_timeout, Objects
<1>8. QED
  BY <1>2, <1>3, <1>4, <1>5, <1>6, <1>7 DEF Next, Callback

(* The invariant holds of an unloaded driver and is kept by every step. *)
LEMMA LifecycleInvHolds == Spec => []LifecycleInv
<1>1. Init => LifecycleInv
  <2>1. RTPSessionCreate \in Tables /\ \A a \in Addrs : RTPSessionCreate.refs[a] = 0
    BY DEF RTPSessionCreate, Tables
  <2>2. Init => ControlInv /\ HeldInv
    BY DEF Init, ControlInv, HeldInv
  <2>3. Init => CountInv
    BY DEF Init, CountInv
  <2>4. Init => TimerInv
    BY DEF Init, TimerInv
  <2>5. Init => TableInv
    BY <2>1 DEF Init, TableInv
  <2>6. 0 \in Slots
    BY MaxPeersAssumption DEF Slots
  <2>7. Init => VictimInv
    BY <2>6 DEF Init, VictimInv, Disconnecting
  <2>8. QED
    BY <2>2, <2>3, <2>4, <2>5, <2>7 DEF Init, LifecycleInv
<1>2. LifecycleInv /\ [Next]_vars => LifecycleInv'
  <2>1. CASE Next
    BY <2>1, ControlStep, HeldStep, CountStep, TimerStep, VictimStep, TableStep, FaultStep
       DEF LifecycleInv
  <2>2. CASE UNCHANGED vars
    BY <2>2 DEF LifecycleInv, ControlInv, HeldInv, CountInv, TimerInv, VictimInv, TableInv,
       Disconnecting, vars
  <2>3. QED
    BY <2>1, <2>2
<1>3. QED
  BY <1>1, <1>2, PTL DEF Spec

-----------------------------------------------------------------------------
(***************************************************************************)
(* TypeOK holds of the applemidi driver with any number of clients,        *)
(* whatever calls fail: in particular the references to the RTP session    *)
(* and to the clock never fall below 0 (RTPSessionRelease,                 *)
(* MIDIClockRelease).                                                      *)
(***************************************************************************)
THEOREM DriverTypeCorrect == Spec => []TypeOK
<1>1. LifecycleInv => TypeOK
  <2> SUFFICES ASSUME LifecycleInv PROVE TypeOK
    OBVIOUS
  <2>1. refs \in 0..2 /\ clock \in 0..2
    BY DEF LifecycleInv, CountInv
  <2>2. QED
    BY <2>1 DEF LifecycleInv, HeldInv, VictimInv, TableInv, TypeOK
<1>2. QED
  BY <1>1, LifecycleInvHolds, PTL

(***************************************************************************)
(* OnlyClockAndTimerStay holds however many clients are invited or leave   *)
(* during MIDIDriverAppleMIDIDestroy, if nothing that was gone was used:   *)
(* one reference to the clock stays (MIDIClockProvide), a timer only after *)
(* a race with del_timer, and no object, session or peer.                  *)
(***************************************************************************)
THEOREM KnownLeftovers == Spec => []OnlyClockAndTimerStay
<1>1. LifecycleInv => OnlyClockAndTimerStay
  <2> SUFFICES ASSUME LifecycleInv, pc = "unloaded", fault = {} PROVE OnlyClockAndTimerStay
    BY DEF OnlyClockAndTimerStay
  <2>1. held = {}
    BY DEF LifecycleInv, HeldInv, Objects
  <2>2. refs = 0 /\ clock = IF raspi THEN 1 ELSE 0
    BY <2>1 DEF LifecycleInv, CountInv
  <2>3. timer \/ handler # "idle" => raced
    BY DEF LifecycleInv, TimerInv
  <2>4. \A a \in Addrs : rtp.refs[a] = 0
    BY DEF LifecycleInv, TableInv
  <2>5. QED
    BY <2>1, <2>2, <2>3, <2>4 DEF OnlyClockAndTimerStay
<1>2. QED
  BY <1>1, LifecycleInvHolds, PTL

(***************************************************************************)
(* SessionOutlivesUsers holds in every interleaving of packets, events and *)
(* timeouts with loading and unloading.                                    *)
(***************************************************************************)
THEOREM SessionIsLast == Spec => []SessionOutlivesUsers
<1>1. LifecycleInv => SessionOutlivesUsers
  BY DEF LifecycleInv, ControlInv, HeldInv, SessionOutlivesUsers
<1>2. QED
  BY <1>1, LifecycleInvHolds, PTL

(* A loaded driver with a callback in progress is complete. *)
LEMMA LoadedIsComplete ==
    ASSUME LifecycleInv, pc = "loaded",
           \/ held \cap {"port", "control_socket", "rtp_socket"} # {}
           \/ handler # "idle"
    PROVE  /\ raspi /\ {"driver", "rtp_session"} \subseteq held
           /\ "control_socket" \in held <=> "rtp_socket" \in held
           /\ "rtpmidi_session" \notin held => failed
<1>1. raspi
  BY DEF LifecycleInv, ControlInv, HeldInv, TimerInv
<1>2. QED
  BY <1>1 DEF LifecycleInv, HeldInv

(* An advance of the pointer that finds a peer has a socket to send from. *)
LEMMA PeersHaveSockets ==
    ASSUME LifecycleInv, Running, NEW pointer \in {peer, NULL},
           RTPSessionNextPeer(rtp, pointer) # NULL
    PROVE  {"control_socket", "rtp_socket"} \subseteq held
<1> DEFINE next == RTPSessionNextPeer(rtp, pointer)
<1>1. rtp \in Tables /\ pointer \in Addrs \cup {NULL}
  BY DEF LifecycleInv, TableInv
<1>2. next = pointer \/ (next \in Addrs /\ SlotsWith(rtp, next) # {})
  BY <1>1, NextIsPointer
<1> HIDE DEF next
<1>3. SlotsWith(rtp, next) # {} /\ next \in Addrs => EmptySlots(rtp) # Slots
  BY AddrsAssumption DEF SlotsWith, EmptySlots
<1>4. peer # NULL \/ EmptySlots(rtp) # Slots
  BY <1>2, <1>3 DEF next
<1>5. QED
  BY <1>4 DEF LifecycleInv, TableInv

(* A step that uses what is not there is one of the known ones. *)
LEMMA FaultIsKnown ==
    ASSUME LifecycleInv, Next, fault' # fault
    PROVE  \/ Callback /\ pc # "loaded"
           \/ /\ fault' \ fault = {"peer"}
              /\ \/ _applemidi_idle_timeout /\ SlotsWith(rtp, peer) = {}
                 \/ Disconnect /\ stale
           \/ /\ fault' \ fault = {"rtpmidi_session"}
              /\ failed /\ (_alsa_input \/ RTPMIDISessionRelease)
<1>1. CASE Load \/ rmmod
  BY <1>1 DEF Load, rmmod, Acquire, Unwind, insmod, kmalloc, snd_card_create, create_client,
     create_port, snd_card_register, fail_port, fail_client, fail_card, MIDIClockProvide,
     control_socket, rtp_socket, control_fail, sessions, RTPMIDISessionCreate, mod_timer,
     assign_raspi
<1>2. CASE Disconnect
  <2>1. get_address => Missing({"control_socket"}) = {}
    BY DEF get_address, Missing, LifecycleInv, TableInv
  <2>2. fault' = fault \cup UseVictim
    BY <1>2, <2>1 DEF Disconnect, disconnect, get_address, find_slot, clear_slot, release_peer
  <2>3. stale /\ fault' = fault \cup {"peer"}
    BY <2>2 DEF UseVictim
  <2>4. QED
    BY <1>2, <2>3
<1>3. CASE Destroy /\ ~Disconnect
  <2>1. RTPMIDISessionRelease
    BY <1>3 DEF Destroy, Unwind, release_control, release_rtp, rtp_release, base_release,
       del_timer, kfree
  <2>2. /\ pc = "rtpmidi_release" /\ "rtpmidi_session" \notin held
        /\ fault' = fault \cup {"rtpmidi_session"}
    BY <2>1 DEF RTPMIDISessionRelease
  <2>3. failed
    BY <2>2 DEF LifecycleInv, HeldInv
  <2>4. QED
    BY <2>1, <2>2, <2>3
<1>4. CASE Callback /\ pc = "loaded"
  <2>1. ASSUME NEW sk \in {"control_socket", "rtp_socket"}, NEW c \in Ssrcs,
               RecvInvitation(sk, c) \/ RecvEndSession(sk, c)
        PROVE  FALSE
    <3>1. sk \in held
      BY <2>1 DEF RecvInvitation, RecvEndSession
    <3>2. raspi /\ {"driver", "rtp_session", "control_socket", "rtp_socket"} \subseteq held
      BY <1>4, <3>1, LoadedIsComplete
    <3>3. /\ Missing({"raspi", "driver", "rtp_session", "control_socket", "rtp_socket"}) = {}
          /\ Missing({"raspi", "driver", "rtp_session"}) = {}
      BY <3>2 DEF Missing
    <3>4. fault' = fault
      BY <2>1, <3>3 DEF RecvInvitation, RecvEndSession
    <3>5. QED
      BY <3>4
  <2>2. CASE _alsa_input
    <3> DEFINE used == IF RTPSessionNextPeer(rtp, NULL) = NULL THEN {} ELSE {"rtp_socket"}
    <3>1. /\ raspi /\ "driver" \in held
          /\ "rtpmidi_session" \notin held => failed
      BY <1>4, <2>2, LoadedIsComplete DEF _alsa_input
    <3>2. used \subseteq held
      BY <1>4, <3>1, PeersHaveSockets
    <3>3. fault' = fault \cup Missing({"driver", "rtpmidi_session"} \cup used)
      BY <2>2 DEF _alsa_input
    <3> HIDE DEF used
    <3>4. Missing({"driver", "rtpmidi_session"} \cup used) \subseteq {"rtpmidi_session"} \ held
      BY <3>1, <3>2 DEF Missing
    <3>5. failed /\ fault' = fault \cup {"rtpmidi_session"}
      BY <3>1, <3>3, <3>4
    <3>6. QED
      BY <2>2, <3>5
  <2>3. CASE TimerRearm
    <3>1. Missing({"driver"}) = {}
      BY <1>4, <2>3, LoadedIsComplete DEF TimerRearm, Missing
    <3>2. QED
      BY <2>3, <3>1 DEF TimerRearm
  <2>4. CASE _applemidi_idle_timeout
    <3> DEFINE next == RTPSessionNextPeer(rtp, peer)
    <3>1. raspi /\ Missing({"driver", "rtp_session"}) = {}
      BY <1>4, <2>4, LoadedIsComplete DEF _applemidi_idle_timeout, Missing
    <3>2. next # NULL => Missing({"control_socket", "rtp_socket"}) = {}
      BY <1>4, <3>1, PeersHaveSockets DEF Missing
    <3>3. /\ next # NULL /\ rtp.refs[next] = 0
          /\ fault' = fault \cup {"peer"}
      BY <2>4, <3>1, <3>2 DEF _applemidi_idle_timeout
    <3>4. rtp \in Tables /\ peer \in Addrs \cup {NULL} /\ Holds(rtp)
      BY <1>4, <3>1 DEF LifecycleInv, TableInv
    <3>5. SlotsWith(rtp, next) = {} \/ next \notin Addrs
      BY <3>3, <3>4, AddrsAssumption DEF Holds, SlotsWith
    <3>6. SlotsWith(rtp, peer) = {}
      BY <3>3, <3>4, <3>5, NextIsPointer
    <3>7. QED
      BY <2>4, <3>3, <3>6
  <2>5. CASE TimerExpires
    BY <2>5 DEF TimerExpires
  <2>6. QED
    BY <1>4, <2>1, <2>2, <2>3, <2>4, <2>5 DEF Callback
<1>5. QED
  BY <1>1, <1>2, <1>3, <1>4 DEF Next, Destroy

(***************************************************************************)
(* OnlyKnownFaults holds of every step: a loaded driver, however little of *)
(* it could be created, uses only what exists, but for the MIDI session    *)
(* whose creation is not checked (rtpmidi.c) and the peer that the timer   *)
(* keeps a pointer to (applemidi.c); and rmmod, but for that session and   *)
(* the peer that it disconnects without the lock.                          *)
(***************************************************************************)
THEOREM FaultsAreKnown == Spec => OnlyKnownFaults
<1>1. LifecycleInv /\ [Next]_vars =>
          [fault' # fault =>
              \/ Callback /\ pc # "loaded"
              \/ /\ fault' \ fault = {"peer"}
                 /\ \/ _applemidi_idle_timeout /\ SlotsWith(rtp, peer) = {}
                    \/ Disconnect /\ stale
              \/ /\ fault' \ fault = {"rtpmidi_session"}
                 /\ failed /\ (_alsa_input \/ RTPMIDISessionRelease)]_vars
  BY FaultIsKnown
<1>2. QED
  BY <1>1, LifecycleInvHolds, PTL DEF Spec, OnlyKnownFaults

-----------------------------------------------------------------------------
(* Induction over the natural numbers, for a set. *)
LEMMA NatInduct ==
    ASSUME NEW P, 0 \in P, \A n \in Nat : n \in P => n + 1 \in P
    PROVE  \A n \in Nat : n \in P
<1> DEFINE T == {n \in Nat : n \notin P}
<1> SUFFICES ASSUME T # {} PROVE FALSE
  OBVIOUS
<1>1. PICK n \in T : \A m \in T : ~(<<m, n>> \in OpToRel(<, Nat))
  BY WFMin, NatLessThanWellFounded
<1>2. \A m \in T : ~(m < n)
  BY <1>1 DEF OpToRel
<1>3. n \in Nat /\ n \notin P /\ n # 0
  BY <1>1
<1>4. n - 1 \in Nat /\ n - 1 < n /\ (n - 1) + 1 = n
  BY <1>3
<1>5. n - 1 \in P
  BY <1>2, <1>4
<1>6. QED
  BY <1>3, <1>4, <1>5

(* h holds the first n rounds of the iteration of g from s0. *)
Rounds(h, n, S, s0, g) ==
    /\ h \in [0..n -> S]
    /\ h[0] = s0
    /\ \A k \in 0..(n - 1) : h[k + 1] = g[h[k]]

(* A loop has rounds: the function that a recursive definition over the    *)
(* natural numbers speaks of exists.                                       *)
LEMMA IterationExists ==
    ASSUME NEW S, NEW s0 \in S, NEW g \in [S -> S]
    PROVE  \E f \in [Nat -> S] : f = [k \in Nat |-> IF k = 0 THEN s0 ELSE g[f[k - 1]]]
<1> DEFINE R(h, n) == Rounds(h, n, S, s0, g)
           P == {n \in Nat : \E h : R(h, n)}
<1>1. \A n \in Nat : n \in P
  <2>1. 0 \in P
    <3>1. R([k \in 0..0 |-> s0], 0)
      BY DEF Rounds
    <3>2. QED
      BY <3>1
  <2>2. ASSUME NEW n \in Nat, n \in P PROVE n + 1 \in P
    <3>1. PICK h : R(h, n)
      BY <2>2
    <3> DEFINE e == [k \in 0..(n + 1) |-> IF k = n + 1 THEN g[h[n]] ELSE h[k]]
    <3>2. h \in [0..n -> S] /\ h[0] = s0 /\ \A k \in 0..(n - 1) : h[k + 1] = g[h[k]]
      BY <3>1 DEF Rounds
    <3>3. e \in [0..(n + 1) -> S]
      BY <3>2
    <3>4. e[0] = s0
      BY <3>2
    <3>5. ASSUME NEW k \in 0..((n + 1) - 1) PROVE e[k + 1] = g[e[k]]
      BY <3>2
    <3> HIDE DEF e
    <3>6. R(e, n + 1)
      BY <3>3, <3>4, <3>5 DEF Rounds
    <3>7. QED
      BY <3>6
  <2> HIDE DEF P
  <2>3. QED
    BY <2>1, <2>2, NatInduct
<1>2. ASSUME NEW m \in Nat, NEW n \in Nat, NEW h, NEW e, R(h, m), R(e, n),
             NEW k \in Nat, k <= m, k <= n
      PROVE  h[k] = e[k]
  <2> DEFINE Q == {j \in Nat : j <= m /\ j <= n => h[j] = e[j]}
  <2>1. 0 \in Q
    BY <1>2 DEF Rounds
  <2>2. ASSUME NEW j \in Nat, j \in Q PROVE j + 1 \in Q
    BY <1>2, <2>2 DEF Rounds
  <2> HIDE DEF Q
  <2>3. k \in Q
    BY <2>1, <2>2, NatInduct
  <2>4. QED
    BY <1>2, <2>3 DEF Q
<1> DEFINE H(n) == CHOOSE h : R(h, n)
           f == [n \in Nat |-> H(n)[n]]
<1>3. ASSUME NEW n \in Nat PROVE R(H(n), n)
  BY <1>1
<1> HIDE DEF H
<1>4. f \in [Nat -> S]
  BY <1>3 DEF Rounds
<1>5. f[0] = s0
  BY <1>3 DEF Rounds
<1>6. ASSUME NEW n \in Nat PROVE f[n + 1] = g[f[n]]
  <2>1. R(H(n), n) /\ R(H(n + 1), n + 1)
    BY <1>3
  <2>2. H(n)[n] = H(n + 1)[n]
    BY <1>2, <2>1
  <2>3. H(n + 1)[n + 1] = g[H(n + 1)[n]]
    BY <2>1 DEF Rounds
  <2>4. QED
    BY <2>2, <2>3
<1> HIDE DEF f
<1>7. ASSUME NEW k \in Nat PROVE f[k] = IF k = 0 THEN s0 ELSE g[f[k - 1]]
  <2>1. CASE k = 0
    BY <1>5, <2>1
  <2>2. CASE k # 0
    <3>1. k - 1 \in Nat /\ (k - 1) + 1 = k
      BY <2>2
    <3>2. QED
      BY <1>6, <2>2, <3>1
  <2>3. QED
    BY <2>1, <2>2
<1>8. f = [k \in Nat |-> IF k = 0 THEN s0 ELSE g[f[k - 1]]]
  BY <1>4, <1>7
<1>9. QED
  BY <1>4, <1>8

-----------------------------------------------------------------------------
Pos == Nat \ {0}

(* The primes, one by one. *)
LEMMA PrimesAre ==
    Primes[1] = 7 /\ Primes[2] = 5 /\ Primes[3] = 3 /\ Primes[4] = 2
BY DEF Primes

(* Dividing by a factor. *)
LEMMA Divided ==
    ASSUME NEW p \in {2, 3, 5, 7}, NEW n \in Pos, n % p = 0
    PROVE  n \div p \in Pos /\ p * (n \div p) = n /\ n \div p < n
BY DEF Pos

(* What divides a part divides the whole. *)
LEMMA FactorOfPart ==
    ASSUME NEW p \in {2, 3, 5, 7}, NEW q \in {2, 3, 5, 7}, NEW n \in Pos, n % p = 0,
           (n \div p) % q = 0
    PROVE  n % q = 0
<1> DEFINE m == n \div p
           r == m \div q
<1>1. m \in Pos /\ p * m = n
  BY Divided
<1> HIDE DEF m
<1>2. r \in Pos /\ q * r = m
  BY <1>1, Divided DEF m
<1> HIDE DEF r
<1>3. n = q * (p * r) /\ p * r \in Nat
  BY <1>1, <1>2 DEF Pos
<1> HIDE DEF Pos
<1>4. ASSUME NEW x \in Nat PROVE (q * x) % q = 0
  OBVIOUS
<1>5. QED
  BY <1>3, <1>4

(* The rounds of _divide_frac on n0 / d0 and f0: the fraction n / (d * f)   *)
(* stays the same, its sides do not grow, and the loop comes to its end.   *)
DivideStates == [i : 1..5, n : Pos, d : Pos, f : Pos]

DivideInv(s, k, n0, d0, f0) ==
    /\ s \in DivideStates
    /\ s.n * (d0 * f0) = n0 * (s.d * s.f)
    /\ s.n <= n0
    /\ s.d * s.f <= d0 * f0
    /\ s.i = 5 \/ (5 - s.i) + s.f + k <= 4 + f0

LEMMA DivideRound ==
    ASSUME NEW s, NEW k \in Nat, NEW n0 \in Pos, NEW d0 \in Pos, NEW f0 \in Pos,
           DivideInv(s, k, n0, d0, f0)
    PROVE  DivideInv(DivideStep(s), k + 1, n0, d0, f0)
<1> DEFINE p == Primes[s.i]
           t == DivideStep(s)
<1>1. /\ s \in DivideStates
      /\ s.i \in 1..5 /\ s.n \in Pos /\ s.d \in Pos /\ s.f \in Pos
  BY DEF DivideInv, DivideStates
<1>2. CASE s.i = 5
  BY <1>2 DEF DivideStep, DivideInv
<1>3. CASE s.i # 5
  <2>1. s.i \in 1..4 /\ p \in {2, 3, 5, 7}
    BY <1>1, <1>3, PrimesAre
  <2> HIDE DEF p
  <2>2. CASE s.f % p # 0
    <3>1. t = [s EXCEPT !.i = s.i + 1]
      BY <2>1, <2>2 DEF DivideStep, p
    <3>2. t \in DivideStates /\ t.i = s.i + 1 /\ t.n = s.n /\ t.d = s.d /\ t.f = s.f
      BY <1>1, <2>1, <3>1 DEF DivideStates
    <3> HIDE DEF t
    <3>3. s.i = 5 \/ (5 - s.i) + s.f + k <= 4 + f0
      BY DEF DivideInv
    <3>4. (5 - t.i) + t.f + (k + 1) <= 4 + f0
      BY <1>1, <1>3, <3>2, <3>3 DEF Pos
    <3>5. QED
      BY <3>2, <3>4 DEF DivideInv, t
  <2>3. CASE s.f % p = 0 /\ s.n % p = 0
    <3>1. t = [s EXCEPT !.n = s.n \div p, !.f = s.f \div p]
      BY <2>1, <2>3 DEF DivideStep, p
    <3> DEFINE m == s.n \div p
               e == s.f \div p
    <3>2. m \in Pos /\ p * m = s.n /\ m < s.n /\ e \in Pos /\ p * e = s.f /\ e < s.f
      BY <1>1, <2>1, <2>3, Divided
    <3> HIDE DEF m, e
    <3>3. t \in DivideStates /\ t.i = s.i /\ t.n = m /\ t.d = s.d /\ t.f = e
      BY <1>1, <3>1, <3>2 DEF DivideStates, m, e
    <3> HIDE DEF t
    <3>4. m * (d0 * f0) = n0 * (s.d * e)
      <4> DEFINE X == d0 * f0
                 Y == n0 * (s.d * e)
      <4>1. X \in Pos /\ Y \in Pos
        BY <1>1, <3>2 DEF Pos
      <4>2. (p * m) * X = n0 * (s.d * (p * e))
        BY <3>2 DEF DivideInv
      <4>3. n0 * (s.d * (p * e)) = p * Y
        BY <1>1, <2>1, <3>2 DEF Pos
      <4> HIDE DEF X, Y
      <4>4. (p * m) * X = p * (m * X) /\ m * X \in Nat
        BY <2>1, <3>2, <4>1 DEF Pos
      <4>5. m * X = Y
        BY <2>1, <4>1, <4>2, <4>3, <4>4 DEF Pos
      <4>6. QED
        BY <4>5 DEF X, Y
    <3>5. s.d * e <= d0 * f0
      <4>1. s.d * e <= s.d * s.f
        BY <1>1, <3>2 DEF Pos
      <4>2. s.d * s.f <= d0 * f0
        BY DEF DivideInv
      <4>3. s.d * e \in Nat /\ s.d * s.f \in Nat /\ d0 * f0 \in Nat
        BY <1>1, <3>2 DEF Pos
      <4>4. QED
        BY <4>1, <4>2, <4>3
    <3>6. m <= n0
      BY <1>1, <3>2 DEF DivideInv, Pos
    <3>7. (5 - s.i) + e + (k + 1) <= 4 + f0
      BY <1>1, <1>3, <3>2 DEF DivideInv, Pos
    <3>8. QED
      BY <3>3, <3>4, <3>5, <3>6, <3>7 DEF DivideInv, t
  <2>4. CASE s.f % p = 0 /\ s.n % p # 0
    <3>1. t = [s EXCEPT !.d = s.d * p, !.f = s.f \div p]
      BY <2>1, <2>4 DEF DivideStep, p
    <3> DEFINE c == s.d * p
               e == s.f \div p
    <3>2. e \in Pos /\ p * e = s.f /\ e < s.f
      BY <1>1, <2>1, <2>4, Divided
    <3> HIDE DEF e
    <3>3. c \in Pos /\ c * e = s.d * s.f
      BY <1>1, <2>1, <3>2 DEF Pos
    <3> HIDE DEF c
    <3>4. t \in DivideStates /\ t.i = s.i /\ t.n = s.n /\ t.d = c /\ t.f = e
      BY <1>1, <3>1, <3>2, <3>3 DEF DivideStates, c, e
    <3> HIDE DEF t
    <3>5. (5 - s.i) + e + (k + 1) <= 4 + f0
      BY <1>1, <1>3, <3>2 DEF DivideInv, Pos
    <3>6. QED
      BY <3>3, <3>4, <3>5 DEF DivideInv, t
  <2>5. QED
    BY <2>2, <2>3, <2>4
<1>4. QED
  BY <1>2, <1>3

(* _divide_frac divides the fraction by fac, and its sides stay small. *)
LEMMA DivideFrac ==
    ASSUME NEW numer \in Pos, NEW denom \in Pos, NEW fac \in Pos
    PROVE  LET q == _divide_frac(numer, denom, fac)
           IN  /\ q.numer \in Pos /\ q.denom \in Pos
               /\ q.numer * (denom * fac) = numer * q.denom
               /\ q.numer <= numer /\ q.denom <= denom * fac
<1> DEFINE s0 == [i |-> 1, n |-> numer, d |-> denom, f |-> fac]
           IsRun(f) == f = [k \in Nat |-> IF k = 0 THEN s0 ELSE DivideStep(f[k - 1])]
           run == CHOOSE f : IsRun(f)
           last == CHOOSE k \in 0..(fac + 4) : run[k].i = 5
           end == run[last]
<1>1. _divide_frac(numer, denom, fac) = [numer |-> end.n, denom |-> end.d * end.f]
  BY DEF _divide_frac
<1>2. s0 \in DivideStates /\ DivideInv(s0, 0, numer, denom, fac)
  BY DEF DivideStates, DivideInv, Pos
<1> HIDE DEF s0
<1>3. \E f : IsRun(f)
  <2> DEFINE g == [s \in DivideStates |-> DivideStep(s)]
  <2>1. ASSUME NEW s \in DivideStates PROVE DivideStep(s) \in DivideStates
    <3>1. s.n \in Pos /\ s.d \in Pos /\ s.f \in Pos /\ s.i \in 1..5
      BY DEF DivideStates
    <3>2. DivideInv(s, 0, s.n, s.d, s.f)
      BY <3>1 DEF DivideInv, Pos
    <3>3. QED
      BY <3>1, <3>2, DivideRound DEF DivideInv
  <2>2. g \in [DivideStates -> DivideStates]
    BY <2>1
  <2> HIDE DEF g
  <2>3. PICK f \in [Nat -> DivideStates] :
            f = [k \in Nat |-> IF k = 0 THEN s0 ELSE g[f[k - 1]]]
    BY <1>2, <2>2, IterationExists
  <2>4. ASSUME NEW k \in Nat
        PROVE  (IF k = 0 THEN s0 ELSE g[f[k - 1]]) = (IF k = 0 THEN s0 ELSE DivideStep(f[k - 1]))
    <3>1. k # 0 => f[k - 1] \in DivideStates
      BY <2>3
    <3>2. \A s \in DivideStates : g[s] = DivideStep(s)
      BY DEF g
    <3>3. QED
      BY <3>1, <3>2
  <2>5. [k \in Nat |-> IF k = 0 THEN s0 ELSE g[f[k - 1]]]
           = [k \in Nat |-> IF k = 0 THEN s0 ELSE DivideStep(f[k - 1])]
    BY <2>4
  <2>6. QED
    BY <2>3, <2>5
<1>4. IsRun(run)
  BY <1>3
<1> HIDE DEF run
<1>5. run[0] = s0 /\ \A k \in Nat : run[k + 1] = DivideStep(run[k])
  <2>1. \A k \in Nat : run[k] = IF k = 0 THEN s0 ELSE DivideStep(run[k - 1])
    BY <1>4, Zenon
  <2>2. ASSUME NEW k \in Nat PROVE run[k + 1] = DivideStep(run[k])
    <3>1. k + 1 \in Nat /\ k + 1 # 0 /\ (k + 1) - 1 = k
      OBVIOUS
    <3>2. QED
      BY <2>1, <3>1
  <2>3. QED
    BY <2>1, <2>2
<1>6. \A k \in Nat : DivideInv(run[k], k, numer, denom, fac)
  <2> DEFINE P == {k \in Nat : DivideInv(run[k], k, numer, denom, fac)}
  <2>1. 0 \in P
    BY <1>2, <1>5
  <2>2. ASSUME NEW k \in Nat, k \in P PROVE k + 1 \in P
    BY <1>5, <2>2, DivideRound
  <2> HIDE DEF P
  <2>3. \A k \in Nat : k \in P
    BY <2>1, <2>2, NatInduct
  <2>4. QED
    BY <2>3 DEF P
<1>7. run[fac + 4].i = 5
  <2>1. fac + 4 \in Nat /\ DivideInv(run[fac + 4], fac + 4, numer, denom, fac)
    BY <1>6 DEF Pos
  <2>2. QED
    BY <2>1 DEF DivideInv, DivideStates, Pos
<1>8. last \in Nat
  <2>1. \E k \in 0..(fac + 4) : run[k].i = 5
    BY <1>7 DEF Pos
  <2>2. last \in 0..(fac + 4)
    BY <2>1
  <2> HIDE DEF last
  <2>3. QED
    BY <2>2 DEF Pos
<1> HIDE DEF last
<1>9. DivideInv(end, last, numer, denom, fac)
  BY <1>6, <1>8
<1> HIDE DEF end
<1>10. end.n \in Pos /\ end.d * end.f \in Pos
  BY <1>9 DEF DivideInv, DivideStates, Pos
<1>11. QED
  BY <1>1, <1>9, <1>10 DEF DivideInv

-----------------------------------------------------------------------------
(* The rounds of _normalize_frac on n0 / d0: the fraction stays the same,   *)
(* its sides do not grow, the primes passed do not divide both sides, and  *)
(* the loop comes to its end.                                              *)
NormalStates == [i : 1..5, n : Pos, d : Pos]

NormalInv(s, k, n0, d0) ==
    /\ s \in NormalStates
    /\ s.n * d0 = n0 * s.d
    /\ s.n <= n0 /\ s.d <= d0
    /\ \A j \in 1..4 : j < s.i => ~(s.n % Primes[j] = 0 /\ s.d % Primes[j] = 0)
    /\ s.i = 5 \/ (5 - s.i) + s.n + k <= 4 + n0

LEMMA NormalRound ==
    ASSUME NEW s, NEW k \in Nat, NEW n0 \in Pos, NEW d0 \in Pos, NormalInv(s, k, n0, d0)
    PROVE  NormalInv(NormalizeStep(s), k + 1, n0, d0)
<1> DEFINE p == Primes[s.i]
           t == NormalizeStep(s)
<1>1. /\ s \in NormalStates
      /\ s.i \in 1..5 /\ s.n \in Pos /\ s.d \in Pos
  BY DEF NormalInv, NormalStates
<1>2. CASE s.i = 5
  BY <1>2 DEF NormalizeStep, NormalInv
<1>3. CASE s.i # 5
  <2>1. s.i \in 1..4 /\ \A j \in 1..4 : Primes[j] \in {2, 3, 5, 7}
    BY <1>1, <1>3, PrimesAre
  <2>2. p \in {2, 3, 5, 7}
    BY <2>1
  <2> HIDE DEF p
  <2>3. CASE s.n % p = 0 /\ s.d % p = 0
    <3>1. t = [s EXCEPT !.n = s.n \div p, !.d = s.d \div p]
      BY <2>1, <2>3 DEF NormalizeStep, p
    <3> DEFINE m == s.n \div p
               c == s.d \div p
    <3>2. m \in Pos /\ p * m = s.n /\ m < s.n /\ c \in Pos /\ p * c = s.d /\ c < s.d
      BY <1>1, <2>2, <2>3, Divided
    <3>3. ASSUME NEW j \in 1..4, j < s.i PROVE ~(m % Primes[j] = 0 /\ c % Primes[j] = 0)
      <4>1. Primes[j] \in {2, 3, 5, 7} /\ ~(s.n % Primes[j] = 0 /\ s.d % Primes[j] = 0)
        BY <2>1, <3>3 DEF NormalInv
      <4>2. QED
        BY <1>1, <2>2, <2>3, <4>1, FactorOfPart
    <3> HIDE DEF m, c
    <3>4. t \in NormalStates /\ t.i = s.i /\ t.n = m /\ t.d = c
      BY <1>1, <3>1, <3>2 DEF NormalStates, m, c
    <3> HIDE DEF t
    <3>5. m * d0 = n0 * c
      <4>1. (p * m) * d0 = n0 * (p * c)
        BY <3>2 DEF NormalInv
      <4>2. (p * m) * d0 = p * (m * d0) /\ n0 * (p * c) = p * (n0 * c)
        BY <2>2, <3>2 DEF Pos
      <4>3. m * d0 \in Nat /\ n0 * c \in Nat
        BY <3>2 DEF Pos
      <4>4. QED
        BY <2>2, <4>1, <4>2, <4>3
    <3>6. m <= n0 /\ c <= d0
      BY <1>1, <3>2 DEF NormalInv, Pos
    <3>7. (5 - s.i) + m + (k + 1) <= 4 + n0
      BY <1>1, <1>3, <3>2 DEF NormalInv, Pos
    <3>8. QED
      BY <3>3, <3>4, <3>5, <3>6, <3>7 DEF NormalInv, t
  <2>4. CASE ~(s.n % p = 0 /\ s.d % p = 0)
    <3>1. t = [s EXCEPT !.i = s.i + 1]
      BY <2>1, <2>4 DEF NormalizeStep, p
    <3>2. t \in NormalStates /\ t.i = s.i + 1 /\ t.n = s.n /\ t.d = s.d
      BY <1>1, <2>1, <3>1 DEF NormalStates
    <3> HIDE DEF t
    <3>3. ASSUME NEW j \in 1..4, j < s.i + 1
          PROVE  ~(s.n % Primes[j] = 0 /\ s.d % Primes[j] = 0)
      <4>1. CASE j = s.i
        BY <2>4, <4>1 DEF p
      <4>2. CASE j < s.i
        BY <4>2 DEF NormalInv
      <4>3. QED
        BY <1>1, <3>3, <4>1, <4>2
    <3>4. (5 - t.i) + t.n + (k + 1) <= 4 + n0
      BY <1>1, <1>3, <3>2 DEF NormalInv, Pos
    <3>5. QED
      BY <3>2, <3>3, <3>4 DEF NormalInv, t
  <2>5. QED
    BY <2>3, <2>4
<1>4. QED
  BY <1>2, <1>3

(* _normalize_frac keeps the fraction and leaves no prime in both sides. *)
LEMMA NormalizeFrac ==
    ASSUME NEW numer \in Pos, NEW denom \in Pos
    PROVE  LET q == _normalize_frac(numer, denom)
           IN  /\ q.numer \in Pos /\ q.denom \in Pos
               /\ q.numer * denom = numer * q.denom
               /\ q.numer <= numer /\ q.denom <= denom
               /\ \A p \in {2, 3, 5, 7} : ~(q.numer % p = 0 /\ q.denom % p = 0)
<1> DEFINE s0 == [i |-> 1, n |-> numer, d |-> denom]
           IsRun(f) == f = [k \in Nat |-> IF k = 0 THEN s0 ELSE NormalizeStep(f[k - 1])]
           run == CHOOSE f : IsRun(f)
           last == CHOOSE k \in 0..(numer + 4) : run[k].i = 5
           end == run[last]
<1>1. _normalize_frac(numer, denom) = [numer |-> end.n, denom |-> end.d]
  BY DEF _normalize_frac
<1>2. s0 \in NormalStates /\ NormalInv(s0, 0, numer, denom)
  BY DEF NormalStates, NormalInv, Pos
<1> HIDE DEF s0
<1>3. \E f : IsRun(f)
  <2> DEFINE g == [s \in NormalStates |-> NormalizeStep(s)]
  <2>1. ASSUME NEW s \in NormalStates PROVE NormalizeStep(s) \in NormalStates
    <3>1. s.n \in Pos /\ s.d \in Pos /\ s.i \in 1..5
      BY DEF NormalStates
    <3>2. CASE s.i = 5
      BY <3>2 DEF NormalizeStep
    <3>3. CASE s.i # 5
      <4>1. Primes[s.i] \in {2, 3, 5, 7}
        BY <3>1, <3>3, PrimesAre
      <4>2. CASE s.n % Primes[s.i] = 0 /\ s.d % Primes[s.i] = 0
        <5>1. s.n \div Primes[s.i] \in Pos /\ s.d \div Primes[s.i] \in Pos
          BY <3>1, <4>1, <4>2, Divided
        <5>2. NormalizeStep(s) = [s EXCEPT !.n = s.n \div Primes[s.i], !.d = s.d \div Primes[s.i]]
          BY <3>1, <3>3, <4>2 DEF NormalizeStep
        <5>3. QED
          BY <5>1, <5>2 DEF NormalStates
      <4>3. CASE ~(s.n % Primes[s.i] = 0 /\ s.d % Primes[s.i] = 0)
        <5>1. NormalizeStep(s) = [s EXCEPT !.i = s.i + 1]
          BY <3>1, <3>3, <4>3 DEF NormalizeStep
        <5>2. QED
          BY <3>1, <3>3, <5>1 DEF NormalStates
      <4>4. QED
        BY <4>2, <4>3
    <3>4. QED
      BY <3>2, <3>3
  <2>2. g \in [NormalStates -> NormalStates]
    BY <2>1
  <2> HIDE DEF g
  <2>3. PICK f \in [Nat -> NormalStates] :
            f = [k \in Nat |-> IF k = 0 THEN s0 ELSE g[f[k - 1]]]
    BY <1>2, <2>2, IterationExists
  <2>4. ASSUME NEW k \in Nat
        PROVE  (IF k = 0 THEN s0 ELSE g[f[k - 1]])
                  = (IF k = 0 THEN s0 ELSE NormalizeStep(f[k - 1]))
    <3>1. k # 0 => f[k - 1] \in NormalStates
      BY <2>3
    <3>2. \A s \in NormalStates : g[s] = NormalizeStep(s)
      BY DEF g
    <3>3. QED
      BY <3>1, <3>2
  <2>5. [k \in Nat |-> IF k = 0 THEN s0 ELSE g[f[k - 1]]]
           = [k \in Nat |-> IF k = 0 THEN s0 ELSE NormalizeStep(f[k - 1])]
    BY <2>4
  <2>6. QED
    BY <2>3, <2>5
<1>4. IsRun(run)
  BY <1>3
<1> HIDE DEF run
<1>5. run[0] = s0 /\ \A k \in Nat : run[k + 1] = NormalizeStep(run[k])
  <2>1. \A k \in Nat : run[k] = IF k = 0 THEN s0 ELSE NormalizeStep(run[k - 1])
    BY <1>4, Zenon
  <2>2. ASSUME NEW k \in Nat PROVE run[k + 1] = NormalizeStep(run[k])
    <3>1. k + 1 \in Nat /\ k + 1 # 0 /\ (k + 1) - 1 = k
      OBVIOUS
    <3>2. QED
      BY <2>1, <3>1
  <2>3. QED
    BY <2>1, <2>2
<1>6. \A k \in Nat : NormalInv(run[k], k, numer, denom)
  <2> DEFINE P == {k \in Nat : NormalInv(run[k], k, numer, denom)}
  <2>1. 0 \in P
    BY <1>2, <1>5
  <2>2. ASSUME NEW k \in Nat, k \in P PROVE k + 1 \in P
    BY <1>5, <2>2, NormalRound
  <2> HIDE DEF P
  <2>3. \A k \in Nat : k \in P
    BY <2>1, <2>2, NatInduct
  <2>4. QED
    BY <2>3 DEF P
<1>7. run[numer + 4].i = 5
  <2>1. numer + 4 \in Nat /\ NormalInv(run[numer + 4], numer + 4, numer, denom)
    BY <1>6 DEF Pos
  <2>2. QED
    BY <2>1 DEF NormalInv, NormalStates, Pos
<1>8. last \in Nat /\ end.i = 5
  <2>1. \E k \in 0..(numer + 4) : run[k].i = 5
    BY <1>7 DEF Pos
  <2>2. last \in 0..(numer + 4) /\ run[last].i = 5
    BY <2>1
  <2> HIDE DEF last
  <2>3. QED
    BY <2>2 DEF Pos
<1> HIDE DEF last
<1>9. NormalInv(end, last, numer, denom)
  BY <1>6, <1>8
<1> HIDE DEF end
<1>10. ASSUME NEW p \in {2, 3, 5, 7} PROVE ~(end.n % p = 0 /\ end.d % p = 0)
  <2>1. \A j \in 1..4 : ~(end.n % Primes[j] = 0 /\ end.d % Primes[j] = 0)
    BY <1>8, <1>9 DEF NormalInv
  <2>2. QED
    BY <2>1, PrimesAre
<1>11. end.n \in Pos /\ end.d \in Pos
  BY <1>9 DEF NormalInv, NormalStates
<1>12. QED
  BY <1>1, <1>9, <1>10, <1>11 DEF NormalInv

-----------------------------------------------------------------------------
(* Cancelling a factor. *)
LEMMA Cancelled ==
    ASSUME NEW a \in Nat, NEW b \in Nat, NEW c \in Pos, a * c = b * c
    PROVE  a = b
BY DEF Pos

(* A new clock: its fraction is the rate over NSEC_PER_SEC, in lowest terms *)
(* and in 32 bits.                                                         *)
LEMMA ClockCreated ==
    ASSUME NEW rate \in Rates, NEW now
    PROVE  LET c == MIDIClockCreate(rate, now)
           IN  /\ c.frac \in Fractions
               /\ c.rate \in 1..(U32 - 1)
               /\ c.frac.numer * NSEC_PER_SEC = c.frac.denom * c.rate
               /\ LowestTerms(c.frac)
               /\ c = [frac |-> c.frac, rate |-> c.rate,
                       offset |-> -_get_real_time(c.frac, now)]
<1> DEFINE ticks == IF rate = 0 THEN NSEC_PER_SEC ELSE rate
           q == _divide_frac(NSEC_PER_SEC, 1, ticks)
           frac == _normalize_frac(q.denom, q.numer)
<1>1. /\ NSEC_PER_SEC \in Pos /\ NSEC_PER_SEC <= U32 - 1
      /\ ticks \in Pos /\ ticks <= U32 - 1
      /\ U32 \in Nat
  BY U32Assumption, NsecAssumption, RatesAssumption DEF Pos
<1>2. MIDIClockCreate(rate, now) =
         [frac |-> frac, rate |-> ticks, offset |-> -_get_real_time(frac, now)]
  BY DEF MIDIClockCreate, _multiply_frac
<1> HIDE DEF ticks
<1>3. /\ q.numer \in Pos /\ q.denom \in Pos
      /\ q.numer * (1 * ticks) = NSEC_PER_SEC * q.denom
      /\ q.numer <= NSEC_PER_SEC /\ q.denom <= 1 * ticks
  <2>1. 1 \in Pos
    BY DEF Pos
  <2>2. QED
    BY <1>1, <2>1, DivideFrac
<1> HIDE DEF q
<1>4. /\ frac.numer \in Pos /\ frac.denom \in Pos
      /\ frac.numer * q.numer = q.denom * frac.denom
      /\ frac.numer <= q.denom /\ frac.denom <= q.numer
      /\ LowestTerms(frac)
  BY <1>3, NormalizeFrac DEF LowestTerms
<1>5. frac = [numer |-> frac.numer, denom |-> frac.denom]
  BY DEF _normalize_frac
<1> HIDE DEF frac
<1>6. 1 * ticks = ticks
  BY <1>1 DEF Pos
<1>7. frac.numer \in 1..(U32 - 1) /\ frac.denom \in 1..(U32 - 1)
  BY <1>1, <1>3, <1>4, <1>6 DEF Pos
<1>8. frac \in Fractions
  BY <1>5, <1>7 DEF Fractions
<1>9. frac.numer * NSEC_PER_SEC = frac.denom * ticks
  <2> DEFINE N == frac.numer
             D == frac.denom
             a == q.numer
             b == q.denom
             G == NSEC_PER_SEC
  <2>1. N \in Pos /\ D \in Pos /\ a \in Pos /\ b \in Pos /\ G \in Pos /\ ticks \in Pos
    BY <1>1, <1>3, <1>4
  <2>2. a * ticks = G * b /\ N * a = b * D
    BY <1>3, <1>4, <1>6
  <2> HIDE DEF N, D, a, b, G
  <2>3. (N * G) * b = N * (a * ticks)
    BY <2>1, <2>2 DEF Pos
  <2>4. N * (a * ticks) = (N * a) * ticks
    BY <2>1 DEF Pos
  <2>5. (b * D) * ticks = (D * ticks) * b
    BY <2>1 DEF Pos
  <2>6. N * G \in Nat /\ D * ticks \in Nat
    BY <2>1 DEF Pos
  <2>7. (N * G) * b = (D * ticks) * b
    BY <2>2, <2>3, <2>4, <2>5
  <2>8. N * G = D * ticks
    BY <2>1, <2>6, <2>7, Cancelled
  <2>9. QED
    BY <2>8 DEF N, D, G
<1>10. ticks \in 1..(U32 - 1)
  BY <1>1 DEF Pos
<1>11. QED
  BY <1>2, <1>4, <1>8, <1>9, <1>10

(* Times and words are natural numbers. *)
LEMMA ClockNumbers ==
    /\ U32 \in Nat /\ U64 \in Nat
    /\ NSEC_PER_SEC \in Pos
    /\ \A t \in Times : t \in Nat /\ t < U64
    /\ \A frac \in Fractions : frac.numer \in Pos /\ frac.denom \in Pos
<1>1. U32 \in Nat /\ U64 \in Nat
  BY U32Assumption DEF U64
<1>2. QED
  BY <1>1, NsecAssumption, TimesAssumption DEF Pos, Fractions

(* The ticks at time t, while the product fits. *)
LEMMA RealTime ==
    ASSUME NEW frac \in Fractions, NEW t \in Times
    PROVE  /\ _get_real_time(frac, t) \in Nat
           /\ t * frac.numer < U64 =>
                 /\ frac.denom * _get_real_time(frac, t) <= t * frac.numer
                 /\ t * frac.numer < frac.denom * _get_real_time(frac, t) + frac.denom
<1> DEFINE x == t * frac.numer
           D == frac.denom
<1>1. U64 \in Nat /\ U64 > 0 /\ x \in Nat /\ D \in Pos
  BY ClockNumbers DEF Pos
<1>2. _get_real_time(frac, t) = (x % U64) \div D
  BY DEF _get_real_time
<1> HIDE DEF x, D
<1>3. x % U64 \in Nat /\ (x < U64 => x % U64 = x)
  BY <1>1
<1>4. ASSUME NEW y \in Nat
      PROVE  y \div D \in Nat /\ D * (y \div D) <= y /\ y < D * (y \div D) + D
  <2>1. y = D * (y \div D) + (y % D) /\ y % D \in 0..(D - 1) /\ y \div D \in Nat
    BY <1>1 DEF Pos
  <2>2. D * (y \div D) \in Nat
    BY <1>1, <2>1 DEF Pos
  <2>3. QED
    BY <1>1, <2>1, <2>2 DEF Pos
<1>5. QED
  BY <1>2, <1>3, <1>4 DEF x, D

(* A reading is what _get_real_time says, from the creation of the clock on. *)
LEMMA Reading ==
    ASSUME NEW rate \in Rates, NEW start \in Times, NEW t \in Times
    PROVE  LET c == MIDIClockCreate(rate, start)
           IN  /\ MIDIClockGetNow(c, t) = _get_real_time(c.frac, t) - _get_real_time(c.frac, start)
               /\ _get_real_time(c.frac, t) \in Nat
               /\ _get_real_time(c.frac, start) \in Nat
<1> DEFINE c == MIDIClockCreate(rate, start)
           F == c.frac
           x == _get_real_time(F, start)
           y == _get_real_time(F, t)
<1>1. F \in Fractions /\ c = [frac |-> F, rate |-> c.rate, offset |-> -x]
  BY ClockCreated
<1>2. x \in Nat /\ y \in Nat
  BY <1>1, RealTime
<1>3. MIDIClockGetNow(c, t) = y + c.offset
  BY DEF MIDIClockGetNow
<1> HIDE DEF c, F, x, y
<1>4. c.offset = -x
  BY <1>1
<1>5. MIDIClockGetNow(c, t) = y - x
  BY <1>2, <1>3, <1>4
<1>6. QED
  BY <1>2, <1>5 DEF c, F, x, y

(* Two readings of the clock, at s and later at t, are less than a tick away *)
(* from the ticks between them: D, N and R are the denominator, the         *)
(* numerator and the rate, G is NSEC_PER_SEC, x and y are the readings.     *)
LEMMA LessThanATick ==
    ASSUME NEW D \in Pos, NEW N \in Pos, NEW R \in Pos, NEW G \in Pos,
           NEW s \in Nat, NEW t \in Nat, NEW x \in Nat, NEW y \in Nat,
           N * G = D * R,
           D * x <= s * N, s * N < D * x + D,
           D * y <= t * N, t * N < D * y + D
    PROVE  (y - x) * G - (t - s) * R \in (1 - G)..(G - 1)
<1> DEFINE e == (y - x) * G - (t - s) * R
           r == t * N - D * y
           v == s * N - D * x
<1>1. r \in Int /\ v \in Int /\ r >= 0 /\ r < D /\ v >= 0 /\ v < D
  BY DEF Pos
<1>2. e \in Int
  BY DEF Pos
<1>3. D * e = G * (v - r)
  <2>1. D * e = ((D * y - D * x) * G) - ((t - s) * (D * R))
    BY DEF Pos
  <2>2. (t - s) * (D * R) = (t * N - s * N) * G
    <3>1. (t - s) * (N * G) = (t * N - s * N) * G
      BY DEF Pos
    <3>2. QED
      BY <3>1
  <2>3. D * e = ((D * y - D * x) * G) - ((t * N - s * N) * G)
    BY <2>1, <2>2
  <2> DEFINE a == D * y
             b == D * x
             c == t * N
             d == s * N
  <2>4. a \in Int /\ b \in Int /\ c \in Int /\ d \in Int
    BY DEF Pos
  <2>5. D * e = ((a - b) * G) - ((c - d) * G) /\ v - r = (d - b) - (c - a)
    BY <2>3
  <2> HIDE DEF a, b, c, d, e, r, v
  <2>6. ((a - b) * G) - ((c - d) * G) = G * ((d - b) - (c - a))
    BY <2>4 DEF Pos
  <2>7. QED
    BY <2>5, <2>6
<1> HIDE DEF e, r, v
<1>4. ASSUME e >= G PROVE FALSE
  <2>1. D * e >= D * G
    BY <1>2, <1>4 DEF Pos
  <2>2. G * (v - r) < G * D
    BY <1>1 DEF Pos
  <2>3. D * G = G * D /\ D * e \in Int /\ G * D \in Int
    BY <1>2 DEF Pos
  <2>4. QED
    BY <1>3, <2>1, <2>2, <2>3
<1>5. ASSUME e <= -G PROVE FALSE
  <2>1. D * (-e) >= D * G
    BY <1>2, <1>5 DEF Pos
  <2>2. G * (r - v) < G * D
    BY <1>1 DEF Pos
  <2>3. D * (-e) = -(D * e) /\ G * (r - v) = -(G * (v - r))
    BY <1>1, <1>2 DEF Pos
  <2>4. D * G = G * D /\ D * e \in Int /\ G * D \in Int
    BY <1>2 DEF Pos
  <2>5. QED
    BY <1>3, <2>1, <2>2, <2>3, <2>4
<1>6. e \in (1 - G)..(G - 1)
  BY <1>2, <1>4, <1>5 DEF Pos
<1>7. QED
  BY <1>6 DEF e

(* The product of an earlier time fits if that of a later one does. *)
LEMMA EarlierFits ==
    ASSUME NEW s \in Nat, NEW t \in Nat, s <= t, NEW n \in Nat, NEW u \in Nat, t * n < u
    PROVE  s * n < u
<1>1. s * n <= t * n /\ s * n \in Nat /\ t * n \in Nat
  OBVIOUS
<1>2. QED
  BY <1>1

(* Clocks of every rate keep time. *)
LEMMA ClocksKeepTime == KeepsTime
<1> SUFFICES ASSUME NEW rate \in Rates, NEW start \in Times
             PROVE  LET c == MIDIClockCreate(rate, start)
                    IN  /\ c.frac \in Fractions /\ LowestTerms(c.frac)
                        /\ MIDIClockGetNow(c, start) = 0
                        /\ \A time \in Times :
                              start <= time /\ ProductFits(c, time) =>
                                MIDIClockGetNow(c, time) * NSEC_PER_SEC - (time - start) * c.rate
                                    \in (1 - NSEC_PER_SEC)..(NSEC_PER_SEC - 1)
  BY DEF KeepsTime
<1> DEFINE c == MIDIClockCreate(rate, start)
           F == c.frac
           x == _get_real_time(F, start)
           y(t) == _get_real_time(F, t)
           now(t) == MIDIClockGetNow(c, t)
<1>1. /\ F \in Fractions /\ c.rate \in 1..(U32 - 1) /\ LowestTerms(F)
      /\ F.numer * NSEC_PER_SEC = F.denom * c.rate
  BY ClockCreated
<1>2. F.numer \in Pos /\ F.denom \in Pos /\ c.rate \in Pos /\ NSEC_PER_SEC \in Pos
      /\ U64 \in Nat /\ start \in Nat
  BY <1>1, ClockNumbers DEF Pos
<1>3. ASSUME NEW t \in Times PROVE now(t) = y(t) - x /\ y(t) \in Nat /\ x \in Nat
  BY Reading
<1>4. now(start) = 0
  BY <1>3
<1>5. ASSUME NEW t \in Times, start <= t, t * F.numer < U64
      PROVE  now(t) * NSEC_PER_SEC - (t - start) * c.rate
                \in (1 - NSEC_PER_SEC)..(NSEC_PER_SEC - 1)
  <2>1. t \in Nat
    BY ClockNumbers
  <2>2. start * F.numer < U64
    BY <1>2, <1>5, <2>1, EarlierFits DEF Pos
  <2>3. F.denom * x <= start * F.numer /\ start * F.numer < F.denom * x + F.denom
    BY <1>1, <2>2, RealTime
  <2>4. F.denom * y(t) <= t * F.numer /\ t * F.numer < F.denom * y(t) + F.denom
    BY <1>1, <1>5, RealTime
  <2>5. now(t) = y(t) - x /\ y(t) \in Nat /\ x \in Nat
    BY <1>3
  <2> HIDE DEF x, y, F, now, c
  <2>6. (y(t) - x) * NSEC_PER_SEC - (t - start) * c.rate
           \in (1 - NSEC_PER_SEC)..(NSEC_PER_SEC - 1)
    BY <1>1, <1>2, <2>1, <2>3, <2>4, <2>5, LessThanATick
  <2>7. QED
    BY <2>5, <2>6
<1>6. QED
  BY <1>1, <1>4, <1>5 DEF ProductFits

(***************************************************************************)
(* The driver's clock keeps time: for every rate, every moment of its      *)
(* creation and every time at which it is read, it is less than a tick     *)
(* away from the ticks that have passed as long as the product of the time *)
(* and the numerator fits into 64 bits; it begins at 0, and its fraction   *)
(* is in lowest terms and in words of 32 bits: it is never divided by 0,   *)
(* and _divide_frac and _normalize_frac do not wrap around, since fractions *)
(* do not grow from round to round (DivideInv, NormalInv).                 *)
(***************************************************************************)
THEOREM ClockIsAccurate == Spec => []ClockKeepsTime
<1>1. ClockKeepsTime
  BY ClocksKeepTime DEF ClockKeepsTime
<1>2. QED
  BY <1>1, PTL

=============================================================================
