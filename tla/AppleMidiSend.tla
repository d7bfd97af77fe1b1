---------------------------- MODULE AppleMidiSend ----------------------------
(***************************************************************************)
(* Sending the events of the ALSA sequencer to all peers: _alsa_input      *)
(* (src/applemidi/alsa.c), RTPMIDISessionSend (rtpmidi.c) and              *)
(* RTPSessionSendPacket (rtp.c), with the packets that arrive meanwhile    *)
(* (_socket_callback in applemidi.c).                                      *)
(*                                                                         *)
(* Events come from processes and, as those of cmidid's timers, from hard  *)
(* interrupts; packets come in a soft interrupt.  On one CPU an interrupt  *)
(* stops what it has interrupted.  driver->lock is a plain spinlock: it    *)
(* disables preemption, no interrupts, and on a kernel for one CPU that is *)
(* all it does.  An input keeps it while it goes through the peers, one    *)
(* step per packet.  A packet is dropped when the lock is taken, otherwise *)
(* it is processed in one step: the table changes by one assignment.       *)
(***************************************************************************)
EXTENDS RtpPeers, RtpMidiPayload

CONSTANTS
    Inputs,         \* contexts that call _alsa_input
    Events,         \* sequencer events: [type, channel, note, velocity]
    SeqMod,         \* values of the unsigned short sequence_number, 65536
    Leavers,        \* clients that may end their session, and begin another
    OwnSsrc,        \* session->self.ssrc
    MaxEvents,      \* bound on the events delivered
    RX,             \* the soft interrupt that receives packets
    Cpus,
    Machines        \* the CPUs of a machine, and the inputs that are hard interrupts

ASSUME EventsAssumption ==
    Events \subseteq [type : {"NOTEON", "NOTEOFF", "OTHER"}, channel : Nat,
                      note : 0..127, velocity : 0..127]
ASSUME SeqModAssumption == SeqMod \in 2..65536
ASSUME LeaversAssumption == Leavers \subseteq Ssrcs
ASSUME OwnSsrcAssumption == OwnSsrc \in Nat
ASSUME InputsAssumption == NULL \notin Inputs \cup Events \cup Cpus
ASSUME RXAssumption == RX \notin Inputs \cup {NULL}
ASSUME MachinesAssumption == Machines \subseteq [cpus : SUBSET Cpus, irq : SUBSET Inputs]

Clients == Ssrcs
Contexts == Inputs \cup {RX}

VARIABLES
    machine,        \* what the driver runs on
    at,             \* the CPU a context is on, NULL when it is not in the driver
    rx,             \* the command _socket_callback has let in, or NULL
    pc,             \* where every input is in _alsa_input
    event,          \* the argument of the call, or NULL
    lock,           \* driver->lock: the context that holds it, or NULL
    rtp,            \* driver->rtp_session: the table of peers
    out_seqnum,     \* out_seqnum of the peer at every address
    payload,        \* what the present call has encoded into session->buffer
    peer,           \* the peer the RTPMIDISessionSend of every input is at
    wire,           \* the packets sent to every client since it joined
    inbox,          \* commands of clients that have not been received yet
    client,         \* where every client is in its session
    delivered       \* events delivered so far

inputVars == <<pc, event, delivered>>
sendVars == <<out_seqnum, payload, peer, wire>>
sessionVars == <<rtp, inbox, client, rx>>
cpuVars == <<machine, at>>
vars == <<inputVars, lock, sendVars, sessionVars, cpuVars>>

Init ==
    /\ machine \in Machines
    /\ at = [c \in Contexts |-> NULL]
    /\ rx = NULL
    /\ pc = [i \in Inputs |-> "idle"]
    /\ event = [i \in Inputs |-> NULL]
    /\ lock = NULL
    /\ rtp = RTPSessionCreate
    /\ out_seqnum = [a \in Addrs |-> 0]
    /\ payload = <<>>
    /\ peer = [i \in Inputs |-> NULL]
    /\ wire = [c \in Clients |-> <<>>]
    /\ inbox = {}
    /\ client = [c \in Clients |-> "out"]
    /\ delivered = 0

-----------------------------------------------------------------------------
(* A kernel for one CPU has no lock: spin_lock only disables preemption,    *)
(* and spin_trylock always succeeds.                                       *)
Smp == \E k, l \in machine.cpus : k # l
Acquire(c) == lock = NULL /\ lock' = IF Smp THEN c ELSE NULL

(* Hard interrupts stop all others on their CPU, the soft interrupt stops  *)
(* processes; a process that has the lock is not preempted by another one. *)
Rank(c) == IF c \in machine.irq THEN 2 ELSE IF c = RX THEN 1 ELSE 0
InSection(i) == pc[i] \in {"convert", "send", "spin_unlock"}
Stops(d, c) ==
    \/ Rank(d) > Rank(c)
    \/ Rank(d) = Rank(c) /\ (Rank(d) = 0 => InSection(d))
MayRun(c, k) == \A d \in Contexts \ {c} : at[d] = k => ~Stops(d, c)
Runs(c) == MayRun(c, at[c])

(* The sequencer calls _alsa_input, on some CPU. *)
Deliver(i, e) ==
    /\ pc[i] \in {"idle", "kept"}
    /\ delivered < MaxEvents
    /\ \E k \in machine.cpus : MayRun(i, k) /\ at' = [at EXCEPT ![i] = k]
    /\ delivered' = delivered + 1
    /\ event' = [event EXCEPT ![i] = e]
    /\ pc' = [pc EXCEPT ![i] = "spin_lock"]
    /\ UNCHANGED <<machine, lock, sendVars, sessionVars>>

spin_lock(i) ==
    /\ pc[i] = "spin_lock"
    /\ Runs(i)
    /\ Acquire(i)
    /\ pc' = [pc EXCEPT ![i] = "convert"]
    /\ UNCHANGED <<event, delivered, sendVars, sessionVars, cpuVars>>

(* The bytes of a note event; the timestamp is always 0. *)
Message(e) ==
    [status |-> (IF e.type = "NOTEON" THEN NOTE_ON ELSE NOTE_OFF) + (e.channel % 16),
     key |-> e.note, velocity |-> e.velocity, timestamp |-> 0]

Return(i, state) ==
    /\ pc' = [pc EXCEPT ![i] = state]
    /\ at' = [at EXCEPT ![i] = NULL]
    /\ event' = [event EXCEPT ![i] = NULL]
    /\ UNCHANGED <<machine, delivered, sendVars, sessionVars>>

(* An event that is not a note: the call returns, and keeps the lock.      *)
ConvertOther(i) ==
    /\ pc[i] = "convert"
    /\ Runs(i)
    /\ event[i].type = "OTHER"
    /\ Return(i, IF lock = i THEN "kept" ELSE "idle")
    /\ UNCHANGED lock

(* On to the peer p, or to the end of RTPMIDISessionSend. *)
GoTo(i, p) ==
    /\ peer' = [peer EXCEPT ![i] = p]
    /\ pc' = [pc EXCEPT ![i] = IF p = NULL THEN "spin_unlock" ELSE "send"]

(* A bug for ConvertNote: a shortcut without peers, past the unlock. *)
ConvertNoteShortcut(i) ==
    /\ pc[i] = "convert"
    /\ Runs(i)
    /\ event[i].type # "OTHER"
    /\ IF RTPSessionNextPeer(rtp, NULL) = NULL
       THEN Return(i, "idle")
       ELSE /\ payload' = Payload(<<Message(event[i])>>)
            /\ GoTo(i, RTPSessionNextPeer(rtp, NULL))
            /\ UNCHANGED <<event, delivered, out_seqnum, wire, sessionVars, cpuVars>>
    /\ UNCHANGED lock

(* A note is encoded as a list of one message, for all peers alike. *)
ConvertNote(i) ==
    /\ pc[i] = "convert"
    /\ Runs(i)
    /\ event[i].type # "OTHER"
    /\ payload' = Payload(<<Message(event[i])>>)
    /\ GoTo(i, RTPSessionNextPeer(rtp, NULL))
    /\ UNCHANGED <<event, delivered, lock, out_seqnum, wire, sessionVars, cpuVars>>

(* The packet for the peer at a. *)
NextSeq(a) == (out_seqnum[a] + 1) % SeqMod
PacketFor(a) == _rtp_encode_header(NextSeq(a), 0, OwnSsrc) \o payload

(* A bug for SendPacket: a packet that was not sent uses up its number. *)
SendPacketCounts(i) ==
    /\ pc[i] = "send"
    /\ Runs(i)
    /\ out_seqnum' = [out_seqnum EXCEPT ![peer[i]] = NextSeq(peer[i])]
    /\ \/ wire' = [wire EXCEPT ![rtp.ssrc[peer[i]]] = Append(@, PacketFor(peer[i]))]
       \/ UNCHANGED wire
    /\ GoTo(i, RTPSessionNextPeer(rtp, peer[i]))
    /\ UNCHANGED <<event, delivered, lock, payload, sessionVars, cpuVars>>

(* RTPSessionSendPacket to one peer: the number is used up only when the   *)
(* packet was sent.                                                        *)
SendPacket(i) ==
    /\ pc[i] = "send"
    /\ Runs(i)
    /\ \/ /\ wire' = [wire EXCEPT ![rtp.ssrc[peer[i]]] = Append(@, PacketFor(peer[i]))]
          /\ out_seqnum' = [out_seqnum EXCEPT ![peer[i]] = NextSeq(peer[i])]
       \/ UNCHANGED <<wire, out_seqnum>>
    /\ GoTo(i, RTPSessionNextPeer(rtp, peer[i]))
    /\ UNCHANGED <<event, delivered, lock, payload, sessionVars, cpuVars>>

spin_unlock(i) ==
    /\ pc[i] = "spin_unlock"
    /\ Runs(i)
    /\ lock' = NULL
    /\ Return(i, "idle")

-----------------------------------------------------------------------------
(* Commands of client c: an invitation on the data port, an end of session. *)
Invitation(c) == [cmd |-> "IN", c |-> c]
EndSession(c) == [cmd |-> "BY", c |-> c]

(* A new peer begins with sequence number 0; the caller's reference is     *)
(* released once the table has the peer.                                   *)
RecvInvitation(c) ==
    \E a \in FreeMemory(rtp) :
        /\ rtp' = RTPPeerRelease(RTPSessionAddPeer(RTPPeerCreate(rtp, a, c), a), a)
        /\ out_seqnum' = [out_seqnum EXCEPT ![a] = 0]
        /\ wire' = [wire EXCEPT ![c] = <<>>]
        /\ client' = [client EXCEPT ![c] = "in"]

RecvEndSession(c) ==
    LET found == RTPSessionFindPeerBySSRC(rtp, NULL, c)
    IN  /\ rtp' = IF found # NULL THEN RTPSessionRemovePeer(rtp, found) ELSE rtp
        /\ client' = [client EXCEPT ![c] = "out"]
        /\ UNCHANGED <<out_seqnum, wire>>

(* A bug for spin_trylock: it does not look at the lock. *)
spin_trylockBlind(m) ==
    /\ rx = NULL
    /\ \E k \in machine.cpus : MayRun(RX, k) /\ at' = [at EXCEPT ![RX] = k]
    /\ rx' = m
    /\ inbox' = inbox \ {m}
    /\ UNCHANGED <<inputVars, lock, sendVars, rtp, client, machine>>

(* A command that arrives is let in when spin_trylock succeeds. *)
spin_trylock(m) ==
    /\ rx = NULL
    /\ \E k \in machine.cpus : MayRun(RX, k) /\ at' = [at EXCEPT ![RX] = k]
    /\ Acquire(RX)
    /\ rx' = m
    /\ inbox' = inbox \ {m}
    /\ UNCHANGED <<inputVars, sendVars, rtp, client, machine>>

(* It is processed, and the lock released. *)
SocketCallback ==
    /\ rx # NULL
    /\ Runs(RX)
    /\ IF rx.cmd = "IN" THEN RecvInvitation(rx.c) ELSE RecvEndSession(rx.c)
    /\ rx' = NULL
    /\ at' = [at EXCEPT ![RX] = NULL]
    /\ lock' = NULL
    /\ UNCHANGED <<inputVars, payload, peer, inbox, machine>>

(* "dropped packet because of sending note": a client that was not         *)
(* answered may invite again, one that has left stays in the table.        *)
SocketCallbackDrop(m) ==
    /\ lock # NULL
    /\ \E k \in machine.cpus : MayRun(RX, k)
    /\ inbox' = inbox \ {m}
    /\ client' = [client EXCEPT ![m.c] = IF m.cmd = "IN" THEN "out" ELSE "gone"]
    /\ UNCHANGED <<inputVars, lock, sendVars, rtp, rx, cpuVars>>

(* The clients: they invite, and end the session later. *)
ClientInvite(c) ==
    /\ client[c] = "out"
    /\ client' = [client EXCEPT ![c] = "inviting"]
    /\ inbox' = inbox \cup {Invitation(c)}
    /\ UNCHANGED <<inputVars, lock, sendVars, rtp, rx, cpuVars>>

ClientLeave(c) ==
    /\ c \in Leavers
    /\ client[c] = "in"
    /\ client' = [client EXCEPT ![c] = "leaving"]
    /\ inbox' = inbox \cup {EndSession(c)}
    /\ UNCHANGED <<inputVars, lock, sendVars, rtp, rx, cpuVars>>

-----------------------------------------------------------------------------
Input(i) == ConvertOther(i) \/ ConvertNote(i) \/ SendPacket(i) \/ spin_unlock(i)

Next ==
    \/ \E i \in Inputs : (\E e \in Events : Deliver(i, e)) \/ spin_lock(i) \/ Input(i)
    \/ \E m \in inbox : spin_trylock(m) \/ SocketCallbackDrop(m)
    \/ SocketCallback
    \/ \E c \in Clients : ClientInvite(c) \/ ClientLeave(c)

(* A context that is not stopped runs on; those that wait for the lock get *)
(* it in turn (ticket spinlocks).                                          *)
Fairness ==
    /\ \A i \in Inputs : WF_vars(Input(i)) /\ SF_vars(spin_lock(i))
    /\ WF_vars(SocketCallback)

Spec == Init /\ [][Next]_vars
FairSpec == Spec /\ Fairness

-----------------------------------------------------------------------------
(* The types of the state; the message of a note event always has a        *)
(* format (without one its encoder would leave the length undefined).      *)
TypeOK ==
    /\ machine \in Machines
    /\ at \in [Contexts -> machine.cpus \cup {NULL}]
    /\ rx \in [cmd : {"IN", "BY"}, c : Clients] \cup {NULL}
    /\ pc \in [Inputs -> {"idle", "kept", "spin_lock", "convert", "send", "spin_unlock"}]
    /\ event \in [Inputs -> Events \cup {NULL}]
    /\ \A i \in Inputs : pc[i] = "send" => Message(event[i]) \in Messages
    /\ lock \in Contexts \cup {NULL}
    /\ rtp \in Tables
    /\ out_seqnum \in [Addrs -> 0..(SeqMod - 1)]
    /\ peer \in [Inputs -> Addrs \cup {NULL}]
    /\ \A c \in Clients : \A n \in DOMAIN wire[c] : wire[c][n] \in Seq(0..255)
    /\ inbox \subseteq [cmd : {"IN", "BY"}, c : Clients]
    /\ client \in [Clients -> {"out", "inviting", "in", "leaving", "gone"}]

(***************************************************************************)
(* Sequence numbers tell a client that nothing is missing: the n-th packet *)
(* a client receives in a session has the number n, also after the number  *)
(* has wrapped around, after packets that could not be sent and in a peer  *)
(* made of the memory of an earlier one (RTPPeerCreate and                 *)
(* RTPSessionSendPacket).                                                  *)
(***************************************************************************)
NumberedFromOne ==
    \A c \in Clients : \A n \in DOMAIN wire[c] : SequenceNumber(wire[c][n]) = n % SeqMod

(***************************************************************************)
(* A list of messages survives its encoding, with running status, time     *)
(* differences of one to four bytes and both forms of the header           *)
(* (MIDIMessageEncodeRunningStatus, MIDIUtilWriteVarLen and                *)
(* _rtpmidi_encode_header).  A fact about the operators, not about states: *)
(* it is evaluated in the initial state.                                   *)
(***************************************************************************)
PayloadRoundTrips == Init => Garbled = {}

(***************************************************************************)
(* "every event is converted ... and handed over to the transmission       *)
(* chain": a call of _alsa_input gets the lock, comes to an end and has    *)
(* released the lock then, whatever other inputs and packets come.  It can *)
(* wait for ever in two cases only: an event that is not a note has kept   *)
(* the lock, or a hard interrupt waits for a holder on its own CPU.        *)
(***************************************************************************)
LockKept == \E i \in Inputs : lock = i /\ pc[i] \in {"kept", "spin_lock"}
SelfDeadlock ==
    \E i \in machine.irq, c \in Contexts : pc[i] = "spin_lock" /\ lock = c /\ at[c] = at[i]
EveryNoteIsSent ==
    \A i \in Inputs :
        pc[i] = "spin_lock" ~> (pc[i] = "idle" /\ lock # i) \/ LockKept \/ SelfDeadlock

(***************************************************************************)
(* "race conditions can occur and have to be mitigated": the peer that     *)
(* RTPMIDISessionSend is at stays in the table, where its memory is alive  *)
(* and RTPSessionNextPeer finds what comes after it.                       *)
(***************************************************************************)
SendsToPeers == \A i \in Inputs : pc[i] = "send" => SlotsWith(rtp, peer[i]) # {}

(* What a listener makes of an event: a list of one message. *)
AsHeard(e) ==
    LET m == Message(e)
    IN  <<[status |-> m.status, key |-> m.key, velocity |-> m.velocity, after |-> 0]>>

(***************************************************************************)
(* The broadcast that this implements: the peers in the table are the      *)
(* members, those from the present one on are still to be told, and what   *)
(* a client has heard is what it decodes from the packets sent to it.      *)
(***************************************************************************)
Notes == {AsHeard(e) : e \in {f \in Events : f.type # "OTHER"}}
Silence == <<>>

Members == {c \in Clients : SlotsOf(rtp, c) # {}}

Sender == {i \in Inputs : pc[i] \in {"send", "spin_unlock"}}
Playing == IF Sender = {} THEN Silence ELSE AsHeard(event[CHOOSE i \in Sender : TRUE])

Todo == {c \in Members : \E i \in Inputs, p \in SlotsOf(rtp, c) :
            peer[i] # NULL /\ \E q \in SlotsWith(rtp, peer[i]) : p >= q}

Heard == [c \in Clients |-> [n \in DOMAIN wire[c] |-> Decoded(PayloadOf(wire[c][n]))]]

Broadcast == INSTANCE MidiBroadcast WITH
    members <- Members, playing <- Playing, todo <- Todo, heard <- Heard

(***************************************************************************)
(* Sending is a broadcast: the table does not change while an event is     *)
(* sent, every peer is sent each event once, in the order of the events,   *)
(* and decodes from the bytes the note that was played, with several       *)
(* inputs competing and clients joining, leaving and joining again.  This  *)
(* takes several CPUs, where there is a lock, or one CPU on which all      *)
(* inputs are hard interrupts; SendsToPeers fails without either.          *)
(***************************************************************************)
SendingIsBroadcast == Broadcast!Spec

=============================================================================
