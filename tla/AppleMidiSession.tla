-------------------------- MODULE AppleMidiSession --------------------------
(***************************************************************************)
(* Sessions and clock synchronization of the applemidi driver              *)
(* (src/applemidi/applemidi.c over rtp.c), with the clients it serves and  *)
(* the network between them.                                               *)
(*                                                                         *)
(* The socket callback and the idle timer run under driver->lock, taken    *)
(* with spin_trylock: each is one step, and a packet that finds the lock   *)
(* taken is dropped like one lost in the network.  Messages in flight are  *)
(* a set: they may be delivered in any order.                              *)
(*                                                                         *)
(* The clients are external.  They follow the session protocol: invitation *)
(* on the control port, then on the data port, clock messages, end of      *)
(* session; a client has an ssrc of its own for its one session.           *)
(***************************************************************************)
EXTENDS RtpPeers, FiniteSets

CONSTANTS
    Losable,        \* the commands that may be lost or dropped
    Retry,          \* the sockets on which clients repeat an invitation
    Leavers,        \* clients that may end their session
    Initiators      \* clients that start clock synchronization, too

Clients == Ssrcs
Sockets == {"control", "rtp"}
Commands == {"IN", "OK", "BY", "CK"}
Counts == 0..2

ASSUME NetworkAssumption == Losable \subseteq Commands /\ Retry \subseteq Sockets
ASSUME ClientsAssumption == Leavers \subseteq Clients /\ Initiators \subseteq Clients

(* Packets of client c to the driver, and of the driver to client c. *)
Invitation(c, sk) == [to |-> "driver", c |-> c, cmd |-> "IN", sk |-> sk, count |-> 0]
EndSession(c)     == [to |-> "driver", c |-> c, cmd |-> "BY", sk |-> "control", count |-> 0]
ClientCK(c, n)    == [to |-> "driver", c |-> c, cmd |-> "CK", sk |-> "rtp", count |-> n]
Acceptance(c, sk) == [to |-> "client", c |-> c, cmd |-> "OK", sk |-> sk, count |-> 0]
DriverCK(c, n)    == [to |-> "client", c |-> c, cmd |-> "CK", sk |-> "rtp", count |-> n]

ClientStates == {"idle", "invited", "joining", "joined", "left"}

VARIABLES
    rtp,        \* driver->rtp_session: the table of peers
    peer,       \* driver->peer
    sync,       \* driver->sync: 0, 1 (CK0 sent) or 2 (CK1 sent)
    client,     \* session state of every client
    net         \* messages in flight

vars == <<rtp, peer, sync, client, net>>

Init ==
    /\ rtp = RTPSessionCreate
    /\ peer = NULL
    /\ sync = 0
    /\ client = [c \in Clients |-> "idle"]
    /\ net = {}

-----------------------------------------------------------------------------
(* Receiving an invitation: accepted always; on the data port a peer is    *)
(* created, added - whether that succeeded is not looked at - and released. *)
RecvInvitation(c, sk) ==
    /\ Invitation(c, sk) \in net
    /\ IF sk = "rtp"
       THEN \E a \in FreeMemory(rtp) :
                rtp' = RTPPeerRelease(RTPSessionAddPeer(RTPPeerCreate(rtp, a, c), a), a)
       ELSE UNCHANGED rtp
    /\ net' = (net \ {Invitation(c, sk)}) \cup {Acceptance(c, sk)}
    /\ UNCHANGED <<peer, sync, client>>

(* Receiving an end of session: the peer found is removed. *)
RecvEndSession(c) ==
    LET found == RTPSessionFindPeerBySSRC(rtp, NULL, c)
    IN  /\ EndSession(c) \in net
        /\ rtp' = IF found # NULL THEN RTPSessionRemovePeer(rtp, found) ELSE rtp
        /\ net' = net \ {EndSession(c)}
        /\ UNCHANGED <<peer, sync, client>>

(* Receiving clock message n of client c: answered with the next one.  (A  *)
(* count above 2 or the driver's own ssrc, which start a new handshake,    *)
(* are sent by no client of the protocol.)                                 *)
RecvSync(c, n) ==
    /\ ClientCK(c, n) \in net
    /\ peer' = RTPSessionFindPeerBySSRC(rtp, peer, c)
    /\ sync' = IF n = 0 THEN 2 ELSE 0
    /\ net' = (net \ {ClientCK(c, n)}) \cup (IF n < 2 THEN {DriverCK(c, n + 1)} ELSE {})
    /\ UNCHANGED <<rtp, client>>

(* A new handshake with peer a; the address of a peer that was freed may be *)
(* overwritten, and then the message goes nowhere.                         *)
StartSync(a) ==
    /\ sync' = 1
    /\ \/ net' = net \cup {DriverCK(rtp.ssrc[a], 0)}
       \/ rtp.refs[a] = 0 /\ UNCHANGED net

(* The idle timer: on to the next peer, and a new handshake unless one is  *)
(* under way.                                                              *)
IdleTimeout ==
    LET next == RTPSessionNextPeer(rtp, peer)
    IN  /\ peer' = next
        /\ IF next # NULL /\ sync = 0 THEN StartSync(next) ELSE UNCHANGED <<sync, net>>
        /\ UNCHANGED <<rtp, client>>

-----------------------------------------------------------------------------
(* A message is lost, or dropped because a note is being sent. *)
Lose(m) ==
    /\ m.cmd \in Losable
    /\ net' = net \ {m}
    /\ UNCHANGED <<rtp, peer, sync, client>>

ClientInvite(c) ==
    /\ client[c] = "idle"
    /\ client' = [client EXCEPT ![c] = "invited"]
    /\ net' = net \cup {Invitation(c, "control")}
    /\ UNCHANGED <<rtp, peer, sync>>

(* An invitation that was not answered yet is repeated. *)
ClientRetry(c, sk) ==
    /\ sk \in Retry
    /\ client[c] = IF sk = "control" THEN "invited" ELSE "joining"
    /\ net' = net \cup {Invitation(c, sk)}
    /\ UNCHANGED <<rtp, peer, sync, client>>

ClientAccepted(c, sk) ==
    /\ Acceptance(c, sk) \in net
    /\ \/ /\ client[c] = "invited" /\ sk = "control"
          /\ client' = [client EXCEPT ![c] = "joining"]
          /\ net' = (net \ {Acceptance(c, sk)}) \cup {Invitation(c, "rtp")}
       \/ /\ client[c] = "joining" /\ sk = "rtp"
          /\ client' = [client EXCEPT ![c] = "joined"]
          /\ net' = net \ {Acceptance(c, sk)}
       \/ /\ <<client[c], sk>> \notin {<<"invited", "control">>, <<"joining", "rtp">>}
          /\ net' = net \ {Acceptance(c, sk)}
          /\ UNCHANGED client
    /\ UNCHANGED <<rtp, peer, sync>>

(* A client answers clock messages from its invitation on the data port    *)
(* to its end of session.                                                  *)
ClientSync(c, n) ==
    /\ DriverCK(c, n) \in net
    /\ net' = (net \ {DriverCK(c, n)}) \cup
                 (IF n < 2 /\ client[c] \in {"joining", "joined"} THEN {ClientCK(c, n + 1)} ELSE {})
    /\ UNCHANGED <<rtp, peer, sync, client>>

ClientStartSync(c) ==
    /\ c \in Initiators
    /\ client[c] = "joined"
    /\ net' = net \cup {ClientCK(c, 0)}
    /\ UNCHANGED <<rtp, peer, sync, client>>

ClientLeave(c) ==
    /\ c \in Leavers
    /\ client[c] = "joined"
    /\ client' = [client EXCEPT ![c] = "left"]
    /\ net' = net \cup {EndSession(c)}
    /\ UNCHANGED <<rtp, peer, sync>>

-----------------------------------------------------------------------------
Driver ==
    \/ \E c \in Clients :
          \/ \E sk \in Sockets : RecvInvitation(c, sk)
          \/ RecvEndSession(c)
          \/ \E n \in Counts : RecvSync(c, n)
    \/ IdleTimeout

Environment ==
    \/ \E m \in net : Lose(m)
    \/ \E c \in Clients :
          \/ ClientInvite(c)
          \/ \E sk \in Sockets : ClientRetry(c, sk) \/ ClientAccepted(c, sk)
          \/ \E n \in Counts : ClientSync(c, n)
          \/ ClientStartSync(c)
          \/ ClientLeave(c)

Next == Driver \/ Environment

(* The timer keeps firing (it re-arms itself first), and what is not lost  *)
(* is delivered.                                                           *)
Fairness ==
    /\ WF_vars(IdleTimeout)
    /\ \A c \in Clients :
          /\ WF_vars(ClientInvite(c))
          /\ WF_vars(RecvEndSession(c))
          /\ \A sk \in Sockets : /\ WF_vars(RecvInvitation(c, sk))
                                 /\ WF_vars(ClientAccepted(c, sk))
          /\ \A n \in Counts : WF_vars(RecvSync(c, n)) /\ WF_vars(ClientSync(c, n))

Spec == Init /\ [][Next]_vars
FairSpec == Spec /\ Fairness

-----------------------------------------------------------------------------
(* The types of the driver's state; reference counts never drop below 0. *)
TypeOK ==
    /\ rtp \in Tables
    /\ peer \in Addrs \cup {NULL}
    /\ sync \in 0..2
    /\ client \in [Clients -> ClientStates]

(***************************************************************************)
(* Between two callbacks the table owns the peers: every pointer in it is  *)
(* to a live object with exactly that one reference, no object is in two   *)
(* slots, and every object that is not in the table has been freed (the    *)
(* reference counting of RTPPeerCreate, RTPSessionAddPeer, RTPPeerRelease  *)
(* and RTPSessionRemovePeer).                                              *)
(***************************************************************************)
TableOwnsPeers ==
    /\ \A p \in Slots : rtp.peers[p] # NULL => rtp.refs[rtp.peers[p]] = 1
    /\ \A p, q \in Slots : rtp.peers[p] = rtp.peers[q] /\ rtp.peers[p] # NULL => p = q
    /\ \A a \in Addrs : rtp.refs[a] = 0 \/ \E p \in Slots : rtp.peers[p] = a

(* Nothing of client c is on its way to the driver. *)
NothingFrom(c) == \A m \in net : ~(m.to = "driver" /\ m.c = c)

(***************************************************************************)
(* The driver and its clients agree on who is in the session: a client     *)
(* that was accepted is in the table exactly once - so it hears every note *)
(* once - and neither is a client that has not been invited nor one whose  *)
(* end of session has arrived, however peers collide in the table and      *)
(* whatever clock messages are lost.  Holds when the table is large enough *)
(* and an invitation on the data port is not repeated.                     *)
(***************************************************************************)
SessionsAgree ==
    \A c \in Clients :
        /\ client[c] = "joined" => Cardinality(SlotsOf(rtp, c)) = 1
        /\ client[c] \in {"idle", "invited"} => SlotsOf(rtp, c) = {}
        /\ client[c] = "left" /\ NothingFrom(c) => SlotsOf(rtp, c) = {}

(***************************************************************************)
(* driver->peer is NULL or points to a peer that exists.                   *)
(***************************************************************************)
PeerPointerIsValid == peer # NULL => rtp.refs[peer] > 0

(***************************************************************************)
(* The one way in which driver->peer comes to dangle: the client that it   *)
(* points to ends its session (_applemidi_respond removes the peer and     *)
(* leaves the pointer).  Neither the idle timer, nor a clock message, nor  *)
(* the end of another session, nor an invitation that finds the table full *)
(* makes it point to memory that was freed.                                *)
(***************************************************************************)
DanglesOnlyByLeaving ==
    [][PeerPointerIsValid /\ ~PeerPointerIsValid' =>
           peer # NULL /\ RecvEndSession(rtp.ssrc[peer])]_vars

(***************************************************************************)
(* The idle timer cycles through all peers: a client that stays in the     *)
(* session receives the first message of a handshake again and again.      *)
(***************************************************************************)
CyclesThroughAllPeers ==
    \A c \in Clients :
        <>[](client[c] = "joined") => []<><<ClientSync(c, 0)>>_vars

(***************************************************************************)
(* "Missed synchronizations will be retried at the next timeout": the       *)
(* driver is ready for a new handshake again and again.                    *)
(***************************************************************************)
MissedSyncIsRetried == []<>(sync = 0)

=============================================================================
