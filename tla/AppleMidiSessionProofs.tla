----------------------- MODULE AppleMidiSessionProofs -----------------------
(***************************************************************************)
(* Theorems about sessions, for tables, identifiers and memory of every    *)
(* size: the table owns its peers, whatever is lost, repeated or           *)
(* reordered, and the driver and its clients agree on who is in the        *)
(* session.                                                                *)
(***************************************************************************)
EXTENDS AppleMidiSession, RtpPeersProofs

-----------------------------------------------------------------------------
(* The inductive invariant: TypeOK alone is not inductive, since a release *)
(* must not take a count below 0; TableOwnsPeers says it does not.          *)
SessionInv == TypeOK /\ TableOwnsPeers

(* The types and the ownership of peers hold throughout. *)
LEMMA SessionInvHolds == Spec => []SessionInv
<1>1. Init => SessionInv
  BY MaxPeersAssumption, AddrsAssumption
     DEF Init, SessionInv, TypeOK, TableOwnsPeers, RTPSessionCreate, Tables, ClientStates
<1>2. SessionInv /\ [Next]_vars => SessionInv'
  <2> SUFFICES ASSUME SessionInv, [Next]_vars PROVE SessionInv'
    OBVIOUS
  <2>1. rtp \in Tables /\ Owns(rtp)
    BY DEF SessionInv, TypeOK, TableOwnsPeers, Owns
  <2>2. ASSUME rtp' \in Tables /\ Owns(rtp') PROVE rtp' \in Tables /\ TableOwnsPeers'
    BY <2>2 DEF Owns, TableOwnsPeers
  <2>3. ASSUME NEW c \in Clients, NEW sk \in Sockets, RecvInvitation(c, sk)
        PROVE  SessionInv'
    <3>1. rtp' \in Tables /\ Owns(rtp')
      BY <2>1, <2>3, AddedIsOwned DEF RecvInvitation, Clients, Invited
    <3>2. QED
      BY <2>2, <2>3, <3>1 DEF RecvInvitation, SessionInv, TypeOK
  <2>4. ASSUME NEW c \in Clients, RecvEndSession(c) PROVE SessionInv'
    <3>1. rtp' = Ended(rtp, c)
      BY <2>4 DEF RecvEndSession, Ended
    <3>2. rtp' \in Tables /\ Owns(rtp')
      BY <2>1, <3>1, EndedSlots DEF Clients
    <3>3. QED
      BY <2>2, <2>4, <3>2 DEF RecvEndSession, SessionInv, TypeOK
  <2>5. ASSUME NEW c \in Clients, NEW n \in Counts, RecvSync(c, n) PROVE SessionInv'
    <3>1. peer' \in Addrs \cup {NULL}
      BY <2>1, <2>5, FoundIsPointer, SsrcsAssumption
         DEF RecvSync, Clients, SessionInv, TypeOK
    <3>2. QED
      BY <2>5, <3>1 DEF RecvSync, SessionInv, TypeOK, TableOwnsPeers
  <2>6. ASSUME IdleTimeout PROVE SessionInv'
    <3>1. peer' \in Addrs \cup {NULL}
      BY <2>1, <2>6, NextIsPointer DEF IdleTimeout, SessionInv, TypeOK
    <3>2. rtp' = rtp /\ client' = client /\ sync' \in 0..2
      BY <2>6 DEF IdleTimeout, StartSync, SessionInv, TypeOK
    <3>3. QED
      BY <3>1, <3>2 DEF SessionInv, TypeOK, TableOwnsPeers
  <2>7. ASSUME Environment PROVE SessionInv'
    <3>1. UNCHANGED <<rtp, peer, sync>>
      BY <2>7 DEF Environment, Lose, ClientInvite, ClientRetry, ClientAccepted,
                  ClientSync, ClientStartSync, ClientLeave
    <3>2. client' \in [Clients -> ClientStates]
      BY <2>7 DEF Environment, Lose, ClientInvite, ClientRetry, ClientAccepted,
                  ClientSync, ClientStartSync, ClientLeave, SessionInv, TypeOK, ClientStates
    <3>3. QED
      BY <3>1, <3>2 DEF SessionInv, TypeOK, TableOwnsPeers
  <2>8. CASE UNCHANGED vars
    BY <2>8 DEF vars, SessionInv, TypeOK, TableOwnsPeers
  <2>9. QED
    BY <2>3, <2>4, <2>5, <2>6, <2>7, <2>8 DEF Next, Driver
<1>3. QED
  BY <1>1, <1>2, PTL DEF Spec

(***************************************************************************)
(* The state of the applemidi driver keeps its types: no reference count   *)
(* drops below 0 and driver->peer is a pointer or NULL.                    *)
(***************************************************************************)
THEOREM SessionTypeCorrect == Spec => []TypeOK
BY SessionInvHolds, PTL DEF SessionInv

(***************************************************************************)
(* Between two callbacks every peer in the table has exactly the table's   *)
(* reference, is in one slot only, and every other peer has been freed: no *)
(* leak and no double release, with the table full, invitations repeated   *)
(* and messages lost or reordered (RTPSessionAddPeer, RTPSessionRemovePeer, *)
(* _applemidi_respond).                                                    *)
(***************************************************************************)
THEOREM PeersAreOwned == Spec => []TableOwnsPeers
BY SessionInvHolds, PTL DEF SessionInv

-----------------------------------------------------------------------------
(* What is on its way between client c and the driver, and whether the     *)
(* table has a slot for c, in every state of the client.                   *)
Agreed(c) ==
    LET invited == Invitation(c, "rtp") \in net
        accepted == Acceptance(c, "rtp") \in net
        ending == EndSession(c) \in net
        present == SlotsOf(rtp, c) # {}
    IN  /\ client[c] \in {"idle", "invited"} => ~invited /\ ~accepted /\ ~ending /\ ~present
        /\ client[c] = "joining" => /\ ~ending
                                    /\ invited => ~accepted /\ ~present
                                    /\ accepted => present
        /\ client[c] = "joined" => ~invited /\ ~accepted /\ ~ending /\ present
        /\ client[c] = "left" => ~invited /\ ~accepted /\ (present => ending)

(* The inductive invariant behind SessionsAgree. *)
AgreeInv == SessionInv /\ OneSlotEach(rtp) /\ \A c \in Clients : Agreed(c)

(* The messages of client c that Agreed speaks of, and their being apart    *)
(* from each other, from those of other clients and from all others.       *)
Telling(c) == {Invitation(c, "rtp"), Acceptance(c, "rtp"), EndSession(c)}

LEMMA MessagesDiffer ==
    ASSUME NEW c, NEW d, NEW n
    PROVE  /\ Invitation(c, "rtp") # Acceptance(c, "rtp")
           /\ Invitation(c, "rtp") # EndSession(c)
           /\ Acceptance(c, "rtp") # EndSession(c)
           /\ Invitation(c, "control") \notin Telling(d)
           /\ Acceptance(c, "control") \notin Telling(d)
           /\ ClientCK(c, n) \notin Telling(d)
           /\ DriverCK(c, n) \notin Telling(d)
           /\ c # d => Telling(c) \cap Telling(d) = {}
BY DEF Telling, Invitation, Acceptance, EndSession, ClientCK, DriverCK

(* A step that leaves a client, its messages and its slots alone. *)
LEMMA AgreedFrame ==
    ASSUME NEW d, Agreed(d), client'[d] = client[d],
           \A m \in Telling(d) : m \in net' <=> m \in net,
           SlotsOf(rtp', d) = SlotsOf(rtp, d)
    PROVE  Agreed(d)'
<1>1. /\ Invitation(d, "rtp") \in net' <=> Invitation(d, "rtp") \in net
      /\ Acceptance(d, "rtp") \in net' <=> Acceptance(d, "rtp") \in net
      /\ EndSession(d) \in net' <=> EndSession(d) \in net
  BY DEF Telling
<1>2. QED
  BY <1>1 DEF Agreed

(* What happens to client c and to its messages leaves the others alone. *)
LEMMA AgreedOthers ==
    ASSUME NEW c \in Clients, NEW d \in Clients, c # d, Agreed(d),
           client' = client \/ \E x : client' = [client EXCEPT ![c] = x],
           client \in [Clients -> ClientStates],
           \A m : (m \in net' <=> m \in net) \/ m \in Telling(c) \/ m \notin Telling(d),
           SlotsOf(rtp', d) = SlotsOf(rtp, d)
    PROVE  Agreed(d)'
<1>1. client'[d] = client[d]
  OBVIOUS
<1>2. \A m \in Telling(d) : m \in net' <=> m \in net
  BY MessagesDiffer
<1>3. QED
  BY <1>1, <1>2, AgreedFrame

(* A client invites once on the data port, and an end of session arrives. *)
InvitedOnce == "rtp" \notin Retry
EndArrives == "BY" \notin Losable

(* Every step keeps the driver and its clients in agreement. *)
LEMMA AgreedStep ==
    ASSUME EnoughRoom, InvitedOnce, EndArrives, AgreeInv, Next
    PROVE  OneSlotEach(rtp') /\ \A d \in Clients : Agreed(d)'
<1>1. /\ rtp \in Tables /\ Owns(rtp) /\ OneSlotEach(rtp)
      /\ client \in [Clients -> ClientStates]
      /\ \A d \in Clients : Agreed(d)
  BY DEF AgreeInv, SessionInv, TypeOK, TableOwnsPeers, Owns
<1>2. ASSUME UNCHANGED <<rtp, client>>,
             \A d \in Clients : \A m \in Telling(d) : m \in net' <=> m \in net
      PROVE  OneSlotEach(rtp') /\ \A d \in Clients : Agreed(d)'
  BY <1>1, <1>2, AgreedFrame
<1>3. ASSUME NEW c \in Clients, NEW sk \in Sockets, RecvInvitation(c, sk)
      PROVE  OneSlotEach(rtp') /\ \A d \in Clients : Agreed(d)'
  <2>1. CASE sk = "control"
    BY <1>2, <1>3, <2>1, MessagesDiffer DEF RecvInvitation
  <2>2. CASE sk = "rtp"
    <3>1. /\ Invitation(c, "rtp") \in net
          /\ net' = (net \ {Invitation(c, "rtp")}) \cup {Acceptance(c, "rtp")}
          /\ client' = client
      BY <1>3, <2>2 DEF RecvInvitation
    <3>2. PICK a \in FreeMemory(rtp) : rtp' = Invited(rtp, a, c)
      BY <1>3, <2>2 DEF RecvInvitation, Invited
    <3>3. client[c] = "joining" /\ SlotsOf(rtp, c) = {} /\ EndSession(c) \notin net
      BY <1>1, <3>1 DEF Agreed, ClientStates
    <3>4. EmptySlots(rtp) # {}
      BY <1>1, <3>3, RoomForAnother DEF EnoughRoom, Clients
    <3>5. OneSlotEach(rtp') /\ SlotsOf(rtp', c) # {}
      BY <1>1, <3>2, <3>3, <3>4, InvitedOneSlot DEF Clients
    <3>6. /\ Invitation(c, "rtp") \notin net'
          /\ Acceptance(c, "rtp") \in net'
          /\ EndSession(c) \notin net'
      BY <3>1, <3>3, MessagesDiffer
    <3>7. Agreed(c)'
      BY <3>1, <3>3, <3>5, <3>6 DEF Agreed
    <3>8. ASSUME NEW d \in Clients, d # c PROVE Agreed(d)'
      <4>1. SlotsOf(rtp', d) = SlotsOf(rtp, d)
        BY <1>1, <3>2, <3>8, InvitedSlots DEF Clients
      <4>2. \A m : (m \in net' <=> m \in net) \/ m \in Telling(c)
        BY <3>1 DEF Telling
      <4>3. QED
        BY <1>1, <3>1, <3>8, <4>1, <4>2, AgreedOthers
    <3>9. QED
      BY <3>5, <3>7, <3>8
  <2>3. QED
    BY <2>1, <2>2 DEF Sockets
<1>4. ASSUME NEW c \in Clients, RecvEndSession(c)
      PROVE  OneSlotEach(rtp') /\ \A d \in Clients : Agreed(d)'
  <2>1. /\ EndSession(c) \in net
        /\ net' = net \ {EndSession(c)}
        /\ client' = client
        /\ rtp' = Ended(rtp, c)
    BY <1>4 DEF RecvEndSession, Ended
  <2>2. client[c] = "left"
    BY <1>1, <2>1 DEF Agreed, ClientStates
  <2>3. OneSlotEach(rtp') /\ SlotsOf(rtp', c) = {}
    BY <1>1, <2>1, EndedOneSlot DEF Clients
  <2>4. Agreed(c)'
    BY <1>1, <2>1, <2>2, <2>3 DEF Agreed
  <2>5. ASSUME NEW d \in Clients, d # c PROVE Agreed(d)'
    <3>1. SlotsOf(rtp', d) = SlotsOf(rtp, d)
      BY <1>1, <2>1, <2>5, EndedSlots DEF Clients
    <3>2. \A m : (m \in net' <=> m \in net) \/ m \in Telling(c)
      BY <2>1 DEF Telling
    <3>3. QED
      BY <1>1, <2>1, <2>5, <3>1, <3>2, AgreedOthers
  <2>6. QED
    BY <2>3, <2>4, <2>5
<1>5. ASSUME NEW c \in Clients, NEW n \in Counts, RecvSync(c, n)
      PROVE  OneSlotEach(rtp') /\ \A d \in Clients : Agreed(d)'
  BY <1>2, <1>5, MessagesDiffer DEF RecvSync
<1>6. ASSUME IdleTimeout
      PROVE  OneSlotEach(rtp') /\ \A d \in Clients : Agreed(d)'
  <2>1. /\ UNCHANGED <<rtp, client>>
        /\ net' = net \/ \E c : net' = net \cup {DriverCK(c, 0)}
    BY <1>6 DEF IdleTimeout, StartSync
  <2>2. QED
    BY <1>2, <2>1, MessagesDiffer
<1>7. ASSUME NEW m \in net, Lose(m)
      PROVE  OneSlotEach(rtp') /\ \A d \in Clients : Agreed(d)'
  <2>1. /\ UNCHANGED <<rtp, client>>
        /\ net' \subseteq net
        /\ \A d : EndSession(d) \in net => EndSession(d) \in net'
    BY <1>7 DEF Lose, EndArrives, EndSession
  <2>2. ASSUME NEW d \in Clients PROVE Agreed(d)'
    BY <1>1, <2>1, <2>2 DEF Agreed
  <2>3. QED
    BY <1>1, <2>1, <2>2
<1>8. ASSUME NEW c \in Clients, ClientInvite(c)
      PROVE  OneSlotEach(rtp') /\ \A d \in Clients : Agreed(d)'
  <2>1. /\ client[c] = "idle"
        /\ client' = [client EXCEPT ![c] = "invited"]
        /\ net' = net \cup {Invitation(c, "control")}
        /\ UNCHANGED rtp
    BY <1>8 DEF ClientInvite
  <2>2. Agreed(c)'
    <3>1. client'[c] = "invited"
      BY <1>1, <2>1
    <3>2. \A m \in Telling(c) : m \in net' <=> m \in net
      BY <2>1, MessagesDiffer
    <3>3. QED
      BY <1>1, <2>1, <3>1, <3>2 DEF Agreed, Telling
  <2>3. ASSUME NEW d \in Clients, d # c PROVE Agreed(d)'
    BY <1>1, <2>1, <2>3, MessagesDiffer, AgreedOthers
  <2>4. QED
    BY <1>1, <2>1, <2>2, <2>3
<1>9. ASSUME NEW c \in Clients, NEW sk \in Sockets, ClientRetry(c, sk)
      PROVE  OneSlotEach(rtp') /\ \A d \in Clients : Agreed(d)'
  <2>1. sk = "control"
    BY <1>9 DEF ClientRetry, InvitedOnce, Sockets
  <2>2. QED
    BY <1>2, <1>9, <2>1, MessagesDiffer DEF ClientRetry
<1>10. ASSUME NEW c \in Clients, NEW sk \in Sockets, ClientAccepted(c, sk)
       PROVE  OneSlotEach(rtp') /\ \A d \in Clients : Agreed(d)'
  <2>1. rtp' = rtp /\ Acceptance(c, sk) \in net
    BY <1>10 DEF ClientAccepted
  <2>2. CASE /\ client[c] = "invited" /\ sk = "control"
             /\ client' = [client EXCEPT ![c] = "joining"]
             /\ net' = (net \ {Acceptance(c, sk)}) \cup {Invitation(c, "rtp")}
    <3>1. Agreed(c)'
      <4>1. client'[c] = "joining"
        BY <1>1, <2>2
      <4>2. /\ Acceptance(c, "rtp") \notin net /\ EndSession(c) \notin net
            /\ SlotsOf(rtp, c) = {}
        BY <1>1, <2>2 DEF Agreed
      <4>3. Acceptance(c, "rtp") \notin net' /\ EndSession(c) \notin net'
        BY <2>2, <4>2, MessagesDiffer
      <4>4. QED
        BY <2>1, <4>1, <4>2, <4>3 DEF Agreed
    <3>2. ASSUME NEW d \in Clients, d # c PROVE Agreed(d)'
      <4>1. \A m : (m \in net' <=> m \in net) \/ m \in Telling(c) \/ m \notin Telling(d)
        BY <2>2, MessagesDiffer DEF Telling
      <4>2. QED
        BY <1>1, <2>1, <2>2, <3>2, <4>1, AgreedOthers
    <3>3. QED
      BY <1>1, <2>1, <3>1, <3>2
  <2>3. CASE /\ client[c] = "joining" /\ sk = "rtp"
             /\ client' = [client EXCEPT ![c] = "joined"]
             /\ net' = net \ {Acceptance(c, sk)}
    <3>1. Agreed(c)'
      <4>1. client'[c] = "joined"
        BY <1>1, <2>3
      <4>2. /\ Invitation(c, "rtp") \notin net /\ EndSession(c) \notin net
            /\ SlotsOf(rtp, c) # {}
        BY <1>1, <2>1, <2>3 DEF Agreed
      <4>3. QED
        BY <2>1, <2>3, <4>1, <4>2 DEF Agreed
    <3>2. ASSUME NEW d \in Clients, d # c PROVE Agreed(d)'
      <4>1. \A m : (m \in net' <=> m \in net) \/ m \in Telling(c)
        BY <2>3 DEF Telling
      <4>2. QED
        BY <1>1, <2>1, <2>3, <3>2, <4>1, AgreedOthers
    <3>3. QED
      BY <1>1, <2>1, <3>1, <3>2
  <2>4. CASE /\ <<client[c], sk>> \notin {<<"invited", "control">>, <<"joining", "rtp">>}
             /\ net' = net \ {Acceptance(c, sk)}
             /\ UNCHANGED client
    <3>1. CASE sk = "control"
      BY <1>2, <2>1, <2>4, <3>1, MessagesDiffer
    <3>2. CASE sk = "rtp"
      <4>1. client[c] # "joining"
        BY <2>4, <3>2
      <4>2. FALSE
        BY <1>1, <2>1, <3>2, <4>1 DEF Agreed, ClientStates
      <4>3. QED
        BY <4>2
    <3>3. QED
      BY <3>1, <3>2 DEF Sockets
  <2>5. QED
    BY <1>10, <2>2, <2>3, <2>4 DEF ClientAccepted
<1>11. ASSUME NEW c \in Clients, (\E n \in Counts : ClientSync(c, n)) \/ ClientStartSync(c)
       PROVE  OneSlotEach(rtp') /\ \A d \in Clients : Agreed(d)'
  BY <1>2, <1>11, MessagesDiffer DEF ClientSync, ClientStartSync
<1>12. ASSUME NEW c \in Clients, ClientLeave(c)
       PROVE  OneSlotEach(rtp') /\ \A d \in Clients : Agreed(d)'
  <2>1. /\ client[c] = "joined"
        /\ client' = [client EXCEPT ![c] = "left"]
        /\ net' = net \cup {EndSession(c)}
        /\ UNCHANGED rtp
    BY <1>12 DEF ClientLeave
  <2>2. Agreed(c)'
    <3>1. client'[c] = "left" /\ EndSession(c) \in net'
      BY <1>1, <2>1
    <3>2. Invitation(c, "rtp") \notin net' /\ Acceptance(c, "rtp") \notin net'
      BY <1>1, <2>1, MessagesDiffer DEF Agreed
    <3>3. QED
      BY <3>1, <3>2 DEF Agreed
  <2>3. ASSUME NEW d \in Clients, d # c PROVE Agreed(d)'
    <3>1. \A m : (m \in net' <=> m \in net) \/ m \in Telling(c)
      BY <2>1 DEF Telling
    <3>2. QED
      BY <1>1, <2>1, <2>3, <3>1, AgreedOthers
  <2>4. QED
    BY <1>1, <2>1, <2>2, <2>3
<1>13. QED
  BY <1>3, <1>4, <1>5, <1>6, <1>7, <1>8, <1>9, <1>10, <1>11, <1>12
     DEF Next, Driver, Environment

(***************************************************************************)
(* The driver and its clients agree on who is in the session, for every     *)
(* number of clients, however their identifiers collide in the table and   *)
(* whatever clock messages, invitations and answers are lost or reordered:  *)
(* a client that was accepted has exactly one slot, one that was not        *)
(* invited or whose end of session arrived has none.  The three hypotheses  *)
(* are needed: a full table refuses a peer silently, a repeated invitation *)
(* adds the peer again, a lost end of session leaves it in the table        *)
(* (_applemidi_respond).                                                   *)
(***************************************************************************)
THEOREM DriverAndClientsAgree ==
    ASSUME EnoughRoom, InvitedOnce, EndArrives
    PROVE  Spec => []SessionsAgree
<1> DEFINE Agreement == OneSlotEach(rtp) /\ \A c \in Clients : Agreed(c)
<1>1. Init => Agreement
  <2> SUFFICES ASSUME Init PROVE Agreement
    OBVIOUS
  <2>1. \A p \in Slots : rtp.peers[p] = NULL
    BY DEF Init, RTPSessionCreate
  <2>2. \A r : SlotsOf(rtp, r) = {}
    BY <2>1 DEF SlotsOf
  <2>3. OneSlotEach(rtp)
    BY <2>1, <2>2 DEF OneSlotEach
  <2>4. \A c \in Clients : Agreed(c)
    BY <2>2 DEF Init, Agreed
  <2>5. QED
    BY <2>3, <2>4
<1>2. SessionInv /\ Agreement /\ [Next]_vars => Agreement'
  <2> SUFFICES ASSUME SessionInv, Agreement, [Next]_vars PROVE Agreement'
    OBVIOUS
  <2>1. CASE Next
    BY <2>1, AgreedStep DEF AgreeInv
  <2>2. CASE UNCHANGED vars
    <3>1. \A c \in Clients : Agreed(c)'
      BY <2>2, AgreedFrame DEF vars
    <3>2. QED
      BY <2>2, <3>1 DEF vars
  <2>3. QED
    BY <2>1, <2>2
<1>3. Agreement => SessionsAgree
  <2> SUFFICES ASSUME OneSlotEach(rtp), NEW c \in Clients, Agreed(c)
               PROVE  /\ client[c] = "joined" => Cardinality(SlotsOf(rtp, c)) = 1
                      /\ client[c] \in {"idle", "invited"} => SlotsOf(rtp, c) = {}
                      /\ client[c] = "left" /\ NothingFrom(c) => SlotsOf(rtp, c) = {}
    BY DEF SessionsAgree
  <2>1. ASSUME client[c] = "joined" PROVE Cardinality(SlotsOf(rtp, c)) = 1
    <3>1. PICK p : p \in SlotsOf(rtp, c)
      BY <2>1 DEF Agreed
    <3>2. SlotsOf(rtp, c) = {p}
      BY <3>1 DEF OneSlotEach
    <3>3. QED
      BY <3>2, FS_Singleton
  <2>2. NothingFrom(c) => EndSession(c) \notin net
    BY DEF NothingFrom, EndSession
  <2>3. QED
    BY <2>1, <2>2 DEF Agreed
<1>4. QED
  BY <1>1, <1>2, <1>3, SessionInvHolds, PTL DEF Spec

-----------------------------------------------------------------------------
(* A pointer into the table is valid. *)
LEMMA InTableIsValid ==
    ASSUME NEW t \in Tables, Owns(t), NEW a \in Addrs, SlotsWith(t, a) # {}
    PROVE  t.refs[a] > 0
<1>1. PICK p \in Slots : t.peers[p] = a
  BY DEF SlotsWith
<1>2. t.refs[a] = 1
  BY <1>1, AddrsAssumption DEF Owns
<1>3. QED
  BY <1>2

(* Only the end of the session of the client that driver->peer points to   *)
(* makes the pointer dangle.                                               *)
LEMMA PointerStep ==
    ASSUME SessionInv, Next, PeerPointerIsValid, ~PeerPointerIsValid'
    PROVE  peer # NULL /\ RecvEndSession(rtp.ssrc[peer])
<1>1. rtp \in Tables /\ Owns(rtp) /\ peer \in Addrs \cup {NULL}
  BY DEF SessionInv, TypeOK, TableOwnsPeers, Owns
<1>2. peer' # NULL /\ ~(rtp'.refs[peer'] > 0)
  BY DEF PeerPointerIsValid
<1>3. ASSUME peer' = peer PROVE peer \in Addrs /\ rtp.refs[peer] > 0
  BY <1>1, <1>2, <1>3 DEF PeerPointerIsValid
<1>4. ASSUME NEW c \in Clients, NEW sk \in Sockets, RecvInvitation(c, sk) PROVE FALSE
  <2>1. peer' = peer
    BY <1>4 DEF RecvInvitation
  <2>2. rtp' = rtp \/ \E a \in FreeMemory(rtp) : rtp' = Invited(rtp, a, c)
    BY <1>4 DEF RecvInvitation, Invited
  <2>3. rtp'.refs[peer] = rtp.refs[peer]
    BY <1>1, <1>3, <2>1, <2>2, InvitedRefs DEF Clients
  <2>4. QED
    BY <1>2, <1>3, <2>1, <2>3
<1>5. ASSUME NEW c \in Clients, RecvEndSession(c)
      PROVE  peer # NULL /\ RecvEndSession(rtp.ssrc[peer])
  <2>1. peer' = peer /\ rtp' = Ended(rtp, c)
    BY <1>5 DEF RecvEndSession, Ended
  <2>2. ASSUME rtp.ssrc[peer] # c PROVE FALSE
    <3>1. rtp'.refs[peer] = rtp.refs[peer]
      BY <1>1, <1>3, <2>1, <2>2, EndedRefs DEF Clients
    <3>2. QED
      BY <1>2, <1>3, <2>1, <3>1
  <2>3. QED
    BY <1>3, <1>5, <2>1, <2>2, AddrsAssumption
<1>6. ASSUME NEW c \in Clients, NEW n \in Counts, RecvSync(c, n) PROVE FALSE
  <2>1. rtp' = rtp /\ peer' = RTPSessionFindPeerBySSRC(rtp, peer, c)
    BY <1>6 DEF RecvSync
  <2>2. CASE SlotsOf(rtp, c) = {}
    BY <1>2, <1>3, <2>1, <2>2 DEF RTPSessionFindPeerBySSRC
  <2>3. CASE SlotsOf(rtp, c) # {}
    <3>1. peer' \in Addrs /\ SlotsWith(rtp, peer') # {}
      BY <1>1, <2>1, <2>3, FoundPeer, SsrcsAssumption DEF Clients
    <3>2. rtp.refs[peer'] > 0
      BY <1>1, <3>1, InTableIsValid
    <3>3. QED
      BY <1>2, <2>1, <3>2
  <2>4. QED
    BY <2>2, <2>3
<1>7. ASSUME IdleTimeout PROVE FALSE
  <2>1. rtp' = rtp /\ peer' = RTPSessionNextPeer(rtp, peer)
    BY <1>7 DEF IdleTimeout
  <2>2. peer' = peer \/ (peer' \in Addrs /\ SlotsWith(rtp, peer') # {})
    BY <1>1, <1>2, <2>1, NextIsPointer
  <2>3. rtp.refs[peer'] > 0
    BY <1>1, <1>3, <2>2, InTableIsValid
  <2>4. QED
    BY <1>2, <2>1, <2>3
<1>8. ASSUME Environment PROVE FALSE
  <2>1. UNCHANGED <<rtp, peer>>
    BY <1>8 DEF Environment, Lose, ClientInvite, ClientRetry, ClientAccepted,
                ClientSync, ClientStartSync, ClientLeave
  <2>2. QED
    BY <1>2, <1>3, <2>1
<1>9. QED
  BY <1>4, <1>5, <1>6, <1>7, <1>8 DEF Next, Driver

(***************************************************************************)
(* For every table, any number of clients and a network that loses,        *)
(* reorders and repeats: driver->peer comes to dangle only when the client *)
(* it points to ends its session.  The other callbacks, the idle timer and *)
(* a full table leave it NULL or pointing to a peer that exists.           *)
(***************************************************************************)
THEOREM OnlyLeavingDangles == Spec => DanglesOnlyByLeaving
<1>1. SessionInv /\ [Next]_vars =>
         [PeerPointerIsValid /\ ~PeerPointerIsValid' =>
             peer # NULL /\ RecvEndSession(rtp.ssrc[peer])]_vars
  BY PointerStep
<1>2. QED
  BY <1>1, SessionInvHolds, PTL DEF Spec, DanglesOnlyByLeaving

(* No end of session is on its way. *)
NobodyLeaves == \A c : EndSession(c) \notin net

(* The messages other than an end of session are none. *)
LEMMA NotAnEnd ==
    ASSUME NEW c, NEW d, NEW sk, NEW n
    PROVE  /\ Invitation(d, sk) # EndSession(c)
           /\ Acceptance(d, sk) # EndSession(c)
           /\ ClientCK(d, n) # EndSession(c)
           /\ DriverCK(d, n) # EndSession(c)
BY DEF Invitation, Acceptance, EndSession, ClientCK, DriverCK

(* Clients that never leave send no end of session. *)
LEMMA NobodyLeavesStep ==
    ASSUME Leavers = {}, NobodyLeaves, Next
    PROVE  NobodyLeaves'
<1> SUFFICES ASSUME NEW c PROVE EndSession(c) \notin net'
  BY DEF NobodyLeaves
<1>1. EndSession(c) \notin net
  BY DEF NobodyLeaves
<1>2. CASE Driver
  BY <1>1, <1>2, NotAnEnd
     DEF Driver, RecvInvitation, RecvEndSession, RecvSync, IdleTimeout, StartSync
<1>3. CASE Environment
  BY <1>1, <1>3, NotAnEnd
     DEF Environment, Lose, ClientInvite, ClientRetry, ClientAccepted, ClientSync,
         ClientStartSync, ClientLeave
<1>4. QED
  BY <1>2, <1>3 DEF Next

(***************************************************************************)
(* While no client ends its session, driver->peer is NULL or points to a   *)
(* peer that exists, whatever the timer and the clock messages do: the end *)
(* of a session is the only source of the dangling pointer that the run    *)
(* session_dangling shows.                                                 *)
(***************************************************************************)
THEOREM PointerIsValidWithoutLeaving ==
    ASSUME Leavers = {}
    PROVE  Spec => []PeerPointerIsValid
<1>1. Init => NobodyLeaves /\ PeerPointerIsValid
  BY DEF Init, NobodyLeaves, PeerPointerIsValid
<1>2. SessionInv /\ NobodyLeaves /\ PeerPointerIsValid /\ [Next]_vars =>
         NobodyLeaves' /\ PeerPointerIsValid'
  <2> SUFFICES ASSUME SessionInv, NobodyLeaves, PeerPointerIsValid, [Next]_vars
               PROVE  NobodyLeaves' /\ PeerPointerIsValid'
    OBVIOUS
  <2>1. CASE Next
    <3>1. NobodyLeaves'
      BY <2>1, NobodyLeavesStep
    <3>2. ASSUME ~PeerPointerIsValid' PROVE FALSE
      <4>1. RecvEndSession(rtp.ssrc[peer])
        BY <2>1, <3>2, PointerStep
      <4>2. QED
        BY <4>1 DEF RecvEndSession, NobodyLeaves
    <3>3. QED
      BY <3>1, <3>2
  <2>2. CASE UNCHANGED vars
    BY <2>2 DEF vars, NobodyLeaves, PeerPointerIsValid
  <2>3. QED
    BY <2>1, <2>2
<1>3. QED
  BY <1>1, <1>2, SessionInvHolds, PTL DEF Spec

=============================================================================
