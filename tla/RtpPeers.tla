------------------------------ MODULE RtpPeers ------------------------------
(***************************************************************************)
(* The peers of an RTP session (src/applemidi/rtp.c): the pseudo hash       *)
(* table of peer pointers, and the reference counted peer objects.          *)
(*                                                                         *)
(* A table is a record: peers[p] is the pointer in slot p (or NULL),       *)
(* refs[a] and ssrc[a] are the fields of the object at address a.  Memory  *)
(* with refs = 0 is free; its contents stay until kmalloc hands it out     *)
(* again.                                                                  *)
(***************************************************************************)
EXTENDS Integers

CONSTANTS
    RTP_MAX_PEERS,  \* slots of the table, 16 in the code
    Addrs,          \* the memory peers are allocated from
    Ssrcs,          \* synchronization source identifiers of peers
    NULL

ASSUME MaxPeersAssumption == RTP_MAX_PEERS \in Nat \ {0}
ASSUME AddrsAssumption == NULL \notin Addrs
ASSUME SsrcsAssumption == Ssrcs \subseteq Nat

Slots == 0..(RTP_MAX_PEERS - 1)

Tables == [peers : [Slots -> Addrs \cup {NULL}],
           refs  : [Addrs -> Nat],
           ssrc  : [Addrs -> Ssrcs \cup {0}]]

(* RTPSessionCreate: an empty table. *)
RTPSessionCreate ==
    [peers |-> [p \in Slots |-> NULL],
     refs  |-> [a \in Addrs |-> 0],
     ssrc  |-> [a \in Addrs |-> 0]]

(* Memory kmalloc may hand out. *)
FreeMemory(t) == {a \in Addrs : t.refs[a] = 0}

-----------------------------------------------------------------------------
RTPPeerCreate(t, a, s) ==
    [t EXCEPT !.refs[a] = 1, !.ssrc[a] = s]

RTPPeerRetain(t, a) == [t EXCEPT !.refs[a] = @ + 1]

RTPPeerRelease(t, a) == [t EXCEPT !.refs[a] = @ - 1]

(* The slot of S that probing for identifier s reaches first. *)
Probe(s, n) == (n + (s % RTP_MAX_PEERS)) % RTP_MAX_PEERS
FirstSlot(S, s) ==
    LET n == CHOOSE n \in Slots : /\ Probe(s, n) \in S
                                  /\ \A m \in 0..(n - 1) : Probe(s, m) \notin S
    IN  Probe(s, n)

EmptySlots(t) == {p \in Slots : t.peers[p] = NULL}
SlotsWith(t, a) == {p \in Slots : t.peers[p] = a}
SlotsOf(t, s) == {p \in Slots : t.peers[p] # NULL /\ t.ssrc[t.peers[p]] = s}

(* A bug for RTPSessionAddPeer: the peer is not retained. *)
RTPSessionAddPeerNoRetain(t, a) ==
    IF EmptySlots(t) = {} THEN t
    ELSE [t EXCEPT !.peers[FirstSlot(EmptySlots(t), t.ssrc[a])] = a]

(* The peer goes into the first empty slot, if there is one, and is retained. *)
RTPSessionAddPeer(t, a) ==
    IF EmptySlots(t) = {} THEN t
    ELSE RTPPeerRetain([t EXCEPT !.peers[FirstSlot(EmptySlots(t), t.ssrc[a])] = a], a)

(* A bug for RTPSessionRemovePeer: the peer is released for the caller, too. *)
RTPSessionRemovePeerTwice(t, a) ==
    IF SlotsWith(t, a) = {} THEN t
    ELSE RTPPeerRelease(RTPPeerRelease(
             [t EXCEPT !.peers[FirstSlot(SlotsWith(t, a), t.ssrc[a])] = NULL], a), a)

(* The first slot that holds the peer is emptied, and the peer released. *)
RTPSessionRemovePeer(t, a) ==
    IF SlotsWith(t, a) = {} THEN t
    ELSE RTPPeerRelease([t EXCEPT !.peers[FirstSlot(SlotsWith(t, a), t.ssrc[a])] = NULL], a)

(* A bug for the lookup: it stops at the first empty slot, as probing in a  *)
(* hash table without deletions would.                                     *)
RTPSessionFindPeerBySSRCStop(t, pointer, s) ==
    IF SlotsOf(t, s) = {} THEN pointer
    ELSE LET p == FirstSlot(SlotsOf(t, s) \cup EmptySlots(t), s)
         IN  IF p \in SlotsOf(t, s) THEN t.peers[p] ELSE pointer

(* The peer with identifier s; the given pointer is left alone without one. *)
RTPSessionFindPeerBySSRC(t, pointer, s) ==
    IF SlotsOf(t, s) = {} THEN pointer
    ELSE t.peers[FirstSlot(SlotsOf(t, s), s)]

(* A bug for RTPSessionNextPeer: only the slot right after the present one. *)
RTPSessionNextPeerAdjacent(t, pointer) ==
    LET here == {p \in Slots : pointer # NULL /\ t.peers[p] = pointer}
        next == IF here = {} THEN 0 ELSE (CHOOSE p \in here : TRUE) + 1
    IN  IF next \in Slots THEN t.peers[next] ELSE NULL

(* The pointer in the next slot that is taken, NULL after the last; a       *)
(* pointer that is not in the table is left alone.                         *)
RTPSessionNextPeer(t, pointer) ==
    LET Lowest(S) == CHOOSE p \in S : \A q \in S : p <= q
        taken == {p \in Slots : t.peers[p] # NULL}
        after == IF pointer = NULL THEN taken
                 ELSE {p \in taken : p > Lowest(SlotsWith(t, pointer))}
    IN  IF pointer # NULL /\ SlotsWith(t, pointer) = {} THEN pointer
        ELSE IF after = {} THEN NULL ELSE t.peers[Lowest(after)]

=============================================================================
