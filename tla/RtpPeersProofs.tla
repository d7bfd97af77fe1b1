--------------------------- MODULE RtpPeersProofs ---------------------------
(***************************************************************************)
(* What the operations on the table of peers do, for tables, identifiers   *)
(* and memory of every size.  The lemmas that the proofs about sessions,   *)
(* sending and unloading of the applemidi driver share.                    *)
(***************************************************************************)
EXTENDS RtpPeers, FiniteSetTheorems, WellFoundedInduction, TLAPS

(* A set of slots that is not empty has a lowest one. *)
LEMMA LowestNatural ==
    ASSUME NEW T, T \subseteq Nat, T # {}
    PROVE  \E n \in T : \A m \in T : n <= m
<1>1. PICK n \in T : \A m \in T : ~(<<m, n>> \in OpToRel(<, Nat))
  BY WFMin, NatLessThanWellFounded
<1>2. \A m \in T : ~(m < n)
  BY <1>1 DEF OpToRel
<1>3. QED
  BY <1>2

(* Probing reaches every slot. *)
LEMMA ProbeReaches ==
    ASSUME NEW s \in Nat, NEW p \in Slots
    PROVE  \E n \in Slots : Probe(s, n) = p
<1> DEFINE off == s % RTP_MAX_PEERS
           n == IF p >= off THEN p - off ELSE p - off + RTP_MAX_PEERS
<1>1. RTP_MAX_PEERS \in Nat \ {0} /\ off \in 0..(RTP_MAX_PEERS - 1)
  BY MaxPeersAssumption
<1>2. n \in Slots
  BY <1>1 DEF Slots
<1>3. n + off = p \/ n + off = p + RTP_MAX_PEERS
  BY <1>1 DEF Slots
<1>4. p % RTP_MAX_PEERS = p /\ (p + RTP_MAX_PEERS) % RTP_MAX_PEERS = p
  BY <1>1 DEF Slots
<1>5. QED
  BY <1>1, <1>2, <1>3, <1>4 DEF Probe

(* The slot that probing reaches first is one of those looked for. *)
LEMMA FirstSlotIsOne ==
    ASSUME NEW s \in Nat, NEW S \in SUBSET Slots, S # {}
    PROVE  FirstSlot(S, s) \in S
<1> DEFINE T == {n \in Slots : Probe(s, n) \in S}
<1>1. T # {}
  BY ProbeReaches
<1>2. T \subseteq Nat
  BY MaxPeersAssumption DEF Slots
<1>3. PICK n \in T : \A m \in T : n <= m
  BY <1>1, <1>2, LowestNatural
<1>4. n \in Slots /\ Probe(s, n) \in S
  BY <1>3
<1>5. \A m \in 0..(n - 1) : m \in Slots
  BY <1>4, MaxPeersAssumption DEF Slots
<1>6. \A m \in 0..(n - 1) : Probe(s, m) \notin S
  BY <1>2, <1>3, <1>5
<1>7. QED
  BY <1>4, <1>6 DEF FirstSlot

-----------------------------------------------------------------------------
(* TableOwnsPeers, of a table t. *)
Owns(t) ==
    /\ \A p \in Slots : t.peers[p] # NULL => t.refs[t.peers[p]] = 1
    /\ \A p, q \in Slots : t.peers[p] = t.peers[q] /\ t.peers[p] # NULL => p = q
    /\ \A a \in Addrs : t.refs[a] = 0 \/ \E p \in Slots : t.peers[p] = a

(* Its first half: what is in the table exists, in one slot.  The peers     *)
(* that exist outside of the table.                                        *)
Holds(t) ==
    /\ \A p \in Slots : t.peers[p] # NULL => t.refs[t.peers[p]] = 1
    /\ \A p, q \in Slots : t.peers[p] = t.peers[q] /\ t.peers[p] # NULL => p = q
Loose(t) == {a \in Addrs : t.refs[a] # 0 /\ SlotsWith(t, a) = {}}

(* The table after an invitation of s on the data port: a peer is created in *)
(* the memory a, added and released.                                       *)
Invited(t, a, s) == RTPPeerRelease(RTPSessionAddPeer(RTPPeerCreate(t, a, s), a), a)

(* u is table t with a new peer s, at address a, in slot f. *)
AddedAt(u, t, a, s, f) ==
    /\ u \in Tables
    /\ u.peers = [t.peers EXCEPT ![f] = a]
    /\ u.refs = [t.refs EXCEPT ![a] = 1]
    /\ u.ssrc = [t.ssrc EXCEPT ![a] = s]

(* A full table stays as it is. *)
LEMMA InvitedFull ==
    ASSUME NEW t \in Tables, NEW a \in FreeMemory(t), NEW s \in Ssrcs, EmptySlots(t) = {}
    PROVE  /\ Invited(t, a, s) \in Tables
           /\ Invited(t, a, s).peers = t.peers
           /\ Invited(t, a, s).refs = t.refs
           /\ Invited(t, a, s).ssrc = [t.ssrc EXCEPT ![a] = s]
<1> DEFINE c == RTPPeerCreate(t, a, s)
<1>1. a \in Addrs /\ t.refs[a] = 0
  BY DEF FreeMemory
<1>2. /\ c \in Tables /\ c.peers = t.peers
      /\ c.refs = [t.refs EXCEPT ![a] = 1]
      /\ c.ssrc = [t.ssrc EXCEPT ![a] = s]
  BY <1>1 DEF RTPPeerCreate, Tables
<1>3. RTPSessionAddPeer(c, a) = c
  BY <1>2 DEF RTPSessionAddPeer, EmptySlots
<1> HIDE DEF c
<1>4. QED
  BY <1>1, <1>2, <1>3 DEF Invited, RTPPeerRelease, Tables, c

(* Otherwise the peer goes into one of the empty slots, with one reference. *)
LEMMA InvitedRoom ==
    ASSUME NEW t \in Tables, NEW a \in FreeMemory(t), NEW s \in Ssrcs, EmptySlots(t) # {}
    PROVE  \E f \in EmptySlots(t) : AddedAt(Invited(t, a, s), t, a, s, f)
<1> DEFINE c == RTPPeerCreate(t, a, s)
           d == RTPSessionAddPeer(c, a)
           f == FirstSlot(EmptySlots(c), s)
           e == [c EXCEPT !.peers[f] = a]
<1>1. a \in Addrs /\ t.refs[a] = 0
  BY DEF FreeMemory
<1>2. /\ c \in Tables /\ c.peers = t.peers /\ c.ssrc[a] = s
      /\ c.refs = [t.refs EXCEPT ![a] = 1]
      /\ c.ssrc = [t.ssrc EXCEPT ![a] = s]
  BY <1>1 DEF RTPPeerCreate, Tables
<1>3. EmptySlots(c) = EmptySlots(t)
  BY <1>2 DEF EmptySlots
<1>4. f \in EmptySlots(t) /\ f \in Slots /\ t.peers[f] = NULL
  BY <1>3, FirstSlotIsOne, SsrcsAssumption DEF EmptySlots
<1>5. d = RTPPeerRetain(e, a)
  BY <1>2, <1>3 DEF RTPSessionAddPeer
<1> HIDE DEF f
<1>6. /\ e \in Tables
      /\ e.peers = [t.peers EXCEPT ![f] = a]
      /\ e.refs = [t.refs EXCEPT ![a] = 1]
      /\ e.ssrc = [t.ssrc EXCEPT ![a] = s]
  BY <1>1, <1>2, <1>4 DEF Tables
<1> HIDE DEF c, d, e
<1>7. /\ d \in Tables
      /\ d.peers = [t.peers EXCEPT ![f] = a]
      /\ d.refs = [t.refs EXCEPT ![a] = 2]
      /\ d.ssrc = [t.ssrc EXCEPT ![a] = s]
  BY <1>1, <1>5, <1>6 DEF RTPPeerRetain, Tables
<1>8. AddedAt(RTPPeerRelease(d, a), t, a, s, f)
  BY <1>1, <1>7 DEF RTPPeerRelease, Tables, AddedAt
<1>9. Invited(t, a, s) = RTPPeerRelease(d, a)
  BY DEF Invited, c, d
<1>10. QED
  BY <1>4, <1>8, <1>9

(* An invitation leaves the table as the only owner, also when it is full. *)
LEMMA AddedIsOwned ==
    ASSUME NEW t \in Tables, Owns(t), NEW a \in FreeMemory(t), NEW s \in Ssrcs
    PROVE  Invited(t, a, s) \in Tables /\ Owns(Invited(t, a, s))
<1> DEFINE u == Invited(t, a, s)
<1>1. /\ a \in Addrs /\ t.refs[a] = 0
      /\ \A p \in Slots : t.peers[p] # a
  BY AddrsAssumption DEF FreeMemory, Owns
<1>2. CASE EmptySlots(t) = {}
  <2>1. u \in Tables /\ u.peers = t.peers /\ u.refs = t.refs
    BY <1>2, InvitedFull
  <2> HIDE DEF u
  <2>2. Owns(u)
    BY <2>1 DEF Owns
  <2>3. QED
    BY <2>1, <2>2 DEF u
<1>3. CASE EmptySlots(t) # {}
  <2>1. PICK f \in EmptySlots(t) : AddedAt(u, t, a, s, f)
    BY <1>3, InvitedRoom
  <2> HIDE DEF u
  <2>2. /\ f \in Slots
        /\ \A p \in Slots : u.peers[p] = IF p = f THEN a ELSE t.peers[p]
        /\ \A b \in Addrs : u.refs[b] = IF b = a THEN 1 ELSE t.refs[b]
        /\ \A p \in Slots : t.peers[p] \in Addrs \cup {NULL}
    BY <1>1, <2>1 DEF Tables, EmptySlots, AddedAt
  <2>3. \A p \in Slots : u.peers[p] # NULL => u.refs[u.peers[p]] = 1
    BY <1>1, <2>2 DEF Owns
  <2>4. \A p, q \in Slots : u.peers[p] = u.peers[q] /\ u.peers[p] # NULL => p = q
    BY <1>1, <2>2 DEF Owns
  <2>5. t.peers[f] = NULL
    BY DEF EmptySlots
  <2>6. \A b \in Addrs : u.refs[b] = 0 \/ \E p \in Slots : u.peers[p] = b
    BY <1>1, <2>2, <2>5, AddrsAssumption DEF Owns
  <2>7. QED
    BY <2>1, <2>3, <2>4, <2>6 DEF Owns, u, AddedAt
<1>4. QED
  BY <1>2, <1>3

(* After an invitation s has at most one slot more, exactly one more if     *)
(* there was room; the other identifiers have the slots they had.          *)
LEMMA InvitedSlots ==
    ASSUME NEW t \in Tables, Owns(t), NEW a \in FreeMemory(t), NEW s \in Ssrcs
    PROVE  /\ \A r : r # s => SlotsOf(Invited(t, a, s), r) = SlotsOf(t, r)
           /\ EmptySlots(t) = {} => SlotsOf(Invited(t, a, s), s) = SlotsOf(t, s)
           /\ EmptySlots(t) # {} =>
                 \E f \in EmptySlots(t) :
                     SlotsOf(Invited(t, a, s), s) = SlotsOf(t, s) \cup {f}
<1> DEFINE u == Invited(t, a, s)
<1>1. /\ a \in Addrs /\ a # NULL
      /\ \A p \in Slots : t.peers[p] # a
      /\ \A p \in Slots : t.peers[p] \in Addrs \cup {NULL}
  BY AddrsAssumption DEF FreeMemory, Owns, Tables
<1>2. CASE EmptySlots(t) = {}
  <2>1. u.peers = t.peers /\ u.ssrc = [t.ssrc EXCEPT ![a] = s]
    BY <1>2, InvitedFull
  <2> HIDE DEF u
  <2>2. \A p \in Slots : t.peers[p] # NULL => u.ssrc[u.peers[p]] = t.ssrc[t.peers[p]]
    BY <1>1, <2>1 DEF Tables
  <2>3. \A r : SlotsOf(u, r) = SlotsOf(t, r)
    BY <2>1, <2>2 DEF SlotsOf
  <2>4. QED
    BY <1>2, <2>3 DEF u
<1>3. CASE EmptySlots(t) # {}
  <2>1. PICK f \in EmptySlots(t) : AddedAt(u, t, a, s, f)
    BY <1>3, InvitedRoom
  <2> HIDE DEF u
  <2>2. f \in Slots /\ t.peers[f] = NULL
    BY DEF EmptySlots
  <2>3. /\ u.peers[f] = a /\ u.ssrc[a] = s
        /\ \A p \in Slots : p # f => u.peers[p] = t.peers[p]
        /\ \A b \in Addrs : b # a => u.ssrc[b] = t.ssrc[b]
    BY <1>1, <2>1, <2>2 DEF Tables, AddedAt
  <2>4. \A p \in Slots : p # f /\ u.peers[p] # NULL => u.ssrc[u.peers[p]] = t.ssrc[t.peers[p]]
    BY <1>1, <2>3
  <2>5. \A r : r # s => SlotsOf(u, r) = SlotsOf(t, r)
    BY <1>1, <2>2, <2>3, <2>4 DEF SlotsOf
  <2>6. SlotsOf(u, s) = SlotsOf(t, s) \cup {f}
    BY <1>1, <2>2, <2>3, <2>4 DEF SlotsOf
  <2>7. QED
    BY <1>3, <2>5, <2>6 DEF u
<1>4. QED
  BY <1>2, <1>3

(* An identifier in memory is a number. *)
LEMMA SsrcIsNat ==
    ASSUME NEW t \in Tables, NEW a \in Addrs
    PROVE  t.ssrc[a] \in Nat
<1>1. t.ssrc \in [Addrs -> Ssrcs \cup {0}]
  BY DEF Tables
<1>2. t.ssrc[a] \in Ssrcs \/ t.ssrc[a] = 0
  BY <1>1
<1>3. 0 \in Nat /\ \A s \in Ssrcs : s \in Nat
  BY SsrcsAssumption
<1>4. QED
  BY <1>2, <1>3

(* u is table t without the peer at address a, in slot f. *)
RemovedAt(u, t, a, f) ==
    /\ u \in Tables
    /\ u.peers = [t.peers EXCEPT ![f] = NULL]
    /\ u.refs = [t.refs EXCEPT ![a] = 0]
    /\ u.ssrc = t.ssrc

(* A peer of the table is taken out of its slot and freed. *)
LEMMA TakenOut ==
    ASSUME NEW t \in Tables, Holds(t), NEW a \in Addrs, SlotsWith(t, a) # {}
    PROVE  \E f \in SlotsWith(t, a) : RemovedAt(RTPSessionRemovePeer(t, a), t, a, f)
<1> DEFINE u == RTPSessionRemovePeer(t, a)
           f == FirstSlot(SlotsWith(t, a), t.ssrc[a])
           e == [t EXCEPT !.peers[f] = NULL]
<1>1. t.ssrc[a] \in Nat
  BY SsrcIsNat
<1>2. f \in SlotsWith(t, a) /\ f \in Slots /\ t.peers[f] = a
  BY <1>1, FirstSlotIsOne DEF SlotsWith
<1>3. u = RTPPeerRelease(e, a)
  BY DEF RTPSessionRemovePeer
<1> HIDE DEF f
<1>4. /\ e \in Tables
      /\ e.peers = [t.peers EXCEPT ![f] = NULL]
      /\ e.refs = t.refs /\ e.ssrc = t.ssrc
  BY <1>2 DEF Tables
<1> HIDE DEF e, u
<1>5. t.refs[a] = 1
  BY <1>2, AddrsAssumption DEF Holds
<1>6. RemovedAt(u, t, a, f)
  BY <1>3, <1>4, <1>5 DEF RTPPeerRelease, Tables, RemovedAt
<1>7. QED
  BY <1>2, <1>6 DEF u

(* The same of a table that owns its peers. *)
LEMMA RemovedPeer ==
    ASSUME NEW t \in Tables, Owns(t), NEW a \in Addrs, SlotsWith(t, a) # {}
    PROVE  \E f \in SlotsWith(t, a) : RemovedAt(RTPSessionRemovePeer(t, a), t, a, f)
BY TakenOut DEF Owns, Holds

(* The end of a session: the peer found is freed, and it leaves the table. *)
LEMMA RemovedIsOwned ==
    ASSUME NEW t \in Tables, Owns(t), NEW a \in Addrs
    PROVE  LET u == RTPSessionRemovePeer(t, a)
           IN  u \in Tables /\ Owns(u)
<1> DEFINE u == RTPSessionRemovePeer(t, a)
<1>1. CASE SlotsWith(t, a) = {}
  BY <1>1 DEF RTPSessionRemovePeer
<1>2. CASE SlotsWith(t, a) # {}
  <2>1. PICK f \in SlotsWith(t, a) : RemovedAt(u, t, a, f)
    BY <1>2, RemovedPeer
  <2> HIDE DEF u
  <2>2. f \in Slots /\ t.peers[f] = a
    BY DEF SlotsWith
  <2>3. /\ \A p \in Slots : u.peers[p] = IF p = f THEN NULL ELSE t.peers[p]
        /\ \A b \in Addrs : u.refs[b] = IF b = a THEN 0 ELSE t.refs[b]
        /\ \A p \in Slots : t.peers[p] \in Addrs \cup {NULL}
    BY <2>1, <2>2 DEF Tables, RemovedAt
  <2>4. \A p \in Slots : p # f => t.peers[p] # a
    BY <2>2, AddrsAssumption DEF Owns
  <2>5. \A p \in Slots : u.peers[p] # NULL => u.refs[u.peers[p]] = 1
    BY <2>3, <2>4 DEF Owns
  <2>6. \A p, q \in Slots : u.peers[p] = u.peers[q] /\ u.peers[p] # NULL => p = q
    BY <2>3 DEF Owns
  <2>7. \A b \in Addrs : u.refs[b] = 0 \/ \E p \in Slots : u.peers[p] = b
    BY <2>2, <2>3 DEF Owns
  <2>8. QED
    BY <2>1, <2>5, <2>6, <2>7 DEF Owns, RemovedAt, u
<1>3. QED
  BY <1>1, <1>2

(* A lookup finds a peer of the table with the identifier, if there is one. *)
LEMMA FoundPeer ==
    ASSUME NEW t \in Tables, NEW pointer, NEW s \in Nat, SlotsOf(t, s) # {}
    PROVE  LET found == RTPSessionFindPeerBySSRC(t, pointer, s)
           IN  /\ found \in Addrs
               /\ t.ssrc[found] = s
               /\ SlotsWith(t, found) # {}
<1> DEFINE f == FirstSlot(SlotsOf(t, s), s)
<1>1. f \in SlotsOf(t, s)
  BY FirstSlotIsOne DEF SlotsOf
<1>2. RTPSessionFindPeerBySSRC(t, pointer, s) = t.peers[f]
  BY DEF RTPSessionFindPeerBySSRC
<1> HIDE DEF f
<1>3. f \in Slots /\ t.peers[f] # NULL /\ t.ssrc[t.peers[f]] = s
  BY <1>1 DEF SlotsOf
<1>4. t.peers[f] \in Addrs
  BY <1>3 DEF Tables
<1>5. QED
  BY <1>2, <1>3, <1>4 DEF SlotsWith

(* The table after the end of the session of s. *)
Ended(t, s) ==
    LET found == RTPSessionFindPeerBySSRC(t, NULL, s)
    IN  IF found # NULL THEN RTPSessionRemovePeer(t, found) ELSE t

(* An end of session leaves the table as the only owner; s has one slot     *)
(* less, if it had one, and the other identifiers have the slots they had. *)
LEMMA EndedSlots ==
    ASSUME NEW t \in Tables, Owns(t), NEW s \in Ssrcs
    PROVE  /\ Ended(t, s) \in Tables
           /\ Owns(Ended(t, s))
           /\ \A r : r # s => SlotsOf(Ended(t, s), r) = SlotsOf(t, r)
           /\ SlotsOf(t, s) = {} => Ended(t, s) = t
           /\ SlotsOf(t, s) # {} =>
                 \E f \in SlotsOf(t, s) : SlotsOf(Ended(t, s), s) = SlotsOf(t, s) \ {f}
<1> DEFINE found == RTPSessionFindPeerBySSRC(t, NULL, s)
           u == RTPSessionRemovePeer(t, found)
<1>1. CASE SlotsOf(t, s) = {}
  <2>1. Ended(t, s) = t
    BY <1>1 DEF Ended, RTPSessionFindPeerBySSRC
  <2>2. QED
    BY <1>1, <2>1
<1>2. CASE SlotsOf(t, s) # {}
  <2>1. found \in Addrs /\ t.ssrc[found] = s /\ SlotsWith(t, found) # {}
    BY <1>2, FoundPeer, SsrcsAssumption
  <2>2. Ended(t, s) = u
    BY <2>1, AddrsAssumption DEF Ended
  <2> HIDE DEF found
  <2>3. u \in Tables /\ Owns(u)
    BY <2>1, RemovedIsOwned
  <2>4. PICK f \in SlotsWith(t, found) : RemovedAt(u, t, found, f)
    BY <2>1, RemovedPeer
  <2> HIDE DEF u
  <2>5. /\ f \in Slots /\ t.peers[f] = found /\ found # NULL
        /\ u.ssrc = t.ssrc /\ u.peers[f] = NULL
        /\ \A p \in Slots : p # f => u.peers[p] = t.peers[p]
    BY <2>1, <2>4, AddrsAssumption DEF SlotsWith, RemovedAt, Tables
  <2>6. \A r : r # s => SlotsOf(u, r) = SlotsOf(t, r)
    BY <2>1, <2>5 DEF SlotsOf
  <2>7. SlotsOf(u, s) = SlotsOf(t, s) \ {f} /\ f \in SlotsOf(t, s)
    BY <2>1, <2>5 DEF SlotsOf
  <2>8. QED
    BY <1>2, <2>2, <2>3, <2>6, <2>7
<1>3. QED
  BY <1>1, <1>2

(* An invitation while there are peers outside of the table: they stay as  *)
(* they are, and so do the slots that are taken.                           *)
LEMMA InvitedHolds ==
    ASSUME NEW t \in Tables, Holds(t), NEW a \in FreeMemory(t), NEW s \in Ssrcs
    PROVE  LET u == Invited(t, a, s)
           IN  /\ u \in Tables /\ Holds(u) /\ Loose(u) = Loose(t)
               /\ \A p \in Slots : t.peers[p] # NULL => u.peers[p] = t.peers[p]
               /\ \A b \in Loose(t) : u.refs[b] = t.refs[b]
<1> DEFINE u == Invited(t, a, s)
<1>1. /\ a \in Addrs /\ t.refs[a] = 0
      /\ \A p \in Slots : t.peers[p] # a
  BY AddrsAssumption DEF FreeMemory, Holds
<1>2. CASE EmptySlots(t) = {}
  <2>1. u \in Tables /\ u.peers = t.peers /\ u.refs = t.refs
    BY <1>2, InvitedFull
  <2> HIDE DEF u
  <2>2. Holds(u) /\ Loose(u) = Loose(t)
    BY <2>1 DEF Holds, Loose, SlotsWith
  <2>3. QED
    BY <2>1, <2>2 DEF u
<1>3. CASE EmptySlots(t) # {}
  <2>1. PICK f \in EmptySlots(t) : AddedAt(u, t, a, s, f)
    BY <1>3, InvitedRoom
  <2> HIDE DEF u
  <2>2. /\ f \in Slots /\ t.peers[f] = NULL /\ u \in Tables
        /\ \A p \in Slots : u.peers[p] = IF p = f THEN a ELSE t.peers[p]
        /\ \A b \in Addrs : u.refs[b] = IF b = a THEN 1 ELSE t.refs[b]
        /\ \A p \in Slots : t.peers[p] \in Addrs \cup {NULL}
    BY <1>1, <2>1 DEF Tables, EmptySlots, AddedAt
  <2>3. Holds(u)
    BY <1>1, <2>2 DEF Holds
  <2>4. \A b \in Addrs : b # a => SlotsWith(u, b) = SlotsWith(t, b)
    BY <2>2, AddrsAssumption DEF SlotsWith
  <2>5. f \in SlotsWith(u, a)
    BY <2>2 DEF SlotsWith
  <2>6. Loose(u) = Loose(t) /\ \A b \in Loose(t) : b \in Addrs /\ b # a
    BY <1>1, <2>2, <2>4, <2>5 DEF Loose
  <2>7. QED
    BY <2>2, <2>3, <2>6 DEF u
<1>4. QED
  BY <1>2, <1>3

(* The same of an end of session, which empties a slot of the peer found. *)
LEMMA EndedHolds ==
    ASSUME NEW t \in Tables, Holds(t), NEW s \in Ssrcs
    PROVE  LET u == Ended(t, s)
               found == RTPSessionFindPeerBySSRC(t, NULL, s)
           IN  /\ u \in Tables /\ Holds(u) /\ Loose(u) = Loose(t)
               /\ \A p \in Slots : t.peers[p] # found => u.peers[p] = t.peers[p]
               /\ \A b \in Loose(t) : u.refs[b] = t.refs[b]
               /\ found # NULL => found \in Addrs /\ SlotsWith(t, found) # {}
<1> DEFINE u == Ended(t, s)
           found == RTPSessionFindPeerBySSRC(t, NULL, s)
<1>1. CASE SlotsOf(t, s) = {}
  <2>1. u = t /\ found = NULL
    BY <1>1 DEF Ended, RTPSessionFindPeerBySSRC
  <2>2. QED
    BY <2>1
<1>2. CASE SlotsOf(t, s) # {}
  <2>1. found \in Addrs /\ SlotsWith(t, found) # {}
    BY <1>2, FoundPeer, SsrcsAssumption
  <2>2. u = RTPSessionRemovePeer(t, found)
    BY <2>1, AddrsAssumption DEF Ended
  <2> HIDE DEF u, found
  <2>3. PICK f \in SlotsWith(t, found) : RemovedAt(u, t, found, f)
    BY <2>1, <2>2, TakenOut
  <2>4. f \in Slots /\ t.peers[f] = found
    BY DEF SlotsWith
  <2>5. /\ u \in Tables
        /\ \A p \in Slots : u.peers[p] = IF p = f THEN NULL ELSE t.peers[p]
        /\ \A b \in Addrs : u.refs[b] = IF b = found THEN 0 ELSE t.refs[b]
        /\ \A p \in Slots : t.peers[p] \in Addrs \cup {NULL}
    BY <2>1, <2>3, <2>4 DEF Tables, RemovedAt
  <2>6. \A p \in Slots : p # f => t.peers[p] # found
    BY <2>1, <2>4, AddrsAssumption DEF Holds
  <2>7. Holds(u)
    BY <2>5, <2>6 DEF Holds
  <2>8. \A b \in Addrs : b # found => SlotsWith(u, b) = SlotsWith(t, b)
    BY <2>4, <2>5, AddrsAssumption DEF SlotsWith
  <2>9. Loose(u) = Loose(t) /\ \A b \in Loose(t) : b \in Addrs /\ b # found
    BY <2>1, <2>5, <2>8 DEF Loose
  <2>10. QED
    BY <2>1, <2>4, <2>5, <2>7, <2>9 DEF u, found
<1>3. QED
  BY <1>1, <1>2

(* What is in the table after an end of session was in it before. *)
LEMMA EndedPeers ==
    ASSUME NEW t \in Tables, Owns(t), NEW s \in Ssrcs, NEW p \in Slots,
           Ended(t, s).peers[p] # NULL
    PROVE  Ended(t, s).peers[p] = t.peers[p] /\ Ended(t, s).ssrc = t.ssrc
<1> DEFINE u == Ended(t, s)
           found == RTPSessionFindPeerBySSRC(t, NULL, s)
<1>1. CASE SlotsOf(t, s) = {}
  BY <1>1, EndedSlots
<1>2. CASE SlotsOf(t, s) # {}
  <2>1. found \in Addrs /\ SlotsWith(t, found) # {}
    BY <1>2, FoundPeer, SsrcsAssumption
  <2>2. u = RTPSessionRemovePeer(t, found)
    BY <2>1, AddrsAssumption DEF Ended
  <2> HIDE DEF u, found
  <2>3. PICK f \in SlotsWith(t, found) : RemovedAt(u, t, found, f)
    BY <2>1, <2>2, RemovedPeer
  <2>4. f \in Slots /\ u.ssrc = t.ssrc /\ u.peers = [t.peers EXCEPT ![f] = NULL]
    BY <2>3 DEF RemovedAt, SlotsWith
  <2>5. u.peers[p] = IF p = f THEN NULL ELSE t.peers[p]
    BY <2>4 DEF Tables
  <2>6. QED
    BY <2>4, <2>5 DEF u
<1>3. QED
  BY <1>1, <1>2

(* What is in the table after an invitation is the new peer or was in it. *)
LEMMA InvitedPeers ==
    ASSUME NEW t \in Tables, Owns(t), NEW a \in FreeMemory(t), NEW s \in Ssrcs, NEW p \in Slots,
           Invited(t, a, s).peers[p] # NULL
    PROVE  LET u == Invited(t, a, s)
           IN  \/ u.peers[p] = a /\ u.ssrc[a] = s
               \/ /\ u.peers[p] = t.peers[p] /\ t.peers[p] # a
                  /\ u.ssrc[t.peers[p]] = t.ssrc[t.peers[p]]
<1> DEFINE u == Invited(t, a, s)
<1>1. /\ a \in Addrs /\ t.peers[p] # a
      /\ t.peers[p] \in Addrs \cup {NULL}
  BY AddrsAssumption DEF FreeMemory, Owns, Tables
<1>2. u.ssrc = [t.ssrc EXCEPT ![a] = s] /\ u.peers[p] \in {a, t.peers[p]}
  <2>1. CASE EmptySlots(t) = {}
    BY <2>1, InvitedFull
  <2>2. CASE EmptySlots(t) # {}
    <3>1. PICK f \in EmptySlots(t) : AddedAt(u, t, a, s, f)
      BY <2>2, InvitedRoom
    <3> HIDE DEF u
    <3>2. QED
      BY <3>1 DEF AddedAt, EmptySlots, Tables
  <2>3. QED
    BY <2>1, <2>2
<1> HIDE DEF u
<1>3. u.peers[p] # NULL
  BY DEF u
<1>4. u.ssrc[a] = s /\ \A b \in Addrs : b # a => u.ssrc[b] = t.ssrc[b]
  BY <1>1, <1>2 DEF Tables
<1>5. QED
  BY <1>1, <1>2, <1>3, <1>4 DEF u

(* A lookup yields the given pointer or a peer of the table. *)
LEMMA FoundIsPointer ==
    ASSUME NEW t \in Tables, NEW pointer \in Addrs \cup {NULL}, NEW s \in Nat
    PROVE  RTPSessionFindPeerBySSRC(t, pointer, s) \in Addrs \cup {NULL}
<1>1. CASE SlotsOf(t, s) = {}
  BY <1>1 DEF RTPSessionFindPeerBySSRC
<1>2. CASE SlotsOf(t, s) # {}
  <2>1. FirstSlot(SlotsOf(t, s), s) \in Slots
    BY <1>2, FirstSlotIsOne DEF SlotsOf
  <2>2. QED
    BY <1>2, <2>1 DEF RTPSessionFindPeerBySSRC, Tables
<1>3. QED
  BY <1>1, <1>2

(* The lowest of a set of slots is one of them. *)
LEMMA LowestSlot ==
    ASSUME NEW S \in SUBSET Slots, S # {}
    PROVE  LET low == CHOOSE p \in S : \A q \in S : p <= q
           IN  low \in S /\ \A q \in S : low <= q
<1>1. S \subseteq Nat
  BY MaxPeersAssumption DEF Slots
<1>2. \E p \in S : \A q \in S : p <= q
  BY <1>1, LowestNatural
<1>3. QED
  BY <1>2

(* Advancing yields NULL, a peer of the table, or the given pointer if it   *)
(* is not in the table.                                                    *)
LEMMA NextIsPointer ==
    ASSUME NEW t \in Tables, NEW pointer \in Addrs \cup {NULL}
    PROVE  LET next == RTPSessionNextPeer(t, pointer)
           IN  \/ next = NULL
               \/ next \in Addrs /\ SlotsWith(t, next) # {}
               \/ next = pointer /\ SlotsWith(t, pointer) = {}
<1> DEFINE Lowest(S) == CHOOSE p \in S : \A q \in S : p <= q
           taken == {p \in Slots : t.peers[p] # NULL}
           after == IF pointer = NULL THEN taken
                    ELSE {p \in taken : p > Lowest(SlotsWith(t, pointer))}
           next == RTPSessionNextPeer(t, pointer)
<1>1. CASE pointer # NULL /\ SlotsWith(t, pointer) = {}
  BY <1>1 DEF RTPSessionNextPeer
<1>2. CASE ~(pointer # NULL /\ SlotsWith(t, pointer) = {})
  <2>1. next = IF after = {} THEN NULL ELSE t.peers[Lowest(after)]
    BY <1>2 DEF RTPSessionNextPeer
  <2>2. CASE after = {}
    BY <2>1, <2>2
  <2>3. CASE after # {}
    <3>1. after \in SUBSET Slots /\ \A p \in after : t.peers[p] # NULL
      OBVIOUS
    <3> HIDE DEF after
    <3>2. Lowest(after) \in after
      BY <2>3, <3>1, LowestSlot
    <3> HIDE DEF Lowest
    <3>3. next = t.peers[Lowest(after)] /\ Lowest(after) \in Slots
      BY <2>1, <2>3, <3>1, <3>2
    <3>4. next \in Addrs /\ SlotsWith(t, next) # {}
      BY <3>1, <3>2, <3>3 DEF Tables, SlotsWith
    <3>5. QED
      BY <3>4
  <2>4. QED
    BY <2>2, <2>3
<1>3. QED
  BY <1>1, <1>2

-----------------------------------------------------------------------------
(* No two peers in the table have the same identifier. *)
OneSlotEach(t) ==
    /\ \A p \in Slots : t.peers[p] # NULL => t.ssrc[t.peers[p]] \in Ssrcs
    /\ \A r : \A p, q \in SlotsOf(t, r) : p = q

(* The table has a slot for every identifier. *)
EnoughRoom == IsFiniteSet(Ssrcs) /\ Cardinality(Ssrcs) <= RTP_MAX_PEERS

(* A table with a slot for every identifier, and with no identifier in two  *)
(* slots, has room for one that is not in it.                              *)
LEMMA RoomForAnother ==
    ASSUME NEW t \in Tables, OneSlotEach(t), NEW s \in Ssrcs, SlotsOf(t, s) = {},
           IsFiniteSet(Ssrcs), Cardinality(Ssrcs) <= RTP_MAX_PEERS
    PROVE  EmptySlots(t) # {}
<1> DEFINE f == [p \in Slots |-> t.ssrc[t.peers[p]]]
<1> SUFFICES ASSUME EmptySlots(t) = {} PROVE FALSE
  OBVIOUS
<1>1. \A p \in Slots : /\ t.peers[p] # NULL
                       /\ f[p] \in Ssrcs \ {s}
                       /\ p \in SlotsOf(t, f[p])
  BY DEF EmptySlots, OneSlotEach, SlotsOf
<1>2. f \in [Slots -> Ssrcs \ {s}]
  BY <1>1
<1>3. /\ IsFiniteSet(Ssrcs \ {s})
      /\ Cardinality(Ssrcs \ {s}) = Cardinality(Ssrcs) - 1
      /\ Cardinality(Ssrcs) \in Nat
  BY FS_RemoveElement, FS_CardinalityType
<1>4. IsFiniteSet(Slots) /\ Cardinality(Slots) = RTP_MAX_PEERS
  <2>1. 0 \in Int /\ RTP_MAX_PEERS - 1 \in Int /\ ~(0 > RTP_MAX_PEERS - 1)
    BY MaxPeersAssumption
  <2>2. /\ IsFiniteSet(0..(RTP_MAX_PEERS - 1))
        /\ Cardinality(0..(RTP_MAX_PEERS - 1)) = RTP_MAX_PEERS - 1 - 0 + 1
    BY <2>1, FS_Interval
  <2>3. QED
    BY <2>2, MaxPeersAssumption DEF Slots
<1>5. Cardinality(Ssrcs \ {s}) < Cardinality(Slots)
  BY <1>3, <1>4, MaxPeersAssumption
<1>6. \E p, q \in Slots : p # q /\ f[p] = f[q]
  <2> HIDE DEF f
  <2> QED BY <1>2, <1>3, <1>4, <1>5, FS_PigeonHole
<1>7. QED
  BY <1>1, <1>6 DEF OneSlotEach

(* An identifier without a slot has one after an invitation, if there is    *)
(* room, and no identifier gets a second one.                              *)
LEMMA InvitedOneSlot ==
    ASSUME NEW t \in Tables, Owns(t), OneSlotEach(t), NEW a \in FreeMemory(t),
           NEW s \in Ssrcs, SlotsOf(t, s) = {}
    PROVE  /\ OneSlotEach(Invited(t, a, s))
           /\ EmptySlots(t) # {} => \E f \in Slots : SlotsOf(Invited(t, a, s), s) = {f}
<1> DEFINE u == Invited(t, a, s)
<1>1. u \in Tables
  BY AddedIsOwned
<1>2. /\ \A r : r # s => SlotsOf(u, r) = SlotsOf(t, r)
      /\ SlotsOf(u, s) = {} \/ \E f \in Slots : SlotsOf(u, s) = {f}
      /\ EmptySlots(t) # {} => \E f \in Slots : SlotsOf(u, s) = {f}
  BY InvitedSlots DEF EmptySlots
<1> HIDE DEF u
<1>3. \A r : \A p, q \in SlotsOf(u, r) : p = q
  BY <1>2 DEF OneSlotEach
<1>4. ASSUME NEW p \in Slots, u.peers[p] # NULL PROVE u.ssrc[u.peers[p]] \in Ssrcs
  <2>1. p \in SlotsOf(u, u.ssrc[u.peers[p]])
    BY <1>4 DEF SlotsOf
  <2>2. CASE u.ssrc[u.peers[p]] = s
    BY <2>2
  <2>3. CASE u.ssrc[u.peers[p]] # s
    <3>1. p \in SlotsOf(t, u.ssrc[u.peers[p]])
      BY <1>2, <2>1, <2>3
    <3>2. QED
      BY <3>1 DEF SlotsOf, OneSlotEach
  <2>4. QED
    BY <2>2, <2>3
<1>5. QED
  BY <1>2, <1>3, <1>4 DEF OneSlotEach, u

(* An identifier with at most one slot has none after its end of session. *)
LEMMA EndedOneSlot ==
    ASSUME NEW t \in Tables, Owns(t), OneSlotEach(t), NEW s \in Ssrcs
    PROVE  OneSlotEach(Ended(t, s)) /\ SlotsOf(Ended(t, s), s) = {}
<1> DEFINE u == Ended(t, s)
<1>1. /\ \A r : r # s => SlotsOf(u, r) = SlotsOf(t, r)
      /\ SlotsOf(t, s) = {} => u = t
      /\ SlotsOf(t, s) # {} => \E f \in SlotsOf(t, s) : SlotsOf(u, s) = SlotsOf(t, s) \ {f}
  BY EndedSlots
<1> HIDE DEF u
<1>2. SlotsOf(u, s) = {}
  BY <1>1 DEF OneSlotEach
<1>3. \A r : \A p, q \in SlotsOf(u, r) : p = q
  BY <1>1, <1>2 DEF OneSlotEach
<1>4. ASSUME NEW p \in Slots, u.peers[p] # NULL PROVE u.ssrc[u.peers[p]] \in Ssrcs
  <2>1. p \in SlotsOf(u, u.ssrc[u.peers[p]])
    BY <1>4 DEF SlotsOf
  <2>2. p \in SlotsOf(t, u.ssrc[u.peers[p]])
    BY <1>1, <1>2, <2>1
  <2>3. QED
    BY <2>2 DEF SlotsOf, OneSlotEach
<1>5. QED
  BY <1>2, <1>3, <1>4 DEF OneSlotEach, u

-----------------------------------------------------------------------------
(* The slots that going through the table from the given peer on visits. *)
Ahead(t, pointer) ==
    {p \in Slots : t.peers[p] # NULL /\ \E q \in SlotsWith(t, pointer) : pointer # NULL /\ p >= q}

(* Advancing from NULL, or from a peer of the table, goes through all slots *)
(* that are taken, or all after the peer's.                                *)
LEMMA NextGoesOn ==
    ASSUME NEW t \in Tables, Owns(t), NEW pointer \in Addrs \cup {NULL},
           pointer # NULL => SlotsWith(t, pointer) # {}
    PROVE  Ahead(t, RTPSessionNextPeer(t, pointer)) =
               IF pointer = NULL THEN {p \in Slots : t.peers[p] # NULL}
               ELSE Ahead(t, pointer) \ SlotsWith(t, pointer)
<1> DEFINE Lowest(S) == CHOOSE p \in S : \A q \in S : p <= q
           taken == {p \in Slots : t.peers[p] # NULL}
           here == Lowest(SlotsWith(t, pointer))
           after == IF pointer = NULL THEN taken ELSE {p \in taken : p > here}
           low == Lowest(after)
           next == RTPSessionNextPeer(t, pointer)
<1>1. next = IF after = {} THEN NULL ELSE t.peers[low]
  BY DEF RTPSessionNextPeer
<1>2. after \in SUBSET Slots /\ after \subseteq taken /\ Slots \subseteq Int
  BY MaxPeersAssumption DEF Slots
<1>3. after = IF pointer = NULL THEN taken ELSE Ahead(t, pointer) \ SlotsWith(t, pointer)
  <2>1. CASE pointer = NULL
    BY <2>1
  <2>2. CASE pointer # NULL
    <3>1. SlotsWith(t, pointer) \in SUBSET Slots
      BY DEF SlotsWith
    <3>2. here \in SlotsWith(t, pointer)
      BY <2>2, <3>1, LowestSlot
    <3> HIDE DEF here
    <3>3. SlotsWith(t, pointer) = {here}
      BY <2>2, <3>2 DEF Owns, SlotsWith
    <3>4. after = {p \in taken : p > here}
      BY <2>2
    <3>5. Ahead(t, pointer) = {p \in taken : p >= here}
      BY <2>2, <3>3 DEF Ahead
    <3>6. here \in Int /\ \A p \in taken : p \in Int
      BY <1>2, <3>1, <3>2
    <3> HIDE DEF taken, after
    <3>7. {p \in taken : p > here} = {p \in taken : p >= here} \ {here}
      BY <3>6
    <3>8. QED
      BY <2>2, <3>3, <3>4, <3>5, <3>7
  <2>3. QED
    BY <2>1, <2>2
<1>4. ASSUME NEW p \in after, NEW q \in taken, q >= p PROVE q \in after
  <2>1. CASE pointer = NULL
    BY <2>1
  <2>2. CASE pointer # NULL
    <3>1. SlotsWith(t, pointer) \in SUBSET Slots
      BY DEF SlotsWith
    <3>2. here \in Slots
      BY <2>2, <3>1, LowestSlot
    <3> HIDE DEF here
    <3>3. QED
      BY <1>2, <1>4, <2>2, <3>2
  <2>3. QED
    BY <2>1, <2>2
<1> HIDE DEF after
<1>5. CASE after = {}
  <2>1. Ahead(t, NULL) = {}
    BY DEF Ahead
  <2>2. QED
    BY <1>1, <1>3, <1>5, <2>1
<1>6. CASE after # {}
  <2>1. low \in after /\ \A q \in after : low <= q
    BY <1>2, <1>6, LowestSlot
  <2> HIDE DEF low
  <2>2. next = t.peers[low] /\ low \in Slots /\ next # NULL
    BY <1>1, <1>2, <1>6, <2>1
  <2> HIDE DEF next
  <2>3. SlotsWith(t, next) = {low}
    BY <2>2 DEF Owns, SlotsWith
  <2>4. Ahead(t, next) = {p \in taken : p >= low}
    BY <2>2, <2>3 DEF Ahead
  <2>5. {p \in taken : p >= low} = after
    BY <1>2, <1>4, <2>1, <2>2
  <2>6. QED
    BY <1>3, <2>4, <2>5 DEF next
<1>7. QED
  BY <1>5, <1>6

-----------------------------------------------------------------------------
(* An invitation keeps the references of the peers that exist. *)
LEMMA InvitedRefs ==
    ASSUME NEW t \in Tables, NEW a \in FreeMemory(t), NEW s \in Ssrcs,
           NEW b \in Addrs, t.refs[b] > 0
    PROVE  Invited(t, a, s).refs[b] = t.refs[b]
<1> DEFINE u == Invited(t, a, s)
<1>1. a # b
  BY DEF FreeMemory
<1>2. CASE EmptySlots(t) = {}
  BY <1>2, InvitedFull
<1>3. CASE EmptySlots(t) # {}
  <2>1. u.refs = [t.refs EXCEPT ![a] = 1]
    BY <1>3, InvitedRoom DEF AddedAt
  <2>2. t.refs \in [Addrs -> Nat]
    BY DEF Tables
  <2> HIDE DEF u
  <2>3. u.refs[b] = t.refs[b]
    BY <1>1, <2>1, <2>2
  <2>4. QED
    BY <2>3 DEF u
<1>4. QED
  BY <1>2, <1>3

(* An end of session keeps the references of the peers of other clients. *)
LEMMA EndedRefs ==
    ASSUME NEW t \in Tables, Owns(t), NEW s \in Ssrcs, NEW b \in Addrs, t.ssrc[b] # s
    PROVE  Ended(t, s).refs[b] = t.refs[b]
<1> DEFINE found == RTPSessionFindPeerBySSRC(t, NULL, s)
           u == RTPSessionRemovePeer(t, found)
<1>1. CASE SlotsOf(t, s) = {}
  BY <1>1, EndedSlots
<1>2. CASE SlotsOf(t, s) # {}
  <2>1. found \in Addrs /\ t.ssrc[found] = s /\ SlotsWith(t, found) # {}
    BY <1>2, FoundPeer, SsrcsAssumption
  <2>2. Ended(t, s) = u
    BY <2>1, AddrsAssumption DEF Ended
  <2> HIDE DEF found
  <2>3. u.refs = [t.refs EXCEPT ![found] = 0]
    BY <2>1, RemovedPeer DEF RemovedAt
  <2>4. t.refs \in [Addrs -> Nat] /\ found # b
    BY <2>1 DEF Tables
  <2> HIDE DEF u
  <2>5. u.refs[b] = t.refs[b]
    BY <2>3, <2>4
  <2>6. QED
    BY <2>2, <2>5
<1>3. QED
  BY <1>1, <1>2

=============================================================================
