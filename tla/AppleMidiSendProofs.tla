------------------------- MODULE AppleMidiSendProofs -------------------------
(***************************************************************************)
(* Theorems about sending to the peers of a session, for every number of   *)
(* inputs, clients and events, on the machines where the lock excludes:    *)
(* the packets are numbered without gaps, and sending is a broadcast.      *)
(***************************************************************************)
EXTENDS AppleMidiSend, RtpPeersProofs, RtpMidiPayloadProofs

(* The message of an event has a format. *)
LEMMA NoteHasFormat ==
    ASSUME NEW e \in Events
    PROVE  Message(e) \in Messages
<1>1. e.channel \in Nat /\ e.note \in 0..127 /\ e.velocity \in 0..127
  BY EventsAssumption
<1>2. e.channel % 16 \in 0..15
  BY <1>1
<1>3. \A x \in 0..15 : /\ NOTE_ON + x \in 128..255 /\ (NOTE_ON + x) % 16 = x
                       /\ NOTE_OFF + x \in 128..255 /\ (NOTE_OFF + x) % 16 = x
  BY DEF NOTE_ON, NOTE_OFF
<1>4. Message(e).status \in {s \in 128..255 : MIDIMessageFormatDetect(s)}
  BY <1>2, <1>3 DEF Message, MIDIMessageFormatDetect, NOTE_ON, NOTE_OFF
<1>5. QED
  BY <1>1, <1>4 DEF Message, Messages

(* A byte in front of three. *)
LEMMA HeadedByOne ==
    ASSUME NEW h, NEW a, NEW b, NEW c
    PROVE  <<h>> \o <<a, b, c>> = <<h, a, b, c>>
<1> DEFINE S == {h, a, b, c}
           r == <<h>> \o <<a, b, c>>
<1>1. <<h>> \in Seq(S) /\ <<a, b, c>> \in Seq(S) /\ <<h, a, b, c>> \in Seq(S)
  OBVIOUS
<1>2. /\ r \in Seq(S) /\ Len(r) = 4
      /\ \A i \in 1..4 : r[i] = IF i <= 1 THEN <<h>>[i] ELSE <<a, b, c>>[i - 1]
  BY <1>1, ConcatProperties
<1> HIDE DEF r
<1>3. \A i \in 1..4 : r[i] = <<h, a, b, c>>[i]
  BY <1>2
<1>4. QED
  BY <1>1, <1>2, <1>3, SeqEqual DEF r

(* A list of one message takes four bytes: its length and the message. *)
LEMMA PayloadOfOne ==
    ASSUME NEW m \in Messages
    PROVE  Payload(<<m>>) = <<3, m.status, m.key, m.velocity>>
<1> DEFINE messages == <<m>>
           timestamp == m.timestamp
           Time(k) == IF k = 0 THEN timestamp ELSE messages[k].timestamp
           Diff(k) == TimeDiff(Time(k - 1), Time(k))
           zero == Diff(1) # 0
           Delta(k) == IF k > 1 \/ zero THEN MIDIUtilWriteVarLen(Diff(k)) ELSE <<>>
           Status(k) == IF k = 0 THEN 0 ELSE messages[k].status
           encoded[k \in 0..Len(messages)] ==
               IF k = 0 THEN <<>>
               ELSE encoded[k - 1] \o Delta(k) \o _encode_three_bytes(messages[k], Status(k - 1))
           list == _rtpmidi_encode_messages(messages[1].timestamp, messages)
<1>1. zero = FALSE
  BY DEF TimeDiff, Messages
<1>2. Delta(1) = <<>> /\ Status(0) = 0
  BY <1>1
<1>3. list = [zero |-> FALSE, bytes |-> encoded[1]]
  BY <1>1 DEF _rtpmidi_encode_messages
<1>4. encoded[1] = <<m.status, m.key, m.velocity>>
  <2> DEFINE bytes == <<m.status, m.key, m.velocity>>
             Add(k) == _encode_three_bytes(messages[k], Status(k - 1))
             Fix(f) == f = [k \in 0..Len(messages) |->
                               IF k = 0 THEN <<>> ELSE f[k - 1] \o Delta(k) \o Add(k)]
             g == [k \in 0..1 |-> IF k = 0 THEN <<>> ELSE bytes]
  <2>1. Add(1) = bytes
    BY <1>2 DEF _encode_three_bytes
  <2>2. encoded = CHOOSE f : Fix(f)
    OBVIOUS
  <2>3. Len(messages) = 1
    OBVIOUS
  <2>4. <<>> \o <<>> \o bytes = bytes
    <3>1. /\ <<>> \in Seq({m.status, m.key, m.velocity})
          /\ bytes \in Seq({m.status, m.key, m.velocity})
      OBVIOUS
    <3>2. QED
      BY <3>1, ConcatEmptySeq
  <2> HIDE DEF messages, Delta, Add, encoded, bytes
  <2>5. Fix(g)
    <3>1. /\ g[0] = <<>> /\ g[1] = bytes /\ 1 - 1 = 0
          /\ g = [k \in 0..1 |-> IF k = 0 THEN <<>> ELSE bytes]
      OBVIOUS
    <3>2. \A k \in 0..1 : g[k] = IF k = 0 THEN <<>> ELSE g[k - 1] \o Delta(k) \o Add(k)
      BY <1>2, <2>1, <2>4, <3>1
    <3> HIDE DEF g
    <3>3. QED
      BY <2>3, <3>1, <3>2
  <2>6. Fix(encoded)
    <3> HIDE DEF Fix, g
    <3> QED BY <2>2, <2>5
  <2>7. /\ encoded[0] = <<>>
        /\ encoded[1] = encoded[1 - 1] \o Delta(1) \o Add(1)
        /\ 1 - 1 = 0
    BY <2>3, <2>6
  <2>8. encoded[1] = <<>> \o <<>> \o bytes
    <3>1. Delta(1) = <<>>
      BY <1>2
    <3>2. encoded[1] = encoded[0] \o Delta(1) \o Add(1)
      BY <2>7, Zenon
    <3>3. QED
      BY <2>1, <2>7, <3>1, <3>2, Zenon
  <2>9. QED
    BY <2>4, <2>8 DEF bytes
<1>5. QED
  <2> HIDE DEF list, encoded
  <2>1. list.bytes = <<m.status, m.key, m.velocity>> /\ list.zero = FALSE
    BY <1>3, <1>4
  <2>2. Payload(<<m>>) = _rtpmidi_encode_header(list.zero, Len(list.bytes)) \o list.bytes
    BY DEF Payload, list
  <2>3. _rtpmidi_encode_header(list.zero, Len(list.bytes)) = <<3>>
    BY <2>1 DEF _rtpmidi_encode_header
  <2>4. Payload(<<m>>) = <<3>> \o <<m.status, m.key, m.velocity>>
    BY <2>1, <2>2, <2>3, Zenon
  <2>5. QED
    BY <2>4, HeadedByOne, Zenon

(* A receiver decodes the message of such a list. *)
LEMMA DecodedOne ==
    ASSUME NEW s \in 128..255, NEW k \in 0..127, NEW v \in 0..127
    PROVE  Decoded(<<3, s, k, v>>) = <<[status |-> s, key |-> k, velocity |-> v, after |-> 0]>>
<1> DEFINE bytes == <<3, s, k, v>>
           end == HeaderSize(bytes) + ListLength(bytes)
           begin == [list |-> <<>>, p |-> HeaderSize(bytes) + 1, status |-> 0]
           Fix(f) == f = [n \in 0..end |->
                             IF n = 0 THEN begin ELSE ReadNext(bytes, n, f[n - 1])]
           read == CHOOSE f : Fix(f)
           AtEnd(n) == read[n].p = end + 1
           count == CHOOSE n \in 1..end : AtEnd(n) /\ \A j \in 1..(n - 1) : ~AtEnd(j)
           note == [status |-> s, key |-> k, velocity |-> v, after |-> 0]
<1>1. HeaderSize(bytes) = 1 /\ ListLength(bytes) = 3 /\ end = 4 /\ ~ZeroFlag(bytes)
  BY DEF HeaderSize, ListLength, ZeroFlag
<1>2. Decoded(bytes) = read[count].list
  BY DEF Decoded
<1>3. begin.p = 2 /\ begin.list = <<>>
  BY <1>1
<1>4. /\ bytes[2] = s /\ bytes[2 + 1] = k /\ bytes[2 + 2] = v
  OBVIOUS
<1>5. ReadNext(bytes, 1, begin) = [list |-> <<note>>, p |-> 5, status |-> s]
  <2>1. MessageAt(bytes, 2, begin.status) = [status |-> s, key |-> k, velocity |-> v, next |-> 5]
    BY <1>4 DEF MessageAt
  <2> HIDE DEF bytes, begin
  <2>2. QED
    BY <1>1, <1>3, <2>1 DEF ReadNext
<1> HIDE DEF bytes, begin, note, end
<1>6. \E f : Fix(f)
  <2> DEFINE r1 == ReadNext(bytes, 1, begin)
             r2 == ReadNext(bytes, 2, r1)
             r3 == ReadNext(bytes, 3, r2)
             r4 == ReadNext(bytes, 4, r3)
             g == [n \in 0..4 |-> IF n = 0 THEN begin ELSE IF n = 1 THEN r1
                                  ELSE IF n = 2 THEN r2 ELSE IF n = 3 THEN r3 ELSE r4]
  <2>1. g[0] = begin /\ g[1] = r1 /\ g[2] = r2 /\ g[3] = r3 /\ g[4] = r4
    OBVIOUS
  <2>2. g = [n \in 0..4 |-> g[n]]
    OBVIOUS
  <2> HIDE DEF g
  <2>3. \A n \in 0..4 : g[n] = IF n = 0 THEN begin ELSE ReadNext(bytes, n, g[n - 1])
    <3> TAKE n \in 0..4
    <3>1. n = 0 \/ (n = 1 /\ n - 1 = 0) \/ (n = 2 /\ n - 1 = 1) \/ (n = 3 /\ n - 1 = 2)
              \/ (n = 4 /\ n - 1 = 3)
      OBVIOUS
    <3>2. QED
      BY <2>1, <3>1
  <2>4. Fix(g)
    BY <1>1, <2>2, <2>3
  <2>5. QED
    <3> HIDE DEF Fix
    <3> QED BY <2>4
<1>7. Fix(read)
  <2> HIDE DEF Fix
  <2> QED BY <1>6
<1> HIDE DEF read
<1>8. read[0] = begin /\ read[1] = ReadNext(bytes, 1, read[0])
  BY <1>1, <1>7
<1>9. read[1].p = 5 /\ read[1].list = <<note>>
  BY <1>5, <1>8
<1>10. AtEnd(1) /\ 1 \in 1..end /\ \A j \in 1..(1 - 1) : ~AtEnd(j)
  BY <1>1, <1>9
<1>11. count = 1
  <2>1. /\ count \in 1..4
        /\ \A j \in 1..(count - 1) : ~AtEnd(j)
    BY <1>1, <1>10
  <2> HIDE DEF count
  <2>2. 1 \in 1..(count - 1) \/ count = 1
    BY <2>1
  <2>3. QED
    BY <1>10, <2>1, <2>2
<1>12. QED
  <2> HIDE DEF count
  <2> QED BY <1>2, <1>9, <1>11 DEF bytes, note

(* The front of a concatenation. *)
LEMMA ConcatFront ==
    ASSUME NEW S, NEW s \in Seq(S), NEW t \in Seq(S), NEW i \in 1..Len(s)
    PROVE  s \o t \in Seq(S) /\ Len(s \o t) = Len(s) + Len(t) /\ (s \o t)[i] = s[i]
<1>1. /\ s \o t \in Seq(S)
      /\ Len(s \o t) = Len(s) + Len(t)
      /\ \A k \in 1..Len(s) + Len(t) : (s \o t)[k] = IF k <= Len(s) THEN s[k] ELSE t[k - Len(s)]
  BY ConcatProperties, Zenon
<1>2. Len(s) \in Nat /\ Len(t) \in Nat
  OBVIOUS
<1>3. i \in 1..Len(s) + Len(t) /\ i <= Len(s)
  BY <1>2
<1>4. QED
  BY <1>1, <1>3

(* A receiver takes a header of twelve bytes off. *)
LEMMA WithoutHeader ==
    ASSUME NEW S, NEW h \in Seq(S), Len(h) = 12, NEW p \in Seq(S)
    PROVE  SubSeq(h \o p, 13, Len(h \o p)) = p
<1> DEFINE r == h \o p
           q == SubSeq(r, 13, 12 + Len(p))
<1>1. Len(p) \in Nat /\ \A i \in 1..Len(p) : p[i] \in S
  OBVIOUS
<1>2. /\ h \o p \in Seq(S)
      /\ Len(h \o p) = Len(h) + Len(p)
      /\ \A i \in 1..Len(h) + Len(p) : (h \o p)[i] = IF i <= Len(h) THEN h[i] ELSE p[i - Len(h)]
  BY ConcatProperties, Zenon
<1>3. r \in Seq(S) /\ Len(r) = 12 + Len(p)
  BY <1>2
<1> HIDE DEF r
<1>4. \A i \in 1..(12 + Len(p)) : r[i] = IF i <= 12 THEN h[i] ELSE p[i - 12]
  BY <1>2 DEF r
<1>5. ASSUME NEW i \in 1..Len(p) PROVE r[12 + i] = p[i]
  <2>1. 12 + i \in 1..(12 + Len(p)) /\ ~(12 + i <= 12) /\ (12 + i) - 12 = i
    BY <1>1
  <2>2. QED
    BY <1>4, <2>1
<1>6. ASSUME NEW i \in 13..(12 + Len(p)) PROVE r[i] \in S
  <2>1. i - 12 \in 1..Len(p) /\ 12 + (i - 12) = i
    BY <1>1
  <2>2. QED
    BY <1>1, <1>5, <2>1
<1>7. 13 \in Int /\ 12 + Len(p) \in Int
  BY <1>1
<1>8. /\ q \in Seq(S)
      /\ Len(q) = IF 13 <= 12 + Len(p) THEN (12 + Len(p)) - 13 + 1 ELSE 0
      /\ \A i \in 1..((12 + Len(p)) - 13 + 1) : q[i] = r[13 + i - 1]
  BY <1>6, <1>7, SubSeqProperties
<1> HIDE DEF q
<1>9. Len(q) = Len(p) /\ \A i \in 1..Len(p) : q[i] = r[12 + i]
  BY <1>1, <1>8
<1>10. q = p
  BY <1>1, <1>5, <1>8, <1>9, SeqEqual
<1>11. QED
  BY <1>3, <1>10 DEF q, r

Short == 65536      \* values of an unsigned short

(* The packet with sequence number seq. *)
Packet(seq, p) == _rtp_encode_header(seq, 0, OwnSsrc) \o p

(* A receiver reads from a packet the number and the payload. *)
LEMMA PacketIsRead ==
    ASSUME NEW seq \in Nat, seq < Short, NEW p \in Seq(Byte)
    PROVE  /\ Packet(seq, p) \in Seq(Byte)
           /\ SequenceNumber(Packet(seq, p)) = seq
           /\ PayloadOf(Packet(seq, p)) = p
<1> DEFINE h == _rtp_encode_header(seq, 0, OwnSsrc)
           first == <<128, 97, seq \div 256, seq % 256>>
           high == WordBytes(0)
           low == WordBytes(OwnSsrc)
<1>1. /\ seq \div 256 \in Byte /\ seq % 256 \in Byte
      /\ (seq \div 256) * 256 + (seq % 256) = seq
      /\ 128 \in Byte /\ 97 \in Byte
  BY DEF Byte, Short
<1>2. \A w \in Nat : WordBytes(w) \in Seq(Byte) /\ Len(WordBytes(w)) = 4
  <2> TAKE w \in Nat
  <2> DEFINE b1 == (w \div 16777216) % 256
             b2 == (w \div 65536) % 256
             b3 == (w \div 256) % 256
             b4 == w % 256
  <2>1. b1 \in Byte /\ b2 \in Byte /\ b3 \in Byte /\ b4 \in Byte
    BY DEF Byte
  <2>2. WordBytes(w) = <<b1, b2, b3, b4>>
    BY DEF WordBytes
  <2> HIDE DEF b1, b2, b3, b4
  <2>3. QED
    BY <2>1, <2>2
<1>3. first \in Seq(Byte) /\ Len(first) = 4 /\ first[3] = seq \div 256 /\ first[4] = seq % 256
  BY <1>1
<1>4. high \in Seq(Byte) /\ Len(high) = 4 /\ low \in Seq(Byte) /\ Len(low) = 4
  BY <1>2, OwnSsrcAssumption
<1>5. h = (first \o high) \o low
  BY DEF _rtp_encode_header
<1> HIDE DEF first, h, high, low
<1>6. ASSUME NEW i \in {3, 4} PROVE /\ h \in Seq(Byte) /\ Len(h) = 12 /\ h[i] = first[i]
  <2>1. i \in 1..Len(first) /\ first \in Seq(Byte) /\ high \in Seq(Byte)
    BY <1>3, <1>4
  <2>2. /\ first \o high \in Seq(Byte) /\ (first \o high)[i] = first[i]
        /\ Len(first \o high) = Len(first) + Len(high)
    BY <2>1, ConcatFront, Zenon
  <2> DEFINE f == first \o high
  <2> HIDE DEF f
  <2>3. f \in Seq(Byte) /\ f[i] = first[i] /\ Len(f) = 8 /\ i \in 1..Len(f)
    BY <1>3, <1>4, <2>2 DEF f
  <2>4. f \o low \in Seq(Byte) /\ (f \o low)[i] = f[i] /\ Len(f \o low) = Len(f) + Len(low)
    BY <1>4, <2>3, ConcatFront, Zenon
  <2>5. QED
    BY <1>4, <1>5, <2>3, <2>4 DEF f
<1>7. h \in Seq(Byte) /\ Len(h) = 12 /\ h[3] = seq \div 256 /\ h[4] = seq % 256
  BY <1>3, <1>6
<1> DEFINE packet == h \o p
<1> HIDE DEF packet
<1>8. packet \in Seq(Byte) /\ packet[3] = h[3] /\ packet[4] = h[4]
  <2>1. h \in Seq(Byte) /\ \A i \in {3, 4} : i \in 1..Len(h)
    BY <1>7
  <2>2. \A i \in {3, 4} : h \o p \in Seq(Byte) /\ (h \o p)[i] = h[i]
    BY <2>1, ConcatFront, Zenon
  <2>3. QED
    BY <2>2, Zenon DEF packet
<1>9. SubSeq(packet, 13, Len(packet)) = p
  BY <1>7, WithoutHeader, Zenon DEF packet
<1>10. Packet(seq, p) = packet
  BY DEF Packet, packet, h
<1>11. QED
  BY <1>1, <1>7, <1>8, <1>9, <1>10 DEF SequenceNumber, PayloadOf

-----------------------------------------------------------------------------
(* The machines on which the lock excludes: those with several CPUs, and   *)
(* those with one CPU on which every input is a hard interrupt, which no   *)
(* other input and no packet stops.                                        *)
LockExcludes == \A m \in Machines : m.irq = Inputs \/ \E k, l \in m.cpus : k # l

(* The inductive invariant.  An input has a CPU and an event until it      *)
(* returns.  On several CPUs only the context that has the lock is past    *)
(* it, on one CPU there is only one input at a time.                       *)
Called(i) == pc[i] \notin {"idle", "kept"}

ControlInv ==
    /\ machine \in Machines
    /\ at \in [Contexts -> machine.cpus \cup {NULL}]
    /\ pc \in [Inputs -> {"idle", "kept", "spin_lock", "convert", "send", "spin_unlock"}]
    /\ event \in [Inputs -> Events \cup {NULL}]
    /\ lock \in Contexts \cup {NULL}
    /\ \A i \in Inputs : Called(i) => event[i] \in Events /\ at[i] # NULL
    /\ \A i \in Inputs : pc[i] \in {"send", "spin_unlock"} => event[i].type # "OTHER"
    /\ rx # NULL => at[RX] # NULL
    /\ Smp => (\A i \in Inputs : InSection(i) => lock = i) /\ (rx # NULL => lock = RX)
    /\ ~Smp => lock = NULL /\ (\A i, j \in Inputs : Called(i) /\ Called(j) => i = j)

(* The table owns its peers, which differ in their identifiers. *)
TableInv == rtp \in Tables /\ Owns(rtp) /\ OneSlotEach(rtp)

(* A sender is at a peer of the table, with its event in the buffer. *)
PeerInv ==
    /\ peer \in [Inputs -> Addrs \cup {NULL}]
    /\ \A i \in Inputs : peer[i] # NULL => SlotsWith(rtp, peer[i]) # {} /\ pc[i] = "send"
    /\ \A i \in Inputs : pc[i] = "send" =>
           peer[i] # NULL /\ payload = Payload(<<Message(event[i])>>)

(* A client has one command under way at most, and is not in the table     *)
(* when it may invite.                                                     *)
Commands == [cmd : {"IN", "BY"}, c : Clients]
UnderWay == inbox \cup ({rx} \ {NULL})

ClientInv ==
    /\ inbox \subseteq Commands
    /\ rx \in Commands \cup {NULL}
    /\ rx # NULL => rx \notin inbox
    /\ client \in [Clients -> {"out", "inviting", "in", "leaving", "gone"}]
    /\ \A m \in UnderWay : client[m.c] = IF m.cmd = "IN" THEN "inviting" ELSE "leaving"
    /\ \A c \in Clients : client[c] \in {"out", "inviting"} => SlotsOf(rtp, c) = {}

(* The number of a peer is that of the packets sent to its client. *)
WireInv ==
    /\ out_seqnum \in [Addrs -> 0..(SeqMod - 1)]
    /\ wire \in [Clients -> Seq(Seq(Byte))]
    /\ NumberedFromOne
    /\ \A p \in Slots : rtp.peers[p] # NULL =>
           out_seqnum[rtp.peers[p]] = Len(wire[rtp.ssrc[rtp.peers[p]]]) % SeqMod

SendInv == ControlInv /\ TableInv /\ PeerInv /\ ClientInv /\ WireInv

USE DEF inputVars, sendVars, sessionVars, cpuVars, Clients

-----------------------------------------------------------------------------
(* An input past the lock is the only one. *)
LEMMA OneInSection ==
    ASSUME ControlInv, NEW i \in Inputs, InSection(i), NEW j \in Inputs, InSection(j)
    PROVE  j = i
<1>1. CASE Smp
  BY <1>1 DEF ControlInv
<1>2. CASE ~Smp
  BY <1>2 DEF ControlInv, Called, InSection
<1>3. QED
  BY <1>1, <1>2

(* No input is past the lock while a command is processed. *)
LEMMA NoneInSection ==
    ASSUME LockExcludes, ControlInv, SocketCallback, NEW i \in Inputs
    PROVE  ~InSection(i)
<1>1. CASE Smp
  BY <1>1, RXAssumption DEF ControlInv, SocketCallback
<1>2. CASE ~Smp
  <2>1. machine.irq = Inputs
    BY <1>2 DEF LockExcludes, ControlInv, Smp
  <2>2. Stops(i, RX) /\ i \in Contexts \ {RX}
    BY <2>1, RXAssumption DEF Stops, Rank, Contexts
  <2>3. at[i] # at[RX]
    BY <2>2 DEF SocketCallback, Runs, MayRun
  <2>4. at[RX] \in machine.cpus /\ at[i] \in machine.cpus \cup {NULL}
    BY DEF ControlInv, SocketCallback, Contexts
  <2>5. at[i] = NULL
    BY <1>2, <2>3, <2>4 DEF Smp
  <2>6. QED
    BY <2>5 DEF ControlInv, Called, InSection
<1>3. QED
  BY <1>1, <1>2

(* On one CPU a hard interrupt only comes when there is no other. *)
LEMMA DeliveredAlone ==
    ASSUME LockExcludes, ControlInv, ~Smp, NEW i \in Inputs, NEW k \in machine.cpus,
           MayRun(i, k), NEW j \in Inputs, j # i
    PROVE  ~Called(j)
<1>1. machine.irq = Inputs
  BY DEF LockExcludes, ControlInv, Smp
<1>2. Stops(j, i) /\ j \in Contexts \ {i}
  BY <1>1 DEF Stops, Rank, Contexts
<1>3. at[j] # k
  BY <1>2 DEF MayRun
<1>4. at[j] \in machine.cpus \cup {NULL}
  BY DEF ControlInv, Contexts
<1>5. at[j] = NULL
  BY <1>3, <1>4 DEF Smp
<1>6. QED
  BY <1>5 DEF ControlInv

(* The lock, or the only CPU, has one input at most past the lock. *)
LEMMA ControlStep ==
    ASSUME LockExcludes, ControlInv, Next
    PROVE  ControlInv'
<1>0. ASSUME machine' = machine PROVE Smp' = Smp
  BY <1>0 DEF Smp
<1>1. ASSUME NEW i \in Inputs, NEW e \in Events, Deliver(i, e) PROVE ControlInv'
  <2>1. PICK k \in machine.cpus : MayRun(i, k) /\ at' = [at EXCEPT ![i] = k]
    BY <1>1 DEF Deliver
  <2>2. k # NULL
    BY <2>1, MachinesAssumption, InputsAssumption DEF ControlInv
  <2>3. ~Smp => \A j \in Inputs : j # i => ~Called(j)
    BY <2>1, DeliveredAlone
  <2>4. Smp' = Smp
    BY <1>0, <1>1 DEF Deliver
  <2>5. QED
    BY <1>1, <2>1, <2>2, <2>3, <2>4, RXAssumption
       DEF ControlInv, Deliver, Called, InSection, Contexts
<1>2. ASSUME NEW i \in Inputs, spin_lock(i) PROVE ControlInv'
  <2>1. Smp' = Smp
    BY <1>0, <1>2 DEF spin_lock
  <2>2. QED
    BY <1>2, <2>1, InputsAssumption, RXAssumption
       DEF ControlInv, spin_lock, Acquire, Called, InSection, Contexts
<1>3. ASSUME NEW i \in Inputs, ConvertOther(i) PROVE ControlInv'
  <2>1. Smp' = Smp
    BY <1>0, <1>3 DEF ConvertOther, Return
  <2>2. QED
    BY <1>3, <2>1, RXAssumption
       DEF ControlInv, ConvertOther, Return, Called, InSection, Contexts
<1>4. ASSUME NEW i \in Inputs, ConvertNote(i) PROVE ControlInv'
  <2>1. Smp' = Smp
    BY <1>0, <1>4 DEF ConvertNote
  <2>2. QED
    BY <1>4, <2>1 DEF ControlInv, ConvertNote, GoTo, Called, InSection
<1>5. ASSUME NEW i \in Inputs, SendPacket(i) PROVE ControlInv'
  <2>1. Smp' = Smp
    BY <1>0, <1>5 DEF SendPacket
  <2>2. QED
    BY <1>5, <2>1 DEF ControlInv, SendPacket, GoTo, Called, InSection
<1>6. ASSUME NEW i \in Inputs, spin_unlock(i) PROVE ControlInv'
  <2>1. Smp' = Smp
    BY <1>0, <1>6 DEF spin_unlock, Return
  <2>2. QED
    BY <1>6, <2>1, RXAssumption
       DEF ControlInv, spin_unlock, Return, Called, InSection, Contexts
<1>7. ASSUME NEW m \in inbox, spin_trylock(m) PROVE ControlInv'
  <2>1. PICK k \in machine.cpus : at' = [at EXCEPT ![RX] = k]
    BY <1>7 DEF spin_trylock
  <2>2. k # NULL
    BY <2>1, MachinesAssumption, InputsAssumption DEF ControlInv
  <2>3. Smp' = Smp
    BY <1>0, <1>7 DEF spin_trylock
  <2>4. QED
    BY <1>7, <2>1, <2>2, <2>3, InputsAssumption, RXAssumption
       DEF ControlInv, spin_trylock, Acquire, Called, InSection, Contexts
<1>8. ASSUME SocketCallback PROVE ControlInv'
  <2>1. Smp' = Smp
    BY <1>0, <1>8 DEF SocketCallback
  <2>2. \A i \in Inputs : ~InSection(i)
    BY <1>8, NoneInSection
  <2>3. QED
    BY <1>8, <2>1, <2>2, RXAssumption
       DEF ControlInv, SocketCallback, Called, InSection, Contexts
<1>9. CASE UNCHANGED <<machine, at, pc, event, lock, rx>>
  BY <1>9 DEF ControlInv, Smp, Called, InSection
<1>10. QED
  BY <1>1, <1>2, <1>3, <1>4, <1>5, <1>6, <1>7, <1>8, <1>9
     DEF Next, Input, SocketCallbackDrop, ClientInvite, ClientLeave

(* A command that is received adds a client that is not in the table, or    *)
(* removes it.                                                             *)
LEMMA Received ==
    ASSUME TableInv, ClientInv, SocketCallback
    PROVE  /\ rx.c \in Clients /\ rx.cmd \in {"IN", "BY"}
           /\ rtp' \in Tables /\ Owns(rtp') /\ OneSlotEach(rtp')
           /\ rx.cmd = "IN" => \E a \in FreeMemory(rtp) :
                 /\ rtp' = Invited(rtp, a, rx.c)
                 /\ out_seqnum' = [out_seqnum EXCEPT ![a] = 0]
           /\ rx.cmd = "IN" => SlotsOf(rtp, rx.c) = {}
           /\ rx.cmd = "BY" => rtp' = Ended(rtp, rx.c) /\ SlotsOf(rtp', rx.c) = {}
<1>1. rx.c \in Clients /\ rx.cmd \in {"IN", "BY"}
  BY DEF ClientInv, Commands, SocketCallback
<1>2. rtp \in Tables /\ Owns(rtp) /\ OneSlotEach(rtp)
  BY DEF TableInv
<1>3. CASE rx.cmd = "IN"
  <2>1. PICK a \in FreeMemory(rtp) : /\ rtp' = Invited(rtp, a, rx.c)
                                     /\ out_seqnum' = [out_seqnum EXCEPT ![a] = 0]
    BY <1>3 DEF SocketCallback, RecvInvitation, Invited
  <2>2. SlotsOf(rtp, rx.c) = {}
    BY <1>1, <1>3 DEF ClientInv, UnderWay, SocketCallback
  <2>3. rtp' \in Tables /\ Owns(rtp') /\ OneSlotEach(rtp')
    BY <1>1, <1>2, <2>1, <2>2, AddedIsOwned, InvitedOneSlot
  <2>4. QED
    BY <1>1, <1>3, <2>1, <2>2, <2>3
<1>4. CASE rx.cmd = "BY"
  <2>1. rtp' = Ended(rtp, rx.c)
    BY <1>4 DEF SocketCallback, RecvEndSession, Ended
  <2>2. /\ rtp' \in Tables /\ Owns(rtp') /\ OneSlotEach(rtp')
        /\ SlotsOf(rtp', rx.c) = {}
    BY <1>1, <1>2, <2>1, EndedSlots, EndedOneSlot
  <2>3. QED
    BY <1>1, <1>4, <2>1, <2>2
<1>5. QED
  BY <1>1, <1>3, <1>4

(* All other steps leave the table alone. *)
LEMMA TableStep ==
    ASSUME TableInv, ClientInv, Next
    PROVE  TableInv'
<1>1. ASSUME SocketCallback PROVE TableInv'
  BY <1>1, Received DEF TableInv
<1>2. CASE rtp' = rtp
  BY <1>2 DEF TableInv
<1>3. QED
  BY <1>1, <1>2 DEF Next, Input, Deliver, spin_lock, ConvertOther, ConvertNote, SendPacket,
     spin_unlock, Return, spin_trylock, SocketCallbackDrop, ClientInvite, ClientLeave

(* The sender is always at a peer of the table, which does not change. *)
LEMMA PeerStep ==
    ASSUME LockExcludes, ControlInv, TableInv, PeerInv, ClientInv, Next
    PROVE  PeerInv'
<1>1. ASSUME NEW i \in Inputs, NEW e \in Events, Deliver(i, e) PROVE PeerInv'
  BY <1>1 DEF ControlInv, PeerInv, Deliver
<1>2. ASSUME NEW i \in Inputs, spin_lock(i) PROVE PeerInv'
  BY <1>2 DEF ControlInv, PeerInv, spin_lock
<1>3. ASSUME NEW i \in Inputs, ConvertOther(i) \/ spin_unlock(i) PROVE PeerInv'
  <2>1. \A j \in Inputs : pc[j] # "send" /\ pc'[j] # "send"
    <3>1. pc[i] \in {"convert", "spin_unlock"} /\ InSection(i)
      BY <1>3 DEF ConvertOther, spin_unlock, InSection
    <3>2. \A j \in Inputs : pc[j] # "send"
      BY <3>1, OneInSection DEF InSection
    <3>3. QED
      BY <1>3, <3>2 DEF ControlInv, ConvertOther, spin_unlock, Return
  <2>2. peer' = peer
    BY <1>3 DEF ConvertOther, spin_unlock, Return
  <2>3. QED
    BY <2>1, <2>2 DEF PeerInv
<1>4. ASSUME NEW i \in Inputs, NEW next,
             next = NULL \/ (next \in Addrs /\ SlotsWith(rtp, next) # {}),
             InSection(i), rtp' = rtp, event' = event,
             peer' = [peer EXCEPT ![i] = next],
             pc' = [pc EXCEPT ![i] = IF next = NULL THEN "spin_unlock" ELSE "send"],
             payload' = Payload(<<Message(event[i])>>)
      PROVE  PeerInv'
  <2>1. \A j \in Inputs : j # i => pc[j] # "send" /\ pc'[j] = pc[j] /\ peer'[j] = peer[j]
    BY <1>4, OneInSection DEF InSection, ControlInv, PeerInv
  <2>2. pc'[i] = (IF next = NULL THEN "spin_unlock" ELSE "send") /\ peer'[i] = next
    BY <1>4 DEF ControlInv, PeerInv
  <2>3. peer' \in [Inputs -> Addrs \cup {NULL}]
    BY <1>4 DEF PeerInv
  <2>4. QED
    BY <1>4, <2>1, <2>2, <2>3 DEF PeerInv
<1>5. ASSUME NEW i \in Inputs, ConvertNote(i) PROVE PeerInv'
  <2> DEFINE next == RTPSessionNextPeer(rtp, NULL)
  <2>1. next = NULL \/ (next \in Addrs /\ SlotsWith(rtp, next) # {})
    BY NextIsPointer DEF TableInv
  <2>2. /\ peer' = [peer EXCEPT ![i] = next] /\ rtp' = rtp /\ event' = event
        /\ payload' = Payload(<<Message(event[i])>>)
        /\ pc' = [pc EXCEPT ![i] = IF next = NULL THEN "spin_unlock" ELSE "send"]
        /\ InSection(i)
    BY <1>5 DEF ConvertNote, GoTo, InSection
  <2> HIDE DEF next
  <2>3. QED
    BY <1>4, <2>1, <2>2
<1>6. ASSUME NEW i \in Inputs, SendPacket(i) PROVE PeerInv'
  <2> DEFINE next == RTPSessionNextPeer(rtp, peer[i])
  <2>1. peer[i] \in Addrs /\ SlotsWith(rtp, peer[i]) # {}
    BY <1>6 DEF SendPacket, PeerInv
  <2>2. next = NULL \/ (next \in Addrs /\ SlotsWith(rtp, next) # {})
    BY <2>1, NextIsPointer DEF TableInv
  <2>3. /\ peer' = [peer EXCEPT ![i] = next] /\ rtp' = rtp /\ event' = event
        /\ payload' = payload /\ InSection(i)
        /\ pc' = [pc EXCEPT ![i] = IF next = NULL THEN "spin_unlock" ELSE "send"]
    BY <1>6 DEF SendPacket, GoTo, InSection
  <2>4. payload = Payload(<<Message(event[i])>>)
    BY <1>6 DEF PeerInv, SendPacket
  <2> HIDE DEF next
  <2>5. QED
    BY <1>4, <2>2, <2>3, <2>4
<1>7. ASSUME SocketCallback PROVE PeerInv'
  <2>1. \A j \in Inputs : pc[j] # "send"
    BY <1>7, NoneInSection DEF InSection
  <2>2. pc' = pc /\ peer' = peer
    BY <1>7 DEF SocketCallback
  <2>3. QED
    BY <2>1, <2>2 DEF PeerInv
<1>8. CASE UNCHANGED <<pc, peer, payload, event, rtp>>
  BY <1>8 DEF PeerInv
<1>9. QED
  BY <1>1, <1>2, <1>3, <1>5, <1>6, <1>7, <1>8
     DEF Next, Input, spin_trylock, SocketCallbackDrop, ClientInvite, ClientLeave

(* The clients and their commands. *)
LEMMA ClientStep ==
    ASSUME TableInv, ClientInv, Next
    PROVE  ClientInv'
<1>1. CASE UNCHANGED sessionVars
  BY <1>1 DEF ClientInv, UnderWay
<1>2. ASSUME SocketCallback PROVE ClientInv'
  <2>1. /\ inbox' = inbox /\ rx' = NULL /\ rx # NULL
        /\ client' = [client EXCEPT ![rx.c] = IF rx.cmd = "IN" THEN "in" ELSE "out"]
    BY <1>2 DEF SocketCallback, RecvInvitation, RecvEndSession
  <2>2. rx \in Commands /\ rx.c \in Clients /\ rx.cmd \in {"IN", "BY"}
    BY <2>1 DEF ClientInv, Commands
  <2>3. UnderWay' \subseteq inbox
    BY <2>1 DEF UnderWay
  <2>4. \A n \in inbox : n.c # rx.c
    <3> SUFFICES ASSUME NEW n \in inbox, n.c = rx.c PROVE FALSE
      OBVIOUS
    <3>1. n \in UnderWay /\ rx \in UnderWay /\ n \in Commands
      BY <2>1 DEF UnderWay, ClientInv
    <3>2. n.cmd = rx.cmd
      BY <2>2, <3>1 DEF ClientInv, Commands
    <3>3. n = rx
      BY <2>2, <3>1, <3>2 DEF Commands
    <3>4. QED
      BY <2>1, <3>3 DEF ClientInv
  <2>5. rtp \in Tables /\ Owns(rtp)
    BY DEF TableInv
  <2>6. \A r : r # rx.c => SlotsOf(rtp', r) = SlotsOf(rtp, r)
    BY <1>2, <2>2, <2>5, Received, InvitedSlots, EndedSlots
  <2>7. rx.cmd = "BY" => SlotsOf(rtp', rx.c) = {}
    BY <1>2, Received
  <2>8. \A c \in Clients : client'[c] \in {"out", "inviting"} => SlotsOf(rtp', c) = {}
    BY <2>1, <2>2, <2>6, <2>7 DEF ClientInv
  <2>9. \A m \in UnderWay' : m \in UnderWay /\ client'[m.c] = client[m.c]
    BY <2>1, <2>2, <2>3, <2>4 DEF ClientInv, Commands, UnderWay
  <2>10. QED
    BY <2>1, <2>2, <2>8, <2>9 DEF ClientInv
<1>3. ASSUME NEW m \in inbox, spin_trylock(m) PROVE ClientInv'
  <2>1. inbox' = inbox \ {m} /\ rx' = m /\ UNCHANGED <<client, rtp>>
    BY <1>3 DEF spin_trylock
  <2>2. UnderWay' \subseteq UnderWay
    BY <2>1 DEF UnderWay
  <2>3. QED
    BY <2>1, <2>2 DEF ClientInv
<1>4. ASSUME NEW m \in inbox, SocketCallbackDrop(m) PROVE ClientInv'
  <2>1. /\ inbox' = inbox \ {m} /\ rtp' = rtp /\ rx' = rx
        /\ client' = [client EXCEPT ![m.c] = IF m.cmd = "IN" THEN "out" ELSE "gone"]
    BY <1>4 DEF SocketCallbackDrop
  <2>2. m \in Commands /\ m.c \in Clients /\ m.cmd \in {"IN", "BY"} /\ m \in UnderWay
    BY DEF ClientInv, Commands, UnderWay
  <2>3. ASSUME NEW n \in UnderWay' PROVE n \in UnderWay /\ n \in Commands /\ n.c # m.c
    <3>1. n \in UnderWay /\ n # m
      BY <2>1, <2>3 DEF UnderWay, ClientInv
    <3>2. n \in Commands
      BY <3>1 DEF UnderWay, ClientInv
    <3>3. n.c = m.c => n.cmd = m.cmd
      BY <2>2, <3>1, <3>2 DEF ClientInv, Commands
    <3>4. QED
      BY <2>2, <3>1, <3>2, <3>3 DEF Commands
  <2>4. \A n \in UnderWay' : client'[n.c] = client[n.c]
    BY <2>1, <2>3 DEF ClientInv, Commands
  <2>5. QED
    BY <2>1, <2>2, <2>3, <2>4 DEF ClientInv
<1>5. ASSUME NEW c \in Clients, NEW state \in {"inviting", "leaving"}, NEW m \in Commands,
             client[c] = (IF state = "inviting" THEN "out" ELSE "in"),
             m = [cmd |-> IF state = "inviting" THEN "IN" ELSE "BY", c |-> c],
             client' = [client EXCEPT ![c] = state],
             inbox' = inbox \cup {m}, rx' = rx, rtp' = rtp
      PROVE  ClientInv'
  <2>1. \A n \in UnderWay : n \in Commands /\ n.c # c
    BY <1>5 DEF ClientInv, UnderWay, Commands
  <2>2. UnderWay' = UnderWay \cup {m}
    BY <1>5 DEF UnderWay
  <2>3. rx' # NULL => rx' \notin inbox'
    BY <1>5, <2>1 DEF ClientInv, UnderWay
  <2>4. \A n \in UnderWay' : client'[n.c] = IF n.cmd = "IN" THEN "inviting" ELSE "leaving"
    BY <1>5, <2>1, <2>2 DEF ClientInv, Commands
  <2>5. QED
    BY <1>5, <2>3, <2>4 DEF ClientInv
<1>6. ASSUME NEW c \in Clients, ClientInvite(c) PROVE ClientInv'
  BY <1>5, <1>6 DEF ClientInvite, Invitation, Commands
<1>7. ASSUME NEW c \in Clients, ClientLeave(c) PROVE ClientInv'
  BY <1>5, <1>7 DEF ClientLeave, EndSession, Commands
<1>8. QED
  BY <1>1, <1>2, <1>3, <1>4, <1>6, <1>7 DEF Next, Input, Deliver, spin_lock, ConvertOther,
     ConvertNote, SendPacket, spin_unlock, Return

(* Counting modulo M. *)
LEMMA CountModulo ==
    ASSUME NEW n \in Nat, NEW M \in Nat, M > 1
    PROVE  /\ n % M \in 0..(M - 1)
           /\ ((n % M) + 1) % M = (n + 1) % M
           /\ ((n % M) + 1) % M \in 0..(M - 1)
           /\ 0 % M = 0
<1> DEFINE q == n \div M
           r == n % M
<1>1. q \in Nat /\ r \in 0..(M - 1) /\ n = M * q + r
  OBVIOUS
<1> HIDE DEF q, r
<1>2. CASE r + 1 < M
  <2>1. (r + 1) % M = r + 1
    BY <1>1, <1>2
  <2>2. n + 1 = M * q + (r + 1)
    BY <1>1
  <2>3. (n + 1) % M = r + 1
    BY <1>1, <1>2, <2>2
  <2>4. QED
    BY <1>1, <1>2, <2>1, <2>3 DEF r
<1>3. CASE r + 1 = M
  <2>1. (r + 1) % M = 0
    BY <1>3
  <2>2. n + 1 = M * (q + 1)
    BY <1>1, <1>3
  <2>3. (n + 1) % M = 0
    BY <1>1, <2>2
  <2>4. QED
    BY <1>1, <1>3, <2>1, <2>3 DEF r
<1>4. QED
  BY <1>1, <1>2, <1>3

(* The numbers of the packets. *)
LEMMA SeqModRange == SeqMod \in Nat /\ SeqMod > 1 /\ SeqMod <= Short
BY SeqModAssumption DEF Short

(* The peer the sender is at, its client, and the packet for it. *)
LEMMA SenderAtPeer ==
    ASSUME SendInv, NEW i \in Inputs, pc[i] = "send"
    PROVE  LET c == rtp.ssrc[peer[i]]
               seq == (out_seqnum[peer[i]] + 1) % SeqMod
           IN  /\ peer[i] \in Addrs /\ c \in Clients
               /\ \A p \in Slots : rtp.peers[p] # NULL /\ rtp.ssrc[rtp.peers[p]] = c =>
                                       rtp.peers[p] = peer[i]
               /\ \E p \in Slots : rtp.peers[p] = peer[i]
               /\ payload \in Seq(Byte)
               /\ seq \in 0..(SeqMod - 1) /\ seq = (Len(wire[c]) + 1) % SeqMod
               /\ Packet(seq, payload) \in Seq(Byte)
               /\ SequenceNumber(Packet(seq, payload)) = seq
               /\ Decoded(PayloadOf(Packet(seq, payload))) = AsHeard(event[i])
<1> DEFINE c == rtp.ssrc[peer[i]]
           seq == (out_seqnum[peer[i]] + 1) % SeqMod
           m == Message(event[i])
<1>1. /\ peer[i] \in Addrs /\ peer[i] # NULL /\ SlotsWith(rtp, peer[i]) # {}
      /\ payload = Payload(<<m>>)
  BY AddrsAssumption DEF SendInv, PeerInv
<1>2. PICK p \in Slots : rtp.peers[p] = peer[i]
  BY <1>1 DEF SlotsWith
<1>3. c \in Clients
  BY <1>1, <1>2 DEF SendInv, TableInv, OneSlotEach
<1>4. \A q \in Slots : rtp.peers[q] # NULL /\ rtp.ssrc[rtp.peers[q]] = c => rtp.peers[q] = peer[i]
  BY <1>1, <1>2 DEF SendInv, TableInv, OneSlotEach, SlotsOf
<1>5. event[i] \in Events /\ m \in Messages
  BY NoteHasFormat DEF SendInv, ControlInv, Called
<1>6. payload = <<3, m.status, m.key, m.velocity>>
  BY <1>1, <1>5, PayloadOfOne
<1>7. m.status \in 128..255 /\ m.key \in 0..127 /\ m.velocity \in 0..127
  BY <1>5 DEF Messages
<1> HIDE DEF m
<1>8. payload \in Seq(Byte)
  <2>1. 3 \in Byte /\ m.status \in Byte /\ m.key \in Byte /\ m.velocity \in Byte
    BY <1>7 DEF Byte
  <2>2. QED
    BY <1>6, <2>1
<1>9. Len(wire[c]) \in Nat /\ out_seqnum[peer[i]] = Len(wire[c]) % SeqMod
  BY <1>1, <1>2, <1>3 DEF SendInv, WireInv
<1>10. seq \in 0..(SeqMod - 1) /\ seq = (Len(wire[c]) + 1) % SeqMod
  BY <1>9, SeqModRange, CountModulo
<1> HIDE DEF c, seq
<1>11. seq \in Nat /\ seq < Short
  <2>1. seq \in 0..(SeqMod - 1)
    BY <1>10
  <2>2. QED
    BY <2>1, SeqModRange, SMT DEF Short
<1>12. /\ Packet(seq, payload) \in Seq(Byte)
       /\ SequenceNumber(Packet(seq, payload)) = seq
       /\ PayloadOf(Packet(seq, payload)) = payload
  BY <1>8, <1>11, PacketIsRead
<1>13. Decoded(payload) = AsHeard(event[i])
  <2>1. Decoded(payload) = <<[status |-> m.status, key |-> m.key, velocity |-> m.velocity,
                              after |-> 0]>>
    BY <1>6, <1>7, DecodedOne, Zenon
  <2>2. QED
    BY <2>1, Zenon DEF AsHeard, m
<1>14. QED
  BY <1>1, <1>2, <1>3, <1>4, <1>8, <1>10, <1>12, <1>13 DEF c, seq

(* The number of a peer and the packets to its client are counted together. *)
LEMMA WireStep ==
    ASSUME SendInv, Next
    PROVE  WireInv'
<1>1. CASE UNCHANGED <<rtp, out_seqnum, wire>>
  BY <1>1 DEF SendInv, WireInv, NumberedFromOne
<1>2. ASSUME NEW i \in Inputs, SendPacket(i) PROVE WireInv'
  <2> DEFINE c == rtp.ssrc[peer[i]]
             seq == (out_seqnum[peer[i]] + 1) % SeqMod
             packet == Packet(seq, payload)
  <2>1. CASE UNCHANGED <<wire, out_seqnum>>
    BY <1>1, <1>2, <2>1 DEF SendPacket
  <2>2. CASE /\ wire' = [wire EXCEPT ![c] = Append(@, packet)]
             /\ out_seqnum' = [out_seqnum EXCEPT ![peer[i]] = seq]
    <3>1. /\ peer[i] \in Addrs /\ c \in Clients
          /\ \A p \in Slots : rtp.peers[p] # NULL /\ rtp.ssrc[rtp.peers[p]] = c =>
                                  rtp.peers[p] = peer[i]
          /\ seq \in 0..(SeqMod - 1) /\ seq = (Len(wire[c]) + 1) % SeqMod
          /\ packet \in Seq(Byte)
          /\ SequenceNumber(packet) = seq
      BY <1>2, SenderAtPeer DEF SendPacket
    <3>2. rtp' = rtp
      BY <1>2 DEF SendPacket
    <3> HIDE DEF c, seq, packet
    <3>3. /\ wire[c] \in Seq(Seq(Byte)) /\ Len(wire[c]) \in Nat
          /\ wire'[c] = Append(wire[c], packet)
          /\ \A d \in Clients : d # c => wire'[d] = wire[d]
          /\ out_seqnum'[peer[i]] = seq
          /\ \A b \in Addrs : b # peer[i] => out_seqnum'[b] = out_seqnum[b]
      BY <2>2, <3>1 DEF SendInv, WireInv
    <3>4. /\ wire'[c] \in Seq(Seq(Byte)) /\ Len(wire'[c]) = Len(wire[c]) + 1
          /\ \A n \in 1..Len(wire[c]) : wire'[c][n] = wire[c][n]
          /\ wire'[c][Len(wire[c]) + 1] = packet
      <4> DEFINE w == wire[c]
      <4>1. w \in Seq(Seq(Byte)) /\ packet \in Seq(Byte)
        BY <3>1, <3>3
      <4> HIDE DEF w
      <4>2. /\ Append(w, packet) \in Seq(Seq(Byte))
            /\ Len(Append(w, packet)) = Len(w) + 1
            /\ \A n \in 1..Len(w) : Append(w, packet)[n] = w[n]
            /\ Append(w, packet)[Len(w) + 1] = packet
        BY <4>1, AppendProperties
      <4>3. wire'[c] = Append(w, packet) /\ w = wire[c]
        BY <3>3 DEF w
      <4>4. QED
        BY <4>2, <4>3, Zenon
    <3>5. /\ out_seqnum' \in [Addrs -> 0..(SeqMod - 1)]
          /\ wire' \in [Clients -> Seq(Seq(Byte))]
      BY <2>2, <3>1, <3>3, <3>4 DEF SendInv, WireInv
    <3>6. ASSUME NEW d \in Clients, NEW n \in DOMAIN wire'[d]
          PROVE  SequenceNumber(wire'[d][n]) = n % SeqMod
      <4>1. CASE d # c
        BY <3>3, <3>6, <4>1 DEF SendInv, WireInv, NumberedFromOne
      <4>2. CASE d = c
        <5>1. n \in 1..(Len(wire[c]) + 1)
          BY <3>4, <3>6, <4>2
        <5>2. CASE n \in 1..Len(wire[c])
          <6>1. n \in DOMAIN wire[c]
            BY <3>3, <5>2
          <6>2. SequenceNumber(wire[c][n]) = n % SeqMod
            BY <3>1, <6>1 DEF SendInv, WireInv, NumberedFromOne
          <6>3. wire'[d][n] = wire[c][n]
            BY <3>4, <4>2, <5>2
          <6>4. QED
            BY <6>2, <6>3
        <5>3. CASE n = Len(wire[c]) + 1
          BY <3>1, <3>4, <4>2, <5>3
        <5>4. QED
          BY <3>3, <5>1, <5>2, <5>3
      <4>3. QED
        BY <4>1, <4>2
    <3>7. ASSUME NEW p \in Slots, rtp'.peers[p] # NULL
          PROVE  out_seqnum'[rtp'.peers[p]] = Len(wire'[rtp'.ssrc[rtp'.peers[p]]]) % SeqMod
      <4> DEFINE b == rtp.peers[p]
                 d == rtp.ssrc[b]
      <4>1. b \in Addrs /\ b # NULL /\ d \in Clients
        BY <3>2, <3>7 DEF SendInv, TableInv, Tables, OneSlotEach
      <4>2. out_seqnum[b] = Len(wire[d]) % SeqMod
        BY <4>1 DEF SendInv, WireInv
      <4>3. CASE b = peer[i]
        BY <3>1, <3>2, <3>3, <3>4, <4>3 DEF c
      <4>4. CASE b # peer[i]
        <5>1. d # c
          BY <3>1, <4>1, <4>4
        <5>2. QED
          BY <3>2, <3>3, <4>1, <4>2, <4>4, <5>1
      <4>5. QED
        BY <4>3, <4>4
    <3>8. QED
      BY <3>5, <3>6, <3>7 DEF WireInv, NumberedFromOne
  <2>3. QED
    BY <1>2, <2>1, <2>2 DEF SendPacket, Packet, PacketFor, NextSeq
<1>3. ASSUME SocketCallback PROVE WireInv'
  <2>1. TableInv /\ ClientInv /\ WireInv /\ rtp \in Tables /\ Owns(rtp)
    BY DEF SendInv, TableInv
  <2>2. rx.c \in Clients /\ rx.cmd \in {"IN", "BY"}
    BY <1>3, <2>1, Received
  <2>3. CASE rx.cmd = "BY"
    <3>1. rtp' = Ended(rtp, rx.c) /\ UNCHANGED <<out_seqnum, wire>>
      BY <1>3, <2>1, <2>3, Received DEF SocketCallback, RecvEndSession
    <3>2. \A p \in Slots : rtp'.peers[p] # NULL =>
              rtp'.peers[p] = rtp.peers[p] /\ rtp'.ssrc = rtp.ssrc
      BY <2>1, <2>2, <3>1, EndedPeers
    <3>3. QED
      BY <2>1, <3>1, <3>2 DEF WireInv, NumberedFromOne
  <2>4. CASE rx.cmd = "IN"
    <3>1. PICK a \in FreeMemory(rtp) : /\ rtp' = Invited(rtp, a, rx.c)
                                       /\ out_seqnum' = [out_seqnum EXCEPT ![a] = 0]
      BY <1>3, <2>1, <2>4, Received
    <3>2. SlotsOf(rtp, rx.c) = {} /\ wire' = [wire EXCEPT ![rx.c] = <<>>]
      BY <1>3, <2>1, <2>4, Received DEF SocketCallback, RecvInvitation
    <3>3. /\ a \in Addrs /\ out_seqnum'[a] = 0 /\ wire'[rx.c] = <<>>
          /\ \A b \in Addrs : b # a => out_seqnum'[b] = out_seqnum[b]
          /\ \A d \in Clients : d # rx.c => wire'[d] = wire[d]
          /\ 0 \in 0..(SeqMod - 1) /\ <<>> \in Seq(Seq(Byte))
      BY <2>1, <2>2, <3>1, <3>2, SeqModRange DEF WireInv, FreeMemory
    <3>4. /\ out_seqnum' \in [Addrs -> 0..(SeqMod - 1)]
          /\ wire' \in [Clients -> Seq(Seq(Byte))]
      BY <2>1, <2>2, <3>1, <3>2, <3>3 DEF WireInv
    <3>5. ASSUME NEW d \in Clients, NEW n \in DOMAIN wire'[d]
          PROVE  SequenceNumber(wire'[d][n]) = n % SeqMod
      <4>1. d # rx.c
        BY <3>3, <3>5
      <4>2. QED
        BY <2>1, <3>3, <3>5, <4>1 DEF WireInv, NumberedFromOne
    <3>6. ASSUME NEW p \in Slots, rtp'.peers[p] # NULL
          PROVE  out_seqnum'[rtp'.peers[p]] = Len(wire'[rtp'.ssrc[rtp'.peers[p]]]) % SeqMod
      <4> DEFINE b == rtp.peers[p]
                 d == rtp.ssrc[b]
      <4>1. \/ rtp'.peers[p] = a /\ rtp'.ssrc[a] = rx.c
            \/ rtp'.peers[p] = b /\ b # a /\ rtp'.ssrc[b] = d
        BY <2>1, <2>2, <3>1, <3>6, InvitedPeers
      <4>2. CASE rtp'.peers[p] = a /\ rtp'.ssrc[a] = rx.c
        <5>1. Len(<<>>) = 0 /\ 0 % SeqMod = 0
          BY SeqModRange, CountModulo
        <5>2. QED
          BY <3>3, <4>2, <5>1
      <4>3. CASE rtp'.peers[p] = b /\ b # a /\ rtp'.ssrc[b] = d
        <5>1. b # NULL /\ b \in Addrs
          BY <2>1, <3>6, <4>3 DEF Tables
        <5>2. d \in Clients /\ d # rx.c
          BY <2>1, <3>2, <5>1 DEF TableInv, OneSlotEach, SlotsOf
        <5>3. out_seqnum[b] = Len(wire[d]) % SeqMod
          BY <2>1, <5>1 DEF WireInv
        <5>4. QED
          BY <3>3, <4>3, <5>1, <5>2, <5>3
      <4>4. QED
        BY <4>1, <4>2, <4>3
    <3>7. QED
      BY <3>4, <3>5, <3>6 DEF WireInv, NumberedFromOne
  <2>5. QED
    BY <2>2, <2>3, <2>4
<1>4. QED
  BY <1>1, <1>2, <1>3 DEF Next, Input, Deliver, spin_lock, ConvertOther, ConvertNote, spin_unlock,
     Return, spin_trylock, SocketCallbackDrop, ClientInvite, ClientLeave

(* The invariant holds at the beginning and is kept by every step. *)
LEMMA SendInvHolds ==
    ASSUME LockExcludes
    PROVE  Spec => []SendInv
<1>1. Init => SendInv
  <2>1. /\ RTPSessionCreate \in Tables /\ Owns(RTPSessionCreate)
        /\ \A r : SlotsOf(RTPSessionCreate, r) = {}
        /\ \A p \in Slots : RTPSessionCreate.peers[p] = NULL
    BY DEF RTPSessionCreate, Tables, Owns, SlotsOf
  <2> SUFFICES ASSUME Init PROVE SendInv
    OBVIOUS
  <2>2. ControlInv
    BY RXAssumption DEF Init, ControlInv, Contexts, Called, InSection
  <2>3. TableInv
    BY <2>1 DEF Init, TableInv, OneSlotEach
  <2>4. PeerInv
    BY DEF Init, PeerInv
  <2>5. ClientInv
    BY <2>1 DEF Init, ClientInv, UnderWay
  <2>6. WireInv
    <3>1. \A c \in Clients : wire[c] = <<>> /\ DOMAIN wire[c] = {}
      BY DEF Init
    <3>2. out_seqnum \in [Addrs -> 0..(SeqMod - 1)] /\ wire \in [Clients -> Seq(Seq(Byte))]
      BY SeqModRange DEF Init
    <3>3. QED
      BY <2>1, <3>1, <3>2 DEF Init, WireInv, NumberedFromOne
  <2>7. QED
    BY <2>2, <2>3, <2>4, <2>5, <2>6 DEF SendInv
<1>2. SendInv /\ [Next]_vars => SendInv'
  <2> SUFFICES ASSUME SendInv, [Next]_vars PROVE SendInv'
    OBVIOUS
  <2>1. CASE Next
    BY <2>1, ControlStep, TableStep, PeerStep, ClientStep, WireStep DEF SendInv
  <2>2. CASE UNCHANGED vars
    <3>1. ControlInv' /\ TableInv'
      BY <2>2 DEF SendInv, ControlInv, TableInv, Smp, Called, InSection, vars
    <3>2. PeerInv' /\ ClientInv'
      BY <2>2 DEF SendInv, PeerInv, ClientInv, UnderWay, vars
    <3>3. WireInv'
      BY <2>2 DEF SendInv, WireInv, NumberedFromOne, vars
    <3>4. QED
      BY <3>1, <3>2, <3>3 DEF SendInv
  <2>3. QED
    BY <2>1, <2>2
<1>3. QED
  BY <1>1, <1>2, PTL DEF Spec

-----------------------------------------------------------------------------
(***************************************************************************)
(* TypeOK holds for every number of inputs, clients and events, on several *)
(* CPUs and on one CPU with interrupts only: among others, _alsa_input is  *)
(* only ever sending messages that have a format, and every packet         *)
(* consists of bytes.                                                      *)
(***************************************************************************)
THEOREM SendTypeCorrect ==
    ASSUME LockExcludes
    PROVE  Spec => []TypeOK
<1>1. ASSUME SendInv PROVE TypeOK
  <2>1. ControlInv /\ TableInv /\ PeerInv /\ ClientInv /\ WireInv
    BY <1>1 DEF SendInv
  <2>2. ASSUME NEW i \in Inputs, pc[i] = "send" PROVE Message(event[i]) \in Messages
    <3>1. event[i] \in Events
      BY <2>1, <2>2 DEF ControlInv, Called
    <3>2. QED
      BY <3>1, NoteHasFormat
  <2>3. ASSUME NEW c \in Clients, NEW n \in DOMAIN wire[c] PROVE wire[c][n] \in Seq(0..255)
    <3>1. wire[c] \in Seq(Seq(Byte))
      BY <2>1 DEF WireInv
    <3>2. wire[c][n] \in Seq(Byte)
      BY <3>1
    <3>3. QED
      BY <3>2, Zenon DEF Byte
  <2>4. /\ machine \in Machines /\ at \in [Contexts -> machine.cpus \cup {NULL}]
        /\ pc \in [Inputs -> {"idle", "kept", "spin_lock", "convert", "send", "spin_unlock"}]
        /\ event \in [Inputs -> Events \cup {NULL}] /\ lock \in Contexts \cup {NULL}
    BY <2>1 DEF ControlInv
  <2>5. rtp \in Tables /\ peer \in [Inputs -> Addrs \cup {NULL}]
    BY <2>1 DEF TableInv, PeerInv
  <2>6. /\ inbox \subseteq [cmd : {"IN", "BY"}, c : Clients]
        /\ rx \in [cmd : {"IN", "BY"}, c : Clients] \cup {NULL}
        /\ client \in [Clients -> {"out", "inviting", "in", "leaving", "gone"}]
    BY <2>1 DEF ClientInv, Commands
  <2>7. out_seqnum \in [Addrs -> 0..(SeqMod - 1)]
    BY <2>1 DEF WireInv
  <2>8. QED
    BY <2>2, <2>3, <2>4, <2>5, <2>6, <2>7, Zenon DEF TypeOK
<1>2. QED
  BY <1>1, SendInvHolds, PTL

(***************************************************************************)
(* NumberedFromOne holds whatever inputs compete for the lock, whatever    *)
(* packets cannot be sent and however often clients leave and join again,  *)
(* on several CPUs and on one CPU with interrupts only.                    *)
(***************************************************************************)
THEOREM PacketsAreNumbered ==
    ASSUME LockExcludes
    PROVE  Spec => []NumberedFromOne
<1>1. SendInv => NumberedFromOne
  BY DEF SendInv, WireInv
<1>2. QED
  BY <1>1, SendInvHolds, PTL

-----------------------------------------------------------------------------
(* What a client has heard from the packets w. *)
Told(w) == [n \in DOMAIN w |-> Decoded(PayloadOf(w[n]))]

(* One packet more is one note more. *)
LEMMA ToldOneMore ==
    ASSUME NEW w \in Seq(Seq(Byte)), NEW x \in Seq(Byte)
    PROVE  Told(Append(w, x)) = Append(Told(w), Decoded(PayloadOf(x)))
<1> DEFINE Hears(b) == Decoded(PayloadOf(b))
           S == Seq(Byte)
           R == {Hears(b) : b \in S}
           v == Append(w, x)
           h == [n \in 1..Len(w) |-> Hears(w[n])]
           g == [n \in 1..Len(v) |-> Hears(v[n])]
<1>1. w \in Seq(S) /\ x \in S
  OBVIOUS
<1> HIDE DEF S, Hears
<1>2. /\ v \in Seq(S) /\ Len(v) = Len(w) + 1 /\ Len(w) \in Nat
      /\ \A n \in 1..Len(w) : v[n] = w[n]
      /\ v[Len(w) + 1] = x
  BY <1>1, AppendProperties
<1> HIDE DEF v
<1>3. DOMAIN w = 1..Len(w) /\ DOMAIN v = 1..Len(v)
  BY <1>1, <1>2
<1>4. /\ \A n \in 1..Len(w) : Hears(w[n]) \in R
      /\ \A n \in 1..Len(v) : Hears(v[n]) \in R
      /\ Hears(x) \in R
  BY <1>1, <1>2
<1> HIDE DEF R
<1>5. /\ h \in Seq(R) /\ Len(h) = Len(w)
      /\ g \in Seq(R) /\ Len(g) = Len(w) + 1
  BY <1>2, <1>4
<1>6. \A n \in 1..Len(w) : h[n] = Hears(w[n]) /\ g[n] = Hears(w[n])
  BY <1>2
<1>7. g[Len(w) + 1] = Hears(x)
  BY <1>2
<1> HIDE DEF h, g
<1>8. /\ Append(h, Hears(x)) \in Seq(R)
      /\ Len(Append(h, Hears(x))) = Len(w) + 1
      /\ \A n \in 1..Len(w) : Append(h, Hears(x))[n] = h[n]
      /\ Append(h, Hears(x))[Len(w) + 1] = Hears(x)
  BY <1>4, <1>5, AppendProperties
<1>9. \A n \in 1..Len(g) : g[n] = Append(h, Hears(x))[n]
  BY <1>2, <1>5, <1>6, <1>7, <1>8
<1>10. g = Append(h, Hears(x))
  BY <1>5, <1>8, <1>9, SeqEqual
<1>11. Told(w) = h /\ Told(v) = g
  BY <1>3, Zenon DEF Told, h, g, Hears
<1>12. QED
  BY <1>10, <1>11, Zenon DEF v, Hears

(* Nothing has been heard without packets. *)
LEMMA ToldNothing == Told(<<>>) = <<>>
BY DEF Told

LEMMA HeardIsTold == Heard = [c \in Clients |-> Told(wire[c])]
BY Zenon DEF Heard, Told

(* Those to be told have a slot ahead of the only sender, or none. *)
LEMMA TodoIsAhead ==
    ASSUME NEW t \in Tables, NEW q \in [Inputs -> Addrs \cup {NULL}], NEW i \in Inputs,
           \A j \in Inputs : j # i => q[j] = NULL
    PROVE  {c \in {d \in Clients : SlotsOf(t, d) # {}} :
               \E j \in Inputs, m \in SlotsOf(t, c) :
                   q[j] # NULL /\ \E n \in SlotsWith(t, q[j]) : m >= n}
             = {c \in Clients : SlotsOf(t, c) \cap Ahead(t, q[i]) # {}}
<1> DEFINE p == q[i]
<1>1. ASSUME NEW c \in Clients
      PROVE  (\E j \in Inputs, m \in SlotsOf(t, c) :
                  q[j] # NULL /\ \E n \in SlotsWith(t, q[j]) : m >= n)
               <=> (\E m \in SlotsOf(t, c) : p # NULL /\ \E n \in SlotsWith(t, p) : m >= n)
  OBVIOUS
<1> HIDE DEF p
<1>2. ASSUME NEW c \in Clients
      PROVE  (\E m \in SlotsOf(t, c) : p # NULL /\ \E n \in SlotsWith(t, p) : m >= n)
               <=> SlotsOf(t, c) \cap Ahead(t, p) # {}
  BY DEF SlotsOf, Ahead
<1>3. QED
  BY <1>1, <1>2 DEF p

(* Nobody is to be told when nobody is sending. *)
LEMMA TodoIsEmpty ==
    ASSUME PeerInv, \A i \in Inputs : pc[i] # "send"
    PROVE  Todo = {} /\ \A i \in Inputs : peer[i] = NULL
BY DEF PeerInv, Todo

-----------------------------------------------------------------------------
(* The state of the broadcast is a function of the table, the packets, the  *)
(* peer and the note that is being played.                                 *)
LEMMA SameBroadcast ==
    ASSUME UNCHANGED <<rtp, wire, peer>>, Playing' = Playing
    PROVE  UNCHANGED Broadcast!vars
<1>1. Members' = Members
  BY DEF Members
<1>2. Todo' = Todo
  BY <1>1 DEF Todo
<1>3. Heard' = Heard
  BY DEF Heard
<1>4. QED
  BY <1>1, <1>2, <1>3 DEF Broadcast!vars

(* Only the input past the lock can be sending, and it plays its event. *)
LEMMA SenderPlays ==
    ASSUME ControlInv, NEW i \in Inputs, InSection(i)
    PROVE  /\ Sender = IF pc[i] \in {"send", "spin_unlock"} THEN {i} ELSE {}
           /\ Playing = IF pc[i] \in {"send", "spin_unlock"} THEN AsHeard(event[i]) ELSE Silence
<1>1. Sender = IF pc[i] \in {"send", "spin_unlock"} THEN {i} ELSE {}
  BY OneInSection DEF Sender, InSection
<1>2. CASE pc[i] \in {"send", "spin_unlock"}
  <2>1. Sender = {i}
    BY <1>1, <1>2
  <2>2. (CHOOSE j \in Sender : TRUE) = i
    BY <2>1
  <2>3. Playing = AsHeard(event[CHOOSE j \in Sender : TRUE])
    BY <2>1 DEF Playing
  <2>4. QED
    BY <1>1, <1>2, <2>2, <2>3
<1>3. CASE pc[i] \notin {"send", "spin_unlock"}
  BY <1>1, <1>3, Zenon DEF Playing
<1>4. QED
  BY <1>1, <1>2, <1>3

(* Nothing is played when no input is past the lock. *)
LEMMA NobodyPlays ==
    ASSUME \A i \in Inputs : ~InSection(i)
    PROVE  Playing = Silence
<1>1. Sender = {}
  BY DEF Sender, InSection
<1>2. QED
  BY <1>1 DEF Playing

(* A note is not silence. *)
LEMMA NotSilence == \A e : AsHeard(e) # Silence
BY DEF AsHeard, Silence

(* Steps of the inputs and of the clients that the broadcast does not show. *)
LEMMA HiddenStep ==
    ASSUME SendInv,
           \/ \E i \in Inputs : (\E e \in Events : Deliver(i, e)) \/ spin_lock(i) \/ ConvertOther(i)
           \/ \E m \in inbox : spin_trylock(m) \/ SocketCallbackDrop(m)
           \/ \E c \in Clients : ClientInvite(c) \/ ClientLeave(c)
    PROVE  UNCHANGED Broadcast!vars
<1>0. pc \in [Inputs -> {"idle", "kept", "spin_lock", "convert", "send", "spin_unlock"}]
  BY DEF SendInv, ControlInv
<1>1. UNCHANGED <<rtp, wire, peer>>
  BY DEF Deliver, spin_lock, ConvertOther, Return, spin_trylock, SocketCallbackDrop, ClientInvite,
     ClientLeave
<1> SUFFICES Playing' = Playing
  BY <1>1, SameBroadcast
<1>2. ASSUME NEW i \in Inputs, NEW e, pc[i] \notin {"send", "spin_unlock"},
             pc' \in {[pc EXCEPT ![i] = s] : s \in {"idle", "kept", "spin_lock", "convert"}},
             event' = [event EXCEPT ![i] = e]
      PROVE  Playing' = Playing
  <2>1. Sender' = Sender /\ i \notin Sender
    BY <1>0, <1>2 DEF Sender
  <2>2. \A j \in Sender : event'[j] = event[j]
    BY <1>2, <2>1 DEF SendInv, ControlInv, Sender
  <2>3. CASE Sender = {}
    BY <2>1, <2>3 DEF Playing
  <2>4. CASE Sender # {}
    <3>1. (CHOOSE j \in Sender : TRUE) \in Sender
      BY <2>4
    <3>2. event'[CHOOSE j \in Sender : TRUE] = event[CHOOSE j \in Sender : TRUE]
      BY <2>2, <3>1
    <3>3. QED
      BY <2>1, <2>4, <3>2 DEF Playing
  <2>5. QED
    BY <2>3, <2>4
<1>3. CASE \E i \in Inputs : \E e \in Events : Deliver(i, e)
  BY <1>2, <1>3 DEF Deliver
<1>4. CASE \E i \in Inputs : spin_lock(i)
  <2>1. PICK i \in Inputs : spin_lock(i)
    BY <1>4
  <2>2. event' = [event EXCEPT ![i] = event[i]]
    BY <2>1 DEF spin_lock, SendInv, ControlInv
  <2>3. QED
    BY <1>2, <2>1, <2>2 DEF spin_lock
<1>5. CASE \E i \in Inputs : ConvertOther(i)
  <2>1. PICK i \in Inputs : ConvertOther(i)
    BY <1>5
  <2>2. /\ pc[i] = "convert" /\ event' = [event EXCEPT ![i] = NULL]
        /\ pc' = [pc EXCEPT ![i] = IF lock = i THEN "kept" ELSE "idle"]
    BY <2>1 DEF ConvertOther, Return
  <2>3. pc' \in {[pc EXCEPT ![i] = s] : s \in {"idle", "kept", "spin_lock", "convert"}}
    BY <2>2
  <2>4. QED
    BY <1>2, <2>2, <2>3
<1>6. CASE \/ \E m \in inbox : spin_trylock(m) \/ SocketCallbackDrop(m)
           \/ \E c \in Clients : ClientInvite(c) \/ ClientLeave(c)
  <2>1. pc' = pc /\ event' = event
    BY <1>6 DEF spin_trylock, SocketCallbackDrop, ClientInvite, ClientLeave
  <2>2. QED
    BY <2>1 DEF Playing, Sender
<1>7. QED
  BY <1>3, <1>4, <1>5, <1>6

(* The same after a step. *)
LEMMA SenderWillPlay ==
    ASSUME NEW i \in Inputs, Sender' = {i}
    PROVE  Playing' = AsHeard(event'[i])
<1>1. (CHOOSE j \in Sender' : TRUE) = i
  OBVIOUS
<1>2. Playing' = AsHeard(event'[CHOOSE j \in Sender' : TRUE])
  BY DEF Playing, AsHeard, Message
<1>3. QED
  BY <1>1, <1>2

(* To go through the table of peers is to go through the members. *)
LEMMA WillBeTold ==
    ASSUME TableInv, PeerInv, NEW i \in Inputs, \A j \in Inputs : j # i => peer[j] = NULL,
           rtp' = rtp, peer' = [peer EXCEPT ![i] = RTPSessionNextPeer(rtp, peer[i])]
    PROVE  Todo' = IF peer[i] = NULL THEN Members ELSE Todo \ {rtp.ssrc[peer[i]]}
<1> DEFINE here == peer[i]
           next == RTPSessionNextPeer(rtp, here)
<1>1. /\ rtp \in Tables /\ Owns(rtp) /\ OneSlotEach(rtp)
      /\ here \in Addrs \cup {NULL} /\ (here # NULL => SlotsWith(rtp, here) # {})
      /\ peer \in [Inputs -> Addrs \cup {NULL}]
  BY DEF TableInv, PeerInv
<1> HIDE DEF here
<1>2. next \in Addrs \cup {NULL}
  BY <1>1, NextIsPointer
<1>3. Todo = {c \in Clients : SlotsOf(rtp, c) \cap Ahead(rtp, here) # {}}
  BY <1>1, TodoIsAhead DEF Todo, Members, here
<1> HIDE DEF next
<1>4. Todo' = {c \in Clients : SlotsOf(rtp, c) \cap Ahead(rtp, next) # {}}
  <2> DEFINE q == [peer EXCEPT ![i] = next]
  <2>1. /\ q \in [Inputs -> Addrs \cup {NULL}] /\ q[i] = next
        /\ \A j \in Inputs : j # i => q[j] = NULL
    BY <1>1, <1>2
  <2>2. peer' = q
    BY DEF next, here
  <2> HIDE DEF q
  <2>3. Todo' = {c \in {d \in Clients : SlotsOf(rtp, d) # {}} :
                    \E j \in Inputs, m \in SlotsOf(rtp, c) :
                        q[j] # NULL /\ \E n \in SlotsWith(rtp, q[j]) : m >= n}
    BY <2>2 DEF Todo, Members, SlotsOf, SlotsWith
  <2>4. QED
    BY <1>1, <2>1, <2>3, TodoIsAhead
<1>5. Ahead(rtp, next) = IF here = NULL THEN {p \in Slots : rtp.peers[p] # NULL}
                          ELSE Ahead(rtp, here) \ SlotsWith(rtp, here)
  BY <1>1, NextGoesOn DEF next
<1>6. CASE here = NULL
  <2>1. \A c \in Clients : SlotsOf(rtp, c) \cap Ahead(rtp, next) = SlotsOf(rtp, c)
    BY <1>5, <1>6 DEF SlotsOf
  <2>2. QED
    BY <1>4, <1>6, <2>1 DEF Members, here
<1>7. CASE here # NULL
  <2> DEFINE s == rtp.ssrc[here]
  <2>1. PICK p \in Slots : rtp.peers[p] = here
    BY <1>1, <1>7 DEF SlotsWith
  <2>2. SlotsWith(rtp, here) = {p} /\ SlotsOf(rtp, s) = {p}
    BY <1>1, <1>7, <2>1 DEF Owns, OneSlotEach, SlotsOf, SlotsWith
  <2>3. \A c \in Clients : c # s => p \notin SlotsOf(rtp, c)
    BY <1>7, <2>1 DEF SlotsOf
  <2> HIDE DEF s
  <2>4. \A c \in Clients : SlotsOf(rtp, c) \cap Ahead(rtp, next) =
            IF c = s THEN {} ELSE SlotsOf(rtp, c) \cap Ahead(rtp, here)
    BY <1>5, <1>7, <2>2, <2>3
  <2>5. Todo' = Todo \ {s}
    BY <1>3, <1>4, <2>4
  <2>6. QED
    BY <1>7, <2>5 DEF s, here
<1>8. QED
  BY <1>6, <1>7

(* The conversion of a note begins to play it. *)
LEMMA NoteIsPlayed ==
    ASSUME SendInv, NEW i \in Inputs, ConvertNote(i)
    PROVE  \E n \in Notes : Broadcast!Play(n)
<1>1. /\ pc[i] = "convert" /\ event[i].type # "OTHER"
      /\ pc' \in {[pc EXCEPT ![i] = state] : state \in {"send", "spin_unlock"}}
      /\ peer' = [peer EXCEPT ![i] = RTPSessionNextPeer(rtp, NULL)]
      /\ UNCHANGED <<event, wire, rtp>>
  BY DEF ConvertNote, GoTo
<1>2. ControlInv /\ TableInv /\ PeerInv /\ InSection(i)
  BY <1>1 DEF SendInv, InSection
<1>3. event[i] \in Events
  BY <1>1, <1>2 DEF ControlInv, Called
<1>4. AsHeard(event[i]) \in Notes
  BY <1>1, <1>3 DEF Notes
<1>5. Playing = Silence /\ Sender = {}
  BY <1>1, <1>2, SenderPlays
<1>6. Sender' = {i}
  BY <1>1, <1>5 DEF SendInv, ControlInv, Sender
<1>7. Playing' = AsHeard(event[i])
  BY <1>1, <1>6, SenderWillPlay
<1>8. \A j \in Inputs : peer[j] = NULL
  <2>1. \A j \in Inputs : pc[j] # "send"
    BY <1>1, <1>2, OneInSection DEF InSection
  <2>2. QED
    BY <1>2, <2>1, TodoIsEmpty
<1>9. Todo' = Members
  BY <1>1, <1>2, <1>8, WillBeTold
<1>10. Members' = Members /\ Heard' = Heard
  BY <1>1 DEF Members, Heard
<1>11. Broadcast!Play(AsHeard(event[i]))
  BY <1>5, <1>7, <1>9, <1>10 DEF Broadcast!Play
<1>12. QED
  BY <1>4, <1>11

(* A packet tells the client of the peer it is for, if it can be sent. *)
LEMMA PacketTells ==
    ASSUME SendInv, NEW i \in Inputs, SendPacket(i)
    PROVE  \E c \in Clients : Broadcast!Tell(c)
<1> DEFINE c == rtp.ssrc[peer[i]]
           seq == (out_seqnum[peer[i]] + 1) % SeqMod
           packet == Packet(seq, payload)
<1>1. /\ pc[i] = "send"
      /\ pc' \in {[pc EXCEPT ![i] = state] : state \in {"send", "spin_unlock"}}
      /\ peer' = [peer EXCEPT ![i] = RTPSessionNextPeer(rtp, peer[i])]
      /\ UNCHANGED <<event, rtp>>
      /\ wire' = [wire EXCEPT ![c] = Append(@, packet)] \/ wire' = wire
  BY DEF SendPacket, GoTo, Packet, PacketFor, NextSeq
<1>2. ControlInv /\ TableInv /\ PeerInv /\ WireInv /\ InSection(i)
  BY <1>1 DEF SendInv, InSection
<1>3. /\ peer[i] \in Addrs /\ c \in Clients /\ packet \in Seq(Byte)
      /\ \E p \in Slots : rtp.peers[p] = peer[i]
      /\ Decoded(PayloadOf(packet)) = AsHeard(event[i])
  BY <1>1, SenderAtPeer
<1> HIDE DEF packet
<1>4. Playing = AsHeard(event[i]) /\ Sender = {i}
  BY <1>1, <1>2, SenderPlays
<1>5. Sender' = {i}
  BY <1>1, <1>4 DEF SendInv, ControlInv, Sender
<1>6. Playing' = Playing
  BY <1>1, <1>4, <1>5, SenderWillPlay
<1>7. peer[i] # NULL /\ \A j \in Inputs : j # i => peer[j] = NULL
  <2>1. \A j \in Inputs : j # i => pc[j] # "send"
    BY <1>2, OneInSection DEF InSection
  <2>2. QED
    BY <1>2, <1>3, <2>1, AddrsAssumption DEF PeerInv
<1>8. Todo' = Todo \ {c}
  BY <1>1, <1>2, <1>7, WillBeTold
<1>9. c \in Todo
  <2>1. PICK p \in Slots : rtp.peers[p] = peer[i]
    BY <1>3
  <2>2. p \in SlotsOf(rtp, c) /\ p \in SlotsWith(rtp, peer[i]) /\ p >= p
    BY <1>7, <2>1, MaxPeersAssumption DEF SlotsOf, SlotsWith, Slots
  <2>3. QED
    BY <1>3, <1>7, <2>2 DEF Todo, Members
<1>10. Members' = Members
  BY <1>1 DEF Members
<1>11. Heard' \in {Heard, [Heard EXCEPT ![c] = Append(@, Playing)]}
  <2>1. CASE wire' = wire
    BY <2>1 DEF Heard
  <2>2. CASE wire' = [wire EXCEPT ![c] = Append(@, packet)]
    <3>1. /\ wire[c] \in Seq(Seq(Byte)) /\ wire'[c] = Append(wire[c], packet)
          /\ \A d \in Clients : d # c => wire'[d] = wire[d]
      BY <1>2, <1>3, <2>2 DEF WireInv
    <3>2. Told(wire'[c]) = Append(Told(wire[c]), Playing)
      BY <1>3, <1>4, <3>1, ToldOneMore
    <3>3. Heard = [d \in Clients |-> Told(wire[d])]
      BY HeardIsTold
    <3>4. Heard' = [d \in Clients |-> Told(wire'[d])]
      BY Zenon DEF Heard, Told
    <3> HIDE DEF c
    <3>5. Heard' = [Heard EXCEPT ![c] = Append(@, Playing)]
      BY <1>3, <3>1, <3>2, <3>3, <3>4
    <3>6. QED
      BY <3>5 DEF c
  <2>3. QED
    BY <1>1, <2>1, <2>2
<1>12. Broadcast!Tell(c)
  BY <1>6, <1>8, <1>9, <1>10, <1>11, Zenon DEF Broadcast!Tell
<1>13. QED
  BY <1>3, <1>12

(* When the lock is released, the note is done. *)
LEMMA UnlockIsDone ==
    ASSUME SendInv, NEW i \in Inputs, spin_unlock(i)
    PROVE  Broadcast!Done
<1>1. /\ pc[i] = "spin_unlock" /\ pc' = [pc EXCEPT ![i] = "idle"]
      /\ UNCHANGED <<wire, rtp, peer>>
  BY DEF spin_unlock, Return
<1>2. ControlInv /\ PeerInv /\ InSection(i)
  BY <1>1 DEF SendInv, InSection
<1>3. Playing = AsHeard(event[i]) /\ Sender = {i}
  BY <1>1, <1>2, SenderPlays
<1>4. Playing # Silence
  BY <1>3, NotSilence
<1>5. Sender' = {}
  BY <1>1, <1>3 DEF SendInv, ControlInv, Sender
<1>6. Playing' = Silence
  BY <1>5 DEF Playing, Silence
<1>7. \A j \in Inputs : pc[j] # "send"
  BY <1>1, <1>2, OneInSection DEF InSection
<1>8. Todo = {} /\ Todo' = {}
  <2>1. Todo = {}
    BY <1>2, <1>7, TodoIsEmpty
  <2>2. Todo' = Todo
    BY <1>1 DEF Todo, Members
  <2>3. QED
    BY <2>1, <2>2
<1>9. Members' = Members /\ Heard' = Heard
  BY <1>1 DEF Members, Heard
<1>10. QED
  BY <1>4, <1>6, <1>8, <1>9 DEF Broadcast!Done

(* A command that is received lets a client join or leave. *)
LEMMA CommandJoinsOrLeaves ==
    ASSUME LockExcludes, EnoughRoom, SendInv, SocketCallback
    PROVE  \E c \in Clients : Broadcast!Join(c) \/ Broadcast!Leave(c)
<1> DEFINE c == rx.c
<1>1. ControlInv /\ TableInv /\ PeerInv /\ ClientInv /\ WireInv
  BY DEF SendInv
<1>2. /\ UNCHANGED <<pc, event, peer>>
      /\ rx.cmd = "IN" => wire' = [wire EXCEPT ![c] = <<>>]
      /\ rx.cmd # "IN" => wire' = wire
  BY DEF SocketCallback, RecvInvitation, RecvEndSession
<1>3. c \in Clients /\ rx.cmd \in {"IN", "BY"}
  BY <1>1, Received
<1>4. Playing = Silence /\ Playing' = Playing
  <2>1. Playing = Silence
    BY <1>1, NoneInSection, NobodyPlays
  <2>2. Playing' = Playing
    BY <1>2 DEF Playing, Sender
  <2>3. QED
    BY <2>1, <2>2
<1>5. Todo = {} /\ Todo' = {}
  <2>1. \A j \in Inputs : pc[j] # "send"
    BY <1>1, NoneInSection DEF InSection
  <2>2. Todo = {} /\ \A j \in Inputs : peer[j] = NULL
    BY <1>1, <2>1, TodoIsEmpty
  <2>3. QED
    BY <1>2, <2>2 DEF Todo
<1>6. Heard = [d \in Clients |-> Told(wire[d])] /\ Heard' = [d \in Clients |-> Told(wire'[d])]
  BY Zenon DEF Heard, Told
<1>7. rtp \in Tables /\ Owns(rtp) /\ OneSlotEach(rtp)
  BY <1>1 DEF TableInv
<1>8. CASE rx.cmd = "IN"
  <2>1. PICK a \in FreeMemory(rtp) : rtp' = Invited(rtp, a, c)
    BY <1>1, <1>8, Received
  <2>2. SlotsOf(rtp, c) = {}
    BY <1>1, <1>8, Received
  <2>3. EmptySlots(rtp) # {}
    BY <1>3, <1>7, <2>2, RoomForAnother DEF EnoughRoom
  <2>4. \E f \in Slots : SlotsOf(rtp', c) = {f}
    BY <1>3, <1>7, <2>1, <2>2, <2>3, InvitedOneSlot
  <2>5. \A d : d # c => SlotsOf(rtp', d) = SlotsOf(rtp, d)
    BY <1>3, <1>7, <2>1, InvitedSlots
  <2> HIDE DEF c
  <2>6. Members' = {d \in Clients : SlotsOf(rtp', d) # {}}
    BY DEF Members, SlotsOf
  <2>7. c \notin Members /\ Members' = Members \cup {c}
    BY <1>3, <2>2, <2>4, <2>5, <2>6 DEF Members
  <2>8. /\ wire'[c] = <<>> /\ \A d \in Clients : d # c => wire'[d] = wire[d]
    BY <1>1, <1>2, <1>3, <1>8 DEF WireInv
  <2>9. Told(wire'[c]) = <<>>
    BY <2>8, ToldNothing
  <2>10. Heard' = [Heard EXCEPT ![c] = <<>>]
    BY <1>3, <1>6, <2>8, <2>9
  <2>11. Broadcast!Join(c)
    BY <1>4, <1>5, <2>7, <2>10, Zenon DEF Broadcast!Join
  <2>12. QED
    BY <1>3, <2>11
<1>9. CASE rx.cmd = "BY"
  <2>1. rtp' = Ended(rtp, c) /\ SlotsOf(rtp', c) = {}
    BY <1>1, <1>9, Received
  <2>2. \A d : d # c => SlotsOf(rtp', d) = SlotsOf(rtp, d)
    BY <1>3, <1>7, <2>1, EndedSlots
  <2> HIDE DEF c
  <2>3. Members' = {d \in Clients : SlotsOf(rtp', d) # {}}
    BY DEF Members, SlotsOf
  <2>4. Members' = Members \ {c}
    BY <1>3, <2>1, <2>2, <2>3 DEF Members
  <2>5. Heard' = Heard
    BY <1>2, <1>9 DEF Heard
  <2>6. Broadcast!Leave(c)
    BY <1>4, <1>5, <2>4, <2>5, Zenon DEF Broadcast!Leave
  <2>7. QED
    BY <1>3, <2>6
<1>10. QED
  BY <1>3, <1>8, <1>9

(***************************************************************************)
(* Sending implements the broadcast of MidiBroadcast, for every number of  *)
(* inputs, clients and events: the invariant makes the lock protect the    *)
(* table while an event is sent, RTPSessionNextPeer reach every peer once  *)
(* and each client decode the note that was played.  On one CPU the lock   *)
(* protects nothing: there all inputs must be hard interrupts, as those of *)
(* cmidid are, which packets do not interrupt.  The table needs a slot for *)
(* every client: a full one ignores the new peer, and the driver accepts   *)
(* its invitation all the same.                                            *)
(***************************************************************************)
THEOREM SendingRefinesBroadcast ==
    ASSUME LockExcludes, EnoughRoom
    PROVE  Spec => SendingIsBroadcast
<1>1. Init => Broadcast!Init
  <2> SUFFICES ASSUME Init PROVE Broadcast!Init
    OBVIOUS
  <2>1. Members = {}
    BY DEF Init, RTPSessionCreate, Members, SlotsOf
  <2>2. Playing = Silence
    <3>1. Sender = {}
      BY DEF Init, Sender
    <3>2. QED
      BY <3>1 DEF Playing
  <2>3. Todo = {}
    BY DEF Init, Todo
  <2>4. Heard = [c \in Clients |-> <<>>]
    <3>1. \A c \in Clients : Told(wire[c]) = <<>>
      BY ToldNothing DEF Init
    <3>2. QED
      BY <3>1, HeardIsTold
  <2>5. QED
    BY <2>1, <2>2, <2>3, <2>4 DEF Broadcast!Init
<1>2. SendInv /\ [Next]_vars => [Broadcast!Next]_Broadcast!vars
  <2> SUFFICES ASSUME SendInv, [Next]_vars PROVE [Broadcast!Next]_Broadcast!vars
    OBVIOUS
  <2>1. ASSUME NEW i \in Inputs, ConvertNote(i) PROVE Broadcast!Next
    BY <2>1, NoteIsPlayed DEF Broadcast!Next
  <2>2. ASSUME NEW i \in Inputs, SendPacket(i) PROVE Broadcast!Next
    BY <2>2, PacketTells DEF Broadcast!Next
  <2>3. ASSUME NEW i \in Inputs, spin_unlock(i) PROVE Broadcast!Next
    BY <2>3, UnlockIsDone DEF Broadcast!Next
  <2>4. ASSUME SocketCallback PROVE Broadcast!Next
    BY <2>4, CommandJoinsOrLeaves DEF Broadcast!Next
  <2>5. CASE UNCHANGED vars
    <3>1. UNCHANGED <<rtp, wire, peer, pc, event>>
      BY <2>5 DEF vars
    <3>2. Playing' = Playing
      BY <3>1 DEF Playing, Sender
    <3>3. QED
      BY <3>1, <3>2, SameBroadcast
  <2>6. QED
    BY <2>1, <2>2, <2>3, <2>4, <2>5, HiddenStep DEF Next, Input
<1>3. QED
  BY <1>1, <1>2, SendInvHolds, PTL DEF Spec, SendingIsBroadcast, Broadcast!Spec

-----------------------------------------------------------------------------
(***************************************************************************)
(* PayloadRoundTrips holds for every set of lists that fit into the        *)
(* buffer, not only for those TLC tries: none of them is garbled by the    *)
(* encoders of RTPMIDISessionSend.                                         *)
(***************************************************************************)
THEOREM ListsSurvive == Spec => []PayloadRoundTrips
<1>1. Garbled = {}
  BY ListsAssumption, ListSurvives DEF Garbled
<1>2. PayloadRoundTrips
  BY <1>1 DEF PayloadRoundTrips
<1>3. QED
  BY <1>2, PTL

=============================================================================
