--------------------------- MODULE RtpMidiPayload ---------------------------
(***************************************************************************)
(* The bytes of an RTP-MIDI packet: MIDI messages with running status      *)
(* (src/applemidi/message.c), their time differences and the MIDI header   *)
(* (rtpmidi.c), and the RTP header (rtp.c).                                *)
(*                                                                         *)
(* A message is a record of its three bytes and its timestamp; only note   *)
(* on and note off have a format (MIDIMessageFormatDetect).  Packets are    *)
(* sequences of bytes.  A list and its header fit into the buffer of 512   *)
(* bytes, of which a message takes at most seven.                          *)
(***************************************************************************)
EXTENDS Integers, Sequences

CONSTANT Lists      \* the message lists to be sent by RTPMIDISessionSend

NOTE_OFF == 128     \* MIDI_STATUS_NOTE_OFF << 4
NOTE_ON == 144      \* MIDI_STATUS_NOTE_ON << 4

(* There is a format for note off and note on, on any channel. *)
MIDIMessageFormatDetect(status) == status - (status % 16) \in {NOTE_OFF, NOTE_ON}

(* The messages that can be encoded. *)
Messages == [status : {s \in 128..255 : MIDIMessageFormatDetect(s)},
             key : 0..127, velocity : 0..127, timestamp : Nat]

-----------------------------------------------------------------------------
(* 128^k: a shift by k times seven bits. *)
Weight(k) == <<1, 128, 16384, 2097152, 268435456>>[k + 1]

(* Seven bits per byte, the most significant first, 28 bits at most. *)
VarLenSize(v) == CHOOSE n \in 1..4 : v < Weight(n) /\ (n = 1 \/ v >= Weight(n - 1))

MIDIUtilWriteVarLen(value) ==
    LET v == value % Weight(4)
        n == VarLenSize(v)
    IN  [i \in 1..n |-> ((v \div Weight(n - i)) % 128) + (IF i < n THEN 128 ELSE 0)]

(* A bug for the running status: a second status is not compared with it. *)
_encode_three_bytesAlways(message, status) ==
    IF status # 0 THEN <<message.key, message.velocity>>
    ELSE <<message.status, message.key, message.velocity>>

(* The status byte is left out when it is the running status. *)
_encode_three_bytes(message, status) ==
    IF status # 0 /\ message.status = status
    THEN <<message.key, message.velocity>>
    ELSE <<message.status, message.key, message.velocity>>

(* The time difference to the previous message; time does not run backwards. *)
TimeDiff(before, after) == IF after > before THEN after - before ELSE 0

(***************************************************************************)
(* _rtpmidi_encode_messages, message by message: what is encoded after the *)
(* first m of them.  The difference of the first one is written only if    *)
(* it is not 0, which the zero flag says.                                  *)
(***************************************************************************)
_rtpmidi_encode_messages(timestamp, messages) ==
    LET Time(m) == IF m = 0 THEN timestamp ELSE messages[m].timestamp
        Diff(m) == TimeDiff(Time(m - 1), Time(m))
        zero == Diff(1) # 0
        Delta(m) == IF m > 1 \/ zero THEN MIDIUtilWriteVarLen(Diff(m)) ELSE <<>>
        Status(m) == IF m = 0 THEN 0 ELSE messages[m].status
        encoded[m \in 0..Len(messages)] ==
            IF m = 0 THEN <<>>
            ELSE encoded[m - 1] \o Delta(m) \o _encode_three_bytes(messages[m], Status(m - 1))
    IN  [zero |-> zero, bytes |-> encoded[Len(messages)]]

(* Flags and length of the message list: 4 bits, or 12 in two bytes. *)
_rtpmidi_encode_header(zero, len) ==
    IF len > 15 THEN <<128 + (IF zero THEN 32 ELSE 0) + (len \div 256), len % 256>>
    ELSE <<(IF zero THEN 32 ELSE 0) + len>>

(* The payload: header and list, with the timestamp of the first message. *)
Payload(messages) ==
    LET list == _rtpmidi_encode_messages(messages[1].timestamp, messages)
    IN  _rtpmidi_encode_header(list.zero, Len(list.bytes)) \o list.bytes

(* session->size; there is a list to send and the packet fits. *)
BufferSize == 512

ASSUME ListsAssumption ==
    \A list \in Lists :
        /\ list \in Seq(Messages)
        /\ list # <<>>
        /\ Len(Payload(list)) <= BufferSize

(* A word of four bytes, the most significant first. *)
WordBytes(w) == <<(w \div 16777216) % 256, (w \div 65536) % 256, (w \div 256) % 256, w % 256>>

(* The RTP header without extension, padding or contributing sources. *)
_rtp_encode_header(sequence_number, timestamp, ssrc) ==
    <<128, 97, sequence_number \div 256, sequence_number % 256>>
        \o WordBytes(timestamp) \o WordBytes(ssrc)

-----------------------------------------------------------------------------
(* What a receiver reads, as the RTP-MIDI payload format describes it.     *)

SequenceNumber(packet) == packet[3] * 256 + packet[4]
PayloadOf(packet) == SubSeq(packet, 13, Len(packet))

(* The bytes of the number that begins at position p, and their value. *)
NumberEnd(bytes, p) == CHOOSE q \in p..Len(bytes) :
                           bytes[q] < 128 /\ \A r \in p..(q - 1) : bytes[r] >= 128
NumberAt(bytes, p) ==
    LET value[q \in (p - 1)..NumberEnd(bytes, p)] ==
            IF q = p - 1 THEN 0 ELSE value[q - 1] * 128 + (bytes[q] % 128)
    IN  value[NumberEnd(bytes, p)]

(* Header of a payload: length of its length field, of its list, the flag. *)
HeaderSize(payload) == IF payload[1] >= 128 THEN 2 ELSE 1
ListLength(payload) == IF payload[1] >= 128 THEN (payload[1] % 16) * 256 + payload[2]
                       ELSE payload[1] % 16
ZeroFlag(payload) == (payload[1] \div 32) % 2 = 1

(* The message at position p: a status byte, or the running status.       *)
MessageAt(bytes, p, status) ==
    IF bytes[p] >= 128
    THEN [status |-> bytes[p], key |-> bytes[p + 1], velocity |-> bytes[p + 2], next |-> p + 3]
    ELSE [status |-> status, key |-> bytes[p], velocity |-> bytes[p + 1], next |-> p + 2]

(* The n-th message is read after `prev': the list so far, the position and *)
(* the running status.  The time difference of the first may be left out.  *)
ReadNext(payload, n, prev) ==
    LET timed == n > 1 \/ ZeroFlag(payload)
        p == IF timed THEN NumberEnd(payload, prev.p) + 1 ELSE prev.p
        m == MessageAt(payload, p, prev.status)
    IN  [list |-> Append(prev.list,
                    [status |-> m.status, key |-> m.key, velocity |-> m.velocity,
                     after |-> IF timed THEN NumberAt(payload, prev.p) ELSE 0]),
         p |-> m.next, status |-> m.status]

(* The messages of a payload, with the time that has passed before each:   *)
(* they are read until the end of the list.                                *)
Decoded(payload) ==
    LET end == HeaderSize(payload) + ListLength(payload)
        read[n \in 0..end] ==
            IF n = 0 THEN [list |-> <<>>, p |-> HeaderSize(payload) + 1, status |-> 0]
            ELSE ReadNext(payload, n, read[n - 1])
        AtEnd(n) == read[n].p = end + 1
        count == CHOOSE n \in 1..end : AtEnd(n) /\ \A k \in 1..(n - 1) : ~AtEnd(k)
    IN  read[count].list

(* What the receiver of a list should read: the same messages, and between *)
(* them the time that has passed, in 28 bits and never backwards.          *)
ReceivedAt(list, m) ==
    [status |-> list[m].status, key |-> list[m].key, velocity |-> list[m].velocity,
     after |-> IF m = 1 THEN 0
               ELSE TimeDiff(list[m - 1].timestamp, list[m].timestamp) % Weight(4)]

AsReceived(list) == [m \in 1..Len(list) |-> ReceivedAt(list, m)]

(* The lists that do not survive their encoding. *)
Garbled == {list \in Lists : Decoded(Payload(list)) # AsReceived(list)}

=============================================================================
