------------------------ MODULE RtpMidiPayloadProofs ------------------------
(***************************************************************************)
(* Theorems about the bytes of an RTP-MIDI packet: a receiver reads from   *)
(* the payload of every list of messages the list that was sent.           *)
(***************************************************************************)
EXTENDS RtpMidiPayload, SequenceTheorems, WellFoundedInduction, TLAPS

Byte == 0..255

(* A byte, without its range: as the proofs use it. *)
LEMMA ByteIs == \A x : x \in Byte <=> x \in Nat /\ x < 256
BY DEF Byte

(* The seven bits of every byte of a number, put together again. *)
Joined(w) ==
    CASE Len(w) = 1 -> w[1] % 128
      [] Len(w) = 2 -> (w[1] % 128) * 128 + (w[2] % 128)
      [] Len(w) = 3 -> ((w[1] % 128) * 128 + (w[2] % 128)) * 128 + (w[3] % 128)
      [] OTHER -> (((w[1] % 128) * 128 + (w[2] % 128)) * 128 + (w[3] % 128)) * 128 + (w[4] % 128)

(* A number of one to four bytes: all but the last have their top bit set. *)
IsNumber(w) ==
    /\ w \in Seq(Byte)
    /\ Len(w) \in 1..4
    /\ \A i \in 1..Len(w) : w[i] < 128 <=> i = Len(w)

(* The powers of 128 up to 28 bits. *)
LEMMA WeightsAre ==
    /\ Weight(0) = 1 /\ Weight(1) = 128 /\ Weight(2) = 16384
    /\ Weight(3) = 2097152 /\ Weight(4) = 268435456
BY DEF Weight

(* Four groups of seven bits make up a number of 28 bits. *)
LEMMA Groups ==
    ASSUME NEW v \in Nat, v < 268435456
    PROVE  LET a == v \div 2097152
               b == v \div 16384
               c == v \div 128
           IN  /\ a \in 0..127 /\ b \in Nat /\ c \in Nat
               /\ v = c * 128 + (v % 128)
               /\ c = b * 128 + (c % 128)
               /\ b = a * 128 + (b % 128)
<1>1. v \div 2097152 \in 0..127 /\ v \div 16384 \in Nat /\ v \div 128 \in Nat
  OBVIOUS
<1>2. v = (v \div 128) * 128 + (v % 128)
  OBVIOUS
<1>3. (v \div 128) \div 128 = v \div 16384
  OBVIOUS
<1>4. (v \div 16384) \div 128 = v \div 2097152
  OBVIOUS
<1>5. v \div 128 = ((v \div 128) \div 128) * 128 + ((v \div 128) % 128)
  BY <1>1, SMT
<1>6. v \div 16384 = ((v \div 16384) \div 128) * 128 + ((v \div 16384) % 128)
  BY <1>1, SMT
<1>7. QED
  BY <1>1, <1>2, <1>3, <1>4, <1>5, <1>6, SMT

(* Bits of a byte. *)
LEMMA ByteOf ==
    ASSUME NEW x \in Nat
    PROVE  /\ x % 128 \in 0..127
           /\ ((x % 128) + 128) \in 128..255 /\ ((x % 128) + 128) % 128 = x % 128
           /\ (x % 128) % 128 = x % 128
OBVIOUS

(* MIDIUtilWriteVarLen writes a number that stands for its value. *)
LEMMA VarLenIsNumber ==
    ASSUME NEW d \in Nat
    PROVE  LET w == MIDIUtilWriteVarLen(d)
           IN  IsNumber(w) /\ Joined(w) = d % Weight(4)
<1> DEFINE v == d % Weight(4)
           n == VarLenSize(v)
           w == [i \in 1..n |-> ((v \div Weight(n - i)) % 128) + (IF i < n THEN 128 ELSE 0)]
<1>1. MIDIUtilWriteVarLen(d) = w
  BY DEF MIDIUtilWriteVarLen
<1>2. v \in Nat /\ v < 268435456
  BY WeightsAre
<1> HIDE DEF v
<1>3. n \in 1..4 /\ v < Weight(n)
  <2>1. \E k \in 1..4 : v < Weight(k) /\ (k = 1 \/ v >= Weight(k - 1))
    <3>1. CASE v < 128
      BY <1>2, <3>1, WeightsAre
    <3>2. CASE v >= 128 /\ v < 16384
      <4>1. 2 \in 1..4 /\ v < Weight(2) /\ v >= Weight(2 - 1)
        BY <1>2, <3>2, WeightsAre
      <4>2. QED
        BY <4>1
    <3>3. CASE v >= 16384 /\ v < 2097152
      <4>1. 3 \in 1..4 /\ v < Weight(3) /\ v >= Weight(3 - 1)
        BY <1>2, <3>3, WeightsAre
      <4>2. QED
        BY <4>1
    <3>4. CASE v >= 2097152
      <4>1. 4 \in 1..4 /\ v < Weight(4) /\ v >= Weight(4 - 1)
        BY <1>2, <3>4, WeightsAre
      <4>2. QED
        BY <4>1
    <3>5. QED
      BY <1>2, <3>1, <3>2, <3>3, <3>4
  <2>2. QED
    BY <2>1 DEF VarLenSize
<1> HIDE DEF n
<1> DEFINE x(i) == v \div Weight(n - i)
<1>4. ASSUME NEW i \in 1..n PROVE x(i) \in Nat
  <2>1. n - i \in 0..3
    BY <1>3
  <2>2. Weight(n - i) \in {1, 128, 16384, 2097152}
    BY <2>1, WeightsAre
  <2>3. QED
    BY <1>2, <2>2
<1>5. ASSUME NEW i \in 1..n
      PROVE  /\ w[i] \in Byte /\ (w[i] < 128 <=> i = n)
             /\ w[i] % 128 = x(i) % 128
  <2>1. w[i] = (x(i) % 128) + (IF i < n THEN 128 ELSE 0)
    OBVIOUS
  <2>2. x(i) \in Nat
    BY <1>4
  <2> HIDE DEF x, w
  <2>3. CASE i < n
    BY <1>3, <2>1, <2>2, <2>3, ByteOf, ByteIs
  <2>4. CASE i = n
    BY <1>3, <2>1, <2>2, <2>4, ByteOf, ByteIs
  <2>5. QED
    BY <1>3, <2>3, <2>4
<1>6. w \in Seq(Byte) /\ Len(w) = n
  <2>1. w = [i \in 1..n |-> w[i]]
    OBVIOUS
  <2> HIDE DEF w
  <2>2. w \in [1..n -> Byte]
    BY <1>5, <2>1
  <2>3. QED
    BY <1>3, <2>2
<1> HIDE DEF w
<1>7. IsNumber(w)
  BY <1>3, <1>5, <1>6 DEF IsNumber
<1>8. Joined(w) = v
  <2> DEFINE a == v \div 2097152
             b == v \div 16384
             c == v \div 128
  <2>0. /\ a \in 0..127 /\ b \in Nat /\ c \in Nat
        /\ v = c * 128 + (v % 128)
        /\ c = b * 128 + (c % 128)
        /\ b = a * 128 + (b % 128)
    BY <1>2, Groups
  <2>1. CASE n = 1
    <3>1. w[1] % 128 = (v \div 1) % 128
      BY <1>5, <2>1, WeightsAre, SMT
    <3>2. v < 128 /\ v \div 1 = v
      BY <1>2, <1>3, <2>1, WeightsAre, SMT
    <3>3. v % 128 = v
      BY <1>2, <3>2, SMT
    <3>4. QED
      BY <1>6, <2>1, <3>1, <3>2, <3>3, SMT DEF Joined
  <2>2. CASE n = 2
    <3>1. w[1] % 128 = c % 128 /\ w[2] % 128 = v % 128
      <4>1. /\ 1 \in 1..n /\ n - 1 = 1
            /\ 2 \in 1..n /\ n - 2 = 0
        BY <2>2, SMT
      <4>2. /\ w[1] % 128 = (v \div Weight(1)) % 128
            /\ w[2] % 128 = (v \div Weight(0)) % 128
        BY <1>5, <4>1
      <4>3. QED
        BY <1>2, <4>2, WeightsAre, SMT
    <3>2. c < 128
      BY <1>2, <1>3, <2>2, WeightsAre, SMT
    <3> HIDE DEF a, b, c
    <3>3. c % 128 = c
      BY <2>0, <3>2, SMT
    <3>4. Joined(w) = (w[1] % 128) * 128 + (w[2] % 128)
      BY <1>6, <2>2, SMT DEF Joined
    <3>5. Joined(w) = c * 128 + (v % 128)
      BY <3>1, <3>3, <3>4, Zenon
    <3>6. QED
      BY <2>0, <3>5, Zenon
  <2>3. CASE n = 3
    <3>1. w[1] % 128 = b % 128 /\ w[2] % 128 = c % 128 /\ w[3] % 128 = v % 128
      <4>1. /\ 1 \in 1..n /\ n - 1 = 2
            /\ 2 \in 1..n /\ n - 2 = 1
            /\ 3 \in 1..n /\ n - 3 = 0
        BY <2>3, SMT
      <4>2. /\ w[1] % 128 = (v \div Weight(2)) % 128
            /\ w[2] % 128 = (v \div Weight(1)) % 128
            /\ w[3] % 128 = (v \div Weight(0)) % 128
        BY <1>5, <4>1
      <4>3. QED
        BY <1>2, <4>2, WeightsAre, SMT
    <3>2. b < 128
      BY <1>2, <1>3, <2>3, WeightsAre, SMT
    <3> HIDE DEF a, b, c
    <3>3. b % 128 = b
      BY <2>0, <3>2, SMT
    <3>4. Joined(w) = ((w[1] % 128) * 128 + (w[2] % 128)) * 128 + (w[3] % 128)
      BY <1>6, <2>3, SMT DEF Joined
    <3>5. Joined(w) = (b * 128 + (c % 128)) * 128 + (v % 128)
      BY <3>1, <3>3, <3>4, Zenon
    <3>6. QED
      BY <2>0, <3>5, Zenon
  <2>4. CASE n = 4
    <3>1. /\ w[1] % 128 = a % 128 /\ w[2] % 128 = b % 128
          /\ w[3] % 128 = c % 128 /\ w[4] % 128 = v % 128
      <4>1. /\ 1 \in 1..n /\ n - 1 = 3
            /\ 2 \in 1..n /\ n - 2 = 2
            /\ 3 \in 1..n /\ n - 3 = 1
            /\ 4 \in 1..n /\ n - 4 = 0
        BY <2>4, SMT
      <4>2. /\ w[1] % 128 = (v \div Weight(3)) % 128
            /\ w[2] % 128 = (v \div Weight(2)) % 128
            /\ w[3] % 128 = (v \div Weight(1)) % 128
            /\ w[4] % 128 = (v \div Weight(0)) % 128
        BY <1>5, <4>1
      <4>3. QED
        BY <1>2, <4>2, WeightsAre, SMT
    <3> HIDE DEF a, b, c
    <3>2. a % 128 = a
      BY <2>0, SMT
    <3>3. Joined(w) = (((w[1] % 128) * 128 + (w[2] % 128)) * 128 + (w[3] % 128)) * 128
                         + (w[4] % 128)
      BY <1>6, <2>4, SMT DEF Joined
    <3>4. Joined(w) = ((a * 128 + (b % 128)) * 128 + (c % 128)) * 128 + (v % 128)
      BY <3>1, <3>2, <3>3, Zenon
    <3>5. QED
      BY <2>0, <3>4, Zenon
  <2>5. QED
    BY <1>3, <2>1, <2>2, <2>3, <2>4
<1>9. QED
  BY <1>1, <1>7, <1>8 DEF v

(* The end of a number is found, and its value. *)
LEMMA NumberIsRead ==
    ASSUME NEW w, IsNumber(w), NEW bytes \in Seq(Byte), NEW p \in Nat, p > 0,
           (p + Len(w)) - 1 <= Len(bytes),
           \A i \in 1..Len(w) : bytes[(p + i) - 1] = w[i]
    PROVE  NumberEnd(bytes, p) = (p + Len(w)) - 1 /\ NumberAt(bytes, p) = Joined(w)
<1> DEFINE n == Len(w)
           z == (p + n) - 1
           Is(q) == bytes[q] < 128 /\ \A r \in p..(q - 1) : bytes[r] >= 128
<1>1. w \in Seq(Byte) /\ n \in 1..4
  BY DEF IsNumber
<1>2. ASSUME NEW i \in 1..n PROVE w[i] \in Nat /\ (w[i] < 128 <=> i = n)
  <2>1. w[i] \in Byte
    BY <1>1, ElementOfSeq
  <2>2. QED
    BY <2>1, ByteIs DEF IsNumber
<1>3. \A i \in 1..n : bytes[(p + i) - 1] = w[i]
  OBVIOUS
<1>0. Len(bytes) \in Nat /\ (p + n) - 1 <= Len(bytes)
  BY LenProperties
<1> HIDE DEF n
<1>z. z \in p..Len(bytes) /\ z \in Nat
  BY <1>0, <1>1
<1>4. ASSUME NEW r \in p..z PROVE bytes[r] \in Nat /\ (bytes[r] < 128 <=> r = z)
  <2>1. (r - p) + 1 \in 1..n /\ (p + ((r - p) + 1)) - 1 = r /\ ((r - p) + 1 = n <=> r = z)
    BY <1>1
  <2>2. QED
    BY <1>2, <1>3, <2>1
<1>5. Is(z)
  <2>1. bytes[z] < 128
    BY <1>4, <1>z
  <2>2. ASSUME NEW r \in p..(z - 1) PROVE bytes[r] >= 128
    <3>1. r \in p..z /\ r # z
      BY <1>z
    <3>2. bytes[r] \in Nat /\ ~(bytes[r] < 128)
      BY <1>4, <3>1
    <3>3. QED
      BY <3>2
  <2>3. QED
    BY <2>1, <2>2
<1>6. ASSUME NEW q \in p..Len(bytes), Is(q) PROVE q = z
  <2>1. ASSUME q < z PROVE FALSE
    <3>1. q \in p..z /\ q # z
      BY <1>z, <2>1
    <3>2. QED
      BY <1>4, <1>6, <3>1
  <2>2. ASSUME q > z PROVE FALSE
    <3>1. z \in p..(q - 1) /\ z \in p..z
      BY <1>z, <2>2
    <3>2. bytes[z] >= 128 /\ bytes[z] < 128 /\ bytes[z] \in Nat
      BY <1>4, <1>6, <3>1
    <3>3. QED
      BY <3>2
  <2>3. QED
    BY <1>z, <2>1, <2>2
<1>7. NumberEnd(bytes, p) = z
  <2>1. NumberEnd(bytes, p) = CHOOSE q \in p..Len(bytes) : Is(q)
    BY DEF NumberEnd
  <2> HIDE DEF Is, z
  <2>2. QED
    BY <1>z, <1>5, <1>6, <2>1
<1> DEFINE c(q) == bytes[q] % 128
           Fix(f) == f = [q \in (p - 1)..z |-> IF q = p - 1 THEN 0 ELSE f[q - 1] * 128 + c(q)]
           value == CHOOSE f : Fix(f)
<1>8. NumberAt(bytes, p) = value[z]
  BY <1>7 DEF NumberAt
<1> HIDE DEF c, z
<1>10. \E f : Fix(f)
  <2> DEFINE v1 == 0 * 128 + c(p)
             v2 == v1 * 128 + c(p + 1)
             v3 == v2 * 128 + c(p + 2)
             v4 == v3 * 128 + c(p + 3)
             g == [q \in (p - 1)..z |->
                     IF q = p - 1 THEN 0 ELSE IF q = p THEN v1 ELSE IF q = p + 1 THEN v2
                     ELSE IF q = p + 2 THEN v3 ELSE v4]
  <2> HIDE DEF v1, v2, v3, v4
  <2>1. \A q \in (p - 1)..z : q \in {p - 1, p, p + 1, p + 2, p + 3}
    BY <1>1, <1>z DEF z
  <2>2. p - 1 \in (p - 1)..z /\ g[p - 1] = 0
    BY <1>1, <1>z
  <2>3. p \in (p - 1)..z /\ g[p] = v1
    BY <1>1, <1>z
  <2>4. p + 1 \in (p - 1)..z => g[p + 1] = v2
    OBVIOUS
  <2>5. p + 2 \in (p - 1)..z => g[p + 2] = v3
    OBVIOUS
  <2>6. p + 3 \in (p - 1)..z => g[p + 3] = v4
    OBVIOUS
  <2>7. g = [q \in (p - 1)..z |-> g[q]]
    OBVIOUS
  <2> HIDE DEF g
  <2>8. ASSUME NEW q \in (p - 1)..z
        PROVE  g[q] = IF q = p - 1 THEN 0 ELSE g[q - 1] * 128 + c(q)
    <3>1. CASE q = p - 1
      BY <2>2, <3>1
    <3>2. CASE q = p
      <4>1. q # p - 1 /\ q - 1 = p - 1
        BY <3>2
      <4>2. g[q - 1] = 0 /\ g[q] = 0 * 128 + c(q)
        BY <2>2, <2>3, <3>2, <4>1 DEF v1
      <4>3. QED
        BY <4>1, <4>2
    <3>3. CASE q = p + 1
      <4>1. q # p - 1 /\ q - 1 = p
        BY <3>3
      <4>2. g[q - 1] = v1 /\ g[q] = v1 * 128 + c(q)
        BY <2>3, <2>4, <3>3, <4>1 DEF v2
      <4>3. QED
        BY <4>1, <4>2
    <3>4. CASE q = p + 2
      <4>1. q # p - 1 /\ q - 1 = p + 1 /\ p + 1 \in (p - 1)..z
        BY <1>1, <1>z, <3>4
      <4>2. g[q - 1] = v2 /\ g[q] = v2 * 128 + c(q)
        BY <2>4, <2>5, <3>4, <4>1 DEF v3
      <4>3. QED
        BY <4>1, <4>2
    <3>5. CASE q = p + 3
      <4>1. q # p - 1 /\ q - 1 = p + 2 /\ p + 2 \in (p - 1)..z
        BY <1>1, <1>z, <3>5
      <4>2. g[q - 1] = v3 /\ g[q] = v3 * 128 + c(q)
        BY <2>5, <2>6, <3>5, <4>1 DEF v4
      <4>3. QED
        BY <4>1, <4>2
    <3>6. QED
      BY <2>1, <3>1, <3>2, <3>3, <3>4, <3>5
  <2>9. Fix(g)
    BY <2>7, <2>8
  <2>10. QED
    <3> HIDE DEF Fix
    <3> QED BY <2>9
<1>11. Fix(value)
  <2> HIDE DEF Fix
  <2> QED BY <1>10
<1> HIDE DEF value
<1>12. \A q \in (p - 1)..z : value[q] = IF q = p - 1 THEN 0 ELSE value[q - 1] * 128 + c(q)
  BY <1>11, Zenon
<1>13. value[p - 1] = 0
  <2>1. p - 1 \in (p - 1)..z
    BY <1>z
  <2>2. QED
    BY <1>12, <2>1, Zenon
<1>14. ASSUME NEW q \in p..z PROVE value[q] = value[q - 1] * 128 + c(q)
  <2>1. q \in (p - 1)..z /\ q # p - 1
    BY <1>1, <1>z
  <2>2. QED
    BY <1>12, <2>1
<1>15. ASSUME NEW i \in 1..n PROVE c((p + i) - 1) = w[i] % 128 /\ w[i] % 128 \in Nat
  <2>1. bytes[(p + i) - 1] = w[i] /\ w[i] \in Nat
    BY <1>2, <1>3
  <2>2. c((p + i) - 1) = w[i] % 128
    BY <2>1 DEF c
  <2>3. QED
    BY <2>1, <2>2
<1>16. value[p] = w[1] % 128
  <2>1. p \in p..z /\ 1 \in 1..n /\ (p + 1) - 1 = p
    BY <1>1, <1>z
  <2>2. value[p] = 0 * 128 + (w[1] % 128) /\ w[1] % 128 \in Nat
    BY <1>13, <1>14, <1>15, <2>1
  <2>3. QED
    BY <2>2
<1>17. ASSUME NEW i \in 1..n, i > 1
       PROVE  value[(p + i) - 1] = value[(p + (i - 1)) - 1] * 128 + (w[i] % 128)
  <2>1. (p + i) - 1 \in p..z /\ ((p + i) - 1) - 1 = (p + (i - 1)) - 1
    BY <1>1, <1>z, <1>17 DEF z
  <2>2. QED
    BY <1>14, <1>15, <2>1
<1> DEFINE u(i) == value[(p + i) - 1]
<1>18. u(1) = w[1] % 128 /\ \A i \in 1..n : i > 1 => u(i) = u(i - 1) * 128 + (w[i] % 128)
  <2>1. (p + 1) - 1 = p
    OBVIOUS
  <2>2. QED
    BY <1>16, <1>17, <2>1
<1>19. value[z] = u(n)
  BY DEF z
<1> HIDE DEF u
<1>20. u(n) = Joined(w)
  <2>1. CASE n = 1
    BY <1>18, <2>1 DEF Joined, n
  <2>2. CASE n = 2
    <3>1. u(2) = u(1) * 128 + (w[2] % 128)
      BY <1>18, <2>2
    <3>2. QED
      BY <1>18, <2>2, <3>1 DEF Joined, n
  <2>3. CASE n = 3
    <3>1. u(2) = u(1) * 128 + (w[2] % 128) /\ u(3) = u(2) * 128 + (w[3] % 128)
      BY <1>18, <2>3
    <3>2. QED
      BY <1>18, <2>3, <3>1 DEF Joined, n
  <2>4. CASE n = 4
    <3>1. /\ u(2) = u(1) * 128 + (w[2] % 128) /\ u(3) = u(2) * 128 + (w[3] % 128)
          /\ u(4) = u(3) * 128 + (w[4] % 128)
      BY <1>18, <2>4
    <3>2. QED
      BY <1>18, <2>4, <3>1 DEF Joined, n
  <2>5. QED
    BY <1>1, <2>1, <2>2, <2>3, <2>4
<1>21. QED
  BY <1>7, <1>8, <1>19, <1>20 DEF z, n

(* Induction over the natural numbers, for a set. *)
LEMMA NatInduct ==
    ASSUME NEW P, 0 \in P, \A n \in Nat : n \in P => n + 1 \in P
    PROVE  \A n \in Nat : n \in P
<1> DEFINE T == {n \in Nat : n \notin P}
<1> SUFFICES ASSUME T # {} PROVE FALSE
  OBVIOUS
<1>1. PICK n \in T : \A m \in T : ~(<<m, n>> \in OpToRel(<, Nat))
  BY WFMin, NatLessThanWellFounded
<1>2. \A m \in T : ~(m < n)
  BY <1>1 DEF OpToRel
<1>3. n \in Nat /\ n \notin P /\ n # 0
  BY <1>1
<1>4. n - 1 \in Nat /\ n - 1 < n /\ (n - 1) + 1 = n
  BY <1>3
<1>5. n - 1 \in P
  BY <1>2, <1>4
<1>6. QED
  BY <1>3, <1>4, <1>5

(* f puts the pieces d[m] and e[m] into a list, one after the other. *)
Enlists(f, N, d, e) == f = [m \in 0..N |-> IF m = 0 THEN <<>> ELSE f[m - 1] \o d[m] \o e[m]]

(* There is such a function. *)
LEMMA EncodedExists ==
    ASSUME NEW N \in Nat, NEW d, NEW e
    PROVE  \E f : Enlists(f, N, d, e)
<1> DEFINE G(x, m) == x \o d[m] \o e[m]
           Fix(f, n) == f = [m \in 0..n |-> IF m = 0 THEN <<>> ELSE G(f[m - 1], m)]
           T == {n \in Nat : \E f : Fix(f, n)}
<1> HIDE DEF G
<1>1. 0 \in T
  <2> DEFINE f == [m \in 0..0 |-> <<>>]
  <2>1. Fix(f, 0)
    OBVIOUS
  <2>2. QED
    BY <2>1
<1>2. ASSUME NEW n \in Nat, n \in T PROVE n + 1 \in T
  <2>1. PICK f : Fix(f, n)
    BY <1>2
  <2>2. \A m \in 0..n : f[m] = IF m = 0 THEN <<>> ELSE G(f[m - 1], m)
    BY <2>1, Zenon
  <2> DEFINE g == [m \in 0..(n + 1) |-> IF m = n + 1 THEN G(f[n], n + 1) ELSE f[m]]
  <2>3. ASSUME NEW m \in 0..(n + 1)
        PROVE  g[m] = IF m = 0 THEN <<>> ELSE G(g[m - 1], m)
    <3>1. CASE m = n + 1
      <4>1. m # 0 /\ m - 1 = n /\ n \in 0..(n + 1) /\ n # n + 1
        BY <3>1
      <4>2. g[m] = G(f[n], m) /\ g[n] = f[n]
        BY <3>1, <4>1
      <4>3. QED
        BY <4>1, <4>2
    <3>2. CASE m = 0
      <4>1. m \in 0..n /\ m # n + 1
        BY <3>2
      <4>2. QED
        BY <2>2, <3>2, <4>1
    <3>3. CASE m # 0 /\ m # n + 1
      <4>1. m \in 0..n /\ m - 1 \in 0..(n + 1) /\ m - 1 # n + 1
        BY <3>3
      <4>2. g[m] = f[m] /\ g[m - 1] = f[m - 1]
        BY <3>3, <4>1
      <4>3. f[m] = G(f[m - 1], m)
        BY <2>2, <3>3, <4>1
      <4>4. QED
        BY <3>3, <4>2, <4>3
    <3>4. QED
      BY <3>1, <3>2, <3>3
  <2>4. g = [m \in 0..(n + 1) |-> g[m]]
    OBVIOUS
  <2> HIDE DEF g
  <2>5. Fix(g, n + 1)
    BY <2>3, <2>4
  <2> HIDE DEF Fix
  <2>6. QED
    BY <2>5
<1>3. N \in T
  <2> HIDE DEF T
  <2> QED BY <1>1, <1>2, NatInduct
<1>4. QED
  BY <1>3 DEF G, Enlists

(* f has what is read of the bytes, message after message. *)
Reads(f, N, bytes, begin) ==
    f = [m \in 0..N |-> IF m = 0 THEN begin ELSE ReadNext(bytes, m, f[m - 1])]

(* There is such a function. *)
LEMMA ReadExists ==
    ASSUME NEW N \in Nat, NEW bytes, NEW begin
    PROVE  \E f : Reads(f, N, bytes, begin)
<1> DEFINE G(x, m) == ReadNext(bytes, m, x)
           Fix(f, n) == f = [m \in 0..n |-> IF m = 0 THEN begin ELSE G(f[m - 1], m)]
           T == {n \in Nat : \E f : Fix(f, n)}
<1> HIDE DEF G
<1>1. 0 \in T
  <2> DEFINE f == [m \in 0..0 |-> begin]
  <2>1. Fix(f, 0)
    OBVIOUS
  <2>2. QED
    BY <2>1
<1>2. ASSUME NEW n \in Nat, n \in T PROVE n + 1 \in T
  <2>1. PICK f : Fix(f, n)
    BY <1>2
  <2>2. \A m \in 0..n : f[m] = IF m = 0 THEN begin ELSE G(f[m - 1], m)
    BY <2>1, Zenon
  <2> DEFINE g == [m \in 0..(n + 1) |-> IF m = n + 1 THEN G(f[n], n + 1) ELSE f[m]]
  <2>3. ASSUME NEW m \in 0..(n + 1)
        PROVE  g[m] = IF m = 0 THEN begin ELSE G(g[m - 1], m)
    <3>1. CASE m = n + 1
      <4>1. m # 0 /\ m - 1 = n /\ n \in 0..(n + 1) /\ n # n + 1
        BY <3>1
      <4>2. g[m] = G(f[n], m) /\ g[n] = f[n]
        BY <3>1, <4>1
      <4>3. QED
        BY <4>1, <4>2
    <3>2. CASE m = 0
      <4>1. m \in 0..n /\ m # n + 1
        BY <3>2
      <4>2. QED
        BY <2>2, <3>2, <4>1
    <3>3. CASE m # 0 /\ m # n + 1
      <4>1. m \in 0..n /\ m - 1 \in 0..(n + 1) /\ m - 1 # n + 1
        BY <3>3
      <4>2. g[m] = f[m] /\ g[m - 1] = f[m - 1]
        BY <3>3, <4>1
      <4>3. f[m] = G(f[m - 1], m)
        BY <2>2, <3>3, <4>1
      <4>4. QED
        BY <3>3, <4>2, <4>3
    <3>4. QED
      BY <3>1, <3>2, <3>3
  <2>4. g = [m \in 0..(n + 1) |-> g[m]]
    OBVIOUS
  <2> HIDE DEF g
  <2>5. Fix(g, n + 1)
    BY <2>3, <2>4
  <2> HIDE DEF Fix
  <2>6. QED
    BY <2>5
<1>3. N \in T
  <2> HIDE DEF T
  <2> QED BY <1>1, <1>2, NatInduct
<1>4. QED
  BY <1>3 DEF G, Reads

-----------------------------------------------------------------------------
(* What the m-th message of a list adds to it: the time difference and the *)
(* message, after the status of the one before it.                         *)
DeltaOf(list, m) ==
    IF m > 1 THEN MIDIUtilWriteVarLen(TimeDiff(list[m - 1].timestamp, list[m].timestamp))
    ELSE <<>>
StatusOf(list, m) == IF m = 0 THEN 0 ELSE list[m].status
BytesOf(list, m) == _encode_three_bytes(list[m], StatusOf(list, m - 1))

(* E has the list encoded up to each of its messages. *)
Encoding(E, list) ==
    /\ E[0] = <<>>
    /\ \A m \in 1..Len(list) : E[m] = E[m - 1] \o DeltaOf(list, m) \o BytesOf(list, m)

(* A message of a list. *)
LEMMA MessageTypes ==
    ASSUME NEW m \in Messages
    PROVE  /\ m.status \in Nat /\ m.status >= 128 /\ m.status < 256
           /\ m.key \in Nat /\ m.key < 128
           /\ m.velocity \in Nat /\ m.velocity < 128
           /\ m.timestamp \in Nat
BY DEF Messages

(* A list is encoded message by message; there is no time difference before *)
(* the first one.                                                          *)
LEMMA EncodingIs ==
    ASSUME NEW list \in Seq(Messages), list # <<>>
    PROVE  \E E : /\ Encoding(E, list)
                  /\ _rtpmidi_encode_messages(list[1].timestamp, list) =
                        [zero |-> FALSE, bytes |-> E[Len(list)]]
<1> DEFINE N == Len(list)
           timestamp == list[1].timestamp
           Time(m) == IF m = 0 THEN timestamp ELSE list[m].timestamp
           Diff(m) == TimeDiff(Time(m - 1), Time(m))
           zero == Diff(1) # 0
           Delta(m) == IF m > 1 \/ zero THEN MIDIUtilWriteVarLen(Diff(m)) ELSE <<>>
           Status(m) == IF m = 0 THEN 0 ELSE list[m].status
           Enc(m) == _encode_three_bytes(list[m], Status(m - 1))
           Fix(f) == f = [m \in 0..N |-> IF m = 0 THEN <<>> ELSE f[m - 1] \o Delta(m) \o Enc(m)]
           E == CHOOSE f : Fix(f)
<1>1. _rtpmidi_encode_messages(timestamp, list) = [zero |-> zero, bytes |-> E[N]]
  BY DEF _rtpmidi_encode_messages
<1>2. N \in Nat /\ N >= 1 /\ list[1] \in Messages
  BY LenProperties, EmptySeq, ElementOfSeq
<1>3. zero = FALSE
  <2>1. timestamp \in Nat
    BY <1>2, MessageTypes
  <2>2. Time(1 - 1) = timestamp /\ Time(1) = timestamp
    OBVIOUS
  <2> HIDE DEF Time, timestamp
  <2>3. QED
    BY <2>1, <2>2 DEF TimeDiff
<1>4. ASSUME NEW m \in 1..N PROVE Delta(m) = DeltaOf(list, m) /\ Enc(m) = BytesOf(list, m)
  <2>1. Enc(m) = BytesOf(list, m)
    BY DEF BytesOf, StatusOf
  <2>2. CASE m > 1
    <3>1. m # 0 /\ m - 1 # 0
      BY <2>2
    <3>2. Diff(m) = TimeDiff(list[m - 1].timestamp, list[m].timestamp)
      BY <3>1
    <3> HIDE DEF Diff, zero
    <3>3. QED
      BY <2>1, <2>2, <3>2 DEF DeltaOf
  <2>3. CASE ~(m > 1)
    <3> HIDE DEF Diff, zero
    <3> QED BY <1>3, <2>1, <2>3 DEF DeltaOf
  <2>4. QED
    BY <2>2, <2>3
<1> HIDE DEF Delta, Enc
<1>5. \E f : Fix(f)
  <2> DEFINE d == [m \in 1..N |-> Delta(m)]
             e == [m \in 1..N |-> Enc(m)]
  <2>1. PICK f : Enlists(f, N, d, e)
    <3> HIDE DEF d, e, N
    <3> QED BY <1>2, EncodedExists
  <2>2. \A m \in 0..N : m # 0 => d[m] = Delta(m) /\ e[m] = Enc(m)
    BY <1>2
  <2> HIDE DEF d, e, N
  <2>3. f = [m \in 0..N |-> IF m = 0 THEN <<>> ELSE f[m - 1] \o Delta(m) \o Enc(m)]
    BY <2>1, <2>2 DEF Enlists
  <2>4. QED
    BY <2>3
<1>6. Fix(E)
  <2> HIDE DEF Fix
  <2> QED BY <1>5
<1> HIDE DEF E
<1>7. \A m \in 0..N : E[m] = IF m = 0 THEN <<>> ELSE E[m - 1] \o Delta(m) \o Enc(m)
  BY <1>6, Zenon
<1>8. Encoding(E, list)
  <2>1. E[0] = <<>>
    <3>1. 0 \in 0..N
      BY <1>2
    <3>2. QED
      BY <1>7, <3>1, Zenon
  <2>2. ASSUME NEW m \in 1..N PROVE E[m] = E[m - 1] \o DeltaOf(list, m) \o BytesOf(list, m)
    <3>1. m \in 0..N /\ m # 0
      BY <1>2
    <3>2. E[m] = E[m - 1] \o Delta(m) \o Enc(m)
      BY <1>7, <3>1
    <3>3. QED
      BY <1>4, <3>2
  <2>3. QED
    BY <2>1, <2>2 DEF Encoding
<1>9. QED
  BY <1>1, <1>3, <1>8

(* The two pieces a message adds. *)
LEMMA Pieces ==
    ASSUME NEW list \in Seq(Messages), NEW m \in 1..Len(list)
    PROVE  /\ BytesOf(list, m) \in Seq(Byte) /\ Len(BytesOf(list, m)) \in {2, 3}
           /\ DeltaOf(list, m) \in Seq(Byte)
           /\ m > 1 => /\ IsNumber(DeltaOf(list, m))
                       /\ Joined(DeltaOf(list, m)) =
                             TimeDiff(list[m - 1].timestamp, list[m].timestamp) % Weight(4)
<1> DEFINE a == list[m]
<1>1. a \in Messages
  BY ElementOfSeq
<1>2. a.status \in Byte /\ a.key \in Byte /\ a.velocity \in Byte
  BY <1>1, MessageTypes, ByteIs
<1>3. BytesOf(list, m) \in Seq(Byte) /\ Len(BytesOf(list, m)) \in {2, 3}
  <2>1. \/ BytesOf(list, m) = <<a.key, a.velocity>>
        \/ BytesOf(list, m) = <<a.status, a.key, a.velocity>>
    BY DEF BytesOf, _encode_three_bytes
  <2> HIDE DEF a
  <2>2. <<a.key, a.velocity>> \in Seq(Byte) /\ <<a.status, a.key, a.velocity>> \in Seq(Byte)
    BY <1>2
  <2>3. QED
    BY <2>1, <2>2
<1>4. CASE m > 1
  <2>1. m - 1 \in 1..Len(list)
    BY <1>4, LenProperties
  <2>2. list[m - 1] \in Messages
    BY <2>1, ElementOfSeq
  <2> DEFINE d == TimeDiff(list[m - 1].timestamp, list[m].timestamp)
  <2>3. d \in Nat
    BY <1>1, <2>2, MessageTypes DEF TimeDiff
  <2>4. DeltaOf(list, m) = MIDIUtilWriteVarLen(d)
    BY <1>4 DEF DeltaOf
  <2> HIDE DEF d
  <2>5. IsNumber(DeltaOf(list, m)) /\ Joined(DeltaOf(list, m)) = d % Weight(4)
    BY <2>3, <2>4, VarLenIsNumber
  <2>6. QED
    BY <1>3, <2>5 DEF IsNumber, d
<1>5. CASE ~(m > 1)
  <2>1. DeltaOf(list, m) = <<>>
    BY <1>5 DEF DeltaOf
  <2>2. QED
    BY <1>3, <1>5, <2>1, EmptySeq
<1>6. QED
  BY <1>4, <1>5

(* The list grows by its pieces, and with every message. *)
LEMMA EncodingGrows ==
    ASSUME NEW list \in Seq(Messages), NEW E, Encoding(E, list)
    PROVE  /\ \A m \in 0..Len(list) : E[m] \in Seq(Byte) /\ Len(E[m]) >= m
           /\ \A m \in 1..Len(list) :
                 Len(E[m]) = Len(E[m - 1]) + Len(DeltaOf(list, m)) + Len(BytesOf(list, m))
<1> DEFINE N == Len(list)
           D(m) == DeltaOf(list, m)
           B(m) == BytesOf(list, m)
           Good(m) == E[m] \in Seq(Byte) /\ Len(E[m]) >= m
           T == {m \in Nat : m <= N => Good(m)}
<1>0. N \in Nat
  BY LenProperties
<1> HIDE DEF D, B, N
<1>1. ASSUME NEW m \in 1..N, E[m - 1] \in Seq(Byte)
      PROVE  /\ E[m] \in Seq(Byte)
             /\ Len(E[m]) = Len(E[m - 1]) + Len(D(m)) + Len(B(m))
             /\ Len(E[m - 1]) \in Nat /\ Len(D(m)) \in Nat /\ Len(B(m)) \in {2, 3}
  <2>1. E[m] = E[m - 1] \o D(m) \o B(m)
    BY DEF Encoding, D, B, N
  <2>2. D(m) \in Seq(Byte) /\ B(m) \in Seq(Byte) /\ Len(B(m)) \in {2, 3}
    BY Pieces DEF D, B, N
  <2>3. E[m - 1] \o D(m) \in Seq(Byte) /\ Len(E[m - 1] \o D(m)) = Len(E[m - 1]) + Len(D(m))
    BY <1>1, <2>2, ConcatProperties
  <2>4. /\ (E[m - 1] \o D(m)) \o B(m) \in Seq(Byte)
        /\ Len((E[m - 1] \o D(m)) \o B(m)) = Len(E[m - 1] \o D(m)) + Len(B(m))
    BY <2>2, <2>3, ConcatProperties
  <2>5. Len(E[m - 1]) \in Nat /\ Len(D(m)) \in Nat
    BY <1>1, <2>2, LenProperties
  <2>6. QED
    BY <2>1, <2>2, <2>3, <2>4, <2>5
<1>2. \A m \in Nat : m \in T
  <2>1. 0 \in T
    <3>1. E[0] = <<>>
      BY DEF Encoding
    <3>2. Good(0)
      BY <3>1, EmptySeq
    <3>3. QED
      BY <3>2
  <2>2. ASSUME NEW m \in Nat, m \in T PROVE m + 1 \in T
    <3>1. SUFFICES ASSUME m + 1 <= N PROVE Good(m + 1)
      OBVIOUS
    <3>2. m + 1 \in 1..N /\ (m + 1) - 1 = m /\ Good(m)
      BY <1>0, <2>2, <3>1
    <3>3. /\ E[m + 1] \in Seq(Byte)
          /\ Len(E[m + 1]) = Len(E[m]) + Len(D(m + 1)) + Len(B(m + 1))
          /\ Len(E[m]) \in Nat /\ Len(D(m + 1)) \in Nat /\ Len(B(m + 1)) \in {2, 3}
      BY <1>1, <3>2
    <3>4. Len(E[m]) >= m
      BY <3>2
    <3> DEFINE a == Len(E[m])
               b == Len(D(m + 1))
               c == Len(B(m + 1))
               e == Len(E[m + 1])
    <3>5. e >= m + 1
      <4>1. e = a + b + c /\ a \in Nat /\ b \in Nat /\ c \in {2, 3} /\ a >= m
        BY <3>3, <3>4
      <4> HIDE DEF a, b, c, e
      <4>2. QED
        BY <4>1
    <3>6. QED
      BY <3>3, <3>5
  <2>3. QED
    <3> HIDE DEF T
    <3> QED BY <2>1, <2>2, NatInduct
<1>3. ASSUME NEW m \in 0..N PROVE Good(m)
  BY <1>0, <1>2
<1>4. ASSUME NEW m \in 1..N PROVE Len(E[m]) = Len(E[m - 1]) + Len(D(m)) + Len(B(m))
  <2>1. m - 1 \in 0..N
    BY <1>0
  <2>2. QED
    BY <1>1, <1>3, <2>1
<1>5. QED
  BY <1>3, <1>4 DEF D, B, N

(* Places in a sequence of three parts. *)
LEMMA ThreeParts ==
    ASSUME NEW a \in Seq(Byte), NEW b \in Seq(Byte), NEW c \in Seq(Byte)
    PROVE  LET s == a \o b \o c
           IN  /\ \A i \in 1..Len(a) : s[i] = a[i]
               /\ \A i \in 1..Len(b) : s[Len(a) + i] = b[i]
               /\ \A i \in 1..Len(c) : s[Len(a) + Len(b) + i] = c[i]
<1> DEFINE r == a \o b
           s == r \o c
           la == Len(a)
           lb == Len(b)
           lc == Len(c)
<1>1. r \in Seq(Byte) /\ Len(r) = la + lb /\ la \in Nat /\ lb \in Nat /\ lc \in Nat
  BY ConcatProperties, LenProperties
<1>2. \A i \in 1..(la + lb) : r[i] = IF i <= la THEN a[i] ELSE b[i - la]
  BY ConcatProperties
<1> HIDE DEF r
<1>3. \A i \in 1..((la + lb) + lc) : s[i] = IF i <= la + lb THEN r[i] ELSE c[i - (la + lb)]
  BY <1>1, ConcatProperties
<1> HIDE DEF s, la, lb, lc
<1>4. ASSUME NEW i \in 1..la PROVE s[i] = a[i]
  <2>1. i \in 1..(la + lb) /\ i \in 1..((la + lb) + lc) /\ i <= la + lb /\ i <= la
    BY <1>1
  <2>2. s[i] = r[i] /\ r[i] = a[i]
    BY <1>2, <1>3, <2>1
  <2>3. QED
    BY <2>2
<1>5. ASSUME NEW i \in 1..lb PROVE s[la + i] = b[i]
  <2>1. /\ la + i \in 1..(la + lb) /\ la + i \in 1..((la + lb) + lc)
        /\ la + i <= la + lb /\ ~(la + i <= la) /\ (la + i) - la = i
    BY <1>1
  <2>2. s[la + i] = r[la + i] /\ r[la + i] = b[i]
    BY <1>2, <1>3, <2>1
  <2>3. QED
    BY <2>2
<1>6. ASSUME NEW i \in 1..lc PROVE s[la + lb + i] = c[i]
  <2>1. /\ la + lb + i \in 1..((la + lb) + lc)
        /\ ~(la + lb + i <= la + lb) /\ (la + lb + i) - (la + lb) = i
    BY <1>1
  <2>2. QED
    BY <1>3, <2>1
<1>7. QED
  BY <1>4, <1>5, <1>6 DEF s, r, la, lb, lc

(* What is encoded stays where it is when the list goes on. *)
LEMMA EncodingStays ==
    ASSUME NEW list \in Seq(Messages), NEW E, Encoding(E, list), NEW m \in 0..Len(list)
    PROVE  /\ Len(E[m]) <= Len(E[Len(list)])
           /\ m < Len(list) => Len(E[m]) < Len(E[Len(list)])
           /\ \A i \in 1..Len(E[m]) : E[Len(list)][i] = E[m][i]
<1> DEFINE N == Len(list)
           L(k) == Len(E[k])
           Stays(k) == /\ L(k) <= L(N)
                       /\ k < N => L(k) < L(N)
                       /\ \A i \in 1..L(k) : E[N][i] = E[k][i]
           T == {k \in Nat : k <= N => Stays(N - k)}
<1>0. N \in Nat
  BY LenProperties
<1>1. ASSUME NEW k \in 0..N PROVE E[k] \in Seq(Byte) /\ L(k) \in Nat
  BY EncodingGrows, LenProperties
<1>2. ASSUME NEW k \in 0..N, k < N
      PROVE  L(k) < L(k + 1) /\ \A i \in 1..L(k) : E[k + 1][i] = E[k][i]
  <2> DEFINE d == DeltaOf(list, k + 1)
             b == BytesOf(list, k + 1)
  <2>1. k + 1 \in 1..N /\ (k + 1) - 1 = k
    BY <1>0, <1>2
  <2>2. E[k + 1] = E[k] \o d \o b
    BY <2>1 DEF Encoding
  <2>3. L(k + 1) = L(k) + Len(d) + Len(b)
    BY <2>1, EncodingGrows
  <2>4. d \in Seq(Byte) /\ b \in Seq(Byte) /\ Len(b) \in {2, 3}
    BY <2>1, Pieces
  <2>5. Len(d) \in Nat /\ L(k) \in Nat /\ E[k] \in Seq(Byte)
    BY <1>1, <2>4, LenProperties
  <2>6. L(k) < L(k + 1)
    <3> DEFINE x == L(k)
               y == L(k + 1)
               u == Len(d)
               v == Len(b)
    <3>1. y = x + u + v /\ x \in Nat /\ u \in Nat /\ v \in {2, 3}
      BY <2>3, <2>4, <2>5
    <3> HIDE DEF x, y, u, v
    <3>2. x < y
      BY <3>1
    <3>3. QED
      BY <3>2 DEF x, y
  <2> HIDE DEF d, b
  <2>7. \A i \in 1..Len(E[k]) : E[k + 1][i] = E[k][i]
    BY <2>2, <2>4, <2>5, ThreeParts
  <2>8. QED
    BY <2>6, <2>7
<1> HIDE DEF N, L
<1>3. \A k \in Nat : k \in T
  <2>1. 0 \in T
    <3>1. N \in 0..N /\ N - 0 = N
      BY <1>0
    <3>2. L(N) \in Nat
      BY <1>1, <3>1
    <3>3. Stays(N)
      BY <1>0, <3>2
    <3>4. QED
      BY <3>1, <3>3
  <2>2. ASSUME NEW k \in Nat, k \in T PROVE k + 1 \in T
    <3>1. SUFFICES ASSUME k + 1 <= N PROVE Stays(N - (k + 1))
      OBVIOUS
    <3> DEFINE j == N - (k + 1)
    <3>2. j \in 0..N /\ j < N /\ N - k = j + 1 /\ k <= N /\ N \in 0..N /\ j + 1 \in 0..N
      BY <1>0, <3>1
    <3> HIDE DEF j
    <3>3. Stays(j + 1)
      BY <2>2, <3>2
    <3>4. L(j) < L(j + 1) /\ \A i \in 1..L(j) : E[j + 1][i] = E[j][i]
      BY <1>2, <3>2
    <3>5. L(j) \in Nat /\ L(j + 1) \in Nat /\ L(N) \in Nat
      BY <1>1, <3>2
    <3>6. L(j) <= L(N) /\ L(j) < L(N)
      BY <3>3, <3>4, <3>5
    <3>7. ASSUME NEW i \in 1..L(j) PROVE E[N][i] = E[j][i]
      <4>1. i \in 1..L(j + 1)
        BY <3>4, <3>5
      <4>2. E[N][i] = E[j + 1][i] /\ E[j + 1][i] = E[j][i]
        BY <3>3, <3>4, <4>1
      <4>3. QED
        BY <4>2
    <3>8. Stays(j)
      BY <3>6, <3>7
    <3>9. QED
      BY <3>8 DEF j
  <2>3. QED
    <3> HIDE DEF T
    <3> QED BY <2>1, <2>2, NatInduct
<1>4. N - m \in Nat /\ N - m <= N /\ N - (N - m) = m
  BY <1>0 DEF N
<1>5. Stays(m)
  BY <1>3, <1>4
<1>6. QED
  BY <1>5 DEF N, L

-----------------------------------------------------------------------------
(* A message is read, with or without its status byte. *)
LEMMA MessageIsRead ==
    ASSUME NEW m \in Messages, NEW status, NEW bytes, NEW p \in Nat,
           \A i \in 1..Len(_encode_three_bytes(m, status)) :
               bytes[(p + i) - 1] = _encode_three_bytes(m, status)[i]
    PROVE  MessageAt(bytes, p, status) =
               [status |-> m.status, key |-> m.key, velocity |-> m.velocity,
                next |-> p + Len(_encode_three_bytes(m, status))]
<1> DEFINE w == _encode_three_bytes(m, status)
<1>1. /\ m.status \in Nat /\ m.status >= 128
      /\ m.key \in Nat /\ m.key < 128
  BY MessageTypes
<1>2. (p + 1) - 1 = p /\ (p + 2) - 1 = p + 1 /\ (p + 3) - 1 = p + 2
  OBVIOUS
<1>3. CASE status # 0 /\ m.status = status
  <2>1. w = <<m.key, m.velocity>>
    BY <1>3 DEF _encode_three_bytes
  <2>2. Len(w) = 2 /\ w[1] = m.key /\ w[2] = m.velocity
    BY <2>1
  <2>3. bytes[p] = m.key /\ bytes[p + 1] = m.velocity
    BY <1>2, <2>2
  <2>4. ~(bytes[p] >= 128)
    BY <1>1, <2>3
  <2> HIDE DEF w
  <2>5. MessageAt(bytes, p, status) =
            [status |-> status, key |-> m.key, velocity |-> m.velocity, next |-> p + 2]
    BY <2>3, <2>4 DEF MessageAt
  <2>6. QED
    BY <1>3, <2>2, <2>5 DEF w
<1>4. CASE ~(status # 0 /\ m.status = status)
  <2>1. w = <<m.status, m.key, m.velocity>>
    BY <1>4 DEF _encode_three_bytes
  <2>2. Len(w) = 3 /\ w[1] = m.status /\ w[2] = m.key /\ w[3] = m.velocity
    BY <2>1
  <2>3. bytes[p] = m.status /\ bytes[p + 1] = m.key /\ bytes[p + 2] = m.velocity
    BY <1>2, <2>2
  <2>4. bytes[p] >= 128
    BY <1>1, <2>3
  <2> HIDE DEF w
  <2>5. MessageAt(bytes, p, status) =
            [status |-> m.status, key |-> m.key, velocity |-> m.velocity, next |-> p + 3]
    BY <2>3, <2>4 DEF MessageAt
  <2>6. QED
    BY <2>2, <2>5 DEF w
<1>5. QED
  BY <1>3, <1>4

(* The pieces of the m-th message begin at position q. *)
IsAt(list, m, bytes, q) ==
    LET d == DeltaOf(list, m)
        b == BytesOf(list, m)
    IN  /\ (q + Len(d)) - 1 <= Len(bytes)
        /\ \A i \in 1..Len(d) : bytes[(q + i) - 1] = d[i]
        /\ \A i \in 1..Len(b) : bytes[((q + Len(d)) + i) - 1] = b[i]

(* It is read where its pieces are. *)
LEMMA ReadStep ==
    ASSUME NEW list \in Seq(Messages), NEW m \in 1..Len(list), NEW bytes \in Seq(Byte),
           ~ZeroFlag(bytes), NEW q \in Nat, q > 0, NEW before, IsAt(list, m, bytes, q)
    PROVE  ReadNext(bytes, m, [list |-> before, p |-> q, status |-> StatusOf(list, m - 1)]) =
               [list |-> Append(before, ReceivedAt(list, m)),
                p |-> q + Len(DeltaOf(list, m)) + Len(BytesOf(list, m)),
                status |-> StatusOf(list, m)]
<1> DEFINE d == DeltaOf(list, m)
           b == BytesOf(list, m)
           prev == [list |-> before, p |-> q, status |-> StatusOf(list, m - 1)]
           timed == m > 1 \/ ZeroFlag(bytes)
           p == IF timed THEN NumberEnd(bytes, prev.p) + 1 ELSE prev.p
           a == MessageAt(bytes, p, prev.status)
           t == IF timed THEN NumberAt(bytes, prev.p) ELSE 0
<1>0. /\ (q + Len(d)) - 1 <= Len(bytes)
      /\ \A i \in 1..Len(d) : bytes[(q + i) - 1] = d[i]
      /\ \A i \in 1..Len(b) : bytes[((q + Len(d)) + i) - 1] = b[i]
  BY DEF IsAt
<1>1. ReadNext(bytes, m, prev) =
          [list |-> Append(prev.list, [status |-> a.status, key |-> a.key,
                                       velocity |-> a.velocity, after |-> t]),
           p |-> a.next, status |-> a.status]
  BY DEF ReadNext
<1>2. prev.list = before /\ prev.p = q /\ prev.status = StatusOf(list, m - 1)
  OBVIOUS
<1>3. list[m] \in Messages
  BY ElementOfSeq
<1>4. m \in Nat /\ m >= 1
  BY LenProperties
<1>5. d \in Seq(Byte) /\ Len(d) \in Nat
  BY Pieces, LenProperties
<1> HIDE DEF prev
<1>6. /\ p = q + Len(d)
      /\ t = IF m = 1 THEN 0
             ELSE TimeDiff(list[m - 1].timestamp, list[m].timestamp) % Weight(4)
  <2>1. CASE m > 1
    <3>1. IsNumber(d)
      BY <2>1, Pieces
    <3>2. Joined(d) = TimeDiff(list[m - 1].timestamp, list[m].timestamp) % Weight(4)
      BY <2>1, Pieces
    <3> HIDE DEF d
    <3>3. NumberEnd(bytes, q) = (q + Len(d)) - 1 /\ NumberAt(bytes, q) = Joined(d)
      BY <1>0, <3>1, NumberIsRead
    <3>4. ((q + Len(d)) - 1) + 1 = q + Len(d)
      BY <1>5
    <3>5. p = NumberEnd(bytes, q) + 1 /\ t = NumberAt(bytes, q) /\ m # 1
      BY <1>2, <2>1
    <3> HIDE DEF p, t
    <3>6. QED
      BY <3>2, <3>3, <3>4, <3>5
  <2>2. CASE ~(m > 1)
    <3>1. d = <<>> /\ Len(d) = 0 /\ m = 1
      BY <1>4, <2>2, EmptySeq DEF DeltaOf
    <3>2. p = q /\ t = 0
      BY <1>2, <2>2
    <3> HIDE DEF p, t
    <3>3. QED
      BY <3>1, <3>2
  <2>3. QED
    BY <2>1, <2>2
<1> HIDE DEF p, t
<1>7. p \in Nat
  BY <1>5, <1>6
<1>8. a = [status |-> list[m].status, key |-> list[m].key, velocity |-> list[m].velocity,
           next |-> p + Len(b)]
  <2>1. b = _encode_three_bytes(list[m], prev.status)
    BY <1>2 DEF BytesOf
  <2>2. \A i \in 1..Len(b) : bytes[(p + i) - 1] = b[i]
    BY <1>0, <1>6
  <2> DEFINE x == list[m]
             s == prev.status
             w == _encode_three_bytes(x, s)
  <2>3. x \in Messages /\ b = w
    BY <1>3, <2>1
  <2> HIDE DEF b, x, s
  <2>4. \A i \in 1..Len(w) : bytes[(p + i) - 1] = w[i]
    BY <2>2, <2>3, Zenon
  <2>5. MessageAt(bytes, p, s) = [status |-> x.status, key |-> x.key, velocity |-> x.velocity,
                                  next |-> p + Len(w)]
    BY <1>7, <2>3, <2>4, MessageIsRead
  <2> HIDE DEF w
  <2>6. QED
    BY <2>3, <2>5 DEF x, s
<1> HIDE DEF a, d, b
<1>9. ReadNext(bytes, m, prev) =
         [list |-> Append(before, [status |-> list[m].status, key |-> list[m].key,
                                   velocity |-> list[m].velocity, after |-> t]),
          p |-> p + Len(b), status |-> list[m].status]
  BY <1>1, <1>2, <1>8
<1>10. StatusOf(list, m) = list[m].status
  BY <1>4 DEF StatusOf
<1>11. QED
  BY <1>6, <1>9, <1>10 DEF ReceivedAt, d, b, prev

(* The pieces of a message are where the list had come to. *)
LEMMA PiecesInPlace ==
    ASSUME NEW list \in Seq(Messages), NEW E, Encoding(E, list), NEW m \in 1..Len(list)
    PROVE  LET d == DeltaOf(list, m)
               b == BytesOf(list, m)
               k == Len(E[m - 1])
               all == E[Len(list)]
           IN  /\ k + Len(d) + Len(b) <= Len(all)
               /\ \A i \in 1..Len(d) : all[k + i] = d[i]
               /\ \A i \in 1..Len(b) : all[k + Len(d) + i] = b[i]
<1> DEFINE d == DeltaOf(list, m)
           b == BytesOf(list, m)
           e == E[m - 1]
           k == Len(e)
           ld == Len(d)
           lb == Len(b)
           N == Len(list)
           all == E[N]
<1>1. m - 1 \in 0..N /\ m \in 0..N /\ N \in 0..N
  BY LenProperties
<1>2. e \in Seq(Byte) /\ d \in Seq(Byte) /\ b \in Seq(Byte) /\ all \in Seq(Byte)
  BY <1>1, EncodingGrows, Pieces
<1>3. E[m] = e \o d \o b /\ Len(E[m]) = k + ld + lb
  BY EncodingGrows DEF Encoding
<1>4. k \in Nat /\ ld \in Nat /\ lb \in Nat
  BY <1>2, LenProperties
<1>5. Len(E[m]) <= Len(all) /\ \A i \in 1..Len(E[m]) : all[i] = E[m][i]
  BY <1>1, EncodingStays
<1> HIDE DEF d, b, e, all
<1>6. /\ \A i \in 1..ld : E[m][k + i] = d[i]
      /\ \A i \in 1..lb : E[m][k + ld + i] = b[i]
  BY <1>2, <1>3, ThreeParts
<1> HIDE DEF k, ld, lb
<1>7. ASSUME NEW i \in 1..ld PROVE all[k + i] = d[i]
  <2>1. k + i \in 1..(k + ld + lb)
    BY <1>4
  <2>2. all[k + i] = E[m][k + i]
    BY <1>3, <1>5, <2>1
  <2>3. QED
    BY <1>6, <2>2
<1>8. ASSUME NEW i \in 1..lb PROVE all[k + ld + i] = b[i]
  <2>1. k + ld + i \in 1..(k + ld + lb)
    BY <1>4
  <2>2. all[k + ld + i] = E[m][k + ld + i]
    BY <1>3, <1>5, <2>1
  <2>3. QED
    BY <1>6, <2>2
<1>9. k + ld + lb <= Len(all)
  BY <1>3, <1>5
<1>10. QED
  BY <1>7, <1>8, <1>9 DEF d, b, e, k, ld, lb, all

(* Bytes that are read as a header and the list b, without a first time    *)
(* difference.                                                             *)
IsHeaded(bytes, b) ==
    LET h == HeaderSize(bytes)
    IN  /\ bytes \in Seq(Byte) /\ h \in {1, 2} /\ Len(bytes) = h + Len(b)
        /\ ListLength(bytes) = Len(b) /\ ~ZeroFlag(bytes)
        /\ \A i \in 1..Len(b) : bytes[h + i] = b[i]

(* Both forms of the header are. *)
LEMMA HeaderIsRead ==
    ASSUME NEW b \in Seq(Byte), Len(b) <= BufferSize
    PROVE  IsHeaded(_rtpmidi_encode_header(FALSE, Len(b)) \o b, b)
<1> DEFINE n == Len(b)
           H == _rtpmidi_encode_header(FALSE, n)
           bytes == H \o b
<1>1. n \in Nat /\ n < 4096
  BY LenProperties DEF BufferSize
<1> HIDE DEF n
<1>2. ASSUME H \in Seq(Byte), Len(H) \in {1, 2}
      PROVE  /\ bytes \in Seq(Byte) /\ Len(bytes) = Len(H) + n
             /\ \A i \in 1..Len(H) : bytes[i] = H[i]
             /\ \A i \in 1..n : bytes[Len(H) + i] = b[i]
  <2> DEFINE k == Len(H)
  <2> HIDE DEF H
  <2>1. bytes \in Seq(Byte) /\ Len(bytes) = k + n
    BY <1>2, ConcatProperties DEF n
  <2>2. \A i \in 1..(k + n) : bytes[i] = IF i <= k THEN H[i] ELSE b[i - k]
    BY <1>2, ConcatProperties DEF n
  <2> HIDE DEF k, bytes
  <2>0. k \in {1, 2}
    BY <1>2 DEF k
  <2>3. ASSUME NEW i \in 1..k PROVE bytes[i] = H[i]
    <3>1. i \in 1..(k + n) /\ i <= k
      BY <1>1, <2>0
    <3>2. QED
      BY <2>2, <3>1
  <2>4. ASSUME NEW i \in 1..n PROVE bytes[k + i] = b[i]
    <3>1. k + i \in 1..(k + n) /\ ~(k + i <= k) /\ (k + i) - k = i
      BY <1>1, <2>0
    <3>2. QED
      BY <2>2, <3>1
  <2>5. QED
    BY <2>1, <2>3, <2>4 DEF k
<1>3. ASSUME n > 15 PROVE IsHeaded(bytes, b)
  <2> DEFINE x == 128 + 0 + (n \div 256)
             y == n % 256
  <2>1. H = <<x, y>>
    BY <1>3 DEF _rtpmidi_encode_header
  <2>2. /\ x \in Nat /\ x >= 128 /\ x < 144 /\ y \in Nat /\ y < 256
        /\ (x % 16) * 256 + y = n /\ (x \div 32) % 2 = 0
    BY <1>1
  <2> HIDE DEF x, y, H
  <2>3. x \in Byte /\ y \in Byte
    BY <2>2, ByteIs
  <2>4. H \in Seq(Byte) /\ Len(H) = 2 /\ H[1] = x /\ H[2] = y
    BY <2>1, <2>3
  <2>5. /\ bytes \in Seq(Byte) /\ Len(bytes) = 2 + n
        /\ bytes[1] = x /\ bytes[2] = y
        /\ \A i \in 1..n : bytes[2 + i] = b[i]
    <3>1. 1 \in 1..Len(H) /\ 2 \in 1..Len(H) /\ Len(H) \in {1, 2}
      BY <2>4
    <3>2. /\ bytes \in Seq(Byte) /\ Len(bytes) = Len(H) + n
          /\ \A i \in 1..Len(H) : bytes[i] = H[i]
          /\ \A i \in 1..n : bytes[Len(H) + i] = b[i]
      BY <1>2, <2>4, <3>1
    <3> HIDE DEF bytes
    <3>3. QED
      BY <2>4, <3>1, <3>2
  <2> HIDE DEF bytes
  <2>6. HeaderSize(bytes) = 2 /\ ListLength(bytes) = n /\ ~ZeroFlag(bytes)
    BY <2>2, <2>5 DEF HeaderSize, ListLength, ZeroFlag
  <2>7. IsHeaded(bytes, b)
    BY <2>5, <2>6 DEF IsHeaded, n
  <2>8. QED
    BY <2>7
<1>4. ASSUME ~(n > 15) PROVE IsHeaded(bytes, b)
  <2>1. H = <<0 + n>>
    BY <1>4 DEF _rtpmidi_encode_header
  <2>2. n < 128 /\ n % 16 = n /\ (n \div 32) % 2 = 0 /\ 0 + n = n
    BY <1>1, <1>4
  <2> HIDE DEF H
  <2>3. n \in Byte
    BY <1>1, <2>2, ByteIs
  <2>4. H \in Seq(Byte) /\ Len(H) = 1 /\ H[1] = n
    BY <2>1, <2>2, <2>3
  <2>5. /\ bytes \in Seq(Byte) /\ Len(bytes) = 1 + n
        /\ bytes[1] = n
        /\ \A i \in 1..n : bytes[1 + i] = b[i]
    <3>1. 1 \in 1..Len(H) /\ Len(H) \in {1, 2}
      BY <2>4
    <3>2. /\ bytes \in Seq(Byte) /\ Len(bytes) = Len(H) + n
          /\ \A i \in 1..Len(H) : bytes[i] = H[i]
          /\ \A i \in 1..n : bytes[Len(H) + i] = b[i]
      BY <1>2, <2>4, <3>1
    <3> HIDE DEF bytes
    <3>3. QED
      BY <2>4, <3>1, <3>2
  <2> HIDE DEF bytes
  <2>6. HeaderSize(bytes) = 1 /\ ListLength(bytes) = n /\ ~ZeroFlag(bytes)
    BY <1>1, <2>2, <2>5 DEF HeaderSize, ListLength, ZeroFlag
  <2>7. IsHeaded(bytes, b)
    BY <2>5, <2>6 DEF IsHeaded, n
  <2>8. QED
    BY <2>7
<1> HIDE DEF bytes
<1>5. IsHeaded(bytes, b)
  BY <1>3, <1>4
<1>6. QED
  BY <1>5 DEF bytes, H, n

(* One more message is appended to those read. *)
LEMMA OneMoreRead ==
    ASSUME NEW N \in Nat, NEW r, NEW m \in Nat, m + 1 <= N
    PROVE  Append([i \in 1..m |-> r[i]], r[m + 1]) = [i \in 1..(m + 1) |-> r[i]]
<1> DEFINE S == {r[i] : i \in 1..N}
           s == [i \in 1..m |-> r[i]]
           t == [i \in 1..(m + 1) |-> r[i]]
<1>1. s \in Seq(S) /\ Len(s) = m
  <2>1. \A i \in 1..m : r[i] \in S
    OBVIOUS
  <2> HIDE DEF S
  <2>2. s \in [1..m -> S]
    BY <2>1
  <2>3. QED
    BY <2>2
<1>2. t \in Seq(S) /\ Len(t) = m + 1
  <2>1. \A i \in 1..(m + 1) : r[i] \in S
    OBVIOUS
  <2> HIDE DEF S
  <2>2. t \in [1..(m + 1) -> S]
    BY <2>1
  <2>3. QED
    BY <2>2
<1>3. r[m + 1] \in S
  OBVIOUS
<1>4. \A i \in 1..m : s[i] = r[i]
  OBVIOUS
<1>5. \A i \in 1..(m + 1) : t[i] = r[i]
  OBVIOUS
<1> HIDE DEF S, s, t
<1> DEFINE a == Append(s, r[m + 1])
<1>6. /\ a \in Seq(S) /\ Len(a) = m + 1
      /\ \A i \in 1..m : a[i] = s[i]
      /\ a[m + 1] = r[m + 1]
  BY <1>1, <1>3, AppendProperties
<1> HIDE DEF a
<1>7. ASSUME NEW i \in 1..(m + 1) PROVE a[i] = t[i]
  <2>1. CASE i = m + 1
    BY <1>5, <1>6, <2>1
  <2>2. CASE i # m + 1
    <3>1. i \in 1..m
      BY <2>2
    <3>2. QED
      BY <1>4, <1>5, <1>6, <3>1
  <2>3. QED
    BY <2>1, <2>2
<1>8. a = t
  BY <1>2, <1>6, <1>7, SeqEqual
<1>9. QED
  BY <1>8 DEF a, s, t

(* After m messages the receiver has read m of them. *)
HasRead(list, E, h, m) ==
    [list |-> [i \in 1..m |-> AsReceived(list)[i]], p |-> h + 1 + Len(E[m]),
     status |-> StatusOf(list, m)]

(* A receiver that has read j - 1 messages goes on to read the j-th. *)
LEMMA NextIsRead ==
    ASSUME NEW list \in Seq(Messages), NEW E, Encoding(E, list), NEW bytes,
           IsHeaded(bytes, E[Len(list)]), NEW h, h = HeaderSize(bytes), NEW j \in 1..Len(list)
    PROVE  ReadNext(bytes, j, HasRead(list, E, h, j - 1)) = HasRead(list, E, h, j)
<1> DEFINE n == Len(list)
           all == E[n]
           la == Len(all)
           d == DeltaOf(list, j)
           b == BytesOf(list, j)
           k == Len(E[j - 1])
           q == h + 1 + k
           r == AsReceived(list)
           first == [i \in 1..(j - 1) |-> r[i]]
           ld == Len(d)
           lb == Len(b)
<1>1. n \in Nat /\ j \in Nat /\ j - 1 \in Nat /\ (j - 1) + 1 = j /\ j <= n /\ j - 1 \in 0..n
      /\ n \in 0..n
  BY LenProperties
<1>2. /\ bytes \in Seq(Byte) /\ h \in {1, 2} /\ Len(bytes) = h + la /\ ~ZeroFlag(bytes)
      /\ \A i \in 1..la : bytes[h + i] = all[i]
  BY DEF IsHeaded
<1>3. k \in Nat /\ ld \in Nat /\ lb \in Nat /\ la \in Nat
  BY <1>1, EncodingGrows, Pieces, LenProperties
<1>4. /\ k + ld + lb <= la
      /\ \A i \in 1..ld : all[k + i] = d[i]
      /\ \A i \in 1..lb : all[k + ld + i] = b[i]
  BY PiecesInPlace
<1>5. Len(E[j]) = k + ld + lb
  BY EncodingGrows
<1>6. HasRead(list, E, h, j - 1) = [list |-> first, p |-> q, status |-> StatusOf(list, j - 1)]
  BY DEF HasRead
<1>7. r[j] = ReceivedAt(list, j)
  BY DEF AsReceived
<1> HIDE DEF d, b, k, ld, lb, first, all, la, r, n
<1>8. q \in Nat /\ q > 0 /\ (q + ld) - 1 <= Len(bytes) /\ q + ld + lb = h + 1 + Len(E[j])
  <2>1. h \in {1, 2}
    BY <1>2
  <2>2. k + ld + lb <= la
    BY <1>4
  <2>3. q \in Nat /\ q > 0 /\ (q + ld) - 1 <= h + la /\ q + ld + lb = h + 1 + (k + ld + lb)
    BY <1>3, <2>1, <2>2
  <2>4. QED
    BY <1>2, <1>5, <2>3
<1>9. \A i \in 1..ld : bytes[(q + i) - 1] = d[i]
  <2>1. SUFFICES ASSUME NEW i \in 1..ld PROVE bytes[(q + i) - 1] = d[i]
    OBVIOUS
  <2>2. (q + i) - 1 = h + (k + i) /\ k + i \in 1..la
    <3>1. h \in {1, 2}
      BY <1>2
    <3>2. k + ld + lb <= la
      BY <1>4
    <3> QED BY <1>3, <3>1, <3>2
  <2>3. bytes[h + (k + i)] = all[k + i] /\ all[k + i] = d[i]
    BY <1>2, <1>4, <2>2
  <2>4. QED
    BY <2>2, <2>3
<1>10. \A i \in 1..lb : bytes[((q + ld) + i) - 1] = b[i]
  <2>1. SUFFICES ASSUME NEW i \in 1..lb PROVE bytes[((q + ld) + i) - 1] = b[i]
    OBVIOUS
  <2>2. ((q + ld) + i) - 1 = h + (k + ld + i) /\ k + ld + i \in 1..la
    <3>1. h \in {1, 2}
      BY <1>2
    <3>2. k + ld + lb <= la
      BY <1>4
    <3> QED BY <1>3, <3>1, <3>2
  <2>3. bytes[h + (k + ld + i)] = all[k + ld + i] /\ all[k + ld + i] = b[i]
    BY <1>2, <1>4, <2>2
  <2>4. QED
    BY <2>2, <2>3
<1> HIDE DEF q
<1>11. ReadNext(bytes, j, [list |-> first, p |-> q, status |-> StatusOf(list, j - 1)]) =
          [list |-> Append(first, ReceivedAt(list, j)), p |-> q + ld + lb,
           status |-> StatusOf(list, j)]
  <2>1. IsAt(list, j, bytes, q)
    BY <1>8, <1>9, <1>10 DEF IsAt, d, b, ld, lb
  <2>2. QED
    BY <1>2, <1>8, <2>1, ReadStep DEF d, b, ld, lb
<1>12. Append(first, r[j]) = [i \in 1..j |-> r[i]]
  <2> DEFINE m == j - 1
  <2>1. m \in Nat /\ m + 1 = j /\ m + 1 <= n
    BY <1>1
  <2> HIDE DEF m
  <2>2. Append([i \in 1..m |-> r[i]], r[m + 1]) = [i \in 1..(m + 1) |-> r[i]]
    BY <1>1, <2>1, OneMoreRead
  <2>3. QED
    BY <2>1, <2>2 DEF m, first
<1>13. QED
  BY <1>6, <1>7, <1>8, <1>11, <1>12 DEF HasRead, r

(* Message by message, a receiver reads the whole list. *)
LEMMA AllIsRead ==
    ASSUME NEW list \in Seq(Messages), NEW E, Encoding(E, list), NEW bytes,
           IsHeaded(bytes, E[Len(list)]), NEW h, h = HeaderSize(bytes),
           NEW N \in Nat, Len(list) <= N, NEW read,
           Reads(read, N, bytes, [list |-> <<>>, p |-> h + 1, status |-> 0])
    PROVE  \A m \in 0..Len(list) : read[m] = HasRead(list, E, h, m)
<1> DEFINE n == Len(list)
           T == {m \in Nat : m <= n => read[m] = HasRead(list, E, h, m)}
           all == E[n]
           begin == [list |-> <<>>, p |-> h + 1, status |-> 0]
<1>1. n \in Nat
  BY LenProperties
<1>2. /\ bytes \in Seq(Byte) /\ h \in {1, 2} /\ Len(bytes) = h + Len(all) /\ ~ZeroFlag(bytes)
      /\ \A i \in 1..Len(all) : bytes[h + i] = all[i]
  BY DEF IsHeaded
<1>3. \A m \in 0..N : read[m] = IF m = 0 THEN begin ELSE ReadNext(bytes, m, read[m - 1])
  <2> HIDE DEF begin
  <2>1. read = [m \in 0..N |-> IF m = 0 THEN begin ELSE ReadNext(bytes, m, read[m - 1])]
    BY DEF Reads, begin
  <2>2. QED
    BY <2>1, Zenon
<1>4. 0 \in T
  <2>1. read[0] = begin
    BY <1>3
  <2>2. E[0] = <<>> /\ Len(E[0]) = 0
    BY EmptySeq DEF Encoding
  <2>3. h + 1 + Len(E[0]) = h + 1
    BY <1>2, <2>2
  <2>4. [i \in 1..0 |-> AsReceived(list)[i]] = <<>>
    OBVIOUS
  <2>5. HasRead(list, E, h, 0) = begin
    BY <2>3, <2>4 DEF HasRead, StatusOf
  <2>6. QED
    BY <2>1, <2>5
<1>5. ASSUME NEW m \in Nat, m \in T PROVE m + 1 \in T
  <2>1. SUFFICES ASSUME m + 1 <= n PROVE read[m + 1] = HasRead(list, E, h, m + 1)
    OBVIOUS
  <2>2. m + 1 \in 1..n /\ m + 1 \in 0..N /\ m + 1 # 0 /\ (m + 1) - 1 = m /\ m <= n /\ m \in 0..n
    BY <1>1, <2>1
  <2>3. read[m + 1] = ReadNext(bytes, m + 1, read[m])
    BY <1>3, <2>2
  <2>4. read[m] = HasRead(list, E, h, m)
    BY <1>5, <2>2
  <2> DEFINE j == m + 1
  <2>5. j \in 1..n /\ j - 1 = m
    BY <2>2
  <2> HIDE DEF j, n
  <2>6. ReadNext(bytes, j, HasRead(list, E, h, j - 1)) = HasRead(list, E, h, j)
    BY <2>5, NextIsRead DEF n
  <2>7. QED
    BY <2>3, <2>4, <2>5, <2>6 DEF j
<1>6. \A m \in Nat : m \in T
  <2> HIDE DEF T
  <2> QED BY <1>4, <1>5, NatInduct
<1>7. QED
  BY <1>1, <1>6

(***************************************************************************)
(* Every list of messages that fits into the buffer survives its encoding: *)
(* what RTPMIDISessionSend puts into a packet - running status, time       *)
(* differences of one to four bytes, a header of one or two bytes - is     *)
(* read as the messages of the list, with the time between them.           *)
(***************************************************************************)
THEOREM ListSurvives ==
    ASSUME NEW list \in Seq(Messages), list # <<>>, Len(Payload(list)) <= BufferSize
    PROVE  Decoded(Payload(list)) = AsReceived(list)
<1>1. PICK E : /\ Encoding(E, list)
               /\ _rtpmidi_encode_messages(list[1].timestamp, list) =
                      [zero |-> FALSE, bytes |-> E[Len(list)]]
  BY EncodingIs
<1> DEFINE n == Len(list)
           b == E[n]
           lb == Len(b)
           bytes == Payload(list)
           h == HeaderSize(bytes)
           end == h + ListLength(bytes)
           begin == [list |-> <<>>, p |-> h + 1, status |-> 0]
           read == CHOOSE f : Reads(f, end, bytes, begin)
           AtEnd(k) == read[k].p = end + 1
           count == CHOOSE k \in 1..end : AtEnd(k) /\ \A i \in 1..(k - 1) : ~AtEnd(i)
<1>2. n \in Nat /\ n >= 1
  BY EmptySeq, LenProperties
<1>3. b \in Seq(Byte) /\ lb \in Nat /\ n <= lb
  BY <1>1, <1>2, EncodingGrows, LenProperties
<1>4. bytes = _rtpmidi_encode_header(FALSE, lb) \o b
  <2> DEFINE e == _rtpmidi_encode_messages(list[1].timestamp, list)
  <2>1. e.zero = FALSE /\ e.bytes = b
    BY <1>1
  <2>2. bytes = _rtpmidi_encode_header(e.zero, Len(e.bytes)) \o e.bytes
    BY DEF Payload
  <2> HIDE DEF e, bytes
  <2>3. QED
    BY <2>1, <2>2
<1>5. lb <= BufferSize
  <2> DEFINE H == _rtpmidi_encode_header(FALSE, lb)
  <2> HIDE DEF lb
  <2>1. H \in Seq(Nat) /\ Len(H) \in Nat
    <3>1. CASE lb > 15
      BY <1>3, <3>1 DEF _rtpmidi_encode_header
    <3>2. CASE ~(lb > 15)
      BY <1>3, <3>2 DEF _rtpmidi_encode_header
    <3>3. QED
      BY <3>1, <3>2
  <2> HIDE DEF H
  <2>2. b \in Seq(Nat)
    BY <1>3, ByteIs
  <2>3. Len(H \o b) = Len(H) + lb
    BY <2>1, <2>2, ConcatProperties DEF lb
  <2>4. Len(H) + lb <= BufferSize
    BY <1>4, <2>3 DEF H
  <2>5. QED
    BY <1>3, <2>1, <2>4 DEF BufferSize
<1>6. IsHeaded(bytes, b)
  BY <1>3, <1>4, <1>5, HeaderIsRead
<1>7. h \in {1, 2} /\ end = h + lb
  BY <1>6 DEF IsHeaded
<1>8. end \in Nat /\ n <= end /\ n \in 1..end
  <2> HIDE DEF h, end, lb, n
  <2> QED BY <1>2, <1>3, <1>7
<1>9. Decoded(bytes) = read[count].list
  <2> HIDE DEF bytes
  <2> QED BY DEF Decoded, Reads
<1>10. \A m \in 0..n : read[m] = HasRead(list, E, h, m)
  <2>1. Reads(read, end, bytes, begin)
    <3> HIDE DEF bytes, end, begin
    <3> QED BY <1>8, ReadExists
  <2> HIDE DEF bytes, end, read, h
  <2>2. QED
    BY <1>1, <1>6, <1>8, <2>1, AllIsRead DEF h
<1>11. ASSUME NEW m \in 1..n PROVE AtEnd(m) <=> m = n
  <2>1. m \in 0..n
    BY <1>2
  <2>2. read[m].p = h + 1 + Len(E[m])
    <3> HIDE DEF read, h
    <3>1. read[m] = HasRead(list, E, h, m)
      BY <1>10, <2>1
    <3>2. HasRead(list, E, h, m).p = h + 1 + Len(E[m])
      BY DEF HasRead
    <3>3. QED
      BY <3>1, <3>2
  <2> DEFINE l == Len(E[m])
  <2>3. l \in Nat /\ (m < n => l < lb) /\ (m = n => l = lb)
    BY <1>1, <2>1, EncodingGrows, EncodingStays, LenProperties
  <2>4. lb \in Nat /\ m <= n /\ m \in Nat
    BY <1>2, <1>3
  <2> HIDE DEF l, lb, h, end, n, read
  <2>5. h + 1 + l = end + 1 <=> m = n
    BY <1>2, <1>7, <2>3, <2>4
  <2>6. QED
    BY <2>2, <2>5 DEF l
<1> HIDE DEF AtEnd, end, n, read
<1>12. count = n
  <2> DEFINE Q(k) == AtEnd(k) /\ \A i \in 1..(k - 1) : ~AtEnd(i)
  <2>1. Q(n)
    <3>1. n \in 1..n
      BY <1>2
    <3>2. ASSUME NEW i \in 1..(n - 1) PROVE ~AtEnd(i)
      <4>1. i \in 1..n /\ i # n
        BY <1>2
      <4>2. QED
        BY <1>11, <4>1
    <3>3. QED
      BY <1>11, <3>1, <3>2
  <2>2. ASSUME NEW k \in 1..end, Q(k) PROVE k = n
    <3>1. CASE k <= n
      <4>1. k \in 1..n
        BY <1>2, <3>1
      <4>2. QED
        BY <1>11, <2>2, <4>1
    <3>2. CASE ~(k <= n)
      <4>1. n \in 1..(k - 1) /\ n \in 1..n
        BY <1>2, <1>8, <3>2
      <4>2. AtEnd(n)
        BY <1>11, <4>1
      <4>3. QED
        BY <2>2, <4>1, <4>2
    <3>3. QED
      BY <3>1, <3>2
  <2>3. count = CHOOSE k \in 1..end : Q(k)
    OBVIOUS
  <2> HIDE DEF Q
  <2>4. QED
    BY <1>8, <2>1, <2>2, <2>3
<1>13. read[n].list = AsReceived(list)
  <2>1. read[n] = HasRead(list, E, h, n)
    BY <1>2, <1>10
  <2>2. HasRead(list, E, h, n).list = [i \in 1..n |-> AsReceived(list)[i]]
    BY DEF HasRead
  <2>3. [i \in 1..n |-> AsReceived(list)[i]] = AsReceived(list)
    BY DEF AsReceived, n
  <2>4. QED
    BY <2>1, <2>2, <2>3
<1> HIDE DEF count, bytes
<1>14. QED
  BY <1>9, <1>12, <1>13 DEF bytes

=============================================================================
