---------------------------- MODULE MqttWSProofs ----------------------------
(***************************************************************************)
(* Theorems about one MQTT-over-WebSocket connection, for packets of any   *)
(* length cut into messages in any way: what is on the wire, in hand and   *)
(* delivered is the stream that arrived, and each direction is a relay.    *)
(***************************************************************************)
EXTENDS MqttWS, SequenceTheorems, TLAPS

(* A stretch of the wire with no end of a message, or with nothing else.   *)
Run(w, i, j) == \A k \in i..j : w[k] # End
Gap(w, i, j) == \A k \in i..j : w[k] = End

(* w holds the bytes after a, up to b, in order, with ends of messages     *)
(* anywhere among them. Said by neighbours, and by runs, because no        *)
(* induction over w is to be had.                                          *)
Stretch(w, a, b) ==
  /\ a <= b
  /\ Gap(w, 1, Len(w)) => a = b
  /\ \A j \in 1..Len(w) :
        w[j] # End =>
           /\ w[j] <= b
           /\ Gap(w, 1, j - 1) => w[j] = a + 1
           /\ Gap(w, j + 1, Len(w)) => w[j] = b
  /\ \A i, j \in 1..Len(w) :
        i < j /\ w[i] # End /\ w[j] # End /\ Gap(w, i + 1, j - 1) => w[j] = w[i] + 1
  /\ \A i, j \in 1..Len(w) :
        i <= j /\ Run(w, i, j) => w[j] = w[i] + (j - i)

(* How many bytes of a direction have been read. *)
Before(d) == Len(delivered[d]) * PacketLen
Taken(d)  == Before(d) + Len(packet[d])

OnWire(d)  == Stretch(wire[d], Taken(d), Len(sent[d]))
InHand(d)  == \A i \in 1..Len(packet[d]) : packet[d][i] = Before(d) + i
AtPeer(d)  ==
  \A k \in 1..Len(delivered[d]) : \A i \in 1..PacketLen :
     delivered[d][k][i] = (k - 1) * PacketLen + i
Numbered(d) == \A i \in 1..Len(sent[d]) : sent[d][i] = i

(* Nothing is lost between the wire and the peer.                          *)
Flow(d) == OnWire(d) /\ InHand(d) /\ AtPeer(d) /\ Numbered(d)
FlowInv == \A d \in Direction : Flow(d)

(* The DISCONNECT of a refusal is the last thing the client is sent. *)
FarewellInv ==
  /\ farewell => go["Down"] \in {"report", "done"}
  /\ serve = "route" => pass = "none"
  /\ pass \in {"none", "dial", "cert"} => go["Down"] = "idle"

WSInv == TypeOK /\ FlowInv /\ FarewellInv

-----------------------------------------------------------------------------
(* Stretches of the wire.                                                  *)

LEMMA StretchEmpty == ASSUME NEW a \in Nat PROVE Stretch(<< >>, a, a)
BY DEF Stretch, Gap, Run

Bounded(w, a, b) == w \in Seq(Nat) /\ a \in Nat /\ b \in Nat

(* The end of a message arrives. *)
LEMMA StretchEnd ==
  ASSUME NEW w, NEW a, NEW b, Bounded(w, a, b), Stretch(w, a, b)
  PROVE  Stretch(Append(w, End), a, b)
<1> DEFINE v == Append(w, End)
<1>1. /\ w \in Seq(Nat) /\ a \in Nat /\ b \in Nat /\ End \in Nat
      /\ Len(v) = Len(w) + 1 /\ v[Len(w) + 1] = End
      /\ \A i \in 1..Len(w) : v[i] = w[i]
  BY DEF Bounded, End
<1> HIDE DEF v
<1>2. \A i \in 1..Len(v) : v[i] # End => i \in 1..Len(w) /\ v[i] = w[i]
  BY <1>1
<1>3. \A i, j \in Nat : i >= 1 /\ j <= Len(w) =>
         /\ Gap(v, i, j) <=> Gap(w, i, j)
         /\ Run(v, i, j) <=> Run(w, i, j)
  <2>1. ASSUME NEW i \in Nat, NEW j \in Nat, i >= 1, j <= Len(w)
        PROVE  \A k \in i..j : v[k] = w[k]
    <3>1. Len(w) \in Nat /\ \A k \in i..j : k \in 1..Len(w)
      BY <1>1, <2>1
    <3> QED BY <1>1, <3>1
  <2> QED BY <2>1 DEF Gap, Run
<1>4. \A i \in 1..(Len(w) + 1) : Gap(v, i, Len(v)) => Gap(w, i, Len(w))
  BY <1>1 DEF Gap
<1>5. a <= b /\ (Gap(v, 1, Len(v)) => a = b)
  BY <1>1, <1>4 DEF Stretch
<1>6. ASSUME NEW j \in 1..Len(v), v[j] # End
      PROVE  /\ v[j] <= b
             /\ Gap(v, 1, j - 1) => v[j] = a + 1
             /\ Gap(v, j + 1, Len(v)) => v[j] = b
  <2>1. /\ j \in 1..Len(w) /\ v[j] = w[j] /\ w[j] # End
        /\ j - 1 \in Nat /\ j - 1 <= Len(w) /\ j + 1 \in 1..(Len(w) + 1)
    BY <1>1, <1>2, <1>6
  <2>2. Gap(v, 1, j - 1) => Gap(w, 1, j - 1)
    BY <1>3, <2>1
  <2>3. Gap(v, j + 1, Len(v)) => Gap(w, j + 1, Len(w))
    BY <1>4, <2>1
  <2> QED BY <2>1, <2>2, <2>3 DEF Stretch
<1>7. ASSUME NEW i \in 1..Len(v), NEW j \in 1..Len(v),
             i < j, v[i] # End, v[j] # End, Gap(v, i + 1, j - 1)
      PROVE  v[j] = v[i] + 1
  <2>1. i \in 1..Len(w) /\ j \in 1..Len(w) /\ v[i] = w[i] /\ v[j] = w[j]
    BY <1>2, <1>7
  <2>2. Gap(w, i + 1, j - 1)
    BY <1>1, <1>3, <1>7, <2>1
  <2> QED BY <1>7, <2>1, <2>2 DEF Stretch
<1>8. ASSUME NEW i \in 1..Len(v), NEW j \in 1..Len(v), i <= j, Run(v, i, j)
      PROVE  v[j] = v[i] + (j - i)
  <2>1. v[i] # End /\ v[j] # End
    BY <1>8 DEF Run
  <2>2. i \in 1..Len(w) /\ j \in 1..Len(w) /\ v[i] = w[i] /\ v[j] = w[j]
    BY <1>2, <2>1
  <2>3. Run(w, i, j)
    BY <1>1, <1>3, <1>8, <2>2
  <2> QED BY <1>8, <2>2, <2>3 DEF Stretch
<1> QED BY <1>5, <1>6, <1>7, <1>8 DEF Stretch, v

(* The next byte arrives. *)
LEMMA StretchByte ==
  ASSUME NEW w, NEW a, NEW b, Bounded(w, a, b), Stretch(w, a, b)
  PROVE  Stretch(Append(w, b + 1), a, b + 1)
<1> DEFINE v == Append(w, b + 1)
<1>1. /\ w \in Seq(Nat) /\ a \in Nat /\ b \in Nat /\ b + 1 # End
      /\ Len(v) = Len(w) + 1 /\ v[Len(w) + 1] = b + 1
      /\ \A i \in 1..Len(w) : v[i] = w[i]
  BY DEF Bounded, End
<1> HIDE DEF v
<1>2. \A i, j \in Nat : i >= 1 /\ j <= Len(w) =>
         /\ Gap(v, i, j) <=> Gap(w, i, j)
         /\ Run(v, i, j) <=> Run(w, i, j)
  <2>1. ASSUME NEW i \in Nat, NEW j \in Nat, i >= 1, j <= Len(w)
        PROVE  \A k \in i..j : v[k] = w[k]
    <3>1. Len(w) \in Nat /\ \A k \in i..j : k \in 1..Len(w)
      BY <1>1, <2>1
    <3> QED BY <1>1, <3>1
  <2> QED BY <2>1 DEF Gap, Run
<1>3. \A i \in 1..Len(v) : ~Gap(v, i, Len(v))
  BY <1>1 DEF Gap
<1>4. a <= b + 1 /\ ~Gap(v, 1, Len(v))
  BY <1>1, <1>3 DEF Stretch
<1>5. ASSUME NEW j \in 1..Len(v), v[j] # End
      PROVE  /\ v[j] <= b + 1
             /\ Gap(v, 1, j - 1) => v[j] = a + 1
             /\ Gap(v, j + 1, Len(v)) => v[j] = b + 1
  <2>1. CASE j = Len(w) + 1
    <3>1. Gap(v, 1, j - 1) => Gap(w, 1, Len(w))
      BY <1>1, <1>2, <2>1
    <3> QED BY <1>1, <2>1, <3>1 DEF Stretch
  <2>2. CASE j \in 1..Len(w)
    <3>1. /\ j + 1 \in 1..Len(v) /\ j - 1 \in Nat /\ j - 1 <= Len(w)
          /\ v[j] = w[j] /\ w[j] # End /\ w[j] \in Nat
      BY <1>1, <1>5, <2>2
    <3>2. w[j] <= b /\ (Gap(w, 1, j - 1) => w[j] = a + 1)
      BY <2>2, <3>1 DEF Stretch
    <3>3. (Gap(v, 1, j - 1) => Gap(w, 1, j - 1)) /\ ~Gap(v, j + 1, Len(v))
      BY <1>2, <1>3, <3>1
    <3> QED BY <1>1, <3>1, <3>2, <3>3
  <2> QED BY <1>1, <2>1, <2>2
<1>6. ASSUME NEW i \in 1..Len(v), NEW j \in 1..Len(v),
             i < j, v[i] # End, v[j] # End, Gap(v, i + 1, j - 1)
      PROVE  v[j] = v[i] + 1
  <2>1. i \in 1..Len(w) /\ v[i] = w[i] /\ i + 1 \in Nat /\ j - 1 \in Nat /\ j - 1 <= Len(w)
    BY <1>1, <1>6
  <2>2. Gap(w, i + 1, j - 1)
    BY <1>1, <1>2, <1>6, <2>1
  <2>3. CASE j = Len(w) + 1
    BY <1>1, <1>6, <2>1, <2>2, <2>3 DEF Stretch
  <2>4. CASE j \in 1..Len(w)
    BY <1>1, <1>6, <2>1, <2>2, <2>4 DEF Stretch
  <2> QED BY <1>1, <2>3, <2>4
<1>7. ASSUME NEW i \in 1..Len(v), NEW j \in 1..Len(v), i <= j, Run(v, i, j)
      PROVE  v[j] = v[i] + (j - i)
  <2>1. CASE j \in 1..Len(w)
    <3>1. i \in 1..Len(w) /\ Run(w, i, j)
      BY <1>1, <1>2, <1>7, <2>1
    <3> QED BY <1>1, <1>7, <2>1, <3>1 DEF Stretch
  <2>2. CASE j = Len(w) + 1 /\ i = j
    BY <1>1, <2>2
  <2>3. CASE j = Len(w) + 1 /\ i < j
    <3>1. i \in 1..Len(w) /\ Len(w) \in 1..Len(w) /\ i <= Len(w)
      BY <1>1, <2>3
    <3>2. Run(v, i, Len(w))
      BY <1>1, <1>7, <2>3 DEF Run
    <3>3. Run(w, i, Len(w)) /\ w[Len(w)] # End
      BY <1>1, <1>2, <3>1, <3>2 DEF Run
    <3>4. Gap(w, Len(w) + 1, Len(w))
      BY <1>1 DEF Gap
    <3>5. w[Len(w)] = w[i] + (Len(w) - i) /\ w[Len(w)] = b
      BY <3>1, <3>3, <3>4 DEF Stretch
    <3>6. w[i] \in Nat /\ v[i] = w[i] /\ b \in Nat
      BY <1>1, <3>1
    <3>7. v[j] = b + 1 /\ j = Len(w) + 1 /\ i \in Nat /\ Len(w) \in Nat
      BY <1>1, <2>3, <3>1
    <3> DEFINE wi == w[i]
               l  == Len(w)
    <3>8. /\ wi \in Nat /\ i \in Nat /\ l \in Nat
          /\ b = wi + (l - i) /\ v[j] = b + 1 /\ j = l + 1
      BY <3>5, <3>6, <3>7
    <3> HIDE DEF wi, l
    <3>9. v[j] = wi + (j - i)
      BY <3>8
    <3> QED BY <3>6, <3>9 DEF wi
  <2> QED BY <1>1, <1>7, <2>1, <2>2, <2>3
<1> QED
  <2>1. Stretch(v, a, b + 1)
    BY <1>4, <1>5, <1>6, <1>7 DEF Stretch
  <2> QED BY <2>1 DEF v

(* The bytes at its head are those after a, while no message ends.         *)
LEMMA StretchHead ==
  ASSUME NEW w, NEW a, NEW b, Bounded(w, a, b), Stretch(w, a, b),
         NEW n \in 0..Len(w), Run(w, 1, n)
  PROVE  a + n <= b /\ \A i \in 1..n : w[i] = a + i
<1>1. w \in Seq(Nat) /\ a \in Nat /\ b \in Nat /\ Len(w) \in Nat
  BY DEF Bounded
<1>2. CASE n = 0
  BY <1>1, <1>2 DEF Stretch
<1>3. CASE n >= 1
  <2>1. 1 \in 1..Len(w) /\ n \in 1..Len(w) /\ w[1] # End /\ w[n] # End
    BY <1>1, <1>3 DEF Run
  <2>2. w[1] = a + 1
    <3>1. Gap(w, 1, 1 - 1)
      BY DEF Gap
    <3> QED BY <2>1, <3>1 DEF Stretch
  <2>3. ASSUME NEW i \in 1..n PROVE w[i] = a + i
    <3>1. i \in 1..Len(w) /\ 1 <= i
      BY <1>1
    <3>2. Run(w, 1, i)
      BY <1>1 DEF Run
    <3>3. w[i] = w[1] + (i - 1)
      BY <2>1, <3>1, <3>2 DEF Stretch
    <3> QED BY <1>1, <2>2, <3>1, <3>3
  <2>4. w[n] = a + n
    BY <1>3, <2>3
  <2>5. w[n] <= b
    BY <2>1 DEF Stretch
  <2> QED BY <2>3, <2>4, <2>5
<1> QED BY <1>2, <1>3

(* n bytes are taken from the head, and with them the end of the message   *)
(* if it is next.                                                          *)
LEMMA StretchDrop ==
  ASSUME NEW w, NEW a, NEW b, Bounded(w, a, b), Stretch(w, a, b),
         NEW n \in 0..Len(w), Run(w, 1, n),
         NEW m \in n..Len(w), m = n \/ (m = n + 1 /\ w[m] = End)
  PROVE  Stretch(SubSeq(w, m + 1, Len(w)), a + n, b)
<1> DEFINE v == SubSeq(w, m + 1, Len(w))
<1>1. /\ w \in Seq(Nat) /\ a \in Nat /\ b \in Nat /\ Len(w) \in Nat
      /\ n \in Nat /\ m \in Nat /\ m <= Len(w) /\ Len(v) = Len(w) - m
      /\ \A i \in 1..Len(v) : m + i \in 1..Len(w) /\ v[i] = w[m + i]
  BY DEF Bounded
<1> HIDE DEF v
<1>0. m \in Nat /\ Len(v) \in Nat /\ m + Len(v) = Len(w)
  BY <1>1
<1>2. a + n <= b /\ (n >= 1 => n \in 1..Len(w) /\ w[n] = a + n /\ w[n] # End)
  <2>1. a + n <= b /\ \A i \in 1..n : w[i] = a + i
    BY StretchHead
  <2>2. n >= 1 => n \in 1..n /\ n \in 1..Len(w)
    BY <1>1
  <2> QED BY <2>1, <2>2 DEF Run
<1>3. ASSUME NEW k, Gap(w, m + 1, k)
      PROVE  Gap(w, n + 1, k)
  BY <1>1, <1>3 DEF Gap
<1>4. ASSUME NEW i \in Nat, NEW j \in Nat, i >= 1, j <= Len(v)
      PROVE  /\ Gap(v, i, j) => Gap(w, m + i, m + j)
             /\ Run(v, i, j) => Run(w, m + i, m + j)
  <2>1. ASSUME NEW k \in (m + i)..(m + j)
        PROVE  k - m \in i..j /\ v[k - m] = w[k]
    <3>1. k - m \in i..j /\ k - m \in 1..Len(v) /\ m + (k - m) = k
      BY <1>0, <1>4
    <3> QED BY <1>1, <3>1
  <2> QED BY <2>1 DEF Gap, Run
<1>5. ASSUME Gap(v, 1, Len(v))
      PROVE  a + n = b
  <2>1. Gap(w, n + 1, Len(w))
    <3>1. Gap(w, m + 1, m + Len(v))
      BY <1>1, <1>4, <1>5
    <3> QED BY <1>1, <1>3, <3>1
  <2>2. CASE n = 0
    BY <1>1, <2>1, <2>2 DEF Stretch
  <2>3. CASE n >= 1
    BY <1>1, <1>2, <2>1, <2>3 DEF Stretch
  <2> QED BY <1>1, <2>2, <2>3
<1>6. ASSUME NEW j \in 1..Len(v), v[j] # End
      PROVE  /\ v[j] <= b
             /\ Gap(v, 1, j - 1) => v[j] = (a + n) + 1
             /\ Gap(v, j + 1, Len(v)) => v[j] = b
  <2>0. j \in Nat /\ j - 1 \in Nat /\ j - 1 <= Len(v)
    BY <1>0
  <2>1. /\ m + j \in 1..Len(w) /\ v[j] = w[m + j] /\ w[m + j] # End
        /\ j \in Nat /\ j - 1 \in Nat /\ j - 1 <= Len(v)
    BY <1>1, <1>6, <2>0
  <2>2. ASSUME Gap(v, 1, j - 1)
        PROVE  v[j] = (a + n) + 1
    <3>1. Gap(w, n + 1, (m + j) - 1)
      <4>1. Gap(w, m + 1, m + (j - 1))
        BY <1>4, <2>1, <2>2
      <4>2. m + (j - 1) = (m + j) - 1
        BY <1>1, <2>1
      <4> QED BY <1>3, <4>1, <4>2
    <3>2. CASE n = 0
      <4>1. Gap(w, 1, (m + j) - 1)
        BY <3>1, <3>2
      <4>2. w[m + j] = a + 1
        BY <2>1, <4>1 DEF Stretch
      <4> QED BY <1>1, <2>1, <3>2, <4>2
    <3>3. CASE n >= 1
      <4>1. n < m + j
        BY <1>1, <2>1
      <4>2. w[m + j] = w[n] + 1
        BY <1>2, <2>1, <3>1, <3>3, <4>1 DEF Stretch
      <4> QED BY <1>2, <2>1, <3>3, <4>2
    <3> QED BY <1>1, <3>2, <3>3
  <2>3. ASSUME Gap(v, j + 1, Len(v))
        PROVE  v[j] = b
    <3>1. Gap(w, m + (j + 1), m + Len(v))
      BY <1>1, <1>4, <2>1, <2>3
    <3>2. m + (j + 1) = (m + j) + 1 /\ m + Len(v) = Len(w)
      BY <1>0, <2>1
    <3> QED BY <2>1, <3>1, <3>2 DEF Stretch
  <2> QED BY <2>1, <2>2, <2>3 DEF Stretch
<1>7. ASSUME NEW i \in 1..Len(v), NEW j \in 1..Len(v),
             i < j, v[i] # End, v[j] # End, Gap(v, i + 1, j - 1)
      PROVE  v[j] = v[i] + 1
  <2>1. /\ m + i \in 1..Len(w) /\ m + j \in 1..Len(w)
        /\ v[i] = w[m + i] /\ v[j] = w[m + j]
    BY <1>1
  <2>4. i < j
    BY <1>7
  <2>0. i + 1 \in Nat /\ i + 1 >= 1 /\ j - 1 \in Nat /\ j - 1 <= Len(v) /\ m + i < m + j
    BY <1>0, <2>4
  <2>2. Gap(w, m + (i + 1), m + (j - 1))
    BY <1>4, <1>7, <2>0
  <2>3. m + (i + 1) = (m + i) + 1 /\ m + (j - 1) = (m + j) - 1
    BY <1>0
  <2> QED BY <1>7, <2>0, <2>1, <2>2, <2>3 DEF Stretch
<1>8. ASSUME NEW i \in 1..Len(v), NEW j \in 1..Len(v), i <= j, Run(v, i, j)
      PROVE  v[j] = v[i] + (j - i)
  <2>5. i <= j
    BY <1>8
  <2>6. m + i <= m + j /\ i \in Nat /\ j \in Nat
    BY <1>0, <2>5
  <2>1. /\ m + i \in 1..Len(w) /\ m + j \in 1..Len(w)
        /\ v[i] = w[m + i] /\ v[j] = w[m + j] /\ m + i <= m + j
        /\ i \in Nat /\ j \in Nat
    BY <1>1, <2>6
  <2>2. Run(w, m + i, m + j)
    BY <1>1, <1>4, <1>8, <2>1
  <2>3. w[m + j] = w[m + i] + ((m + j) - (m + i))
    BY <2>1, <2>2 DEF Stretch
  <2>4. (m + j) - (m + i) = j - i
    BY <1>1, <2>1
  <2> QED BY <2>1, <2>3, <2>4
<1> QED
  <2>1. Stretch(v, a + n, b)
    BY <1>2, <1>5, <1>6, <1>7, <1>8 DEF Stretch
  <2> QED BY <2>1 DEF v

-----------------------------------------------------------------------------
(* Types.                                                                  *)

Piece == UNION {[1..n -> Byte] : n \in 0..PacketLen}

LEMMA PieceSeq ==
  ASSUME NEW s
  PROVE  s \in Piece <=> s \in Seq(Byte) /\ Len(s) <= PacketLen
<1>0. PacketLen \in Nat
  BY MqttWSAssumption
<1>1. ASSUME s \in Piece
      PROVE  s \in Seq(Byte) /\ Len(s) <= PacketLen
  <2>1. PICK n \in 0..PacketLen : s \in [1..n -> Byte]
    BY <1>1 DEF Piece
  <2>2. n \in Nat /\ s \in Seq(Byte) /\ Len(s) = n
    BY <1>0, <2>1, SeqDef
  <2> QED BY <1>0, <2>1, <2>2
<1>2. ASSUME s \in Seq(Byte), Len(s) <= PacketLen
      PROVE  s \in Piece
  <2>1. Len(s) \in 0..PacketLen /\ s \in [1..Len(s) -> Byte]
    BY <1>0, <1>2
  <2> QED BY <2>1 DEF Piece
<1> QED BY <1>1, <1>2

LEMMA PieceEmpty == << >> \in Piece
<1>1. << >> \in Seq(Byte) /\ Len(<< >>) = 0
  OBVIOUS
<1>2. Len(<< >>) <= PacketLen
  BY <1>1, MqttWSAssumption
<1> QED BY <1>1, <1>2, PieceSeq

(* What the types say of one direction. *)
LEMMA Types ==
  ASSUME TypeOK, NEW d \in Direction
  PROVE  /\ packet[d] \in Seq(Byte) /\ Len(packet[d]) \in 0..PacketLen
         /\ go[d] = "write" => Len(packet[d]) = PacketLen
         /\ wire[d] \in Seq(Byte \cup {End}) /\ wire[d] \in Seq(Nat)
         /\ sent[d] \in Seq(Byte) /\ delivered[d] \in Seq([1..PacketLen -> Byte])
         /\ PacketLen \in Nat \ {0} /\ Wanted(d) \in 0..PacketLen
<1>1. PacketLen \in Nat \ {0} /\ MaxUp \in Nat /\ MaxDown \in Nat
  BY MqttWSAssumption
<1>2. packet[d] \in Seq(Byte) /\ Len(packet[d]) \in 0..PacketLen
  <2>1. packet[d] \in Piece
    BY DEF TypeOK, Piece
  <2>2. packet[d] \in Seq(Byte) /\ Len(packet[d]) <= PacketLen
    BY <2>1, PieceSeq
  <2> QED BY <1>1, <2>2
<1>3. wire[d] \in Seq(Byte \cup {End})
  BY DEF TypeOK
<1>4. wire[d] \in Seq(Nat)
  <2>1. Byte \cup {End} \subseteq Nat
    BY <1>1 DEF Byte, End
  <2>2. \A i \in 1..Len(wire[d]) : wire[d][i] \in Nat
    BY <1>3, <2>1
  <2> QED BY <1>3, <2>2
<1> QED BY <1>1, <1>2, <1>3, <1>4 DEF TypeOK, Wanted

(* Read hands over n bytes, and takes m places off the wire.               *)
LEMMA Reading ==
  ASSUME TypeOK, NEW d \in Direction, NEW n \in 0..Wanted(d), n <= Len(wire[d]), Run(wire[d], 1, n),
         NEW m \in n..Len(wire[d]), Returns(d, n), Consumes(d, m)
  PROVE  /\ packet' \in [Direction -> Piece] /\ wire' \in [Direction -> Seq(Byte \cup {End})]
         /\ \A e \in Direction : e # d => packet'[e] = packet[e] /\ wire'[e] = wire[e] /\ go'[e] = go[e]
         /\ wire'[d] = SubSeq(wire[d], m + 1, Len(wire[d]))
         /\ Len(packet'[d]) = Len(packet[d]) + n
         /\ \A i \in 1..Len(packet[d]) : packet'[d][i] = packet[d][i]
         /\ \A i \in 1..n : packet'[d][Len(packet[d]) + i] = wire[d][i]
         /\ go'[d] = IF Len(packet'[d]) = PacketLen THEN "write" ELSE "read"
         /\ go' \in [Direction -> {"idle", "read", "write", "notify", "tell", "report", "done"}]
<1> DEFINE p == packet[d]
           x == SubSeq(wire[d], 1, n)
<1>1. /\ p \in Seq(Byte) /\ Len(p) \in 0..PacketLen /\ Wanted(d) = PacketLen - Len(p)
      /\ wire[d] \in Seq(Byte \cup {End}) /\ PacketLen \in Nat
  BY Types DEF Wanted
<1>2. /\ n \in Nat /\ m \in Nat /\ Len(p) \in Nat
      /\ Len(p) + n <= PacketLen /\ (n = Wanted(d) <=> Len(p) + n = PacketLen)
  BY <1>1
<1>3. /\ packet' = [packet EXCEPT ![d] = p \o x]
      /\ go' = [go EXCEPT ![d] = IF n = Wanted(d) THEN "write" ELSE "read"]
      /\ wire' = [wire EXCEPT ![d] = SubSeq(wire[d], m + 1, Len(wire[d]))]
  BY DEF Returns, Consumes
<1>4. x \in Seq(Byte) /\ Len(x) = n /\ \A i \in 1..n : x[i] = wire[d][i]
  <2>1. x \in Seq(Byte \cup {End}) /\ Len(x) = n /\ \A i \in 1..n : x[i] = wire[d][i]
    BY <1>1, <1>2
  <2>2. \A i \in 1..n : x[i] \in Byte
    BY <1>2, <2>1 DEF Run
  <2> QED BY <1>2, <2>1, <2>2
<1>5. /\ p \o x \in Seq(Byte) /\ Len(p \o x) = Len(p) + n
      /\ \A i \in 1..Len(p) : (p \o x)[i] = p[i]
      /\ \A i \in 1..n : (p \o x)[Len(p) + i] = x[i]
  <2> HIDE DEF p, x
  <2>0. p \in Seq(Byte) /\ x \in Seq(Byte)
    BY <1>1, <1>4
  <2>1. p \o x \in Seq(Byte) /\ Len(p \o x) = Len(p) + n
    BY <1>4, <2>0, ConcatProperties
  <2>2. \A i \in 1..(Len(p) + Len(x)) :
           (p \o x)[i] = IF i <= Len(p) THEN p[i] ELSE x[i - Len(p)]
    BY <2>0, ConcatProperties
  <2>3. ASSUME NEW i \in 1..n
        PROVE  (p \o x)[Len(p) + i] = x[i]
    <3>1. /\ Len(p) + i \in 1..(Len(p) + Len(x)) /\ ~(Len(p) + i <= Len(p))
          /\ (Len(p) + i) - Len(p) = i
      BY <1>2, <1>4
    <3> QED BY <2>2, <3>1
  <2> QED BY <1>2, <1>4, <2>1, <2>2, <2>3
<1>6. p \o x \in Piece
  BY <1>2, <1>5, PieceSeq
<1>7. SubSeq(wire[d], m + 1, Len(wire[d])) \in Seq(Byte \cup {End})
  BY <1>1, <1>2
<1>8. /\ packet \in [Direction -> Piece] /\ wire \in [Direction -> Seq(Byte \cup {End})]
      /\ go \in [Direction -> {"idle", "read", "write", "notify", "tell", "report", "done"}]
  BY DEF TypeOK, Piece
<1> HIDE DEF p, x
<1>9. packet'[d] = p \o x
  BY <1>3, <1>8
<1> QED BY <1>2, <1>3, <1>4, <1>5, <1>6, <1>7, <1>8, <1>9 DEF p

LEMMA TypeInit == Init => TypeOK
<1> SUFFICES ASSUME Init PROVE TypeOK
  OBVIOUS
<1>1. packet \in [Direction -> Piece]
  BY PieceEmpty DEF Init
<1>2. /\ wire \in [Direction -> Seq(Byte \cup {End})]
      /\ sent \in [Direction -> Seq(Byte)]
      /\ delivered \in [Direction -> Seq([1..PacketLen -> Byte])]
  BY DEF Init
<1>3. /\ go \in [Direction -> {"idle", "read", "write", "notify", "tell", "report", "done"}]
      /\ \A d \in Direction : go[d] # "write"
  BY DEF Init
<1>4. serve \in {"route", "done"} /\ errs \in 0..ErrsCap /\ stalled \in [Side -> BOOLEAN]
  BY DEF Init, ErrsCap
<1> QED BY <1>1, <1>2, <1>3, <1>4 DEF Init, TypeOK, Piece

LEMMA TypeStep == TypeOK /\ [Next]_vars => TypeOK'
<1> SUFFICES ASSUME TypeOK, [Next]_vars PROVE TypeOK'
  OBVIOUS
<1>1. CASE UNCHANGED vars
  BY <1>1 DEF TypeOK, vars, passVars, goVars, peerVars
<1>2. ASSUME NEW d \in Direction, ByteArrives(d)
      PROVE  TypeOK'
  <2>1. Len(sent[d]) + 1 \in Byte
    <3>1. Len(sent[d]) \in Nat /\ MaxUp \in Nat /\ MaxDown \in Nat
      BY Types, MqttWSAssumption
    <3> QED BY <1>2, <3>1 DEF ByteArrives, MaxBytes, Byte
  <2> DEFINE b == Len(sent[d]) + 1
  <2>3. /\ wire \in [Direction -> Seq(Byte \cup {End})]
        /\ sent \in [Direction -> Seq(Byte)]
        /\ wire' = [wire EXCEPT ![d] = Append(wire[d], b)]
        /\ sent' = [sent EXCEPT ![d] = Append(sent[d], b)]
    BY <1>2 DEF ByteArrives, Arrives, TypeOK
  <2> HIDE DEF b
  <2>4. b \in Byte
    BY <2>1 DEF b
  <2>2. /\ wire' \in [Direction -> Seq(Byte \cup {End})]
        /\ sent' \in [Direction -> Seq(Byte)]
    BY <2>3, <2>4
  <2> QED BY <1>2, <2>2 DEF ByteArrives, Arrives, TypeOK, passVars, goVars
<1>3. ASSUME NEW d \in Direction, EndArrives(d)
      PROVE  TypeOK'
  <2>1. wire' \in [Direction -> Seq(Byte \cup {End})]
    BY <1>3, Types DEF EndArrives, Arrives, TypeOK
  <2> QED BY <1>3, <2>1 DEF EndArrives, Arrives, TypeOK, passVars, goVars
<1>4. ASSUME NEW s \in Side, Leave(s) \/ Stall(s)
      PROVE  TypeOK'
  BY <1>4 DEF Leave, Stall, TypeOK, passVars, goVars
<1>5. CASE PassStep \/ NotServed \/ Upgrade \/ DialFails \/ Dial
  <2>1. CASE StartStream
    BY <2>1 DEF StartStream, Goto, TypeOK, peerVars
  <2>2. CASE CertFails \/ Disconnect \/ NotServed \/ DialFails
    BY <2>2 DEF CertFails, Disconnect, NotServed, DialFails,
                Goto, TypeOK, goVars, peerVars
  <2>4. CASE AwaitError
    BY <2>4 DEF AwaitError, Goto, TypeOK, ErrsCap, peerVars
  <2>3. CASE CloseOut \/ CloseIn \/ Upgrade \/ Dial
    BY <2>3 DEF CloseOut, CloseIn, Upgrade, Dial, SetOpen, Side,
                Goto, TypeOK, goVars, peerVars
  <2> QED BY <1>5, <2>1, <2>2, <2>3, <2>4 DEF PassStep
<1>6. ASSUME NEW d \in Direction, NextReader(d)
      PROVE  TypeOK'
  BY <1>6 DEF NextReader, TypeOK, passVars, peerVars
<1>7. ASSUME NEW d \in Direction, ReadBytes(d) \/ MessageEnds(d)
      PROVE  TypeOK'
  <2>1. PICK n \in 0..Wanted(d), m \in Nat :
           /\ Readable(d, n) /\ Returns(d, n) /\ Consumes(d, m)
           /\ n <= m /\ m <= Len(wire[d])
    <3>1. CASE ReadBytes(d)
      BY <3>1, Types DEF ReadBytes, Readable
    <3>2. CASE MessageEnds(d)
      BY <3>2, Types DEF MessageEnds, Readable
    <3> QED BY <1>7, <3>1, <3>2
  <2>2. n <= Len(wire[d]) /\ Run(wire[d], 1, n) /\ m \in n..Len(wire[d])
    BY <2>1, Types DEF Readable, Run
  <2>3. /\ packet' \in [Direction -> Piece] /\ wire' \in [Direction -> Seq(Byte \cup {End})]
        /\ go' \in [Direction -> {"idle", "read", "write", "notify", "tell", "report", "done"}]
        /\ \A e \in Direction : go'[e] = "write" => Len(packet'[e]) = PacketLen
    BY <2>1, <2>2, Reading, Types
  <2>4. reader' \in [Direction -> BOOLEAN]
    BY <1>7 DEF ReadBytes, MessageEnds, TypeOK
  <2>5. UNCHANGED <<passVars, errs, open, peerVars, delivered, farewell>>
    BY <1>7 DEF ReadBytes, MessageEnds
  <2> QED BY <2>3, <2>4, <2>5 DEF TypeOK, Piece, passVars, peerVars
<1>8. ASSUME NEW d \in Direction, ReadFails(d) \/ WriteFails(d) \/ Refuse(d)
      PROVE  TypeOK'
  <2>1. go' = [go EXCEPT ![d] = "report"] /\ farewell' \in BOOLEAN
    BY <1>8 DEF ReadFails, WriteFails, Refuse, Fails, TypeOK
  <2>2. UNCHANGED <<passVars, errs, reader, packet, wire, open, peerVars, delivered>>
    BY <1>8 DEF ReadFails, WriteFails, Refuse
  <2> QED BY <2>1, <2>2 DEF TypeOK, passVars, peerVars
<1>9. ASSUME NEW d \in Direction, WritePacket(d)
      PROVE  TypeOK'
  <2>1. packet[d] \in [1..PacketLen -> Byte]
    BY <1>9, Types DEF WritePacket
  <2>2. << >> \in Piece
    BY PieceEmpty
  <2>3. packet \in [Direction -> Piece]
    BY DEF TypeOK, Piece
  <2>4. packet' \in [Direction -> Piece] /\ (\A e \in Direction : e # d => packet'[e] = packet[e])
    BY <1>9, <2>2, <2>3 DEF WritePacket
  <2>5. /\ go' \in [Direction -> {"idle", "read", "write", "notify", "tell", "report", "done"}]
        /\ \A e \in Direction : go'[e] = "write" => e # d /\ go[e] = "write"
    BY <1>9 DEF WritePacket, TypeOK
  <2>6. delivered' \in [Direction -> Seq([1..PacketLen -> Byte])]
    BY <1>9, <2>1, Types DEF WritePacket, TypeOK
  <2>7. \A e \in Direction : go'[e] = "write" => Len(packet'[e]) = PacketLen
    BY <2>4, <2>5, Types
  <2>8. UNCHANGED <<passVars, errs, reader, wire, open, peerVars, farewell>>
    BY <1>9 DEF WritePacket
  <2> QED BY <2>4, <2>5, <2>6, <2>7, <2>8 DEF TypeOK, Piece, passVars, peerVars
<1>10. ASSUME NEW d \in Direction, Notify(d) \/ SendError(d)
       PROVE  TypeOK'
  <2>1. /\ errs' \in 0..ErrsCap
        /\ \E x \in {"read", "tell", "done"} : go' = [go EXCEPT ![d] = x]
    BY <1>10 DEF Notify, SendError, TypeOK, ErrsCap
  <2>2. UNCHANGED <<passVars, reader, packet, wire, open, peerVars, delivered, farewell>>
    BY <1>10 DEF Notify, SendError
  <2> QED BY <2>1, <2>2 DEF TypeOK, passVars, peerVars
<1> QED BY <1>1, <1>2, <1>3, <1>4, <1>5, <1>6, <1>7, <1>8, <1>9, <1>10
        DEF Next, PassStep, PeerStep, StreamStep

(* Every variable of a connection keeps its type: above all, what is in    *)
(* hand is never more than a packet, and is a whole one when it is written.*)
THEOREM TypeCorrect == Spec => []TypeOK
<1>1. Init => TypeOK
  BY TypeInit
<1>2. TypeOK /\ [Next]_vars => TypeOK'
  BY TypeStep
<1> QED BY <1>1, <1>2, PTL DEF Spec

-----------------------------------------------------------------------------
(* Nothing is lost.                                                        *)

LEMMA Times ==
  ASSUME NEW k \in Nat
  PROVE  /\ k * PacketLen \in Nat
         /\ (k + 1) * PacketLen = k * PacketLen + PacketLen
BY MqttWSAssumption

LEMMA FlowTypes ==
  ASSUME TypeOK, NEW d \in Direction
  PROVE  /\ Len(delivered[d]) \in Nat /\ Len(sent[d]) \in Nat /\ Len(packet[d]) \in Nat
         /\ Before(d) \in Nat /\ Taken(d) \in Nat
         /\ Bounded(wire[d], Taken(d), Len(sent[d]))
<1>1. Len(delivered[d]) \in Nat /\ Len(sent[d]) \in Nat /\ Len(packet[d]) \in Nat
  BY Types
<1>2. Before(d) \in Nat
  BY <1>1, Times DEF Before
<1>3. Taken(d) \in Nat
  BY <1>1, <1>2 DEF Taken
<1> QED BY <1>1, <1>2, <1>3, Types DEF Bounded

LEMMA FlowInit == Init => FlowInv
<1> SUFFICES ASSUME Init, NEW d \in Direction PROVE Flow(d)
  BY DEF FlowInv
<1>1. /\ wire[d] = << >> /\ sent[d] = << >> /\ packet[d] = << >> /\ delivered[d] = << >>
  BY DEF Init
<1>2. Len(<< >>) = 0 /\ 0 * PacketLen = 0
  BY MqttWSAssumption
<1>3. OnWire(d)
  <2>1. Taken(d) = 0
    BY <1>1, <1>2 DEF Taken, Before
  <2> QED BY <1>1, <1>2, <2>1, StretchEmpty DEF OnWire
<1> QED BY <1>1, <1>2, <1>3 DEF Flow, InHand, AtPeer, Numbered

(* A step that leaves a direction alone. *)
LEMMA FlowSame ==
  ASSUME NEW d \in Direction, Flow(d),
         wire'[d] = wire[d], sent'[d] = sent[d], packet'[d] = packet[d], delivered'[d] = delivered[d]
  PROVE  Flow(d)'
BY DEF Flow, OnWire, InHand, AtPeer, Numbered, Taken, Before

LEMMA FlowArrives ==
  ASSUME TypeOK, NEW d \in Direction, Flow(d), ByteArrives(d) \/ EndArrives(d)
  PROVE  Flow(d)'
<1>1. packet' = packet /\ delivered' = delivered
  BY DEF ByteArrives, EndArrives, Arrives, goVars
<1>2. InHand(d)' /\ AtPeer(d)' /\ Taken(d)' = Taken(d)
  BY <1>1 DEF Flow, InHand, AtPeer, Taken, Before
<1>3. Bounded(wire[d], Taken(d), Len(sent[d])) /\ Stretch(wire[d], Taken(d), Len(sent[d]))
  BY FlowTypes DEF Flow, OnWire
<1>4. CASE ByteArrives(d)
  <2>1. wire'[d] = Append(wire[d], Len(sent[d]) + 1) /\ sent'[d] = Append(sent[d], Len(sent[d]) + 1)
    BY <1>4 DEF ByteArrives, Arrives, TypeOK
  <2>2. /\ Len(sent'[d]) = Len(sent[d]) + 1 /\ sent'[d][Len(sent[d]) + 1] = Len(sent[d]) + 1
        /\ \A i \in 1..Len(sent[d]) : sent'[d][i] = sent[d][i]
    BY <2>1, Types
  <2>3. OnWire(d)'
    BY <1>2, <1>3, <2>1, <2>2, StretchByte DEF OnWire
  <2>4. Numbered(d)'
    BY <2>2, FlowTypes DEF Flow, Numbered
  <2> QED BY <1>2, <2>3, <2>4 DEF Flow
<1>5. CASE EndArrives(d)
  <2>1. wire'[d] = Append(wire[d], End) /\ sent' = sent
    BY <1>5 DEF EndArrives, Arrives, TypeOK
  <2>2. OnWire(d)' /\ Numbered(d)'
    BY <1>2, <1>3, <2>1, StretchEnd DEF OnWire, Flow, Numbered
  <2> QED BY <1>2, <2>2 DEF Flow
<1> QED BY <1>4, <1>5

(* What a step of wsWrapper.Read does, with the end of the message or not. *)
LEMMA ReadStep ==
  ASSUME TypeOK, NEW d \in Direction, ReadBytes(d) \/ MessageEnds(d)
  PROVE  \E n \in 0..Wanted(d) : \E m \in n..Len(wire[d]) :
            /\ Returns(d, n) /\ Consumes(d, m)
            /\ n <= Len(wire[d]) /\ Run(wire[d], 1, n)
            /\ m = n \/ (m = n + 1 /\ wire[d][m] = End)
<1>1. CASE ReadBytes(d)
  <2>1. PICK n \in 1..Wanted(d) : Readable(d, n) /\ Returns(d, n) /\ Consumes(d, n)
    BY <1>1 DEF ReadBytes
  <2>2. n \in 0..Wanted(d) /\ n \in n..Len(wire[d]) /\ Run(wire[d], 1, n) /\ n <= Len(wire[d])
    BY <2>1, Types DEF Readable, Run
  <2> QED BY <2>1, <2>2
<1>2. CASE MessageEnds(d)
  <2>1. PICK n \in 0..Wanted(d) :
           /\ Readable(d, n) /\ n < Len(wire[d]) /\ wire[d][n + 1] = End
           /\ Returns(d, n) /\ Consumes(d, n + 1)
    BY <1>2 DEF MessageEnds
  <2>2. n + 1 \in n..Len(wire[d]) /\ Run(wire[d], 1, n) /\ n <= Len(wire[d])
    BY <2>1, Types DEF Readable, Run
  <2> QED BY <2>1, <2>2
<1> QED BY <1>1, <1>2

LEMMA FlowReads ==
  ASSUME TypeOK, NEW d \in Direction, Flow(d), ReadBytes(d) \/ MessageEnds(d)
  PROVE  /\ Flow(d)'
         /\ \A e \in Direction : e # d => packet'[e] = packet[e] /\ wire'[e] = wire[e]
<1> PICK n \in 0..Wanted(d) : \E m \in n..Len(wire[d]) :
       /\ Returns(d, n) /\ Consumes(d, m)
       /\ n <= Len(wire[d]) /\ Run(wire[d], 1, n)
       /\ m = n \/ (m = n + 1 /\ wire[d][m] = End)
  BY ReadStep
<1>1. PICK m \in n..Len(wire[d]) :
         /\ Returns(d, n) /\ Consumes(d, m)
         /\ n <= Len(wire[d]) /\ Run(wire[d], 1, n)
         /\ m = n \/ (m = n + 1 /\ wire[d][m] = End)
  OBVIOUS
<1>2. n \in 0..Len(wire[d]) /\ n \in Nat
  BY <1>1, Types
<1>3. sent' = sent /\ delivered' = delivered
  BY DEF ReadBytes, MessageEnds, peerVars
<1>4. /\ wire'[d] = SubSeq(wire[d], m + 1, Len(wire[d]))
      /\ Len(packet'[d]) = Len(packet[d]) + n
      /\ \A i \in 1..Len(packet[d]) : packet'[d][i] = packet[d][i]
      /\ \A i \in 1..n : packet'[d][Len(packet[d]) + i] = wire[d][i]
      /\ \A e \in Direction : e # d => packet'[e] = packet[e] /\ wire'[e] = wire[e]
  BY <1>1, Reading
<1>5. Bounded(wire[d], Taken(d), Len(sent[d])) /\ Stretch(wire[d], Taken(d), Len(sent[d]))
  BY FlowTypes DEF Flow, OnWire
<1>6. /\ Before(d)' = Before(d) /\ Taken(d)' = Taken(d) + n
      /\ Before(d) \in Nat /\ Len(packet[d]) \in Nat /\ Taken(d) = Before(d) + Len(packet[d])
  <2>1. Before(d)' = Before(d)
    BY <1>3 DEF Before
  <2>2. Before(d) \in Nat /\ Len(packet[d]) \in Nat
    BY FlowTypes
  <2>3. Taken(d) = Before(d) + Len(packet[d]) /\ Taken(d)' = Before(d)' + Len(packet'[d])
    BY DEF Taken
  <2>4. Len(packet'[d]) = Len(packet[d]) + n
    BY <1>4
  <2> QED BY <1>2, <2>1, <2>2, <2>3, <2>4
<1>7. OnWire(d)'
  <2>1. Stretch(SubSeq(wire[d], m + 1, Len(wire[d])), Taken(d) + n, Len(sent[d]))
    BY <1>1, <1>2, <1>5, StretchDrop
  <2> QED BY <1>3, <1>4, <1>6, <2>1 DEF OnWire
<1>8. InHand(d)'
  <2>1. \A i \in 1..n : wire[d][i] = Taken(d) + i
    BY <1>1, <1>2, <1>5, StretchHead
  <2>2. ASSUME NEW i \in 1..(Len(packet[d]) + n)
        PROVE  packet'[d][i] = Before(d) + i
    <3>1. CASE i \in 1..Len(packet[d])
      BY <1>4, <3>1 DEF Flow, InHand
    <3>2. CASE i > Len(packet[d])
      <4>1. i - Len(packet[d]) \in 1..n /\ Len(packet[d]) + (i - Len(packet[d])) = i
        BY <1>2, <1>6, <3>2
      <4>2. packet'[d][i] = Taken(d) + (i - Len(packet[d]))
        BY <1>4, <2>1, <4>1
      <4> QED BY <1>2, <1>6, <4>2
    <3> QED BY <1>2, <1>6, <3>1, <3>2
  <2> QED BY <1>4, <1>6, <2>2 DEF InHand
<1> QED BY <1>3, <1>4, <1>7, <1>8 DEF Flow, AtPeer, Numbered

LEMMA FlowWrites ==
  ASSUME TypeOK, NEW d \in Direction, Flow(d), WritePacket(d)
  PROVE  /\ Flow(d)'
         /\ \A e \in Direction : e # d => packet'[e] = packet[e] /\ delivered'[e] = delivered[e]
<1>1. /\ packet'[d] = << >> /\ delivered'[d] = Append(delivered[d], packet[d])
      /\ \A e \in Direction : e # d => packet'[e] = packet[e] /\ delivered'[e] = delivered[e]
      /\ wire' = wire /\ sent' = sent
  BY DEF WritePacket, TypeOK, peerVars
<1>2. /\ packet[d] \in [1..PacketLen -> Byte] /\ Len(packet[d]) = PacketLen
      /\ delivered[d] \in Seq([1..PacketLen -> Byte]) /\ Len(delivered[d]) \in Nat
  BY Types DEF WritePacket
<1>3. /\ Len(delivered'[d]) = Len(delivered[d]) + 1
      /\ delivered'[d][Len(delivered[d]) + 1] = packet[d]
      /\ \A k \in 1..Len(delivered[d]) : delivered'[d][k] = delivered[d][k]
  BY <1>1, <1>2
<1>4. Len(packet'[d]) = 0
  BY <1>1
<1>5. Taken(d)' = Taken(d)
  <2>1. (Len(delivered[d]) + 1) * PacketLen = Len(delivered[d]) * PacketLen + PacketLen
    BY <1>2, Times
  <2>2. Len(delivered[d]) * PacketLen \in Nat /\ PacketLen \in Nat
    BY <1>2, Times, MqttWSAssumption
  <2> QED BY <1>2, <1>3, <1>4, <2>1, <2>2 DEF Taken, Before
<1>6. AtPeer(d)'
  <2>1. ASSUME NEW k \in 1..(Len(delivered[d]) + 1), NEW i \in 1..PacketLen
        PROVE  delivered'[d][k][i] = (k - 1) * PacketLen + i
    <3>1. CASE k \in 1..Len(delivered[d])
      BY <1>3, <3>1 DEF Flow, AtPeer
    <3>2. CASE k = Len(delivered[d]) + 1
      <4>1. delivered'[d][k][i] = Before(d) + i
        BY <1>2, <1>3, <3>2 DEF Flow, InHand
      <4>2. k - 1 = Len(delivered[d])
        BY <1>2, <3>2
      <4> QED BY <4>1, <4>2 DEF Before
    <3> QED BY <1>2, <3>1, <3>2
  <2> QED BY <1>3, <2>1 DEF AtPeer
<1>7. InHand(d)' /\ OnWire(d)' /\ Numbered(d)'
  BY <1>1, <1>4, <1>5 DEF Flow, InHand, OnWire, Numbered
<1> QED BY <1>1, <1>6, <1>7 DEF Flow

LEMMA FlowStep == TypeOK /\ FlowInv /\ [Next]_vars => FlowInv'
<1> SUFFICES ASSUME TypeOK, FlowInv, [Next]_vars, NEW e \in Direction PROVE Flow(e)'
  BY DEF FlowInv
<1>0. Flow(e)
  BY DEF FlowInv
<1>1. ASSUME UNCHANGED <<wire, sent, packet, delivered>>
      PROVE  Flow(e)'
  BY <1>0, <1>1, FlowSame
<1>2. CASE UNCHANGED vars
  BY <1>1, <1>2 DEF vars, goVars, peerVars
<1>3. ASSUME NEW d \in Direction, ByteArrives(d) \/ EndArrives(d)
      PROVE  Flow(e)'
  <2>1. CASE e = d
    BY <1>0, <1>3, <2>1, FlowArrives
  <2>2. CASE e # d
    <3>1. /\ wire'[e] = wire[e] /\ sent'[e] = sent[e]
          /\ packet'[e] = packet[e] /\ delivered'[e] = delivered[e]
      BY <1>3, <2>2 DEF ByteArrives, EndArrives, Arrives, TypeOK, goVars
    <3> QED BY <1>0, <3>1, FlowSame
  <2> QED BY <2>1, <2>2
<1>4. CASE PassStep \/ NotServed \/ Upgrade \/ DialFails \/ Dial \/ \E s \in Side : Leave(s) \/ Stall(s)
  BY <1>1, <1>4 DEF PassStep, CertFails, StartStream, AwaitError, Disconnect, CloseOut, CloseIn,
                    NotServed, Upgrade, DialFails, Dial, Leave, Stall, goVars, peerVars
<1>5. ASSUME NEW d \in Direction, ReadBytes(d) \/ MessageEnds(d)
      PROVE  Flow(e)'
  <2>1. sent' = sent /\ delivered' = delivered
    BY <1>5 DEF ReadBytes, MessageEnds, peerVars
  <2>2. Flow(d)' /\ (e # d => packet'[e] = packet[e] /\ wire'[e] = wire[e])
    BY <1>5, FlowReads DEF FlowInv
  <2> QED BY <1>0, <2>1, <2>2, FlowSame
<1>6. ASSUME NEW d \in Direction, WritePacket(d)
      PROVE  Flow(e)'
  <2>1. sent' = sent /\ wire' = wire
    BY <1>6 DEF WritePacket, peerVars
  <2>2. Flow(d)' /\ (e # d => packet'[e] = packet[e] /\ delivered'[e] = delivered[e])
    BY <1>6, FlowWrites DEF FlowInv
  <2> QED BY <1>0, <2>1, <2>2, FlowSame
<1>7. ASSUME NEW d \in Direction,
             \/ NextReader(d) \/ ReadFails(d) \/ WriteFails(d) \/ Refuse(d)
             \/ Notify(d) \/ SendError(d)
      PROVE  Flow(e)'
  BY <1>1, <1>7 DEF NextReader, ReadFails, WriteFails, Refuse, Notify, SendError, peerVars
<1> QED BY <1>2, <1>3, <1>4, <1>5, <1>6, <1>7 DEF Next, PeerStep, StreamStep

LEMMA FarewellStep == FarewellInv /\ TypeOK /\ [Next]_vars => FarewellInv'
<1> SUFFICES ASSUME FarewellInv, TypeOK, [Next]_vars PROVE FarewellInv'
  OBVIOUS
<1> DEFINE Early(at) == at \in {"none", "dial", "cert"}
           Begins == (serve = "route" => pass = "none")'
<1>1. ASSUME UNCHANGED <<go, farewell>>, Early(pass') => Early(pass), Begins
      PROVE  FarewellInv'
  BY <1>1 DEF FarewellInv
<1>2. CASE UNCHANGED vars \/ PeerStep
  <2>1. (Early(pass') => Early(pass)) /\ Begins
    BY <1>2 DEF vars, PeerStep, NotServed, Upgrade, DialFails, Dial, ByteArrives, EndArrives, Arrives,
                Leave, Stall, Goto, passVars, FarewellInv
  <2>2. UNCHANGED <<go, farewell>>
    BY <1>2 DEF vars, PeerStep, NotServed, Upgrade, DialFails, Dial, ByteArrives, EndArrives, Arrives,
                Leave, Stall, goVars
  <2> QED BY <1>1, <2>1, <2>2
<1>3. CASE PassStep
  <2>1. CASE StartStream
    BY <2>1 DEF StartStream, Goto, FarewellInv, peerVars
  <2>2. CASE CertFails \/ AwaitError \/ Disconnect \/ CloseOut \/ CloseIn
    <3>1. (Early(pass') => Early(pass)) /\ Begins
      BY <2>2 DEF CertFails, AwaitError, Disconnect, CloseOut, CloseIn, Goto, FarewellInv
    <3>2. UNCHANGED <<go, farewell>>
      BY <2>2 DEF CertFails, AwaitError, Disconnect, CloseOut, CloseIn, goVars
    <3> QED BY <1>1, <3>1, <3>2
  <2> QED BY <1>3, <2>1, <2>2 DEF PassStep
<1>4. ASSUME NEW d \in Direction, StreamStep(d)
      PROVE  FarewellInv'
  <2>0. UNCHANGED <<serve, pass>>
    BY <1>4 DEF StreamStep, NextReader, ReadBytes, MessageEnds, ReadFails, WritePacket, WriteFails,
                Refuse, Notify, SendError, passVars
  <2>1. CASE NextReader(d)
    BY <2>0, <2>1 DEF NextReader, FarewellInv
  <2>2. CASE Refuse(d)
    BY <2>0, <2>2 DEF Refuse, Fails, FarewellInv, TypeOK, Direction
  <2>3. CASE ReadFails(d) \/ WriteFails(d)
    BY <2>0, <2>3 DEF ReadFails, WriteFails, Fails, FarewellInv, TypeOK, Direction
  <2>4. CASE ReadBytes(d) \/ MessageEnds(d) \/ WritePacket(d) \/ Notify(d)
    <3>1. /\ go[d] \in {"read", "write", "notify"} /\ farewell' = farewell
          /\ \E x : go' = [go EXCEPT ![d] = x]
      BY <2>4 DEF ReadBytes, MessageEnds, WritePacket, Notify, Readable, Returns
    <3> QED BY <2>0, <3>1 DEF FarewellInv, TypeOK
  <2>5. CASE SendError(d)
    <3>1. /\ \/ go[d] = "tell"
             \/ go[d] = "report" /\ go' = [go EXCEPT ![d] = "done"]
          /\ farewell' = farewell /\ \E x : go' = [go EXCEPT ![d] = x]
      BY <2>5 DEF SendError, TypeOK
    <3> QED BY <2>0, <3>1 DEF FarewellInv, TypeOK
  <2> QED BY <1>4, <2>1, <2>2, <2>3, <2>4, <2>5 DEF StreamStep
<1> QED BY <1>2, <1>3, <1>4 DEF Next

(* The three together are the invariant of a connection.                   *)
LEMMA Invariant == Spec => []WSInv
<1>1. Init => WSInv
  <2>1. Init => FarewellInv
    BY DEF Init, FarewellInv, Direction
  <2> QED BY <2>1, TypeInit, FlowInit DEF WSInv
<1>2. WSInv /\ [Next]_vars => WSInv'
  BY TypeStep, FlowStep, FarewellStep DEF WSInv
<1> QED BY <1>1, <1>2, PTL DEF Spec

(* At every step, all that has arrived in a direction is with the peer, in *)
(* hand or on the wire, in order: dropping the borders of messages, which  *)
(* may hold no byte, loses, repeats and tears nothing.                     *)
THEOREM NothingLost == Spec => []FlowInv
<1>1. WSInv => FlowInv
  BY DEF WSInv
<1> QED BY <1>1, Invariant, PTL

-----------------------------------------------------------------------------
(* The packets of a sequence of bytes.                                     *)

LEMMA TimesMonotone ==
  ASSUME NEW j \in Nat, NEW k \in Nat, j <= k
  PROVE  j * PacketLen <= k * PacketLen
BY MqttWSAssumption

(* A place in the part of length n that starts after x.                    *)
LEMMA Offset ==
  ASSUME NEW x \in Nat, NEW n \in Nat, NEW y \in Nat, NEW l \in Nat,
         y = x + n, y <= l, NEW i \in 1..n
  PROVE  x + i \in 1..l
OBVIOUS

LEMMA Divided ==
  ASSUME NEW n \in Nat
  PROVE  /\ n \div PacketLen \in Nat
         /\ (n \div PacketLen) * PacketLen <= n
         /\ n < (n \div PacketLen) * PacketLen + PacketLen
BY MqttWSAssumption

(* How many whole packets there are in n bytes. *)
LEMMA WholePackets ==
  ASSUME NEW n \in Nat, NEW k \in Nat
  PROVE  k * PacketLen <= n <=> k <= n \div PacketLen
<1> DEFINE q == n \div PacketLen
<1>1. q \in Nat /\ q * PacketLen <= n /\ n < q * PacketLen + PacketLen
  BY Divided
<1>2. k * PacketLen \in Nat /\ q * PacketLen \in Nat /\ (q + 1) * PacketLen = q * PacketLen + PacketLen
  BY <1>1, Times
<1> HIDE DEF q
<1>3. ASSUME k <= q
      PROVE  k * PacketLen <= n
  <2>1. k * PacketLen <= q * PacketLen
    BY <1>1, <1>3, TimesMonotone
  <2> QED BY <1>1, <1>2, <2>1
<1>4. ASSUME ~(k <= q)
      PROVE  ~(k * PacketLen <= n)
  <2>1. q + 1 \in Nat /\ q + 1 <= k
    BY <1>1, <1>4
  <2>2. (q + 1) * PacketLen <= k * PacketLen
    BY <2>1, TimesMonotone
  <2>3. PacketLen \in Nat
    BY MqttWSAssumption
  <2> QED BY <1>1, <1>2, <2>2, <2>3
<1> QED BY <1>3, <1>4 DEF q

LEMMA PacketAt ==
  ASSUME NEW s \in Seq(Byte), NEW k \in 1..(Len(s) \div PacketLen)
  PROVE  /\ (k - 1) * PacketLen \in Nat
         /\ k * PacketLen = (k - 1) * PacketLen + PacketLen /\ k * PacketLen <= Len(s)
         /\ Packets(s)[k] \in Packet
         /\ \A i \in 1..PacketLen : Packets(s)[k][i] = s[(k - 1) * PacketLen + i]
<1> DEFINE a == (k - 1) * PacketLen
<1>1. /\ Len(s) \in Nat /\ PacketLen \in Nat \ {0} /\ k \in Nat /\ k - 1 \in Nat /\ (k - 1) + 1 = k
      /\ k <= Len(s) \div PacketLen
  BY Divided, MqttWSAssumption
<1>2. a \in Nat /\ k * PacketLen = a + PacketLen
  BY <1>1, Times
<1>3. k * PacketLen <= Len(s)
  BY <1>1, WholePackets
<1>4. Packets(s)[k] = SubSeq(s, a + 1, a + PacketLen)
  BY <1>2 DEF Packets
<1> HIDE DEF a
<1>5. /\ SubSeq(s, a + 1, a + PacketLen) \in [1..PacketLen -> Byte]
      /\ \A i \in 1..PacketLen : SubSeq(s, a + 1, a + PacketLen)[i] = s[a + i]
  <2>1. a + 1 \in Nat /\ a + PacketLen \in Nat /\ (a + PacketLen) - (a + 1) + 1 = PacketLen
    BY <1>1, <1>2
  <2>2. \A i \in 1..PacketLen : (a + 1) + i - 1 = a + i /\ a + i \in 1..Len(s)
    BY <1>1, <1>2, <1>3
  <2>3. SubSeq(s, a + 1, a + PacketLen) = [i \in 1..PacketLen |-> s[a + i]]
    <3>1. SubSeq(s, a + 1, a + PacketLen)
             = [i \in 1..((a + PacketLen) - (a + 1) + 1) |-> s[(a + 1) + i - 1]]
      BY <2>1, SMTT(30)
    <3> QED BY <2>1, <2>2, <3>1
  <2>4. \A i \in 1..PacketLen : s[a + i] \in Byte
    BY <2>2
  <2>5. [i \in 1..PacketLen |-> s[a + i]] \in [1..PacketLen -> Byte]
    BY <2>4
  <2> QED BY <2>3, <2>5
<1> QED BY <1>2, <1>3, <1>4, <1>5 DEF a, Packet

LEMMA PacketsSeq ==
  ASSUME NEW s \in Seq(Byte)
  PROVE  Packets(s) \in Seq(Packet) /\ Len(Packets(s)) = Len(s) \div PacketLen
<1>1. Len(s) \div PacketLen \in Nat
  BY Divided
<1>2. Packets(s) \in [1..(Len(s) \div PacketLen) -> Packet]
  <2>1. \A k \in 1..(Len(s) \div PacketLen) : Packets(s)[k] \in Packet
    BY PacketAt
  <2> QED BY <2>1 DEF Packets
<1> QED BY <1>1, <1>2

(* A byte more completes one packet more, or none; those before stay.      *)
LEMMA PacketsGrow ==
  ASSUME NEW s \in Seq(Byte), NEW x \in Byte
  PROVE  LET t == Packets(Append(s, x))
         IN  t = Packets(s) \/ \E p \in Packet : t = Append(Packets(s), p)
<1> DEFINE s1 == Append(s, x)
           q == Len(s) \div PacketLen
           r == Len(s1) \div PacketLen
<1>1. /\ s1 \in Seq(Byte) /\ Len(s1) = Len(s) + 1 /\ Len(s) \in Nat
      /\ \A i \in 1..Len(s) : s1[i] = s[i]
  OBVIOUS
<1> HIDE DEF s1
<1>2. q \in Nat /\ r \in Nat /\ PacketLen \in Nat \ {0}
  BY <1>1, Divided, MqttWSAssumption
<1>3. q <= r
  <2>1. q * PacketLen \in Nat /\ q * PacketLen <= Len(s)
    BY <1>1, <1>2, Times, Divided
  <2>2. q * PacketLen <= Len(s1)
    BY <1>1, <2>1
  <2> QED BY <1>1, <1>2, <2>2, WholePackets
<1>4. r <= q + 1
  <2>1. ~((q + 1) * PacketLen <= Len(s))
    BY <1>1, <1>2, WholePackets
  <2>2. (q + 2) * PacketLen = (q + 1) * PacketLen + PacketLen /\ (q + 1) * PacketLen \in Nat
    BY <1>2, Times
  <2>3. ~((q + 2) * PacketLen <= Len(s1))
    BY <1>1, <1>2, <2>1, <2>2
  <2>4. ~(q + 2 <= r)
    BY <1>1, <1>2, <2>3, WholePackets
  <2> QED BY <1>2, <2>4
<1>5. /\ Packets(s) \in Seq(Packet) /\ Len(Packets(s)) = q
      /\ Packets(s1) \in Seq(Packet) /\ Len(Packets(s1)) = r
  BY <1>1, PacketsSeq
<1>6. ASSUME NEW k \in 1..q
      PROVE  Packets(s1)[k] = Packets(s)[k]
  <2>1. k \in 1..r
    BY <1>2, <1>3
  <2>2. /\ Packets(s)[k] \in Packet /\ Packets(s1)[k] \in Packet
        /\ \A i \in 1..PacketLen : Packets(s)[k][i] = s[(k - 1) * PacketLen + i]
        /\ \A i \in 1..PacketLen : Packets(s1)[k][i] = s1[(k - 1) * PacketLen + i]
    BY <1>1, <2>1, PacketAt
  <2>3. ASSUME NEW i \in 1..PacketLen
        PROVE  (k - 1) * PacketLen + i \in 1..Len(s)
    <3>1. /\ (k - 1) * PacketLen \in Nat /\ k * PacketLen = (k - 1) * PacketLen + PacketLen
          /\ k * PacketLen <= Len(s)
      BY PacketAt
    <3>2. k * PacketLen \in Nat /\ PacketLen \in Nat /\ Len(s) \in Nat
      BY <1>1, <3>1, MqttWSAssumption
    <3> QED BY <3>1, <3>2, Offset
  <2>4. \A i \in 1..PacketLen : Packets(s1)[k][i] = Packets(s)[k][i]
    BY <1>1, <2>2, <2>3
  <2>5. /\ Packets(s)[k] = [i \in 1..PacketLen |-> Packets(s)[k][i]]
        /\ Packets(s1)[k] = [i \in 1..PacketLen |-> Packets(s1)[k][i]]
    BY <2>2 DEF Packet
  <2> QED BY <2>4, <2>5
<1>7. CASE r = q
  <2>1. Packets(s1) = Packets(s)
    BY <1>2, <1>5, <1>6, <1>7
  <2> QED BY <2>1 DEF s1
<1>8. CASE r = q + 1
  <2> DEFINE p == Packets(s1)[q + 1]
  <2>1. p \in Packet
    BY <1>2, <1>5, <1>8
  <2>2. Append(Packets(s), p) \in Seq(Packet) /\ Len(Append(Packets(s), p)) = q + 1
    BY <1>5, <2>1
  <2>3. \A k \in 1..(q + 1) : Append(Packets(s), p)[k] = Packets(s1)[k]
    BY <1>2, <1>5, <1>6, <2>1
  <2> HIDE DEF p
  <2>4. Packets(s1) = Append(Packets(s), p)
    BY <1>2, <1>5, <1>8, <2>2, <2>3
  <2> QED BY <2>1, <2>4 DEF s1
<1> QED BY <1>2, <1>3, <1>4, <1>7, <1>8

-----------------------------------------------------------------------------
(* Each direction is a relay.                                              *)

(* The packet in hand when it is written is the next of the stream.        *)
LEMMA NextInLine ==
  ASSUME TypeOK, NEW d \in Direction, Flow(d), go[d] = "write"
  PROVE  /\ Len(delivered[d]) < Len(Packets(sent[d]))
         /\ packet[d] = Packets(sent[d])[Len(delivered[d]) + 1]
<1> DEFINE k == Len(delivered[d]) + 1
           q == Len(sent[d]) \div PacketLen
<1>1. /\ packet[d] \in Seq(Byte) /\ Len(packet[d]) = PacketLen /\ PacketLen \in Nat
      /\ sent[d] \in Seq(Byte) /\ Len(sent[d]) \in Nat /\ Len(delivered[d]) \in Nat
      /\ k \in Nat /\ k >= 1 /\ k - 1 = Len(delivered[d])
  BY Types, FlowTypes
<1>2. k * PacketLen = Taken(d)
  <2>1. k * PacketLen = Len(delivered[d]) * PacketLen + PacketLen
    BY <1>1, Times
  <2> QED BY <1>1, <2>1 DEF Taken, Before
<1> HIDE DEF k
<1>3. k * PacketLen <= Len(sent[d])
  BY <1>2 DEF Flow, OnWire, Stretch
<1>4. k \in 1..q /\ q \in Nat
  <2>1. k <= q /\ q \in Nat
    BY <1>1, <1>3, WholePackets, Divided
  <2> HIDE DEF q
  <2> QED BY <1>1, <2>1
<1>5. /\ Packets(sent[d])[k] \in Packet
      /\ \A i \in 1..PacketLen : Packets(sent[d])[k][i] = sent[d][(k - 1) * PacketLen + i]
  BY <1>1, <1>4, PacketAt
<1>6. ASSUME NEW i \in 1..PacketLen
      PROVE  packet[d][i] = Packets(sent[d])[k][i]
  <2>1. (k - 1) * PacketLen + i \in 1..Len(sent[d])
    <3>1. /\ (k - 1) * PacketLen \in Nat /\ k * PacketLen = (k - 1) * PacketLen + PacketLen
      BY <1>1, <1>4, PacketAt
    <3>2. k * PacketLen \in Nat
      BY <1>1, <3>1
    <3>3. PacketLen \in Nat /\ Len(sent[d]) \in Nat
      BY <1>1
    <3> QED BY <1>3, <3>1, <3>2, <3>3, Offset
  <2>2. sent[d][(k - 1) * PacketLen + i] = (k - 1) * PacketLen + i
    BY <2>1 DEF Flow, Numbered
  <2>3. packet[d][i] = Before(d) + i
    BY <1>1 DEF Flow, InHand
  <2> QED BY <1>1, <1>5, <2>2, <2>3 DEF Before
<1>7. packet[d] = Packets(sent[d])[k]
  <2>1. /\ packet[d] = [i \in 1..PacketLen |-> packet[d][i]]
        /\ Packets(sent[d])[k] = [i \in 1..PacketLen |-> Packets(sent[d])[k][i]]
    BY <1>1, <1>5 DEF Packet
  <2> QED BY <1>6, <2>1
<1>8. Len(delivered[d]) < Len(Packets(sent[d]))
  <2>1. Len(Packets(sent[d])) = q
    BY <1>1, PacketsSeq
  <2> HIDE DEF q
  <2> QED BY <1>1, <1>4, <2>1
<1> QED BY <1>7, <1>8 DEF k

Still(d) == sent'[d] = sent[d] /\ delivered'[d] = delivered[d]

Grows(d) ==
  /\ \E p \in Packet : Packets(sent'[d]) = Append(Packets(sent[d]), p)
  /\ delivered'[d] = delivered[d]
  /\ farewell' = farewell

Passes(d) ==
  /\ d = "Down" => ~farewell
  /\ Len(delivered[d]) < Len(Packets(sent[d]))
  /\ delivered'[d] = Append(delivered[d], Packets(sent[d])[Len(delivered[d]) + 1])
  /\ sent'[d] = sent[d]
  /\ farewell' = farewell

Bids ==
  /\ ~farewell /\ farewell'
  /\ Len(delivered["Down"]) < Len(Packets(sent["Down"]))
  /\ \A d \in Direction : Still(d)

(* What a step is to the relay of a direction. *)
LEMMA Mirrored ==
  ASSUME WSInv, [Next]_vars, NEW d \in Direction
  PROVE  \/ Packets(sent'[d]) = Packets(sent[d]) /\ delivered'[d] = delivered[d] /\ farewell' = farewell
         \/ Grows(d) \/ Passes(d) \/ Bids
<1> USE DEF WSInv
<1>1. ASSUME UNCHANGED <<sent, delivered, farewell>>
      PROVE  Packets(sent'[d]) = Packets(sent[d]) /\ delivered'[d] = delivered[d] /\ farewell' = farewell
  BY <1>1
<1>2. CASE \/ UNCHANGED vars \/ PassStep \/ NotServed \/ Upgrade \/ DialFails \/ Dial
           \/ \E s \in Side : Leave(s) \/ Stall(s)
  <2>1. UNCHANGED <<sent, delivered, farewell>>
    BY <1>2 DEF vars, peerVars, PassStep, CertFails, StartStream, AwaitError, Disconnect, CloseOut,
                CloseIn, NotServed, Upgrade, DialFails, Dial, Leave, Stall
  <2> QED BY <1>1, <2>1
<1>3. ASSUME NEW e \in Direction, EndArrives(e)
      PROVE  Packets(sent'[d]) = Packets(sent[d]) /\ delivered'[d] = delivered[d] /\ farewell' = farewell
  BY <1>3 DEF EndArrives, Arrives
<1>4. ASSUME NEW e \in Direction, ByteArrives(e)
      PROVE  \/ Packets(sent'[d]) = Packets(sent[d]) /\ delivered'[d] = delivered[d] /\ farewell' = farewell
             \/ Grows(d)
  <2>1. delivered' = delivered /\ farewell' = farewell
    BY <1>4 DEF ByteArrives, Arrives
  <2>2. CASE e = d
    <3>1. sent'[d] = Append(sent[d], Len(sent[d]) + 1)
      BY <1>4, <2>2 DEF ByteArrives, TypeOK
    <3>2. sent[d] \in Seq(Byte) /\ Len(sent[d]) + 1 \in Byte
      <4>1. sent'[d] \in Seq(Byte) /\ sent[d] \in Seq(Byte)
        BY TypeStep DEF TypeOK
      <4>2. sent'[d][Len(sent[d]) + 1] = Len(sent[d]) + 1 /\ Len(sent[d]) + 1 \in 1..Len(sent'[d])
        BY <3>1, <4>1
      <4> QED BY <4>1, <4>2
    <3> QED BY <2>1, <3>1, <3>2, PacketsGrow DEF Grows
  <2>3. CASE e # d
    BY <1>4, <2>1, <2>3 DEF ByteArrives, TypeOK
  <2> QED BY <2>2, <2>3
<1>5. ASSUME NEW e \in Direction, StreamStep(e), ~WritePacket(e), ~Refuse(e)
      PROVE  Packets(sent'[d]) = Packets(sent[d]) /\ delivered'[d] = delivered[d] /\ farewell' = farewell
  <2>1. UNCHANGED <<sent, delivered, farewell>>
    BY <1>5 DEF StreamStep, NextReader, ReadBytes, MessageEnds, ReadFails, WriteFails, Notify,
                SendError, peerVars
  <2> QED BY <1>1, <2>1
<1>6. ASSUME NEW e \in Direction, WritePacket(e)
      PROVE  \/ Packets(sent'[d]) = Packets(sent[d]) /\ delivered'[d] = delivered[d] /\ farewell' = farewell
             \/ Passes(d)
  <2>1. /\ go[e] = "write" /\ sent' = sent /\ farewell' = farewell
        /\ delivered' = [delivered EXCEPT ![e] = Append(delivered[e], packet[e])]
    BY <1>6 DEF WritePacket, peerVars
  <2>2. CASE e = d
    <3>1. delivered'[d] = Append(delivered[d], packet[d])
      BY <2>1, <2>2 DEF TypeOK
    <3>2. /\ Len(delivered[d]) < Len(Packets(sent[d]))
          /\ packet[d] = Packets(sent[d])[Len(delivered[d]) + 1]
      BY <2>1, <2>2, NextInLine DEF FlowInv
    <3>3. d = "Down" => ~farewell
      BY <2>1, <2>2 DEF FarewellInv
    <3> QED BY <2>1, <3>1, <3>2, <3>3 DEF Passes
  <2>3. CASE e # d
    BY <2>1, <2>3
  <2> QED BY <2>2, <2>3
<1>7. ASSUME NEW e \in Direction, Refuse(e)
      PROVE  \/ Packets(sent'[d]) = Packets(sent[d]) /\ delivered'[d] = delivered[d] /\ farewell' = farewell
             \/ Bids
  <2>1. /\ go[e] = "write" /\ sent' = sent /\ delivered' = delivered
        /\ farewell' = farewell \/ (e = "Down" /\ farewell' = TRUE)
    BY <1>7 DEF Refuse, Fails, peerVars
  <2>2. CASE e = "Down" /\ farewell' = TRUE
    <3>1. ~farewell /\ farewell'
      BY <2>1, <2>2 DEF FarewellInv
    <3>2. Len(delivered["Down"]) < Len(Packets(sent["Down"]))
      BY <2>1, <2>2, NextInLine DEF FlowInv
    <3> QED BY <2>1, <3>1, <3>2 DEF Bids, Still
  <2>3. CASE farewell' = farewell
    BY <2>1, <2>3
  <2> QED BY <2>1, <2>2, <2>3
<1> QED BY <1>2, <1>3, <1>4, <1>5, <1>6, <1>7 DEF Next, PeerStep

LEMMA NoPackets == Packets(<< >>) = << >>
<1>1. << >> \in Seq(Byte) /\ Len(<< >>) = 0
  OBVIOUS
<1>2. 0 \div PacketLen = 0
  BY MqttWSAssumption
<1>3. Packets(<< >>) \in Seq(Packet) /\ Len(Packets(<< >>)) = 0
  BY <1>1, <1>2, PacketsSeq
<1> QED BY <1>3

LEMMA AllowedSame == \A s \in Seq(Packet) : \A k \in 1..Len(s) : Same[s[k]] = {s[k]}
BY DEF Same

(* The packets the client's bytes form go to the broker.                   *)
LEMMA UpRelayStep ==
  ASSUME WSInv, [Next]_vars
  PROVE  [UpRelay!Next]_(UpRelay!relayVars)
<1> DEFINE d == "Up"
<1>0. d \in Direction
  BY DEF Direction
<1>1. CASE Packets(sent'[d]) = Packets(sent[d]) /\ delivered'[d] = delivered[d]
  BY <1>1 DEF UpRelay!relayVars
<1>2. CASE Grows(d)
  BY <1>2 DEF Grows, UpRelay!Next, UpRelay!Submit
<1>3. CASE Passes(d)
  <2>1. Packets(sent[d]) \in Seq(Packet) /\ Len(delivered[d]) + 1 \in 1..Len(Packets(sent[d]))
    <3>1. sent[d] \in Seq(Byte) /\ Len(delivered[d]) \in Nat
      BY <1>0, Types DEF WSInv
    <3> QED BY <1>3, <3>1, PacketsSeq DEF Passes
  <2>2. Same[Packets(sent[d])[Len(delivered[d]) + 1]] = {Packets(sent[d])[Len(delivered[d]) + 1]}
    BY <2>1, AllowedSame
  <2> QED BY <1>3, <2>2 DEF Passes, UpRelay!Next, UpRelay!Forward
<1>4. CASE Bids
  BY <1>0, <1>4 DEF Bids, Still, UpRelay!relayVars
<1> QED BY <1>0, <1>1, <1>2, <1>3, <1>4, Mirrored

(* Those of the broker's go to the client, until it is sent the farewell.  *)
LEMMA DownRelayStep ==
  ASSUME WSInv, [Next]_vars
  PROVE  [DownRelay!Next]_(DownRelay!relayVars)
<1> DEFINE d == "Down"
<1>0. d \in Direction
  BY DEF Direction
<1>1. CASE Packets(sent'[d]) = Packets(sent[d]) /\ delivered'[d] = delivered[d] /\ farewell' = farewell
  BY <1>1 DEF DownRelay!relayVars
<1>2. CASE Grows(d)
  BY <1>2 DEF Grows, DownRelay!Next, DownRelay!Submit
<1>3. CASE Passes(d)
  <2>1. Packets(sent[d]) \in Seq(Packet) /\ Len(delivered[d]) + 1 \in 1..Len(Packets(sent[d]))
    <3>1. sent[d] \in Seq(Byte) /\ Len(delivered[d]) \in Nat
      BY <1>0, Types DEF WSInv
    <3> QED BY <1>3, <3>1, PacketsSeq DEF Passes
  <2>2. Same[Packets(sent[d])[Len(delivered[d]) + 1]] = {Packets(sent[d])[Len(delivered[d]) + 1]}
    BY <2>1, AllowedSame
  <2> QED BY <1>3, <2>2 DEF Passes, DownRelay!Next, DownRelay!Forward
<1>4. CASE Bids
  <2>1. farewell \in BOOLEAN /\ farewell' \in BOOLEAN
    BY TypeStep DEF WSInv, TypeOK
  <2>2. /\ ~farewell /\ farewell' = TRUE
        /\ Len(delivered[d]) < Len(Packets(sent[d]))
        /\ Packets(sent'[d]) = Packets(sent[d]) /\ delivered'[d] = delivered[d]
    BY <1>0, <1>4, <2>1 DEF Bids, Still
  <2> QED BY <2>2 DEF DownRelay!Next, DownRelay!Refuse
<1> QED BY <1>0, <1>1, <1>2, <1>3, <1>4, Mirrored

(* However the bytes of the two peers are cut into WebSocket messages, and *)
(* however Read hands them over, each direction implements a relay of the  *)
(* packets they form.                                                      *)
THEOREM Relaying == Spec => PacketsRelayed
<1>1. Init => UpRelay!Init /\ DownRelay!Init
  BY NoPackets DEF Init, UpRelay!Init, DownRelay!Init, Direction
<1>2. WSInv /\ [Next]_vars => [UpRelay!Next]_(UpRelay!relayVars)
  BY UpRelayStep
<1>3. WSInv /\ [Next]_vars => [DownRelay!Next]_(DownRelay!relayVars)
  BY DownRelayStep
<1> QED BY <1>1, <1>2, <1>3, Invariant, PTL DEF Spec, UpRelay!Spec, DownRelay!Spec, PacketsRelayed

-----------------------------------------------------------------------------
(* The end of a connection.                                                *)

(* Where pass has a WebSocket open. *)
Sockets ==
  /\ serve = "route" => pass = "none"
  /\ open["out"] <=> pass \in {"cert", "stream", "disconnect", "closeOut"}
  /\ open["in"] <=> pass \notin {"none", "done"}

LEMMA SocketsStep ==
  ASSUME TypeOK, Sockets, [Next]_vars
  PROVE  Sockets'
<1>0. open \in [Side -> BOOLEAN] /\ "in" \in Side /\ "out" \in Side
  BY DEF TypeOK, Side
<1>1. CASE UNCHANGED <<serve, pass, open>>
  BY <1>1 DEF Sockets
<1>2. CASE NotServed \/ Upgrade \/ DialFails \/ Dial
  BY <1>0, <1>2 DEF NotServed, Upgrade, DialFails, Dial, Goto, SetOpen, Sockets
<1>3. CASE CertFails \/ StartStream \/ AwaitError \/ Disconnect
  BY <1>0, <1>3 DEF CertFails, StartStream, AwaitError, Disconnect, Goto, Sockets
<1>4. CASE CloseOut \/ CloseIn
  BY <1>0, <1>4 DEF CloseOut, CloseIn, Goto, SetOpen, Sockets
<1>5. \/ UNCHANGED <<serve, pass, open>> \/ NotServed \/ Upgrade \/ DialFails \/ Dial \/ PassStep
  BY DEF Next, PeerStep, StreamStep, ByteArrives, EndArrives, Arrives, Leave, Stall, NextReader,
         ReadBytes, MessageEnds, ReadFails, WritePacket, WriteFails, Refuse, Notify, SendError,
         passVars, vars
<1> QED BY <1>1, <1>2, <1>3, <1>4, <1>5 DEF PassStep

(* When pass has returned both WebSockets are closed, whichever of the     *)
(* dial, the certificate and the session failed ...                        *)
ReturnedClosed == pass = "done" => \A s \in Side : ~open[s]

(* ... and what is left of the connection moves no byte any more.          *)
Silence == [][pass = "done" => UNCHANGED <<sent, delivered, farewell>>]_vars

LEMMA SocketsAlways == Spec => [](TypeOK /\ Sockets)
<1>1. Init => Sockets
  BY DEF Init, Sockets, Side
<1>2. TypeOK /\ Sockets /\ [Next]_vars => (TypeOK /\ Sockets)'
  BY TypeStep, SocketsStep
<1> QED BY <1>1, <1>2, TypeInit, PTL DEF Spec

(* No way out of pass, the goroutine ServeHTTP leaves the connection to,    *)
(* leaves a WebSocket open.                                                *)
THEOREM Return == Spec => []ReturnedClosed
<1>1. Sockets => ReturnedClosed
  BY DEF Sockets, ReturnedClosed, Side
<1> QED BY <1>1, SocketsAlways, PTL

(* A stream goroutine that outlives pass relays nothing, and tells the     *)
(* client nothing.                                                         *)
THEOREM SilentAfterReturn == Spec => Silence
<1>1. TypeOK /\ Sockets /\ [Next]_vars
        => [pass = "done" => UNCHANGED <<sent, delivered, farewell>>]_vars
  <2> SUFFICES ASSUME TypeOK, Sockets, [Next]_vars, pass = "done"
               PROVE  UNCHANGED <<sent, delivered, farewell>>
    OBVIOUS
  <2>1. \A d \in Direction : ~open[Source(d)] /\ ~open[Dest(d)]
    BY DEF Sockets, Source, Dest, Direction
  <2>2. CASE PassStep \/ NotServed \/ Upgrade \/ DialFails \/ Dial \/ UNCHANGED vars
    BY <2>2 DEF PassStep, CertFails, StartStream, AwaitError, Disconnect, CloseOut, CloseIn,
                NotServed, Upgrade, DialFails, Dial, peerVars, vars
  <2>3. ASSUME NEW s \in Side, Leave(s) \/ Stall(s)
        PROVE  UNCHANGED <<sent, delivered, farewell>>
    BY <2>3 DEF Leave, Stall
  <2>4. ASSUME NEW d \in Direction, StreamStep(d)
        PROVE  UNCHANGED <<sent, delivered, farewell>>
    <3>1. CASE Refuse(d)
      BY <3>1 DEF Refuse, Sockets, peerVars
    <3> QED
      BY <2>1, <2>4, <3>1
         DEF StreamStep, NextReader, ReadBytes, MessageEnds, ReadFails, WritePacket,
             WriteFails, Notify, SendError, peerVars
  <2>5. ASSUME NEW d \in Direction
        PROVE  ~ByteArrives(d) /\ ~EndArrives(d)
    BY <2>1 DEF ByteArrives, EndArrives, Arrives
  <2> QED BY <2>2, <2>3, <2>4, <2>5 DEF Next, PeerStep
<1> QED BY <1>1, SocketsAlways, PTL DEF Spec, Silence

(* How much a goroutine has left to do once it can write nothing: bytes    *)
(* and ends of messages to read, a reader to ask for, an error to send,    *)
(* and its own end.                                                        *)
ToEnd(at) == CASE at = "notify" -> 5 [] at = "tell" -> 4 [] at = "read" -> 3
               [] at = "write" -> 2 [] at = "report" -> 1 [] OTHER -> 0
ToAsk(d)  == IF reader[d] THEN 0 ELSE 1
Distance(d) == 2 * Len(wire[d]) + ToAsk(d) + ToEnd(go[d])

(* Every step of a goroutine that pass left behind brings it nearer to its *)
(* end: Read never goes round its loop for nothing, even over empty        *)
(* messages. It may still stop short, in SendError, if the channel has no  *)
(* room.                                                                   *)
WindsDown ==
  [][\A d \in Direction : pass = "done" /\ StreamStep(d) => Distance(d)' < Distance(d)]_vars

LEMMA Nearer ==
  ASSUME TypeOK, Sockets, pass = "done", NEW d \in Direction, StreamStep(d)
  PROVE  Distance(d)' < Distance(d)
<1>0. /\ Len(wire[d]) \in Nat /\ wire[d] \in Seq(Nat) /\ ~open[Dest(d)]
      /\ go \in [Direction -> {"idle", "read", "write", "notify", "tell", "report", "done"}]
      /\ reader \in [Direction -> BOOLEAN]
  BY Types DEF TypeOK, Sockets, Dest, Direction
<1>a. /\ ToEnd("notify") = 5 /\ ToEnd("tell") = 4 /\ ToEnd("read") = 3
      /\ ToEnd("write") = 2 /\ ToEnd("report") = 1 /\ ToEnd("done") = 0
  BY DEF ToEnd
<1>b. ToAsk(d) \in 0..1 /\ ToAsk(d)' \in 0..1
  BY DEF ToAsk
<1>1. CASE NextReader(d)
  BY <1>0, <1>a, <1>1 DEF NextReader, Distance, ToAsk
<1>2. CASE ReadFails(d) \/ WriteFails(d) \/ Refuse(d)
  <2>1. go[d] \in {"read", "write"} /\ go'[d] = "report" /\ wire' = wire /\ reader' = reader
    BY <1>0, <1>2 DEF ReadFails, WriteFails, Refuse, Fails
  <2>2. ToAsk(d)' = ToAsk(d) /\ ToEnd(go'[d]) < ToEnd(go[d]) /\ ToEnd(go[d]) \in Nat /\ ToEnd(go'[d]) \in Nat
    BY <1>a, <2>1 DEF ToAsk
  <2> QED BY <1>0, <1>b, <2>1, <2>2 DEF Distance
<1>3. ASSUME NEW n \in Nat, n <= Len(wire[d]), Consumes(d, n)
      PROVE  Len(wire'[d]) = Len(wire[d]) - n
  <2>1. wire'[d] = SubSeq(wire[d], n + 1, Len(wire[d]))
    BY <1>3 DEF Consumes, TypeOK
  <2> QED BY <1>0, <1>3, <2>1
<1>4. CASE ReadBytes(d)
  <2>1. PICK n \in 1..Wanted(d) : Readable(d, n) /\ Returns(d, n) /\ Consumes(d, n)
    BY <1>4 DEF ReadBytes
  <2>2. n \in Nat /\ n >= 1 /\ n <= Len(wire[d])
    BY <2>1, Types DEF Readable
  <2>3. Len(wire'[d]) \in Nat /\ Len(wire'[d]) + 1 <= Len(wire[d])
    BY <1>0, <1>3, <2>1, <2>2
  <2>4. go[d] = "read" /\ go'[d] \in {"read", "write"} /\ reader' = reader
    BY <1>0, <1>4, <2>1 DEF ReadBytes, Readable, Returns
  <2>5. ToAsk(d)' = ToAsk(d) /\ ToEnd(go[d]) = 3 /\ ToEnd(go'[d]) \in 2..3
    BY <1>a, <2>4 DEF ToAsk
  <2>6. /\ Len(wire[d]) \in Nat
        /\ 2 * Len(wire'[d]) \in Nat /\ 2 * Len(wire[d]) \in Nat
        /\ 2 * Len(wire'[d]) + 2 <= 2 * Len(wire[d])
    BY <1>0, <2>3
  <2> DEFINE l  == 2 * Len(wire[d])
             l1 == 2 * Len(wire'[d])
             k  == ToAsk(d)
             k1 == ToAsk(d)'
             e  == ToEnd(go[d])
             e1 == ToEnd(go'[d])
  <2>7. /\ l \in Nat /\ l1 \in Nat /\ l1 + 2 <= l /\ k \in 0..1 /\ k1 \in 0..1
        /\ e = 3 /\ e1 \in 2..3
    BY <1>b, <2>5, <2>6
  <2>8. k1 = k \/ (k = 0 /\ k1 = 1)
    BY <2>4, <2>5 DEF ToAsk
  <2>9. Distance(d) = l + k + e /\ Distance(d)' = l1 + k1 + e1
    BY DEF Distance
  <2> HIDE DEF l, l1, k, k1, e, e1
  <2> QED BY <2>7, <2>8, <2>9
<1>5. CASE MessageEnds(d)
  <2>1. PICK n \in 0..Wanted(d) :
           /\ Readable(d, n) /\ n < Len(wire[d]) /\ Returns(d, n) /\ Consumes(d, n + 1)
    BY <1>5 DEF MessageEnds
  <2>2. n + 1 \in Nat /\ n + 1 >= 1 /\ n + 1 <= Len(wire[d])
    BY <1>0, <2>1, Types
  <2>3. Len(wire'[d]) \in Nat /\ Len(wire'[d]) + 1 <= Len(wire[d])
    BY <1>0, <1>3, <2>1, <2>2
  <2>4. /\ go[d] = "read" /\ go'[d] \in {"read", "write"}
        /\ reader[d] /\ ~reader'[d]
    BY <1>0, <1>5, <2>1 DEF MessageEnds, Readable, Returns
  <2>5. ToEnd(go[d]) = 3 /\ ToEnd(go'[d]) \in 2..3
    BY <1>a, <2>4
  <2>6. /\ Len(wire[d]) \in Nat
        /\ 2 * Len(wire'[d]) \in Nat /\ 2 * Len(wire[d]) \in Nat
        /\ 2 * Len(wire'[d]) + 2 <= 2 * Len(wire[d])
    BY <1>0, <2>3
  <2> DEFINE l  == 2 * Len(wire[d])
             l1 == 2 * Len(wire'[d])
             k  == ToAsk(d)
             k1 == ToAsk(d)'
             e  == ToEnd(go[d])
             e1 == ToEnd(go'[d])
  <2>7. /\ l \in Nat /\ l1 \in Nat /\ l1 + 2 <= l /\ k \in 0..1 /\ k1 \in 0..1
        /\ e = 3 /\ e1 \in 2..3
    BY <1>b, <2>5, <2>6
  <2>8. k1 = k \/ (k = 0 /\ k1 = 1)
    BY <2>4, <2>5 DEF ToAsk
  <2>9. Distance(d) = l + k + e /\ Distance(d)' = l1 + k1 + e1
    BY DEF Distance
  <2> HIDE DEF l, l1, k, k1, e, e1
  <2> QED BY <2>7, <2>8, <2>9
<1>6. ~WritePacket(d)
  BY <1>0 DEF WritePacket
<1>7. CASE Notify(d) \/ SendError(d)
  <2>1. /\ \/ go[d] = "notify" /\ go'[d] \in {"read", "tell"}
           \/ go[d] = "tell" /\ go'[d] = "read"
           \/ go[d] = "report" /\ go'[d] = "done"
        /\ wire' = wire /\ reader' = reader
    BY <1>0, <1>7 DEF Notify, SendError
  <2>2. ToAsk(d)' = ToAsk(d) /\ ToEnd(go'[d]) < ToEnd(go[d]) /\ ToEnd(go[d]) \in Nat /\ ToEnd(go'[d]) \in Nat
    BY <1>a, <2>1 DEF ToAsk
  <2> QED BY <1>0, <1>b, <2>1, <2>2 DEF Distance
<1> QED BY <1>1, <1>2, <1>4, <1>5, <1>6, <1>7 DEF StreamStep

(* A goroutine that survived pass has no more steps left than there are    *)
(* bytes and messages to drain and errors to send; it then ends, unless it *)
(* waits for room in the channel of a Stream that has returned.            *)
THEOREM WindingDown == Spec => WindsDown
<1>1. TypeOK /\ Sockets /\ [Next]_vars
        => [\A d \in Direction : pass = "done" /\ StreamStep(d) => Distance(d)' < Distance(d)]_vars
  BY Nearer
<1> QED BY <1>1, SocketsAlways, PTL DEF Spec, WindsDown
=============================================================================
