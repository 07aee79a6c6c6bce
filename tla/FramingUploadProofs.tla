-------------------------- MODULE FramingUploadProofs --------------------------
(***************************************************************************)
(* Proofs about the framing of the C++ drive's protocol, and about the     *)
(* resumable uploads it carries.                                           *)
(*                                                                         *)
(* Framing: the receiver gets the messages that were sent, for messages of *)
(* any size whose headers fit into header_size, any number of them, and a  *)
(* stream that is cut anywhere.  What the receiver has not decoded yet is  *)
(* one sequence, wherever its bytes are: in the buffer behind the offset,  *)
(* in the socket or still with the sender.  The invariant says where in it *)
(* each message starts.                                                    *)
(*                                                                         *)
(* UploadResume: ToldInv gives each reply under way a level, how far the   *)
(* upload can be when it is read, so that an answer to an earlier request  *)
(* is not taken for that of the commit.  PutInv relates the part file, the *)
(* checkpoint, what a session takes for received and the commits in the    *)
(* executor, from the steps between which a crash can fall.                *)
(***************************************************************************)
EXTENDS Framing, UploadResume, FiniteSetTheorems, TLAPS

(* The messages are those that were sent *)

HeadersFit == \A s \in Shape : s.head < FieldLimit

Size(k) == Wire + sent[k].head + sent[k].body
Mine == Len(decoded) + 1
Last == Len(sent) + 1

(* The bytes not decoded yet.                                              *)
LeftLen == Available + Len(wire) + Len(outbound)
LeftAt(i) == IF i <= Available THEN inbound[inbound_offset + i]
             ELSE IF i <= Available + Len(wire) THEN wire[i - Available]
             ELSE outbound[i - Available - Len(wire)]

(* Message k is at start[k] + 1 .. start[k] + Size(k).                     *)
Laid(start) ==
  /\ start \in [1..Last -> Int]
  /\ start[Mine] = 0 /\ start[Last] = LeftLen
  /\ \A k \in Mine..Len(sent) : start[k + 1] = start[k] + Size(k)
  /\ \A j, k \in Mine..Last : j < k => start[j] + Size(j) <= start[k]
  /\ \A k \in Mine..Len(sent) :
       \A i \in 1..Size(k) : LeftAt(start[k] + i) = <<k, i>>

IInv ==
  /\ FramingTypeOK /\ Len(sent) <= MaxMessages
  /\ DecodedIsSent
  /\ \E start : Laid(start)

-----------------------------------------------------------------------------
(* Where the undecoded bytes are                                           *)

LEMMA SizeNat ==
  ASSUME FramingTypeOK, NEW k \in 1..Len(sent)
  PROVE  /\ sent[k] \in Shape /\ sent[k].head \in Nat /\ sent[k].body \in Nat
         /\ Size(k) \in Nat /\ Size(k) >= 3
<1>1. sent[k] \in Shape  BY DEF FramingTypeOK
<1>2. sent[k] \in [head : Nat, body : Nat]  BY <1>1, FramingAssumption
<1> QED BY <1>1, <1>2 DEF Size, Wire

LEMMA Sums ==
  ASSUME NEW a \in Nat, NEW b \in Nat, NEW c \in Nat, NEW d \in Nat
  PROVE  a + (b + c + d) = a + b + c + d
  OBVIOUS

LEMMA LeftNat ==
  ASSUME FramingTypeOK
  PROVE  /\ LeftLen \in Nat /\ Available \in Nat /\ Available <= LeftLen
         /\ Len(wire) \in Nat /\ Len(outbound) \in Nat /\ Len(inbound) \in Nat
         /\ inbound_offset \in Nat
BY DEF FramingTypeOK, LeftLen, Available

(* A sequence that is put behind another.                                  *)
LEMMA Behind ==
  ASSUME NEW S, NEW s \in Seq(S), NEW t \in Seq(S)
  PROVE  /\ s \o t \in Seq(S) /\ Len(s \o t) = Len(s) + Len(t)
         /\ \A i \in 1..Len(s) : (s \o t)[i] = s[i]
         /\ \A i \in 1..Len(t) : (s \o t)[Len(s) + i] = t[i]
OBVIOUS

(* A sequence that is cut behind its n-th element.                         *)
LEMMA Cut ==
  ASSUME NEW S, NEW s \in Seq(S), NEW n \in 0..Len(s)
  PROVE  /\ SubSeq(s, 1, n) \in Seq(S) /\ Len(SubSeq(s, 1, n)) = n
         /\ \A i \in 1..n : SubSeq(s, 1, n)[i] = s[i]
         /\ SubSeq(s, n + 1, Len(s)) \in Seq(S)
         /\ Len(SubSeq(s, n + 1, Len(s))) = Len(s) - n
         /\ \A i \in 1..Len(s) - n : SubSeq(s, n + 1, Len(s))[i] = s[n + i]
OBVIOUS

LEMMA SendLeft ==
  ASSUME FramingTypeOK, NEW n \in 1..Len(outbound), SendBytes(n)
  PROVE  /\ LeftLen' = LeftLen
         /\ \A i \in 1..LeftLen : LeftAt(i)' = LeftAt(i)
<1> DEFINE a == SubSeq(outbound, 1, n)
           b == SubSeq(outbound, n + 1, Len(outbound))
<1>1. /\ wire' = wire \o a /\ outbound' = b
      /\ inbound' = inbound /\ inbound_offset' = inbound_offset
  BY DEF SendBytes, buffer
<1>2. /\ outbound \in Seq(Byte) /\ wire \in Seq(Byte) /\ Len(outbound) \in Nat
      /\ Len(wire) \in Nat
  BY DEF FramingTypeOK
<1>3. /\ a \in Seq(Byte) /\ Len(a) = n
      /\ \A i \in 1..n : a[i] = outbound[i]
      /\ b \in Seq(Byte) /\ Len(b) = Len(outbound) - n
      /\ \A i \in 1..Len(outbound) - n : b[i] = outbound[n + i]
  BY <1>2, Cut
<1> HIDE DEF a, b
<1>5. /\ Len(wire') = Len(wire) + n
      /\ \A i \in 1..Len(wire) : wire'[i] = wire[i]
      /\ \A i \in 1..n : wire'[Len(wire) + i] = outbound[i]
  <2>1. /\ Len(wire') = Len(wire) + Len(a)
        /\ \A i \in 1..Len(wire) : wire'[i] = wire[i]
        /\ \A i \in 1..Len(a) : wire'[Len(wire) + i] = a[i]
    <3>1. /\ Len(wire \o a) = Len(wire) + Len(a)
          /\ \A i \in 1..Len(wire) : (wire \o a)[i] = wire[i]
          /\ \A i \in 1..Len(a) : (wire \o a)[Len(wire) + i] = a[i]
      <4>1. wire \in Seq(Byte) /\ a \in Seq(Byte)
        BY <1>2, <1>3
      <4> QED BY <4>1, Behind
    <3> DEFINE r == wire \o a
    <3>2. /\ Len(r) = Len(wire) + Len(a)
          /\ \A i \in 1..Len(wire) : r[i] = wire[i]
          /\ \A i \in 1..Len(a) : r[Len(wire) + i] = a[i]
      BY <3>1, Zenon
    <3>3. wire' = r
      BY <1>1, Zenon
    <3> HIDE DEF r
    <3> QED BY <3>2, <3>3
  <2> QED BY <2>1, <1>3
<1>6. /\ Len(outbound') = Len(outbound) - n
      /\ \A i \in 1..Len(outbound) - n : outbound'[i] = outbound[n + i]
  BY <1>1, <1>3
<1>7. Available' = Available /\ Available \in Nat
  BY <1>1, LeftNat DEF Available
<1>8. LeftLen' = LeftLen
  BY <1>2, <1>5, <1>6, <1>7 DEF LeftLen
<1>9. ASSUME NEW i \in 1..LeftLen
      PROVE  LeftAt(i)' = LeftAt(i)
  <2>1. CASE i <= Available
    BY <2>1, <1>1, <1>7 DEF LeftAt
  <2>2. CASE i > Available /\ i <= Available + Len(wire)
    <3> DEFINE k == i - Available
    <3>1. k \in 1..Len(wire)
      BY <2>2, <1>2, <1>7
    <3>2. LeftAt(i) = wire[k]
      BY <2>2, <1>2, <1>7, LeftNat DEF LeftAt
    <3>3. LeftAt(i)' = wire'[k]
      BY <2>2, <1>2, <1>5, <1>7, LeftNat DEF LeftAt
    <3> QED BY <3>1, <3>2, <3>3, <1>5
  <2>3. CASE i > Available + Len(wire) /\ i <= Available + Len(wire) + n
    <3> DEFINE k == i - Available - Len(wire)
    <3>1. k \in 1..n /\ i - Available = Len(wire) + k
      BY <2>3, <1>2, <1>7, LeftNat
    <3>2. LeftAt(i) = outbound[k]
      BY <2>3, <1>2, <1>7, LeftNat DEF LeftAt
    <3>3. LeftAt(i)' = wire'[i - Available]
      BY <2>3, <1>2, <1>5, <1>7, LeftNat DEF LeftAt
    <3> QED BY <3>1, <3>2, <3>3, <1>5
  <2>4. CASE i > Available + Len(wire) + n
    <3> DEFINE k == i - Available - Len(wire) - n
    <3>1. k \in 1..Len(outbound) - n /\ i - Available - Len(wire) = n + k
      BY <2>4, <1>2, <1>7, LeftNat DEF LeftLen
    <3>2. LeftAt(i) = outbound[n + k]
      BY <2>4, <3>1, <1>2, <1>7, LeftNat DEF LeftAt
    <3>3. LeftAt(i)' = outbound'[k]
      BY <2>4, <1>2, <1>5, <1>7, LeftNat DEF LeftAt
    <3> QED BY <3>1, <3>2, <3>3, <1>6
  <2> QED BY <2>1, <2>2, <2>3, <2>4, <1>2, <1>7, LeftNat
<1> QED BY <1>8, <1>9

LEMMA RecvLeft ==
  ASSUME FramingTypeOK, Recv
  PROVE  /\ LeftLen' = LeftLen
         /\ \A i \in 1..LeftLen : LeftAt(i)' = LeftAt(i)
<1> DEFINE n == IF Len(wire) < RecvMax THEN Len(wire) ELSE RecvMax
           a == SubSeq(wire, 1, n)
           b == SubSeq(wire, n + 1, Len(wire))
<1>1. /\ inbound' = inbound \o a /\ wire' = b
      /\ outbound' = outbound /\ inbound_offset' = inbound_offset
  BY DEF Recv
<1>2. /\ inbound \in Seq(Byte) /\ wire \in Seq(Byte)
      /\ n \in 0..Len(wire)
  BY FramingAssumption DEF FramingTypeOK
<1> HIDE DEF n
<1>3. /\ a \in Seq(Byte) /\ Len(a) = n
      /\ \A i \in 1..n : a[i] = wire[i]
      /\ b \in Seq(Byte) /\ Len(b) = Len(wire) - n
      /\ \A i \in 1..Len(wire) - n : b[i] = wire[n + i]
  BY <1>2, Cut
<1> HIDE DEF a, b
<1>4. /\ Len(inbound') = Len(inbound) + n
      /\ \A i \in 1..Len(inbound) : inbound'[i] = inbound[i]
      /\ \A i \in 1..n : inbound'[Len(inbound) + i] = wire[i]
  <2>1. /\ Len(inbound') = Len(inbound) + Len(a)
        /\ \A i \in 1..Len(inbound) : inbound'[i] = inbound[i]
        /\ \A i \in 1..Len(a) : inbound'[Len(inbound) + i] = a[i]
    <3>1. /\ Len(inbound \o a) = Len(inbound) + Len(a)
          /\ \A i \in 1..Len(inbound) : (inbound \o a)[i] = inbound[i]
          /\ \A i \in 1..Len(a) : (inbound \o a)[Len(inbound) + i] = a[i]
      <4>1. inbound \in Seq(Byte) /\ a \in Seq(Byte)
        BY <1>2, <1>3
      <4> QED BY <4>1, Behind
    <3> DEFINE r == inbound \o a
    <3>2. /\ Len(r) = Len(inbound) + Len(a)
          /\ \A i \in 1..Len(inbound) : r[i] = inbound[i]
          /\ \A i \in 1..Len(a) : r[Len(inbound) + i] = a[i]
      BY <3>1, Zenon
    <3>3. inbound' = r
      BY <1>1, Zenon
    <3> HIDE DEF r
    <3> QED BY <3>2, <3>3
  <2> QED BY <2>1, <1>3
<1>5. /\ Len(wire') = Len(wire) - n
      /\ \A i \in 1..Len(wire) - n : wire'[i] = wire[n + i]
  BY <1>1, <1>3
<1>6. Available' = Available + n
  BY <1>1, <1>2, <1>4, LeftNat DEF Available
<1>7. LeftLen' = LeftLen
  BY <1>1, <1>2, <1>5, <1>6, LeftNat DEF LeftLen
<1>8. ASSUME NEW i \in 1..LeftLen
      PROVE  LeftAt(i)' = LeftAt(i)
  <2>1. CASE i <= Available
    <3> DEFINE k == inbound_offset + i
    <3>1. k \in 1..Len(inbound)
      BY <2>1, LeftNat DEF Available
    <3> QED BY <2>1, <3>1, <1>1, <1>2, <1>4, <1>6, LeftNat DEF LeftAt
  <2>2. CASE i > Available /\ i <= Available + n
    <3> DEFINE k == i - Available
    <3>1. k \in 1..n /\ inbound_offset + i = Len(inbound) + k
      BY <2>2, <1>2, LeftNat DEF Available
    <3>2. LeftAt(i) = wire[k]
      BY <2>2, <1>2, LeftNat DEF LeftAt
    <3>3. LeftAt(i)' = inbound'[inbound_offset + i]
      BY <2>2, <1>1, <1>2, <1>6, LeftNat DEF LeftAt
    <3> QED BY <3>1, <3>2, <3>3, <1>4
  <2>3. CASE i > Available + n /\ i <= Available + Len(wire)
    <3> DEFINE k == i - Available - n
    <3>1. k \in 1..Len(wire) - n /\ i - Available = n + k
      BY <2>3, <1>2, LeftNat
    <3>2. LeftAt(i) = wire[n + k]
      BY <2>3, <3>1, <1>2, LeftNat DEF LeftAt
    <3>3. LeftAt(i)' = wire'[k]
      BY <2>3, <1>2, <1>5, <1>6, LeftNat DEF LeftAt
    <3> QED BY <3>1, <3>2, <3>3, <1>5
  <2>4. CASE i > Available + Len(wire)
    BY <2>4, <1>1, <1>2, <1>5, <1>6, LeftNat DEF LeftAt
  <2> QED BY <2>1, <2>2, <2>3, <2>4, <1>2, LeftNat
<1> QED BY <1>7, <1>8

LEMMA EncodeLeft ==
  ASSUME FramingTypeOK, NEW s \in Shape, Encode(s)
  PROVE  /\ LeftLen' = LeftLen + Wire + s.head + s.body
         /\ \A i \in 1..LeftLen : LeftAt(i)' = LeftAt(i)
         /\ \A i \in LeftLen + 1..LeftLen + Wire + s.head + s.body :
              LeftAt(i)' = <<Last, i - LeftLen>>
<1> DEFINE size == Wire + s.head + s.body
           b == Bytes(Last, 1, size)
<1>1. /\ outbound' = outbound \o b
      /\ inbound' = inbound /\ inbound_offset' = inbound_offset /\ wire' = wire
  BY DEF Encode, buffer, Last
<1>2. s.head \in Nat /\ s.body \in Nat /\ size \in Nat
  <2>1. s \in [head : Nat, body : Nat]  BY FramingAssumption
  <2> QED BY <2>1 DEF Wire
<1>3. /\ b \in Seq(Nat \X Nat) /\ Len(b) = size
      /\ \A i \in 1..size : b[i] = <<Last, i>>
  <2>1. Last \in Nat  BY DEF Last, FramingTypeOK
  <2> HIDE DEF size
  <2> QED BY <2>1, <1>2 DEF Bytes
<1> HIDE DEF b, size
<1>4. outbound \in Seq(Nat \X Nat) /\ Len(outbound) \in Nat
  BY DEF FramingTypeOK, Byte
<1>5. /\ Len(outbound') = Len(outbound) + size
      /\ \A i \in 1..Len(outbound) : outbound'[i] = outbound[i]
      /\ \A i \in 1..size : outbound'[Len(outbound) + i] = <<Last, i>>
  <2>1. /\ Len(outbound') = Len(outbound) + Len(b)
        /\ \A i \in 1..Len(outbound) : outbound'[i] = outbound[i]
        /\ \A i \in 1..Len(b) : outbound'[Len(outbound) + i] = b[i]
    <3>1. /\ Len(outbound \o b) = Len(outbound) + Len(b)
          /\ \A i \in 1..Len(outbound) : (outbound \o b)[i] = outbound[i]
          /\ \A i \in 1..Len(b) : (outbound \o b)[Len(outbound) + i] = b[i]
      <4>1. outbound \in Seq(Nat \X Nat) /\ b \in Seq(Nat \X Nat)
        BY <1>3, <1>4
      <4> QED BY <4>1, Behind
    <3> DEFINE r == outbound \o b
    <3>2. /\ Len(r) = Len(outbound) + Len(b)
          /\ \A i \in 1..Len(outbound) : r[i] = outbound[i]
          /\ \A i \in 1..Len(b) : r[Len(outbound) + i] = b[i]
      BY <3>1, Zenon
    <3>3. outbound' = r
      BY <1>1, Zenon
    <3> HIDE DEF r
    <3> QED BY <3>2, <3>3
  <2> QED BY <2>1, <1>3
<1>6. Available' = Available
  BY <1>1 DEF Available
<1>7. LeftLen' = LeftLen + size
  BY <1>1, <1>2, <1>5, <1>6, LeftNat DEF LeftLen
<1>8. ASSUME NEW i \in 1..LeftLen
      PROVE  LeftAt(i)' = LeftAt(i)
  <2>1. CASE i <= Available + Len(wire)
    BY <2>1, <1>1, <1>6, LeftNat DEF LeftAt
  <2>2. CASE i > Available + Len(wire)
    <3> DEFINE k == i - Available - Len(wire)
    <3>1. k \in 1..Len(outbound)
      BY <2>2, <1>4, LeftNat DEF LeftLen
    <3>2. LeftAt(i) = outbound[k]
      BY <2>2, <1>4, LeftNat DEF LeftAt
    <3>3. LeftAt(i)' = outbound'[k]
      <4>1. ~(i <= Available') /\ ~(i <= Available' + Len(wire'))
        BY <2>2, <1>1, <1>4, <1>6, LeftNat
      <4>2. i - Available' - Len(wire') = k
        BY <1>1, <1>6
      <4>3. LeftAt(i)' = outbound'[i - Available' - Len(wire')]
        BY <4>1, Zenon DEF LeftAt
      <4> QED BY <4>2, <4>3, Zenon
    <3>4. outbound'[k] = outbound[k]
      <4> HIDE DEF k
      <4> QED BY <3>1, <1>5
    <3> QED BY <3>2, <3>3, <3>4, Zenon
  <2> QED BY <2>1, <2>2, <1>4, LeftNat
<1>9. ASSUME NEW i \in LeftLen + 1..LeftLen + size
      PROVE  LeftAt(i)' = <<Last, i - LeftLen>>
  <2> DEFINE k == i - LeftLen
  <2>1. /\ k \in 1..size
        /\ i - Available - Len(wire) = Len(outbound) + k
        /\ ~(i <= Available) /\ ~(i <= Available + Len(wire))
    <3>1. /\ k \in 1..size /\ i \in Int
          /\ i = Available + Len(wire) + Len(outbound) + k
          /\ Available \in Nat /\ Len(wire) \in Nat /\ Len(outbound) \in Nat
      <4>1. /\ LeftLen \in Nat /\ Available \in Nat
            /\ Len(wire) \in Nat /\ Len(outbound) \in Nat
        BY LeftNat
      <4>2. k \in 1..size /\ i \in Int /\ i = LeftLen + k
        BY <1>2, <4>1
      <4> HIDE DEF k
      <4> QED BY <4>1, <4>2 DEF LeftLen
    <3> HIDE DEF k
    <3> QED BY <3>1, <1>2
  <2>2. LeftAt(i)' = outbound'[i - Available - Len(wire)]
    <3>1. ~(i <= Available') /\ ~(i <= Available' + Len(wire'))
      BY <2>1, <1>1, <1>6
    <3>2. LeftAt(i)' = outbound'[i - Available' - Len(wire')]
      BY <3>1, Zenon DEF LeftAt
    <3> QED BY <3>2, <1>1, <1>6, Zenon
  <2> HIDE DEF k
  <2>3. outbound'[Len(outbound) + k] = <<Last, k>>
    BY <2>1, <1>5
  <2>4. LeftAt(i)' = <<Last, k>>
    BY <2>1, <2>2, <2>3, Zenon
  <2> QED BY <2>4 DEF k
<1>10. size = Wire + s.head + s.body
  BY DEF size
<1>11. LeftLen + size = LeftLen + Wire + s.head + s.body
  <2>1. LeftLen \in Nat /\ s.head \in Nat /\ s.body \in Nat /\ Wire \in Nat
    BY <1>2, LeftNat DEF Wire
  <2> QED BY <1>10, <2>1, Sums
<1> QED BY <1>7, <1>8, <1>9, <1>10, <1>11, Zenon

(* What is taken from the buffer moves the rest forward.                   *)
LEMMA BehindBuffer ==
  ASSUME FramingTypeOK, NEW f \in 0..Available, Available' = Available - f,
         UNCHANGED <<wire, outbound>>,
         NEW i \in 1..LeftLen - f, i > Available - f,
         NEW l, l = f + i
  PROVE  LeftAt(i)' = LeftAt(l)
<1> DEFINE k == i - (Available - f)
<1>1. /\ k \in Nat /\ l - Available = k /\ i - Available' = k
      /\ ~(l <= Available) /\ ~(i <= Available')
      /\ i \in Int /\ l \in Int /\ f \in Int
  BY LeftNat
<1>2. CASE k <= Len(wire)
  <2>1. l <= Available + Len(wire) /\ i <= Available' + Len(wire)
    BY <1>1, <1>2, LeftNat
  <2> HIDE DEF k
  <2> QED BY <1>1, <2>1, LeftNat DEF LeftAt
<1>3. CASE k > Len(wire)
  <2>1. /\ ~(l <= Available + Len(wire)) /\ ~(i <= Available' + Len(wire))
        /\ l - Available - Len(wire) = k - Len(wire)
        /\ i - Available' - Len(wire) = k - Len(wire)
    BY <1>1, <1>3, LeftNat
  <2> HIDE DEF k
  <2>2. LeftAt(i)' = outbound[k - Len(wire)]
    <3>1. LeftAt(i)' = outbound[i - Available' - Len(wire)]
      BY <1>1, <2>1, LeftNat DEF LeftAt
    <3> QED BY <2>1, <3>1, Zenon
  <2>3. LeftAt(l) = outbound[k - Len(wire)]
    <3>1. LeftAt(l) = outbound[l - Available - Len(wire)]
      BY <1>1, <2>1, Zenon DEF LeftAt
    <3> QED BY <2>1, <3>1, Zenon
  <2> QED BY <2>2, <2>3, Zenon
<1> QED BY <1>1, <1>2, <1>3, LeftNat

LEMMA ConsumeLeft ==
  ASSUME FramingTypeOK, NEW f \in 0..Available, Consume(inbound_offset + f),
         UNCHANGED <<wire, outbound>>
  PROVE  /\ inbound' \in Seq(Byte) /\ inbound_offset' \in 0..Len(inbound')
         /\ LeftLen' = LeftLen - f
         /\ \A i \in 1..LeftLen - f : LeftAt(i)' = LeftAt(f + i)
<1> DEFINE to == inbound_offset + f
<1>1. inbound \in Seq(Byte) /\ to \in 0..Len(inbound)
  BY LeftNat DEF FramingTypeOK, Available
<1>2. CASE to > Len(inbound) \div 2
  <2> DEFINE b == SubSeq(inbound, to + 1, Len(inbound))
  <2>1. inbound' = b /\ inbound_offset' = 0
    BY <1>2 DEF Consume
  <2> HIDE DEF to
  <2>2. /\ b \in Seq(Byte) /\ Len(b) = Len(inbound) - to
        /\ \A i \in 1..Len(inbound) - to : b[i] = inbound[to + i]
    BY <1>1, Cut
  <2> HIDE DEF b
  <2> USE DEF to
  <2>3. Available' = Available - f
    BY <2>1, <2>2, LeftNat DEF Available
  <2>4. ASSUME NEW i \in 1..LeftLen - f
        PROVE  LeftAt(i)' = LeftAt(f + i)
    <3>1. CASE i <= Available - f
      <4>1. i \in 1..Len(inbound) - to /\ to + i = inbound_offset + (f + i)
        BY <3>1, LeftNat DEF Available
      <4> QED BY <3>1, <4>1, <2>1, <2>2, <2>3, LeftNat DEF LeftAt
    <3>2. CASE i > Available - f
      BY <3>2, <2>3, BehindBuffer
    <3> QED BY <3>1, <3>2, LeftNat
  <2>5. LeftLen' = LeftLen - f
    BY <2>3, LeftNat DEF LeftLen
  <2>6. inbound' \in Seq(Byte) /\ inbound_offset' \in 0..Len(inbound')
    BY <2>1, <2>2, <1>1
  <2> QED BY <2>4, <2>5, <2>6
<1>3. CASE ~(to > Len(inbound) \div 2)
  <2>1. inbound' = inbound /\ inbound_offset' = to
    BY <1>3 DEF Consume
  <2>2. Available' = Available - f
    BY <2>1, LeftNat DEF Available
  <2>3. ASSUME NEW i \in 1..LeftLen - f
        PROVE  LeftAt(i)' = LeftAt(f + i)
    <3>1. CASE i <= Available - f
      <4>1. f + i <= Available /\ to + i = inbound_offset + (f + i)
        BY <3>1, LeftNat
      <4> QED BY <3>1, <4>1, <2>1, <2>2 DEF LeftAt
    <3>2. CASE i > Available - f
      BY <3>2, <2>2, BehindBuffer
    <3> QED BY <3>1, <3>2, LeftNat
  <2> QED BY <2>1, <2>2, <2>3, <1>1, LeftNat DEF LeftLen
<1> QED BY <1>2, <1>3

-----------------------------------------------------------------------------
(* Where the messages are                                                  *)

LEMMA InLeft ==
  ASSUME FramingTypeOK, NEW start, Laid(start),
         NEW k \in Mine..Len(sent)
  PROVE  /\ k \in 1..Len(sent) /\ k + 1 \in Mine..Last
         /\ Size(k) \in Nat /\ Size(k) >= 3
         /\ start[k] \in Nat /\ start[k] + Size(k) <= LeftLen
<1>1. /\ Len(sent) \in Nat /\ Len(decoded) \in Nat
  BY DEF FramingTypeOK
<1>2. /\ k \in 1..Len(sent) /\ k \in Int /\ k \in 1..Last
      /\ k \in Mine..Last /\ Last \in Mine..Last /\ k < Last
      /\ Mine \in Mine..Last /\ k + 1 \in Mine..Last
      /\ Mine \in 1..Len(sent)
  BY <1>1 DEF Mine, Last
<1>3. Size(k) \in Nat /\ Size(k) >= 3 /\ Size(Mine) \in Nat
  BY <1>2, SizeNat
<1>4. start[k] \in Int
  BY <1>2 DEF Laid
<1>5. start[k] + Size(k) <= LeftLen
  BY <1>2 DEF Laid
<1>6. start[k] \in Nat
  <2>1. CASE k = Mine
    BY <2>1 DEF Laid
  <2>2. CASE Mine < k
    <3>1. start[Mine] = 0 /\ start[Mine] + Size(Mine) <= start[k]
      BY <2>2, <1>2 DEF Laid
    <3> QED BY <3>1, <1>3, <1>4
  <2> QED BY <2>1, <2>2, <1>1, <1>2 DEF Mine
<1> QED BY <1>2, <1>3, <1>5, <1>6

LEMMA Keeps ==
  ASSUME FramingTypeOK, NEW start, Laid(start), UNCHANGED <<sent, decoded>>,
         LeftLen' = LeftLen, \A i \in 1..LeftLen : LeftAt(i)' = LeftAt(i)
  PROVE  Laid(start)'
<1>1. Mine' = Mine /\ Last' = Last
  BY DEF Mine, Last
<1>2. \A k : Size(k)' = Size(k)
  BY Zenon DEF Size, Wire
<1>3. \A k \in Mine..Len(sent) :
        \A i \in 1..Size(k) : LeftAt(start[k] + i)' = <<k, i>>
  <2>1. ASSUME NEW k \in Mine..Len(sent), NEW i \in 1..Size(k)
        PROVE  LeftAt(start[k] + i)' = <<k, i>>
    <3>1. PICK l : l = start[k] + i
      OBVIOUS
    <3>2. l \in 1..LeftLen
      BY <3>1, InLeft, LeftNat
    <3>3. LeftAt(l) = <<k, i>>
      BY <3>1 DEF Laid
    <3>4. LeftAt(l)' = <<k, i>>
      BY <3>2, <3>3
    <3> QED BY <3>1, <3>4
  <2> QED BY <2>1
<1>4. /\ start \in [1..Last' -> Int]
      /\ start[Mine'] = 0 /\ start[Last'] = LeftLen'
  BY <1>1 DEF Laid
<1>5. \A k \in Mine'..Len(sent') : start[k + 1] = start[k] + Size(k)'
  BY <1>1, <1>2 DEF Laid
<1>6. \A j, k \in Mine'..Last' : j < k => start[j] + Size(j)' <= start[k]
  BY <1>1, <1>2 DEF Laid
<1>7. \A k \in Mine'..Len(sent') :
        \A i \in 1..Size(k)' : LeftAt(start[k] + i)' = <<k, i>>
  BY <1>1, <1>2, <1>3
<1> QED BY <1>4, <1>5, <1>6, <1>7, Zenon DEF Laid

(* A message is laid behind the last.                                      *)
LEMMA EncodeLaid ==
  ASSUME FramingTypeOK, Len(decoded) <= Len(sent), NEW s \in Shape, Encode(s),
         NEW start, Laid(start)
  PROVE  \E t : Laid(t)'
<1> DEFINE size == Wire + s.head + s.body
<1>1. size \in Nat /\ size >= 3 /\ s.head \in Nat /\ s.body \in Nat
  <2>1. s \in [head : Nat, body : Nat]  BY FramingAssumption
  <2> QED BY <2>1 DEF Wire
<1>2. /\ Len(sent) \in Nat /\ Len(decoded) \in Nat /\ sent \in Seq(Shape)
  BY DEF FramingTypeOK
<1>3. /\ sent' = Append(sent, s) /\ decoded' = decoded
  BY DEF Encode
<1>4. /\ Len(sent') = Len(sent) + 1
      /\ \A k \in 1..Len(sent) : sent'[k] = sent[k]
      /\ sent'[Last] = s
  BY <1>2, <1>3 DEF Last
<1>5. Mine' = Mine /\ Last' = Last + 1 /\ Mine \in 1..Last /\ Last \in Nat
  BY <1>2, <1>3, <1>4 DEF Mine, Last
<1>6. PICK l : l = Last
  OBVIOUS
<1>7. \A k \in 1..Len(sent) : Size(k)' = Size(k)
  BY <1>4, Zenon DEF Size, Wire
<1>8. Size(l)' = size
  <2>1. sent'[l] = s
    BY <1>4, <1>6
  <2> QED BY <2>1 DEF Size, Wire
<1> HIDE DEF size
<1>9. /\ LeftLen' = LeftLen + size
      /\ \A i \in 1..LeftLen : LeftAt(i)' = LeftAt(i)
      /\ \A i \in LeftLen + 1..LeftLen + size : LeftAt(i)' = <<l, i - LeftLen>>
  <2>1. LeftLen + Wire + s.head + s.body = LeftLen + size
    <3>1. LeftLen \in Nat
      BY LeftNat
    <3>2. s.head \in Nat /\ s.body \in Nat
      BY <1>1
    <3> QED BY <3>1, <3>2 DEF size, Wire
  <2>2. /\ LeftLen' = LeftLen + Wire + s.head + s.body
        /\ \A i \in 1..LeftLen : LeftAt(i)' = LeftAt(i)
        /\ \A i \in LeftLen + 1..LeftLen + Wire + s.head + s.body :
             LeftAt(i)' = <<Last, i - LeftLen>>
    BY EncodeLeft, Zenon
  <2> QED BY <2>1, <2>2, <1>6, Zenon
<1>10. PICK t : t = [k \in 1..l + 1 |-> IF k <= l THEN start[k] ELSE LeftLen + size]
  OBVIOUS
<1>11. /\ t \in [1..l + 1 -> Int] /\ t[l + 1] = LeftLen + size
       /\ \A k \in 1..l : t[k] = start[k]
       /\ start[Mine] = 0 /\ start[l] = LeftLen
  <2>1. start \in [1..l -> Int] /\ start[Mine] = 0 /\ start[l] = LeftLen
    BY <1>6 DEF Laid
  <2> QED BY <2>1, <1>1, <1>5, <1>6, <1>10, LeftNat
<1>12. /\ t \in [1..Last' -> Int]
       /\ t[Mine'] = 0 /\ t[Last'] = LeftLen'
  BY <1>5, <1>6, <1>9, <1>11
<1>13. ASSUME NEW k \in Mine'..Len(sent')
       PROVE  t[k + 1] = t[k] + Size(k)'
  <2>1. CASE k < l
    <3>1. k \in Mine..Len(sent) /\ k \in 1..Len(sent)
      BY <2>1, <1>2, <1>5, <1>6 DEF Last
    <3>2. start[k + 1] = start[k] + Size(k)
      BY <3>1 DEF Laid
    <3>3. t[k + 1] = start[k + 1] /\ t[k] = start[k]
      BY <3>1, <2>1, <1>5, <1>6, <1>11
    <3> QED BY <3>1, <3>2, <3>3, <1>7
  <2>2. CASE k = l
    BY <2>2, <1>5, <1>6, <1>8, <1>11
  <2> QED BY <2>1, <2>2, <1>2, <1>4, <1>5, <1>6 DEF Last
<1>14. ASSUME NEW j \in Mine'..Last', NEW k \in Mine'..Last', j < k
       PROVE  t[j] + Size(j)' <= t[k]
  <2>1. j \in Mine..l /\ j \in 1..l /\ t[j] = start[j]
    BY <1>14, <1>5, <1>6, <1>11
  <2>2. CASE k <= l
    <3>1. /\ k \in Mine..l /\ t[k] = start[k] /\ j \in 1..Len(sent)
      BY <2>1, <2>2, <1>14, <1>2, <1>5, <1>6, <1>11 DEF Last
    <3>2. start[j] + Size(j) <= start[k]
      BY <2>1, <3>1, <1>6, <1>14 DEF Laid
    <3> QED BY <2>1, <3>1, <3>2, <1>7
  <2>3. CASE k = l + 1 /\ j < l
    <3>1. j \in 1..Len(sent) /\ j \in Mine..Len(sent)
      BY <2>1, <2>3, <1>2, <1>6 DEF Last, Mine
    <3>2. start[j] + Size(j) <= LeftLen
      BY <3>1, InLeft
    <3>3. start[j] \in Int /\ Size(j) \in Int
      BY <3>1, InLeft
    <3> QED BY <2>1, <2>3, <3>1, <3>2, <3>3, <1>1, <1>7, <1>11, LeftNat
  <2>4. CASE k = l + 1 /\ j = l
    BY <2>1, <2>4, <1>1, <1>8, <1>11, LeftNat
  <2> QED BY <2>1, <2>2, <2>3, <2>4, <1>5, <1>6
<1>15. ASSUME NEW k \in Mine'..Len(sent'), NEW i \in 1..Size(k)'
       PROVE  LeftAt(t[k] + i)' = <<k, i>>
  <2>1. PICK x : x = t[k] + i
    OBVIOUS
  <2>2. CASE k < l
    <3>1. k \in Mine..Len(sent) /\ k \in 1..Len(sent) /\ i \in 1..Size(k)
      BY <2>2, <1>2, <1>5, <1>6, <1>7, <1>15 DEF Last
    <3>2. x = start[k] + i
      BY <2>1, <3>1, <2>2, <1>5, <1>6, <1>11
    <3>3. x \in 1..LeftLen
      <4>1. start[k] \in Nat /\ Size(k) \in Nat /\ start[k] + Size(k) <= LeftLen
        BY <3>1, InLeft
      <4>2. LeftLen \in Nat /\ i \in 1..Size(k)
        BY <3>1, LeftNat
      <4> QED BY <3>2, <4>1, <4>2
    <3>4. LeftAt(x) = <<k, i>>
      BY <3>1, <3>2 DEF Laid
    <3>5. LeftAt(x)' = <<k, i>>
      BY <3>3, <3>4, <1>9
    <3> QED BY <2>1, <3>5
  <2>3. CASE k = l
    <3>1. i \in 1..size
      BY <2>3, <1>8, <1>15
    <3>2. x \in LeftLen + 1..LeftLen + size /\ x - LeftLen = i
      <4>1. t[k] = LeftLen
        BY <2>3, <1>5, <1>6, <1>11
      <4>2. LeftLen \in Nat /\ i \in Nat
        BY <3>1, <1>1, LeftNat
      <4> QED BY <4>1, <4>2, <2>1, <3>1, <1>1
    <3>3. LeftAt(x)' = <<k, i>>
      BY <3>2, <2>3, <1>9
    <3> QED BY <2>1, <3>3
  <2> QED BY <2>2, <2>3, <1>2, <1>4, <1>5, <1>6 DEF Last
<1>16. Laid(t)'
  BY <1>12, <1>13, <1>14, <1>15, Zenon DEF Laid
<1> QED BY <1>16

(* What try_decode reads at the offset is the first message not decoded.   *)
LEMMA Front ==
  ASSUME HeadersFit, FramingTypeOK, Len(decoded) <= Len(sent),
         NEW start, Laid(start), Available >= Wire
  PROVE  /\ Mine \in 1..Len(sent) /\ sent[Mine] \in Shape
         /\ sent[Mine].head \in Nat /\ sent[Mine].body \in Nat
         /\ HasMagic /\ HeaderField = sent[Mine].head
         /\ BodyField = sent[Mine].body /\ FrameSize = Size(Mine)
         /\ \A i \in 1..Size(Mine) :
              i <= Available => inbound[inbound_offset + i] = <<Mine, i>>
<1>1. Len(sent) \in Nat /\ Len(decoded) \in Nat
  BY DEF FramingTypeOK
<1>2. Mine \in 1..Len(sent) /\ Mine \in Mine..Len(sent)
  <2>1. SUFFICES ASSUME Mine = Last  PROVE FALSE
    BY <1>1 DEF Mine, Last
  <2>2. LeftLen = 0
    BY <2>1 DEF Laid
  <2> QED BY <2>2, LeftNat DEF Wire
<1>3. /\ sent[Mine] \in Shape /\ sent[Mine].head \in Nat
      /\ sent[Mine].body \in Nat /\ Size(Mine) \in Nat /\ Size(Mine) >= 3
  BY <1>2, SizeNat
<1>4. ASSUME NEW i \in 1..Size(Mine), i <= Available
      PROVE  inbound[inbound_offset + i] = <<Mine, i>>
  <2>1. start[Mine] = 0 /\ LeftAt(start[Mine] + i) = <<Mine, i>>
    BY <1>2 DEF Laid
  <2>2. LeftAt(i) = <<Mine, i>>
    <3>1. start[Mine] + i = i
      BY <2>1, <1>3
    <3> QED BY <2>1, <3>1
  <2> QED BY <2>2, <1>4, Zenon DEF LeftAt
<1>5. ByteAt(1) = <<Mine, 1>> /\ ByteAt(2) = <<Mine, 2>> /\ ByteAt(3) = <<Mine, 3>>
  <2>1. \A i \in 1..3 : i \in 1..Size(Mine) /\ i <= Available
    BY <1>3, LeftNat DEF Wire
  <2>2. \A i \in 1..3 : inbound[inbound_offset + i] = <<Mine, i>>
    BY <2>1, <1>4
  <2> QED BY <2>2 DEF ByteAt
<1>6. HasMagic
  BY <1>5 DEF HasMagic
<1>7. HeaderField = sent[Mine].head
  <2>1. HeaderField = sent[Mine].head % FieldLimit
    BY <1>5 DEF HeaderField
  <2>2. sent[Mine].head < FieldLimit /\ FieldLimit \in Nat
    BY <1>3, FramingAssumption DEF HeadersFit
  <2> QED BY <2>1, <2>2, <1>3
<1>8. BodyField = sent[Mine].body
  BY <1>5 DEF BodyField
<1>9. FrameSize = Size(Mine)
  BY <1>7, <1>8 DEF FrameSize, Size
<1> QED BY <1>2, <1>3, <1>4, <1>6, <1>7, <1>8, <1>9

LEMMA BytesAre ==
  ASSUME NEW k \in 1..MaxMessages, NEW m \in Nat \ {0}, NEW n \in Int
  PROVE  Bytes(k, m, n) \in Seq(Byte)
<1>1. CASE n < m
  <2>1. Bytes(k, m, n) = [i \in 1..n - m + 1 |-> <<k, m + i - 1>>]
    BY Zenon DEF Bytes
  <2>2. 1..n - m + 1 = 1..0 /\ 0 \in Nat
    BY <1>1
  <2>3. [i \in 1..0 |-> <<k, m + i - 1>>] \in Seq(Byte)
    OBVIOUS
  <2> QED BY <2>1, <2>2, <2>3
<1>2. CASE n >= m
  <2>1. n - m + 1 \in Nat /\ MaxMessages \in Nat
    BY <1>2, FramingAssumption
  <2>2. \A i \in 1..n - m + 1 : <<k, m + i - 1>> \in Byte
    BY <2>1 DEF Byte
  <2> DEFINE l == n - m + 1
  <2> HIDE DEF l
  <2>3. l \in Nat /\ \A i \in 1..l : <<k, m + i - 1>> \in Byte
    BY <2>1, <2>2 DEF l
  <2>4. [i \in 1..l |-> <<k, m + i - 1>>] \in Seq(Byte)
    BY <2>3
  <2> QED BY <2>4 DEF l, Bytes
<1> QED BY <1>1, <1>2

(* The bytes of the message that are cut out of the buffer.                *)
LEMMA CutOut ==
  ASSUME FramingTypeOK, NEW k, NEW size \in Nat, size <= Available,
         \A i \in 1..size : inbound[inbound_offset + i] = <<k, i>>,
         NEW m \in Nat, NEW n \in Nat, m <= n, n <= size
  PROVE  SubSeq(inbound, inbound_offset + m + 1, inbound_offset + n) = Bytes(k, m + 1, n)
<1>1. /\ inbound \in Seq(Byte) /\ inbound_offset \in Nat
      /\ inbound_offset + n <= Len(inbound)
  BY LeftNat DEF FramingTypeOK, Available
<1> DEFINE q == SubSeq(inbound, inbound_offset + m + 1, inbound_offset + n)
           b == Bytes(k, m + 1, n)
<1>2. /\ q = [i \in 1..n - m |-> inbound[inbound_offset + m + i]]
  BY <1>1
<1>3. b = [i \in 1..n - m |-> <<k, m + i>>]
  BY DEF Bytes
<1>4. ASSUME NEW i \in 1..n - m
      PROVE  inbound[inbound_offset + m + i] = <<k, m + i>>
  <2>1. PICK j : j = m + i
    OBVIOUS
  <2>2. j \in 1..size /\ inbound_offset + m + i = inbound_offset + j
    BY <2>1, <1>1
  <2> QED BY <2>1, <2>2
<1> QED BY <1>2, <1>3, <1>4

LEMMA Decodes ==
  ASSUME HeadersFit, IInv, NEW start, Laid(start), DecodeMessage
  PROVE  /\ HasMagic /\ Mine \in 1..Len(sent)
         /\ Size(Mine) \in 0..Available
         /\ decoded' = Append(decoded, Decoded)
         /\ Decoded = [head |-> Bytes(Mine, Wire + 1, Wire + sent[Mine].head),
                       body |-> Bytes(Mine, Wire + sent[Mine].head + 1, Size(Mine))]
         /\ Decoded \in [head : Seq(Byte), body : Seq(Byte)]
         /\ Consume(inbound_offset + Size(Mine)) /\ rpc' = AfterMessage
<1>1. FramingTypeOK /\ Len(decoded) <= Len(sent) /\ Len(sent) <= MaxMessages
  BY DEF IInv, DecodedIsSent
<1>2. rpc = "decode" /\ ~Short
  BY DEF DecodeMessage
<1>3. Available >= Wire
  BY <1>1, <1>2, LeftNat DEF Short, Wire
<1>4. /\ Mine \in 1..Len(sent)
      /\ sent[Mine].head \in Nat /\ sent[Mine].body \in Nat
      /\ HasMagic /\ HeaderField = sent[Mine].head
      /\ BodyField = sent[Mine].body /\ FrameSize = Size(Mine)
      /\ \A i \in 1..Size(Mine) :
           i <= Available => inbound[inbound_offset + i] = <<Mine, i>>
  BY <1>1, <1>3, Front
<1>5. Size(Mine) \in Nat /\ Size(Mine) <= Available
  BY <1>1, <1>2, <1>3, <1>4, LeftNat, SizeNat DEF Short
<1>6. /\ decoded' = Append(decoded, Decoded)
      /\ Consume(inbound_offset + Size(Mine)) /\ rpc' = AfterMessage
  BY <1>4, Zenon DEF DecodeMessage
<1>7. \A i \in 1..Size(Mine) : inbound[inbound_offset + i] = <<Mine, i>>
  <2>1. Available \in Nat
    BY <1>1, LeftNat
  <2>2. \A i \in 1..Size(Mine) : i <= Available
    BY <2>1, <1>5
  <2> QED BY <2>2, <1>4
<1>8. /\ Wire \in Nat /\ Wire + sent[Mine].head \in Nat
      /\ Wire <= Wire + sent[Mine].head /\ Wire + sent[Mine].head <= Size(Mine)
      /\ inbound_offset \in Nat
  <2>1. inbound_offset \in Nat
    BY <1>1, LeftNat
  <2>2. sent[Mine].head \in Nat /\ sent[Mine].body \in Nat
    BY <1>4
  <2> QED BY <2>1, <2>2 DEF Wire, Size
<1> DEFINE h == Wire + sent[Mine].head
           z == Size(Mine)
<1> HIDE DEF h, z
<1>7a. /\ h \in Nat /\ z \in Nat /\ Wire \in Nat /\ Wire <= h /\ h <= z
      /\ z <= Available /\ \A i \in 1..z : inbound[inbound_offset + i] = <<Mine, i>>
  BY <1>5, <1>7, <1>8 DEF h, z
<1>9. SubSeq(inbound, inbound_offset + Wire + 1, inbound_offset + h) = Bytes(Mine, Wire + 1, h)
  <2>1. Wire <= z
    BY <1>7a
  <2> QED BY <2>1, <1>1, <1>7a, CutOut
<1>10. SubSeq(inbound, inbound_offset + h + 1, inbound_offset + z) = Bytes(Mine, h + 1, z)
  <2>1. z <= z
    BY <1>7a
  <2> QED BY <2>1, <1>1, <1>7a, CutOut
<1> USE DEF h, z
<1>11. Decoded = [head |-> Bytes(Mine, Wire + 1, Wire + sent[Mine].head),
                  body |-> Bytes(Mine, Wire + sent[Mine].head + 1, Size(Mine))]
  <2>1. /\ inbound_offset + (Wire + sent[Mine].head) = inbound_offset + Wire + HeaderField
        /\ inbound_offset + (Wire + sent[Mine].head) + 1 = inbound_offset + Wire + HeaderField + 1
        /\ inbound_offset + Size(Mine) = inbound_offset + FrameSize
    BY <1>4, <1>8
  <2> QED BY <2>1, <1>9, <1>10, Zenon DEF Decoded
<1>12. Decoded \in [head : Seq(Byte), body : Seq(Byte)]
  <2>1. Mine \in 1..MaxMessages
    BY <1>1, <1>4, FramingAssumption DEF FramingTypeOK
  <2>2. /\ Wire + 1 \in Nat \ {0} /\ Wire + sent[Mine].head + 1 \in Nat \ {0}
        /\ Wire + sent[Mine].head \in Int /\ Size(Mine) \in Int
    BY <1>5, <1>8
  <2>3. /\ Bytes(Mine, Wire + 1, Wire + sent[Mine].head) \in Seq(Byte)
        /\ Bytes(Mine, Wire + sent[Mine].head + 1, Size(Mine)) \in Seq(Byte)
    BY <2>1, <2>2, BytesAre
  <2> QED BY <2>3, <1>11
<1> QED BY <1>4, <1>5, <1>6, <1>11, <1>12

LEMMA DecodeLaid ==
  ASSUME HeadersFit, IInv, NEW start, Laid(start), DecodeMessage
  PROVE  \E t : Laid(t)'
<1>1. FramingTypeOK /\ Len(decoded) \in Nat /\ Len(sent) \in Nat
  BY DEF IInv, FramingTypeOK
<1>2. PICK f : f = Size(Mine)
  OBVIOUS
<1>3. /\ f \in 0..Available /\ Consume(inbound_offset + f) /\ Mine \in 1..Len(sent)
      /\ decoded' = Append(decoded, Decoded)
      /\ UNCHANGED <<sent, wire, outbound>>
  <2>1. UNCHANGED <<sent, wire, outbound>>
    BY DEF DecodeMessage
  <2> QED BY <2>1, <1>2, Decodes
<1>4. /\ LeftLen' = LeftLen - f
      /\ \A i \in 1..LeftLen - f : LeftAt(i)' = LeftAt(f + i)
  BY <1>1, <1>3, ConsumeLeft, Zenon
<1>5. Mine' = Mine + 1 /\ Last' = Last /\ Mine + 1 \in 1..Last
  <2>1. Len(decoded') = Len(decoded) + 1
    BY <1>3, <1>1 DEF FramingTypeOK
  <2> QED BY <2>1, <1>1, <1>3 DEF Mine, Last
<1>6. \A k : Size(k)' = Size(k)
  BY <1>3, Zenon DEF Size, Wire
<1>7. /\ start \in [1..Last -> Int] /\ start[Mine] = 0 /\ start[Last] = LeftLen
      /\ \A k \in Mine..Len(sent) : start[k + 1] = start[k] + Size(k)
      /\ \A j, k \in Mine..Last : j < k => start[j] + Size(j) <= start[k]
  BY Zenon DEF Laid
<1>8. PICK t : t = [k \in 1..Last |-> start[k] - f]
  OBVIOUS
<1>9. t \in [1..Last -> Int] /\ \A k \in 1..Last : t[k] = start[k] - f
  BY <1>3, <1>7, <1>8
<1>10. /\ t \in [1..Last' -> Int]
       /\ t[Mine'] = 0 /\ t[Last'] = LeftLen'
  <2>1. Mine \in Mine..Len(sent) /\ Last \in 1..Last
    BY <1>1, <1>3, <1>5 DEF Last
  <2>2. start[Mine + 1] = f
    BY <2>1, <1>2, <1>3, <1>7
  <2>3. t[Mine + 1] = f - f
    BY <2>2, <1>5, <1>9
  <2> QED BY <2>1, <2>3, <1>3, <1>4, <1>5, <1>7, <1>9
<1>11. ASSUME NEW k \in Mine'..Len(sent')
       PROVE  t[k + 1] = t[k] + Size(k)'
  <2>1. /\ k \in Mine..Len(sent) /\ k \in 1..Last /\ k + 1 \in 1..Last
        /\ k \in 1..Len(sent)
    BY <1>11, <1>1, <1>3, <1>5 DEF Last
  <2>2. start[k + 1] = start[k] + Size(k) /\ Size(k) \in Int /\ start[k] \in Int
    BY <2>1, <1>1, <1>7, SizeNat
  <2> QED BY <2>1, <2>2, <1>3, <1>6, <1>9
<1>12. ASSUME NEW j \in Mine'..Last', NEW k \in Mine'..Last', j < k
       PROVE  t[j] + Size(j)' <= t[k]
  <2>1. /\ j \in Mine..Last /\ k \in Mine..Last /\ j \in 1..Last /\ k \in 1..Last
        /\ j \in 1..Len(sent)
    BY <1>12, <1>1, <1>3, <1>5 DEF Last
  <2>2. /\ start[j] + Size(j) <= start[k] /\ Size(j) \in Int
        /\ start[j] \in Int /\ start[k] \in Int
    <3>1. start[j] + Size(j) <= start[k] /\ start[j] \in Int /\ start[k] \in Int
      BY <2>1, <1>7, <1>12
    <3>2. Size(j) \in Int
      BY <2>1, <1>1, SizeNat
    <3> QED BY <3>1, <3>2
  <2> QED BY <2>1, <2>2, <1>3, <1>6, <1>9
<1>13. ASSUME NEW k \in Mine'..Len(sent'), NEW i \in 1..Size(k)'
       PROVE  LeftAt(t[k] + i)' = <<k, i>>
  <2>1. PICK x : x = t[k] + i
    OBVIOUS
  <2>2. /\ k \in Mine..Len(sent) /\ k \in 1..Last /\ k \in Mine..Last
        /\ k \in 1..Len(sent) /\ Mine < k /\ i \in 1..Size(k)
        /\ Mine \in Mine..Last
    BY <1>13, <1>1, <1>3, <1>5, <1>6 DEF Last
  <2>3. /\ start[k] \in Nat /\ Size(k) \in Nat /\ start[k] + Size(k) <= LeftLen
        /\ f <= start[k]
    <3>1. start[k] \in Nat /\ Size(k) \in Nat /\ start[k] + Size(k) <= LeftLen
      BY <1>1, <2>2, InLeft
    <3>2. start[Mine] + Size(Mine) <= start[k]
      BY <2>2, <1>7
    <3> QED BY <3>1, <3>2, <1>2, <1>3, <1>7
  <2>4. x \in 1..LeftLen - f /\ f + x = start[k] + i
    <3>1. t[k] = start[k] - f
      BY <2>2, <1>9
    <3>2. LeftLen \in Nat /\ f \in Nat /\ i \in 1..Size(k)
      BY <2>2, <1>1, <1>3, LeftNat
    <3> QED BY <3>1, <3>2, <2>1, <2>3
  <2>5. LeftAt(x)' = LeftAt(f + x)
    BY <2>4, <1>4
  <2>6. LeftAt(start[k] + i) = <<k, i>>
    BY <2>2 DEF Laid
  <2>7. LeftAt(f + x) = <<k, i>>
    BY <2>4, <2>6
  <2> QED BY <2>1, <2>5, <2>7
<1>14. Laid(t)'
  BY <1>10, <1>11, <1>12, <1>13, Zenon DEF Laid
<1> QED BY <1>14

-----------------------------------------------------------------------------
(* The steps keep the types                                                *)

LEMMA EncodeTypes ==
  ASSUME FramingTypeOK, NEW s \in Shape, Encode(s)
  PROVE  FramingTypeOK' /\ Len(sent') <= MaxMessages
<1>1. /\ s.head \in Nat /\ s.body \in Nat
  <2>1. s \in [head : Nat, body : Nat]  BY FramingAssumption
  <2> QED BY <2>1
<1>2. /\ Len(sent) \in Nat /\ Len(sent) < MaxMessages /\ MaxMessages \in Nat
      /\ sent \in Seq(Shape) /\ outbound \in Seq(Byte)
  BY FramingAssumption DEF FramingTypeOK, Encode
<1>3. /\ sent' = Append(sent, s)
      /\ outbound' = outbound \o Bytes(Len(sent) + 1, 1, Wire + s.head + s.body)
      /\ UNCHANGED <<receiver, wire, inbound, inbound_offset, decoded, rpc>>
  BY DEF Encode, buffer
<1>4. sent' \in Seq(Shape) /\ Len(sent') <= MaxMessages
  BY <1>2, <1>3
<1>5. outbound' \in Seq(Byte)
  <2> DEFINE b == Bytes(Len(sent) + 1, 1, Wire + s.head + s.body)
  <2>1. b \in Seq(Byte)
    <3>1. Len(sent) + 1 \in 1..MaxMessages /\ Wire + s.head + s.body \in Int
      BY <1>1, <1>2 DEF Wire
    <3>2. 1 \in Nat \ {0}
      OBVIOUS
    <3> QED BY <3>1, <3>2, BytesAre
  <2> HIDE DEF b
  <2>2. outbound \o b \in Seq(Byte)
    BY <2>1, <1>2, Behind
  <2> QED BY <2>2, <1>3, Zenon DEF b
<1> QED BY <1>3, <1>4, <1>5 DEF FramingTypeOK

LEMMA SendTypes ==
  ASSUME FramingTypeOK, NEW n \in 1..Len(outbound), SendBytes(n)
  PROVE  FramingTypeOK'
<1> DEFINE a == SubSeq(outbound, 1, n)
           b == SubSeq(outbound, n + 1, Len(outbound))
<1>1. /\ wire' = wire \o a /\ outbound' = b
      /\ UNCHANGED <<receiver, sent, inbound, inbound_offset, decoded, rpc>>
  BY DEF SendBytes, buffer
<1>2. /\ outbound \in Seq(Byte) /\ wire \in Seq(Byte)
      /\ n \in 0..Len(outbound)
  BY DEF FramingTypeOK
<1>3. a \in Seq(Byte) /\ b \in Seq(Byte)
  BY <1>2, Cut
<1> HIDE DEF a, b
<1>4. wire' \in Seq(Byte) /\ outbound' \in Seq(Byte)
  BY <1>1, <1>2, <1>3, Behind
<1> QED BY <1>1, <1>4 DEF FramingTypeOK

LEMMA RecvTypes ==
  ASSUME FramingTypeOK, Recv
  PROVE  FramingTypeOK' /\ rpc' # "thrown"
<1> DEFINE n == IF Len(wire) < RecvMax THEN Len(wire) ELSE RecvMax
           a == SubSeq(wire, 1, n)
           b == SubSeq(wire, n + 1, Len(wire))
<1>1. /\ inbound' = inbound \o a /\ wire' = b
      /\ UNCHANGED <<receiver, sent, outbound, inbound_offset, decoded>>
      /\ rpc' \in {"recv", "decode"}
  BY DEF Recv
<1>2. /\ inbound \in Seq(Byte) /\ wire \in Seq(Byte) /\ n \in 0..Len(wire)
  BY FramingAssumption DEF FramingTypeOK
<1> HIDE DEF n
<1>3. a \in Seq(Byte) /\ b \in Seq(Byte)
  BY <1>2, Cut
<1> HIDE DEF a, b
<1>4. /\ inbound' \in Seq(Byte) /\ wire' \in Seq(Byte)
      /\ inbound_offset' \in 0..Len(inbound')
  <2>1. /\ inbound \o a \in Seq(Byte)
        /\ Len(inbound \o a) = Len(inbound) + Len(a)
    BY <1>2, <1>3, Behind
  <2>2. Len(a) \in Nat /\ Len(inbound) \in Nat /\ inbound_offset \in 0..Len(inbound)
    BY <1>2, <1>3 DEF FramingTypeOK
  <2>3. inbound' \in Seq(Byte) /\ Len(inbound') = Len(inbound) + Len(a)
    BY <2>1, <1>1, Zenon
  <2> QED BY <2>2, <2>3, <1>1, <1>3
<1> QED BY <1>1, <1>4 DEF FramingTypeOK

-----------------------------------------------------------------------------
(* The invariant                                                           *)

LEMMA SentBefore ==
  ASSUME DecodedIsSent, FramingTypeOK, UNCHANGED decoded, rpc' # "thrown",
         Len(sent') >= Len(sent), \A k \in 1..Len(sent) : sent'[k] = sent[k]
  PROVE  DecodedIsSent'
<1>1. /\ Len(decoded) \in Nat /\ Len(sent) \in Nat /\ Len(decoded) <= Len(sent)
  BY DEF FramingTypeOK, DecodedIsSent
<1>2. Len(decoded') <= Len(sent')
  <2>1. Len(sent') \in Int \/ Len(sent') \notin Int
    OBVIOUS
  <2> QED BY <1>1
<1>3. ASSUME NEW k \in 1..Len(decoded')
      PROVE  LET h == Wire + sent'[k].head
             IN decoded'[k] = [head |-> Bytes(k, Wire + 1, h),
                               body |-> Bytes(k, h + 1, h + sent'[k].body)]
  <2>1. k \in 1..Len(decoded) /\ sent'[k] = sent[k] /\ decoded'[k] = decoded[k]
    BY <1>1
  <2> QED BY <2>1, Zenon DEF DecodedIsSent
<1> QED BY <1>2, <1>3, Zenon DEF DecodedIsSent, Wire, Bytes

LEMMA DecodeKeeps ==
  ASSUME HeadersFit, IInv, DecodeMessage
  PROVE  IInv'
<1>1. PICK start : Laid(start)
  BY DEF IInv
<1>2. FramingTypeOK /\ DecodedIsSent /\ Len(sent) <= MaxMessages
  BY DEF IInv
<1>3. \E t : Laid(t)'
  BY <1>1, DecodeLaid
<1>4. /\ Mine \in 1..Len(sent) /\ Size(Mine) \in 0..Available
      /\ decoded' = Append(decoded, Decoded)
      /\ Decoded = [head |-> Bytes(Mine, Wire + 1, Wire + sent[Mine].head),
                    body |-> Bytes(Mine, Wire + sent[Mine].head + 1, Size(Mine))]
      /\ Decoded \in [head : Seq(Byte), body : Seq(Byte)]
      /\ Consume(inbound_offset + Size(Mine)) /\ rpc' = AfterMessage
  BY <1>1, Decodes
<1>5. UNCHANGED <<receiver, sent, outbound, wire>>
  BY DEF DecodeMessage
<1>6. inbound' \in Seq(Byte) /\ inbound_offset' \in 0..Len(inbound')
  <2>1. PICK f : f = Size(Mine)
    OBVIOUS
  <2> QED BY <2>1, <1>2, <1>4, <1>5, ConsumeLeft
<1>7. /\ decoded' \in Seq([head : Seq(Byte), body : Seq(Byte)])
      /\ Len(decoded') = Len(decoded) + 1 /\ Len(decoded) \in Nat
      /\ \A k \in 1..Len(decoded) : decoded'[k] = decoded[k]
      /\ decoded'[Mine] = Decoded
  <2> DEFINE S == [head : Seq(Byte), body : Seq(Byte)]
             d == Decoded
  <2>1. decoded \in Seq(S) /\ d \in S
    BY <1>2, <1>4 DEF FramingTypeOK
  <2> HIDE DEF S, d
  <2>2. decoded' = Append(decoded, d)
    BY <1>4 DEF d
  <2>3. /\ decoded' \in Seq(S) /\ Len(decoded') = Len(decoded) + 1
        /\ Len(decoded) \in Nat
        /\ \A k \in 1..Len(decoded) : decoded'[k] = decoded[k]
        /\ decoded'[Len(decoded) + 1] = d
    BY <2>1, <2>2
  <2> QED BY <2>3 DEF S, d, Mine
<1>8. FramingTypeOK'
  <2>1. rpc' \in {"wait", "decode"}
    BY <1>4 DEF AfterMessage
  <2> QED BY <2>1, <1>2, <1>5, <1>6, <1>7 DEF FramingTypeOK
<1>9. DecodedIsSent'
  <2>1. rpc' # "thrown"
    BY <1>4 DEF AfterMessage
  <2>2. Len(decoded') <= Len(sent')
    <3>1. Len(sent) \in Nat
      BY <1>2 DEF FramingTypeOK
    <3> QED BY <3>1, <1>4, <1>5, <1>7 DEF Mine
  <2>3. ASSUME NEW k \in 1..Len(decoded')
        PROVE  LET h == Wire + sent'[k].head
               IN decoded'[k] = [head |-> Bytes(k, Wire + 1, h),
                                 body |-> Bytes(k, h + 1, h + sent'[k].body)]
    <3>1. CASE k \in 1..Len(decoded)
      <4>1. decoded'[k] = decoded[k] /\ sent' = sent
        BY <3>1, <1>5, <1>7
      <4> QED BY <3>1, <4>1, <1>2, Zenon DEF DecodedIsSent
    <3>2. CASE k = Mine
      <4>1. Size(Mine) = Wire + sent[Mine].head + sent[Mine].body
        BY Zenon DEF Size
      <4> QED BY <3>2, <4>1, <1>4, <1>5, <1>7, Zenon
    <3> QED BY <3>1, <3>2, <1>7 DEF Mine
  <2> QED BY <2>1, <2>2, <2>3, Zenon DEF DecodedIsSent, Wire, Bytes
<1> QED BY <1>2, <1>3, <1>5, <1>8, <1>9 DEF IInv

LEMMA Inductive ==
  ASSUME HeadersFit, IInv, [FramingNext]_framingVars
  PROVE  IInv'
<1>1. FramingTypeOK /\ DecodedIsSent /\ Len(sent) <= MaxMessages /\ Len(sent) \in Nat
  BY DEF IInv, FramingTypeOK
<1>2. Len(decoded) <= Len(sent) /\ rpc # "thrown"
  BY <1>1 DEF DecodedIsSent
<1>3. PICK start : Laid(start)
  BY DEF IInv
<1>4. ASSUME UNCHANGED <<receiver, sent, outbound, wire, inbound, inbound_offset, decoded>>,
             rpc' \in {"wait", "recv", "decode"}
      PROVE  IInv'
  <2>1. FramingTypeOK'
    BY <1>1, <1>4 DEF FramingTypeOK
  <2>2. DecodedIsSent'
    BY <1>1, <1>4, SentBefore
  <2>3. LeftLen' = LeftLen /\ \A i \in 1..LeftLen : LeftAt(i)' = LeftAt(i)
    BY <1>4, Zenon DEF LeftLen, LeftAt, Available
  <2>4. Laid(start)'
    BY <2>3, <1>1, <1>3, <1>4, Keeps
  <2> QED BY <2>1, <2>2, <2>4, <1>1, <1>4 DEF IInv
<1>5. CASE DecodeMessage
  BY <1>5, DecodeKeeps
<1>6. CASE NoMessage \/ Readable \/ RecvAgain \/ Call
  BY <1>6, <1>4 DEF NoMessage, Readable, RecvAgain, Call, buffer
<1>7. CASE Recv
  <2>1. FramingTypeOK' /\ rpc' # "thrown"
    BY <1>1, <1>7, RecvTypes
  <2>2. UNCHANGED <<sent, decoded>>
    BY <1>7 DEF Recv
  <2>3. DecodedIsSent'
    BY <2>1, <2>2, <1>1, SentBefore
  <2>4. LeftLen' = LeftLen /\ \A i \in 1..LeftLen : LeftAt(i)' = LeftAt(i)
    BY <1>1, <1>7, RecvLeft
  <2>5. Laid(start)'
    BY <2>2, <2>4, <1>1, <1>3, Keeps
  <2> QED BY <2>1, <2>2, <2>3, <2>5, <1>1 DEF IInv
<1>8. ASSUME NEW n \in 1..Len(outbound), SendBytes(n)  PROVE IInv'
  <2>1. FramingTypeOK'
    BY <1>1, <1>8, SendTypes
  <2>2. UNCHANGED <<sent, decoded, rpc>>
    BY <1>8 DEF SendBytes
  <2>3. DecodedIsSent'
    BY <2>2, <1>1, <1>2, SentBefore
  <2>4. LeftLen' = LeftLen /\ \A i \in 1..LeftLen : LeftAt(i)' = LeftAt(i)
    BY <1>1, <1>8, SendLeft
  <2>5. Laid(start)'
    BY <2>2, <2>4, <1>1, <1>3, Keeps
  <2> QED BY <2>1, <2>2, <2>3, <2>5, <1>1 DEF IInv
<1>9. ASSUME NEW s \in Shape, Encode(s)  PROVE IInv'
  <2>1. FramingTypeOK' /\ Len(sent') <= MaxMessages
    BY <1>1, <1>9, EncodeTypes
  <2>2. UNCHANGED <<decoded, rpc>> /\ sent' = Append(sent, s)
    BY <1>9 DEF Encode
  <2>3. /\ Len(sent') >= Len(sent)
        /\ \A k \in 1..Len(sent) : sent'[k] = sent[k]
    BY <2>2, <1>1 DEF FramingTypeOK
  <2>4. DecodedIsSent'
    BY <2>2, <2>3, <1>1, <1>2, SentBefore
  <2>5. \E t : Laid(t)'
    BY <1>1, <1>2, <1>3, <1>9, EncodeLaid
  <2> QED BY <2>1, <2>4, <2>5 DEF IInv
<1>10. CASE UNCHANGED framingVars
  <2>1. rpc' \in {"wait", "recv", "decode"}
    BY <1>1, <1>2, <1>10 DEF framingVars, FramingTypeOK
  <2> QED BY <2>1, <1>4, <1>10 DEF framingVars, buffer
<1> QED
  BY <1>5, <1>6, <1>7, <1>8, <1>9, <1>10 DEF FramingNext, Receiver, Sender

LEMMA Initial == FramingInit => IInv
<1> SUFFICES ASSUME FramingInit PROVE IInv
  OBVIOUS
<1>1. /\ sent = <<>> /\ outbound = <<>> /\ wire = <<>> /\ inbound = <<>>
      /\ inbound_offset = 0 /\ decoded = <<>> /\ rpc = "wait"
      /\ receiver \in {"server", "client"}
  BY DEF FramingInit
<1>2. FramingTypeOK /\ Len(sent) <= MaxMessages
  BY <1>1, FramingAssumption DEF FramingTypeOK
<1>3. DecodedIsSent
  BY <1>1 DEF DecodedIsSent
<1>4. Laid([k \in 1..1 |-> 0])
  BY <1>1 DEF Laid, Mine, Last, LeftLen, Available
<1> QED BY <1>2, <1>3, <1>4 DEF IInv

(* As long as the headers of every message fit into header_size, the       *)
(* receiver gets the messages that were sent, in order and whole, and the  *)
(* receiver never stops on a magic number that is not one: for messages of *)
(* any size, a buffer compacted at any moment and a stream cut anywhere.   *)
THEOREM MessagesArriveWhole == HeadersFit /\ FramingSpec => []DecodedIsSent
<1> SUFFICES ASSUME HeadersFit  PROVE FramingSpec => []DecodedIsSent
  OBVIOUS
<1>1. IInv /\ [FramingNext]_framingVars => IInv'
  BY Inductive
<1>2. IInv => DecodedIsSent
  BY DEF IInv
<1> QED BY Initial, <1>1, <1>2, PTL DEF FramingSpec

-----------------------------------------------------------------------------
(* Resumable upload: types *)

LEMMA Numbers ==
  /\ Blocks \in Nat /\ None \notin Nat /\ None \notin Seq(Nat) /\ None \notin Fd
  /\ None \notin CommitTask /\ PathOf \in [Client -> Path]
  /\ 0 \in 0..Blocks /\ MaxDrops \in Nat /\ MaxCrashes \in Nat
  BY UploadAssumption

LEMMA JobKinds ==
  ASSUME job \in Jobs
  PROVE  /\ job.phase \in {"truncate", "flush"} => job \in Saves
         /\ job.phase = "copy" =>
              /\ job \in [phase : {"copy"}, client : Client, data : Content]
              /\ job.client \in Client /\ job.data \in Content
         /\ job.phase = "upsert" =>
              job \in [phase : {"upsert"}, client : Client] /\ job.client \in Client
         /\ job = Idle \/ job.phase \in {"truncate", "flush", "copy", "upsert"}
  BY DEF Jobs, Saves, Idle

(* schedule_response adds to the replies of one connection at most.        *)
LEMMA Sending ==
  ASSUME NEW d, NEW reply \in Replies, outbox \in [Client -> Seq(Replies)],
         SendTo(d, reply)
  PROVE  /\ outbox' \in [Client -> Seq(Replies)]
         /\ \A c \in Client :
              outbox'[c] = IF d # None /\ fd[c] = d THEN Append(outbox[c], reply)
                           ELSE outbox[c]
<1>1. \A c \in Client : outbox[c] \in Seq(Replies) /\ Append(outbox[c], reply) \in Seq(Replies)
  OBVIOUS
<1> QED BY <1>1 DEF SendTo

LEMMA Answer ==
  ASSUME NEW status \in {"ready", "instant", "ok", "error"}, NEW off \in 0..Blocks
  PROVE  Reply(status, off) \in Replies
  BY DEF Reply, Replies

(* A queue that loses its first or gets a last element.                    *)
LEMMA Queues ==
  ASSUME NEW S, NEW q \in Seq(S)
  PROVE  /\ Len(q) \in Nat
         /\ \A i \in 1..Len(q) : q[i] \in S
         /\ q # <<>> => /\ Len(q) > 0 /\ Head(q) = q[1] /\ Head(q) \in S
                        /\ Tail(q) \in Seq(S)
                        /\ Len(Tail(q)) = Len(q) - 1
                        /\ \A i \in 1..Len(q) - 1 : Tail(q)[i] = q[i + 1]
         /\ \A x \in S : /\ Append(q, x) \in Seq(S)
                         /\ Len(Append(q, x)) = Len(q) + 1
                         /\ Append(q, x)[Len(q) + 1] = x
                         /\ \A i \in 1..Len(q) : Append(q, x)[i] = q[i]
  OBVIOUS

(* The chunk a client sends is one of the file.                            *)
ChunkSent(c) == pos[c] <= offset[c] /\ (pc[c] = "chunk" => offset[c] < Blocks)
Typed == TypeOK /\ \A c \in Client : ChunkSent(c)

LEMMA TypedInit == Init => Typed
<1> SUFFICES ASSUME Init  PROVE Typed
  OBVIOUS
<1>1. /\ tasks = <<>> /\ tasks \in Seq(CommitTask)
      /\ inbox \in [Client -> Seq(Requests)] /\ outbox \in [Client -> Seq(Replies)]
  BY DEF Init
<1>2. job \in Jobs
  BY DEF Init, Jobs
<1>3. TypeOK
  BY <1>1, <1>2, Numbers DEF Init, TypeOK
<1>4. \A c \in Client : ChunkSent(c)
  BY DEF Init, ChunkSent
<1> QED BY <1>3, <1>4 DEF Typed

LEMMA RequestTypes ==
  ASSUME Typed, NEW c \in Client, NEW r \in Requests, Send(c, r)
  PROVE  inbox' \in [Client -> Seq(Requests)]
<1>1. inbox[c] \in Seq(Requests)
  BY DEF Typed, TypeOK
<1>2. Append(inbox[c], r) \in Seq(Requests)
  BY <1>1
<1> QED BY <1>2 DEF Typed, TypeOK, Send

LEMMA ReadTypes ==
  ASSUME Typed, NEW c \in Client, outbox[c] # <<>>,
         outbox' = [outbox EXCEPT ![c] = Tail(@)]
  PROVE  outbox' \in [Client -> Seq(Replies)] /\ Head(outbox[c]) \in Replies
<1>1. outbox[c] \in Seq(Replies)
  BY DEF Typed, TypeOK
<1>2. Tail(outbox[c]) \in Seq(Replies) /\ Head(outbox[c]) \in Replies
  BY <1>1, Queues
<1> QED BY <1>2 DEF Typed, TypeOK

LEMMA TakeTypes ==
  ASSUME Typed, NEW c \in Client, NEW cmd, Request(c, cmd), Take(c)
  PROVE  /\ inbox' \in [Client -> Seq(Requests)] /\ Head(inbox[c]) \in Requests
         /\ Head(inbox[c]).cmd = cmd /\ job = Idle /\ inbox[c] # <<>>
<1>1. inbox[c] \in Seq(Requests) /\ inbox[c] # <<>>
  BY DEF Typed, TypeOK, Request
<1>2. Tail(inbox[c]) \in Seq(Requests) /\ Head(inbox[c]) \in Requests
  BY <1>1, Queues
<1> QED BY <1>1, <1>2 DEF Typed, TypeOK, Take, Request

(* What the client sends next, and where it is then.                       *)
LEMMA NextTypes ==
  ASSUME Typed, NEW c \in Client, NEW off \in 0..Blocks, NEW streamed \in 0..off,
         SendNext(c, off, streamed),
         offset' = [offset EXCEPT ![c] = off], pos' = [pos EXCEPT ![c] = streamed]
  PROVE  /\ inbox' \in [Client -> Seq(Requests)]
         /\ pc' \in [Client -> {"idle", "init", "chunk", "commit", "failed", "done"}]
         /\ offset' \in [Client -> 0..Blocks] /\ pos' \in [Client -> 0..Blocks]
         /\ \A e \in Client : ChunkSent(e)'
<1> USE Numbers
<1>1. CASE off < Blocks
  <2>1. ChunkAt(off, streamed) \in 1..Blocks
    BY <1>1 DEF ChunkAt
  <2>2. [cmd |-> "chunk", offset |-> off, block |-> ChunkAt(off, streamed)] \in Requests
    BY <1>1, <2>1 DEF Requests
  <2>3. inbox' \in [Client -> Seq(Requests)] /\ pc' = [pc EXCEPT ![c] = "chunk"]
    BY <1>1, <2>2, RequestTypes DEF SendNext
  <2> QED BY <1>1, <2>3 DEF Typed, TypeOK, ChunkSent
<1>2. CASE ~(off < Blocks)
  <2>1. [cmd |-> "commit"] \in Requests
    BY DEF Requests
  <2>2. inbox' \in [Client -> Seq(Requests)] /\ pc' = [pc EXCEPT ![c] = "commit"]
    BY <1>2, <2>1, RequestTypes DEF SendNext
  <2> QED BY <1>2, <2>2 DEF Typed, TypeOK, ChunkSent
<1> QED BY <1>1, <1>2

LEMMA ClientTypes ==
  ASSUME Typed, NEW c \in Client, ClientStep(c)
  PROVE  Typed'
<1> USE Numbers
<1>1. CASE Connect(c)
  BY <1>1 DEF Connect, Typed, TypeOK, ChunkSent, disk, server, client
<1>2. CASE StartUpload(c)
  <2>1. [cmd |-> "init"] \in Requests
    BY DEF Requests
  <2>2. inbox' \in [Client -> Seq(Requests)]
    BY <1>2, <2>1, RequestTypes DEF StartUpload
  <2> QED BY <1>2, <2>2 DEF StartUpload, Typed, TypeOK, ChunkSent, disk, server
<1>3. CASE GotReady(c)
  <2>1. outbox' \in [Client -> Seq(Replies)] /\ Head(outbox[c]) \in Replies
    BY <1>3, ReadTypes DEF GotReady
  <2>2. Head(outbox[c]).offset \in 0..Blocks /\ 0 \in 0..Head(outbox[c]).offset
    BY <2>1 DEF Replies
  <2>3. /\ inbox' \in [Client -> Seq(Requests)]
        /\ pc' \in [Client -> {"idle", "init", "chunk", "commit", "failed", "done"}]
        /\ offset' \in [Client -> 0..Blocks] /\ pos' \in [Client -> 0..Blocks]
        /\ \A e \in Client : ChunkSent(e)'
    BY <1>3, <2>2, NextTypes DEF GotReady
  <2> QED BY <1>3, <2>1, <2>3 DEF GotReady, Typed, TypeOK, disk, server
<1>4. CASE GotChunkOk(c)
  <2>1. outbox' \in [Client -> Seq(Replies)]
    BY <1>4, ReadTypes DEF GotChunkOk
  <2>2. offset[c] + 1 \in 0..Blocks /\ pos[c] + 1 \in 0..offset[c] + 1
    BY <1>4 DEF GotChunkOk, Typed, TypeOK, ChunkSent
  <2>3. /\ inbox' \in [Client -> Seq(Requests)]
        /\ pc' \in [Client -> {"idle", "init", "chunk", "commit", "failed", "done"}]
        /\ offset' \in [Client -> 0..Blocks] /\ pos' \in [Client -> 0..Blocks]
        /\ \A e \in Client : ChunkSent(e)'
    BY <1>4, <2>2, NextTypes DEF GotChunkOk
  <2> QED BY <1>4, <2>1, <2>3 DEF GotChunkOk, Typed, TypeOK, disk, server
<1>5. CASE GotSuccess(c)
  <2>1. outbox' \in [Client -> Seq(Replies)]
    BY <1>5, ReadTypes DEF GotSuccess
  <2> QED BY <1>5, <2>1 DEF GotSuccess, Typed, TypeOK, ChunkSent, disk, server
<1>6. CASE GotFailure(c)
  <2>1. outbox' \in [Client -> Seq(Replies)]
    BY <1>6, ReadTypes DEF GotFailure
  <2> QED BY <1>6, <2>1 DEF GotFailure, Typed, TypeOK, ChunkSent, disk, server
<1> QED BY <1>1, <1>2, <1>3, <1>4, <1>5, <1>6 DEF ClientStep

LEMMA Pieces ==
  ASSUME NEW content \in Content \cup {None}, NEW off \in 0..Blocks - 1, NEW block \in 1..Blocks
  PROVE  PWrite(content, off, block) \in Content
<1> USE Numbers
<1> DEFINE old == IF content = None THEN <<>> ELSE content
           len == IF Len(old) > off THEN Len(old) ELSE off + 1
<1>1. old \in Seq(0..Blocks)
  <2>1. <<>> \in Seq(0..Blocks)
    OBVIOUS
  <2>2. content # None => content \in Seq(0..Blocks)
    BY DEF Content
  <2> QED BY <2>1, <2>2
<1>2. Len(old) \in Nat /\ len \in Nat /\ \A i \in 1..Len(old) : old[i] \in 0..Blocks
  BY <1>1
<1> HIDE DEF old
<1>3. \A i \in 1..len : (IF i = off + 1 THEN block ELSE IF i <= Len(old) THEN old[i] ELSE 0)
                          \in 0..Blocks
  BY <1>2
<1>4. [i \in 1..len |-> IF i = off + 1 THEN block ELSE IF i <= Len(old) THEN old[i] ELSE 0]
        \in Seq(0..Blocks)
  BY <1>2, <1>3
<1> QED BY <1>4 DEF PWrite, Content, old, len

LEMMA ResumedIs ==
  ASSUME Typed  PROVE Resumed \in 0..Blocks
  BY Numbers DEF Typed, TypeOK, Resumed, Smaller, Content

LEMMA ReactorTypes ==
  ASSUME Typed, ReactorStep
  PROVE  Typed'
<1> USE Numbers
<1>1. ASSUME NEW c \in Client, InstantInit(c)  PROVE Typed'
  <2>1. inbox' \in [Client -> Seq(Requests)]
    BY <1>1, TakeTypes DEF InstantInit
  <2>2. PICK p \in index :
          /\ stored[p] # None
          /\ IF p = PathOf[c]
             THEN SendTo(fd[c], Reply("error", 0)) /\ UNCHANGED <<job, stored>>
             ELSE /\ stored' = [stored EXCEPT ![PathOf[c]] = <<>>]
                  /\ job' = [phase |-> "copy", client |-> c, data |-> stored[p]]
                  /\ UNCHANGED outbox
    BY <1>1 DEF InstantInit
  <2>3. CASE p = PathOf[c]
    <3>1. outbox' \in [Client -> Seq(Replies)]
      BY <2>2, <2>3, Answer, Sending DEF Typed, TypeOK
    <3> QED BY <1>1, <2>1, <2>2, <2>3, <3>1 DEF InstantInit, Typed, TypeOK, ChunkSent, client
  <2>4. CASE p # PathOf[c]
    <3>1. job' \in Jobs
      BY <2>2, <2>4 DEF Typed, TypeOK, Jobs
    <3>2. stored' \in [Path -> Content \cup {None}]
      <4>1. <<>> \in Content
        BY DEF Content
      <4> QED BY <2>2, <2>4, <4>1 DEF Typed, TypeOK
    <3> QED BY <1>1, <2>1, <2>2, <2>4, <3>1, <3>2 DEF InstantInit, Typed, TypeOK, ChunkSent, client
  <2> QED BY <2>3, <2>4
<1>2. CASE CopyFile
  <2>1. job.client \in Client /\ job.data \in Content
    BY <1>2, JobKinds DEF CopyFile, Typed, TypeOK
  <2>2. job' \in Jobs
    BY <1>2, <2>1 DEF CopyFile, Jobs
  <2>3. stored' \in [Path -> Content \cup {None}]
    BY <1>2, <2>1 DEF CopyFile, Typed, TypeOK
  <2> QED BY <1>2, <2>2, <2>3 DEF CopyFile, Typed, TypeOK, ChunkSent, client
<1>3. CASE InstantUpsert
  <2>1. job.client \in Client
    BY <1>3, JobKinds DEF InstantUpsert, Typed, TypeOK
  <2>2. index' \subseteq Path /\ job' \in Jobs
    BY <1>3, <2>1 DEF InstantUpsert, Typed, TypeOK, Jobs
  <2>3. outbox' \in [Client -> Seq(Replies)]
    BY <1>3, Answer, Sending DEF InstantUpsert, Typed, TypeOK
  <2> QED BY <1>3, <2>2, <2>3 DEF InstantUpsert, Typed, TypeOK, ChunkSent, client
<1>4. ASSUME NEW c \in Client, PrepareInit(c)  PROVE Typed'
  <2>1. inbox' \in [Client -> Seq(Requests)] /\ job = Idle
    BY <1>4, TakeTypes DEF PrepareInit
  <2>2. Resumed \in 0..Blocks /\ Reply("ready", Resumed) \in Replies
    BY ResumedIs, Answer
  <2>3. ctx' \in [Client -> 0..Blocks \cup {None}]
    BY <1>4, <2>2 DEF PrepareInit, Typed, TypeOK
  <2>4. outbox' \in [Client -> Seq(Replies)] /\ job' \in Jobs
    <3>1. CASE meta # None
      BY <1>4, <2>2, <3>1, Sending DEF PrepareInit, Typed, TypeOK
    <3>2. CASE meta = None
      <4>1. [phase |-> "truncate", client |-> c, received |-> Resumed,
             reply |-> Reply("ready", Resumed)] \in Saves
        BY <2>2 DEF Saves
      <4> QED BY <1>4, <3>2, <4>1 DEF PrepareInit, Typed, TypeOK, Jobs
    <3> QED BY <3>1, <3>2
  <2> QED BY <1>4, <2>1, <2>3, <2>4 DEF PrepareInit, Typed, TypeOK, ChunkSent, client, disk
<1>5. ASSUME NEW c \in Client, AcceptChunk(c)  PROVE Typed'
  <2>1. /\ inbox' \in [Client -> Seq(Requests)] /\ Head(inbox[c]) \in Requests
        /\ Head(inbox[c]).cmd = "chunk"
    BY <1>5, TakeTypes DEF AcceptChunk
  <2>2. Head(inbox[c]).offset \in 0..Blocks - 1 /\ Head(inbox[c]).block \in 1..Blocks
    BY <2>1 DEF Requests
  <2>3. part' \in Content
    BY <1>5, <2>2, Pieces DEF AcceptChunk, Typed, TypeOK
  <2>4. ctx[c] + 1 \in 0..Blocks /\ Reply("ok", 0) \in Replies
    BY <1>5, <2>2, Answer DEF AcceptChunk
  <2>5. job' \in Jobs
    <3>1. [phase |-> "truncate", client |-> c, received |-> ctx[c] + 1, reply |-> Reply("ok", 0)]
            \in Saves
      BY <2>4 DEF Saves
    <3> QED BY <1>5, <3>1 DEF AcceptChunk, Jobs
  <2> QED BY <1>5, <2>1, <2>3, <2>4, <2>5 DEF AcceptChunk, Typed, TypeOK, ChunkSent, client
<1>6. ASSUME NEW c \in Client, RefuseChunk(c) \/ RefuseCommit(c)  PROVE Typed'
  <2>1. inbox' \in [Client -> Seq(Requests)]
    BY <1>6, TakeTypes DEF RefuseChunk, RefuseCommit
  <2>2. outbox' \in [Client -> Seq(Replies)]
    BY <1>6, Answer, Sending DEF RefuseChunk, RefuseCommit, Typed, TypeOK
  <2> QED BY <1>6, <2>1, <2>2 DEF RefuseChunk, RefuseCommit, Typed, TypeOK, ChunkSent, client, disk, server
<1>7. ASSUME NEW c \in Client, SubmitCommit(c)  PROVE Typed'
  <2>1. inbox' \in [Client -> Seq(Requests)]
    BY <1>7, TakeTypes DEF SubmitCommit
  <2>2. [path |-> PathOf[c], fd |-> fd[c], at |-> "rename"] \in CommitTask
    BY DEF CommitTask, Stages, Typed, TypeOK
  <2>3. tasks' \in Seq(CommitTask)
    BY <1>7, <2>2 DEF SubmitCommit, Typed, TypeOK
  <2>4. ctx' \in [Client -> 0..Blocks \cup {None}]
    BY <1>7 DEF SubmitCommit, Typed, TypeOK
  <2> QED BY <1>7, <2>1, <2>3, <2>4 DEF SubmitCommit, Typed, TypeOK, ChunkSent, client, disk
<1>8. CASE TruncateMeta
  <2>1. job \in Saves
    BY <1>8, JobKinds DEF TruncateMeta, Typed, TypeOK
  <2>2. [job EXCEPT !.phase = "flush"] \in Saves
    BY <2>1 DEF Saves
  <2>3. job' \in Jobs /\ meta' \in 0..Blocks \cup {None}
    BY <1>8, <2>2 DEF TruncateMeta, Jobs
  <2> QED BY <1>8, <2>3 DEF TruncateMeta, Typed, TypeOK, ChunkSent, client
<1>9. CASE FlushMeta
  <2>1. job.received \in 0..Blocks /\ job.reply \in Replies
    BY <1>9, JobKinds DEF FlushMeta, Typed, TypeOK, Saves
  <2>2. outbox' \in [Client -> Seq(Replies)] /\ job' \in Jobs
    BY <1>9, <2>1, Sending DEF FlushMeta, Typed, TypeOK, Jobs
  <2> QED BY <1>9, <2>1, <2>2 DEF FlushMeta, Typed, TypeOK, ChunkSent, client
<1> QED BY <1>1, <1>2, <1>3, <1>4, <1>5, <1>6, <1>7, <1>8, <1>9 DEF ReactorStep

(* A worker that goes on, and one that is done.                            *)
LEMMA Going ==
  ASSUME Typed, NEW w \in Worker, NEW s, NEW step \in Stages, At(w, s), Goto(w, step)
  PROVE  /\ running' \in [Worker -> CommitTask \cup {None}]
         /\ running[w] \in CommitTask
         /\ running'[w] \in CommitTask /\ running'[w].at = step
         /\ running'[w].path = running[w].path /\ running'[w].fd = running[w].fd
         /\ \A v \in Worker : v # w => running'[v] = running[v]
<1>1. running[w] \in CommitTask
  BY DEF Typed, TypeOK, At
<1>2. [running[w] EXCEPT !.at = step] \in CommitTask
  BY <1>1 DEF CommitTask
<1>3. running'[w] = [running[w] EXCEPT !.at = step]
  BY DEF Typed, TypeOK, Goto
<1>4. running'[w].at = step /\ running'[w].path = running[w].path /\ running'[w].fd = running[w].fd
  BY <1>1, <1>3 DEF CommitTask
<1> QED BY <1>1, <1>2, <1>3, <1>4 DEF Typed, TypeOK, Goto

LEMMA Finishing ==
  ASSUME Typed, NEW w \in Worker, NEW status \in {"ok", "error"}, Finish(w, status),
         running[w] # None
  PROVE  /\ running' \in [Worker -> CommitTask \cup {None}]
         /\ outbox' \in [Client -> Seq(Replies)]
         /\ running[w] \in CommitTask /\ running'[w] = None
         /\ \A v \in Worker : v # w => running'[v] = running[v]
         /\ \A c \in Client :
              outbox'[c] = IF running[w].fd # None /\ fd[c] = running[w].fd
                           THEN Append(outbox[c], Reply(status, 0)) ELSE outbox[c]
<1>1. Reply(status, 0) \in Replies
  BY Answer, Numbers
<1>2. SendTo(running[w].fd, Reply(status, 0)) /\ running' = [running EXCEPT ![w] = None]
  BY DEF Finish
<1> QED BY <1>1, <1>2, Sending DEF Typed, TypeOK

LEMMA Taking ==
  ASSUME Typed, NEW w \in Worker, TakeTask(w)
  PROVE  /\ running' \in [Worker -> CommitTask \cup {None}] /\ tasks' \in Seq(CommitTask)
         /\ running[w] = None /\ running'[w] = tasks[1] /\ running'[w] \in CommitTask
         /\ \A v \in Worker : v # w => running'[v] = running[v]
         /\ Len(tasks) > 0 /\ Len(tasks') = Len(tasks) - 1
         /\ \A i \in 1..Len(tasks') : tasks'[i] = tasks[i + 1]
<1>1. tasks \in Seq(CommitTask) /\ tasks # <<>>
  BY DEF Typed, TypeOK, TakeTask
<1>2. Head(tasks) = tasks[1] /\ Head(tasks) \in CommitTask /\ Tail(tasks) \in Seq(CommitTask)
      /\ Len(tasks) > 0 /\ Len(Tail(tasks)) = Len(tasks) - 1
      /\ \A i \in 1..Len(tasks) - 1 : Tail(tasks)[i] = tasks[i + 1]
  BY <1>1, Queues
<1> QED BY <1>2 DEF Typed, TypeOK, TakeTask

LEMMA WorkerTypes ==
  ASSUME Typed, NEW w \in Worker, WorkerStep(w)
  PROVE  Typed'
<1> USE Numbers
<1>1. CASE TakeTask(w)
  BY <1>1, Taking DEF TakeTask, Typed, TypeOK, ChunkSent, client, disk
<1>2. CASE RenamePart(w)
  <2>1. running' \in [Worker -> CommitTask \cup {None}] /\ running[w].path \in Path
    BY <1>2, Going DEF RenamePart, Stages, CommitTask
  <2> QED BY <1>2, <2>1 DEF RenamePart, Typed, TypeOK, ChunkSent, client
<1>3. CASE RenameFails(w)
  BY <1>3, Finishing DEF RenameFails, At, Typed, TypeOK, ChunkSent, client, disk
<1>4. CASE RemoveMeta(w)
  <2>1. running' \in [Worker -> CommitTask \cup {None}]
    BY <1>4, Going DEF RemoveMeta, Stages
  <2> QED BY <1>4, <2>1 DEF RemoveMeta, Typed, TypeOK, ChunkSent, client
<1>5. CASE HashStored(w)
  <2>1. (IF stored[running[w].path] = File THEN "upsert" ELSE "dropPart") \in Stages
    BY DEF Stages
  <2>2. running' \in [Worker -> CommitTask \cup {None}]
    BY <1>5, <2>1, Going DEF HashStored
  <2> QED BY <1>5, <2>2 DEF HashStored, Typed, TypeOK, ChunkSent, client, disk
<1>6. CASE UpsertRow(w)
  <2>1. /\ running' \in [Worker -> CommitTask \cup {None}]
        /\ outbox' \in [Client -> Seq(Replies)] /\ running[w].path \in Path
    BY <1>6, Finishing DEF UpsertRow, At, CommitTask
  <2> QED BY <1>6, <2>1 DEF UpsertRow, Typed, TypeOK, ChunkSent, client
<1>7. CASE DiscardPart(w)
  <2>1. running' \in [Worker -> CommitTask \cup {None}]
    BY <1>7, Going DEF DiscardPart, Stages
  <2> QED BY <1>7, <2>1 DEF DiscardPart, Typed, TypeOK, ChunkSent, client
<1>8. CASE DiscardMeta(w)
  BY <1>8, Finishing DEF DiscardMeta, At, Typed, TypeOK, ChunkSent, client
<1> QED BY <1>1, <1>2, <1>3, <1>4, <1>5, <1>6, <1>7, <1>8 DEF WorkerStep

LEMMA FailureTypes ==
  ASSUME Typed, Failure
  PROVE  Typed'
<1> USE Numbers
<1>1. ASSUME NEW c \in Client, Drop(c)  PROVE Typed'
  <2>1. inbox' \in [Client -> Seq(Requests)] /\ outbox' \in [Client -> Seq(Replies)]
    BY <1>1 DEF Drop, Typed, TypeOK
  <2>2. /\ pc' \in [Client -> {"idle", "init", "chunk", "commit", "failed", "done"}]
        /\ \A e \in Client : pc'[e] = pc[e] \/ pc'[e] = "failed"
    BY <1>1 DEF Drop, Typed, TypeOK, Interrupted
  <2> QED BY <1>1, <2>1, <2>2 DEF Drop, Typed, TypeOK, ChunkSent, disk
<1>2. CASE Crash
  <2>1. /\ inbox' \in [Client -> Seq(Requests)] /\ outbox' \in [Client -> Seq(Replies)]
        /\ tasks' \in Seq(CommitTask) /\ job' \in Jobs
    BY <1>2 DEF Crash, Jobs
  <2>2. /\ pc' \in [Client -> {"idle", "init", "chunk", "commit", "failed", "done"}]
        /\ \A e \in Client : pc'[e] = pc[e] \/ pc'[e] = "failed"
    BY <1>2 DEF Crash, Typed, TypeOK, Interrupted
  <2> QED BY <1>2, <2>1, <2>2 DEF Crash, Typed, TypeOK, ChunkSent, disk
<1> QED BY <1>1, <1>2 DEF Failure

LEMMA TypedNext == Typed /\ [Next]_vars => Typed'
<1>1. Typed /\ UNCHANGED vars => Typed'
  BY DEF Typed, TypeOK, ChunkSent, vars, disk, server, client
<1> QED BY <1>1, ClientTypes, ReactorTypes, WorkerTypes, FailureTypes DEF Next

(* Whatever the terminals do, however often connections break and the      *)
(* server restarts, every variable has its type: no chunk reaches behind   *)
(* the end of the file (handle_upload), no checkpoint says more than the   *)
(* file has (prepare_upload, append_chunk).                                *)
THEOREM UploadTypes == Spec => []TypeOK
<1>1. Typed => TypeOK
  BY DEF Typed
<1> QED BY <1>1, TypedInit, TypedNext, PTL DEF Spec

-----------------------------------------------------------------------------
(* A client that is told of success *)

(* Terminals put the file at one path, or no connection gets the number of *)
(* another terminal's that has a commit in the executor.                   *)
Separate == Apart \/ \A c, e \in Client : PathOf[c] = PathOf[e]

(* v tells, for the replies q, how far the upload can be after each: a     *)
(* "ready" starts anew, a chunk that is accepted is one more, an error is  *)
(* none; there is no "instant".                                            *)
Levels(q, v) ==
  /\ v \in [0..Len(q) -> 0..Blocks]
  /\ \A i \in 1..Len(q) :
       /\ q[i].status # "instant"
       /\ q[i].status = "ready" => q[i].offset <= v[i]
       /\ q[i].status = "ok" => v[i - 1] < v[i]
       /\ q[i].status = "error" => v[i - 1] <= v[i]

(* Such levels, from low to high at most.                                  *)
Fits(q, low, high) ==
  \E v \in [0..Len(q) -> 0..Blocks] :
    Levels(q, v) /\ low <= v[0] /\ v[Len(q)] <= high

(* What the client has seen accepted, and what the server has when the     *)
(* replies it has scheduled are sent.                                      *)
SeenBy(c) == CASE pc[c] = "chunk" -> offset[c]
               [] pc[c] = "commit" -> Blocks
               [] OTHER -> 0
Saving == job.phase \in {"truncate", "flush"}
Reached(c) ==
  IF Saving /\ job.client = c
  THEN IF job.reply.status = "ok" THEN job.received - 1 ELSE Blocks
  ELSE IF ctx[c] = None THEN Blocks ELSE ctx[c]

Stream(c) == PathOf[c] \in index \/ Fits(outbox[c], SeenBy(c), Reached(c))

Owners == \A c, e \in Client : fd[c] # None /\ fd[c] = fd[e] => c = e

(* The connection a commit answers is one of its path.                     *)
Answered(t) ==
  /\ \E c \in Client : t.path = PathOf[c]
  /\ \A c \in Client : fd[c] # None /\ t.fd = fd[c] => t.path = PathOf[c]
AnsweredAll ==
  /\ \A i \in 1..Len(tasks) : Answered(tasks[i])
  /\ \A w \in Worker : running[w] # None => Answered(running[w])

SavesProgress ==
  Saving => /\ job.reply.status \in {"ready", "ok"}
            /\ job.reply.status = "ok" => job.received > 0
            /\ job.reply.status = "ready" => job.reply.offset = job.received
            /\ ctx[job.client] \in {job.received, None}

LEMMA FitsMore ==
  ASSUME NEW q, NEW low \in Int, NEW high \in Int, Fits(q, low, high),
         NEW low2 \in Int, NEW high2 \in Int, low2 <= low, high <= high2,
         Len(q) \in Nat
  PROVE  Fits(q, low2, high2)
<1>1. PICK v \in [0..Len(q) -> 0..Blocks] :
        Levels(q, v) /\ low <= v[0] /\ v[Len(q)] <= high
  BY DEF Fits
<1>2. v[0] \in Int /\ v[Len(q)] \in Int
  BY <1>1, Numbers
<1>3. low2 <= v[0] /\ v[Len(q)] <= high2
  BY <1>1, <1>2
<1> QED BY <1>1, <1>3 DEF Fits

LEMMA FitsNone ==
  ASSUME NEW low \in 0..Blocks, NEW high \in 0..Blocks, low <= high
  PROVE  Fits(<<>>, low, high)
<1> DEFINE v == [i \in 0..0 |-> low]
<1>1. v \in [0..Len(<<>>) -> 0..Blocks] /\ v[0] = low /\ Len(<<>>) = 0
  OBVIOUS
<1>2. Levels(<<>>, v)
  BY <1>1 DEF Levels
<1> QED BY <1>1, <1>2 DEF Fits

LEMMA FitsAppend ==
  ASSUME NEW q \in Seq(Replies), NEW low \in Int, NEW high \in Int, Fits(q, low, high),
         NEW r \in Replies, NEW to \in 0..Blocks, r.status # "instant",
         r.status = "ready" => r.offset <= to,
         r.status = "ok" => high < to,
         r.status = "error" => high <= to
  PROVE  Fits(Append(q, r), low, to)
<1> USE Numbers
<1>1. PICK v \in [0..Len(q) -> 0..Blocks] :
        Levels(q, v) /\ low <= v[0] /\ v[Len(q)] <= high
  BY DEF Fits
<1> DEFINE a == Append(q, r)
           u == [i \in 0..Len(q) + 1 |-> IF i <= Len(q) THEN v[i] ELSE to]
<1>2. Len(q) \in Nat /\ Len(a) = Len(q) + 1 /\ a[Len(q) + 1] = r
      /\ \A i \in 1..Len(q) : a[i] = q[i]
  BY Queues
<1>3. u \in [0..Len(q) + 1 -> 0..Blocks]
  BY <1>2
<1>4. \A i \in 0..Len(q) : u[i] = v[i] /\ v[i] \in 0..Blocks
  BY <1>2
<1>5. u[Len(q) + 1] = to
  BY <1>2
<1> HIDE DEF u, a
<1>6. ASSUME NEW i \in 1..Len(q)
      PROVE  /\ a[i].status # "instant"
             /\ a[i].status = "ready" => a[i].offset <= u[i]
             /\ a[i].status = "ok" => u[i - 1] < u[i]
             /\ a[i].status = "error" => u[i - 1] <= u[i]
  <2>1. i - 1 \in 0..Len(q) /\ i \in 0..Len(q)
    BY <1>2
  <2>2. u[i] = v[i] /\ u[i - 1] = v[i - 1] /\ a[i] = q[i]
    BY <1>2, <1>4, <2>1
  <2>3. /\ q[i].status # "instant"
        /\ q[i].status = "ready" => q[i].offset <= v[i]
        /\ q[i].status = "ok" => v[i - 1] < v[i]
        /\ q[i].status = "error" => v[i - 1] <= v[i]
    BY <1>1 DEF Levels
  <2> QED BY <2>2, <2>3
<1>7. /\ a[Len(q) + 1].status # "instant"
      /\ a[Len(q) + 1].status = "ready" => a[Len(q) + 1].offset <= u[Len(q) + 1]
      /\ a[Len(q) + 1].status = "ok" => u[Len(q)] < u[Len(q) + 1]
      /\ a[Len(q) + 1].status = "error" => u[Len(q)] <= u[Len(q) + 1]
  <2>1. Len(q) \in 0..Len(q)
    BY <1>2
  <2>2. u[Len(q)] = v[Len(q)] /\ v[Len(q)] \in Int /\ v[Len(q)] <= high
    BY <1>1, <1>4, <2>1
  <2>3. r.status = "ok" => v[Len(q)] < to
    BY <2>2
  <2>4. r.status = "error" => v[Len(q)] <= to
    BY <2>2
  <2> QED BY <1>2, <1>5, <2>2, <2>3, <2>4
<1>8. \A i \in 1..Len(q) + 1 : i \in 1..Len(q) \/ i = Len(q) + 1
  BY <1>2
<1>9. \A i \in 1..Len(q) + 1 : (Len(q) + 1) - 1 = Len(q)
  BY <1>2
<1>10. Levels(a, u)
  BY <1>2, <1>3, <1>6, <1>7, <1>8, <1>9 DEF Levels
<1>11. low <= u[0] /\ u[Len(a)] <= to
  BY <1>1, <1>2, <1>4, <1>5
<1> QED BY <1>2, <1>3, <1>10, <1>11 DEF Fits, a

LEMMA FitsTail ==
  ASSUME NEW q \in Seq(Replies), q # <<>>, NEW low \in Int, NEW high \in Int,
         Fits(q, low, high)
  PROVE  /\ Head(q).status # "instant"
         /\ \E from \in 0..Blocks :
              /\ Fits(Tail(q), from, high)
              /\ Head(q).status = "ready" => Head(q).offset <= from
              /\ Head(q).status = "ok" => low < from
              /\ Head(q).status = "error" => low <= from
<1> USE Numbers
<1>1. PICK v \in [0..Len(q) -> 0..Blocks] :
        Levels(q, v) /\ low <= v[0] /\ v[Len(q)] <= high
  BY DEF Fits
<1> DEFINE t == Tail(q)
           u == [i \in 0..Len(q) - 1 |-> v[i + 1]]
<1>2. /\ Len(q) \in Nat /\ Len(q) > 0 /\ Head(q) = q[1] /\ Len(t) = Len(q) - 1
      /\ \A i \in 1..Len(q) - 1 : t[i] = q[i + 1]
  BY Queues
<1>3. u \in [0..Len(q) - 1 -> 0..Blocks]
  BY <1>2
<1>4. \A i \in 0..Len(q) - 1 : u[i] = v[i + 1]
  OBVIOUS
<1>5. v[0] \in 0..Blocks /\ v[1] \in 0..Blocks
  BY <1>2
<1> HIDE DEF u, t
<1>6. ASSUME NEW i \in 1..Len(q) - 1
      PROVE  /\ t[i].status # "instant"
             /\ t[i].status = "ready" => t[i].offset <= u[i]
             /\ t[i].status = "ok" => u[i - 1] < u[i]
             /\ t[i].status = "error" => u[i - 1] <= u[i]
  <2>1. i - 1 \in 0..Len(q) - 1 /\ i \in 0..Len(q) - 1 /\ i + 1 \in 1..Len(q)
        /\ (i - 1) + 1 = i /\ (i + 1) - 1 = i
    BY <1>2
  <2>2. u[i] = v[i + 1] /\ u[i - 1] = v[i] /\ t[i] = q[i + 1]
    BY <1>2, <1>4, <2>1
  <2>3. /\ q[i + 1].status # "instant"
        /\ q[i + 1].status = "ready" => q[i + 1].offset <= v[i + 1]
        /\ q[i + 1].status = "ok" => v[i] < v[i + 1]
        /\ q[i + 1].status = "error" => v[i] <= v[i + 1]
    BY <1>1, <2>1 DEF Levels
  <2> QED BY <2>2, <2>3
<1>7. Levels(t, u)
  BY <1>2, <1>3, <1>6 DEF Levels
<1>8. u[0] = v[1] /\ u[Len(t)] <= high
  <2>1. 0 \in 0..Len(q) - 1 /\ Len(q) - 1 \in 0..Len(q) - 1 /\ (Len(q) - 1) + 1 = Len(q) /\ 0 + 1 = 1
    BY <1>2
  <2> QED BY <1>1, <1>2, <1>4, <2>1
<1>9. Fits(t, v[1], high)
  BY <1>2, <1>3, <1>5, <1>7, <1>8 DEF Fits
<1>10. /\ q[1].status # "instant"
       /\ q[1].status = "ready" => q[1].offset <= v[1]
       /\ q[1].status = "ok" => v[0] < v[1]
       /\ q[1].status = "error" => v[0] <= v[1]
  <2>1. 1 \in 1..Len(q) /\ 1 - 1 = 0
    BY <1>2
  <2> QED BY <1>1, <2>1 DEF Levels
<1>11. /\ q[1].status = "ok" => low < v[1]
       /\ q[1].status = "error" => low <= v[1]
  BY <1>1, <1>5, <1>10
<1> QED BY <1>2, <1>5, <1>9, <1>10, <1>11 DEF t

Within == \A c \in Client : SeenBy(c) \in 0..Blocks /\ Reached(c) \in 0..Blocks

LEMMA SeenTypes == Typed /\ SavesProgress => Within
<1> SUFFICES ASSUME Typed, SavesProgress, NEW c \in Client
             PROVE  SeenBy(c) \in 0..Blocks /\ Reached(c) \in 0..Blocks
  BY DEF Within
<1> USE Numbers
<1>1. SeenBy(c) \in 0..Blocks
  BY DEF SeenBy, Typed, TypeOK
<1>2. CASE Saving /\ job.client = c
  <2>1. job.received \in 0..Blocks
    BY <1>2, JobKinds DEF Saving, Typed, TypeOK, Saves
  <2> QED BY <1>1, <1>2, <2>1 DEF Reached, SavesProgress
<1>3. CASE ~(Saving /\ job.client = c)
  BY <1>1, <1>3 DEF Reached, Typed, TypeOK
<1> QED BY <1>2, <1>3

(* A client whose replies stay as they are.                                *)
LEMMA StreamKeeps ==
  ASSUME Typed, SavesProgress, Typed', SavesProgress', NEW c \in Client, Stream(c),
         index \subseteq index', outbox'[c] = outbox[c],
         SeenBy(c)' <= SeenBy(c), Reached(c) <= Reached(c)'
  PROVE  Stream(c)'
<1>1. /\ SeenBy(c) \in Int /\ Reached(c) \in Int /\ SeenBy(c)' \in Int /\ Reached(c)' \in Int
  <2>1. SeenBy(c) \in 0..Blocks /\ Reached(c) \in 0..Blocks
    BY SeenTypes DEF Within
  <2>2. Within'
    BY SeenTypes, PTL
  <2> QED BY <2>1, <2>2, Numbers DEF Within
<1>2. CASE PathOf[c] \in index
  BY <1>2 DEF Stream
<1>3. CASE Fits(outbox[c], SeenBy(c), Reached(c))
  <2>1. Len(outbox[c]) \in Nat
    BY Queues DEF Typed, TypeOK
  <2>2. Fits(outbox[c], SeenBy(c)', Reached(c)')
    BY <1>1, <1>3, <2>1, FitsMore
  <2> QED BY <2>2 DEF Stream
<1> QED BY <1>2, <1>3 DEF Stream

LEMMA OwnersNext ==
  ASSUME Typed, Owners, Next
  PROVE  Owners'
<1> USE Numbers
<1>1. fd' = fd => Owners'
  BY DEF Owners
<1>2. ASSUME NEW c \in Client, ClientStep(c)  PROVE Owners'
  <2>1. CASE Connect(c)
    BY <2>1 DEF Connect, Owners, Typed, TypeOK
  <2>2. CASE ~Connect(c)
    <3>1. fd' = fd
      BY <1>2, <2>2 DEF ClientStep, StartUpload, GotReady, GotChunkOk, GotSuccess, GotFailure
    <3> QED BY <1>1, <3>1
  <2> QED BY <2>1, <2>2
<1>3. ASSUME ReactorStep  PROVE Owners'
  <2>1. fd' = fd
    BY <1>3 DEF ReactorStep, InstantInit, PrepareInit, AcceptChunk, RefuseChunk, SubmitCommit,
      RefuseCommit, CopyFile, InstantUpsert, TruncateMeta, FlushMeta
  <2> QED BY <1>1, <2>1
<1>4. ASSUME NEW w \in Worker, WorkerStep(w)  PROVE Owners'
  <2>1. fd' = fd
    BY <1>4 DEF WorkerStep, TakeTask, RenamePart, RenameFails, RemoveMeta, HashStored,
      UpsertRow, DiscardPart, DiscardMeta
  <2> QED BY <1>1, <2>1
<1>5. ASSUME Failure  PROVE Owners'
  <2>1. ASSUME NEW c \in Client, Drop(c)  PROVE Owners'
    BY <2>1 DEF Drop, Owners, Typed, TypeOK
  <2>2. CASE Crash
    BY <2>2 DEF Crash, Owners
  <2> QED BY <1>5, <2>1, <2>2 DEF Failure
<1> QED BY <1>2, <1>3, <1>4, <1>5 DEF Next

(* The commits stay those of their paths when they move on.                *)
LEMMA AnsweredMoves ==
  ASSUME Typed, AnsweredAll, NEW w \in Worker, fd' = fd, tasks' = tasks,
         \A v \in Worker : v # w => running'[v] = running[v],
         running'[w] = None \/ (/\ running[w] # None /\ running'[w].path = running[w].path
                                /\ running'[w].fd = running[w].fd)
  PROVE  AnsweredAll'
<1>1. \A i \in 1..Len(tasks) : Answered(tasks[i])'
  BY DEF AnsweredAll, Answered
<1>2. \A v \in Worker : running'[v] # None => Answered(running[v])'
  <2> SUFFICES ASSUME NEW v \in Worker, running'[v] # None  PROVE Answered(running[v])'
    OBVIOUS
  <2>1. CASE v # w
    BY <2>1 DEF AnsweredAll, Answered
  <2>2. CASE v = w
    BY <2>2 DEF AnsweredAll, Answered
  <2> QED BY <2>1, <2>2
<1> QED BY <1>1, <1>2 DEF AnsweredAll

LEMMA AnsweredNext ==
  ASSUME Separate, Typed, Owners, AnsweredAll, Next
  PROVE  AnsweredAll'
<1> USE Numbers
<1>1. fd' = fd /\ tasks' = tasks /\ running' = running => AnsweredAll'
  BY DEF AnsweredAll, Answered
<1>2. ASSUME NEW c \in Client, ClientStep(c)  PROVE AnsweredAll'
  <2>1. CASE Connect(c)
    <3>1. PICK d \in Fd : /\ Apart => \A t \in Commits : t.fd = d => t.path = PathOf[c]
                          /\ fd' = [fd EXCEPT ![c] = d]
      BY <2>1 DEF Connect
    <3>2. tasks' = tasks /\ running' = running
      BY <2>1 DEF Connect, server
    <3>3. \A e \in Client : e # c => fd'[e] = fd[e]
      BY <3>1 DEF Typed, TypeOK
    <3>4. fd'[c] = d
      BY <3>1 DEF Typed, TypeOK
    <3>5. ASSUME NEW t \in Commits, Answered(t)  PROVE Answered(t)'
      <4> SUFFICES ASSUME NEW e \in Client, fd'[e] # None, t.fd = fd'[e]
                   PROVE  t.path = PathOf[e]
        BY <3>5 DEF Answered
      <4>1. CASE e # c
        BY <3>3, <3>5, <4>1 DEF Answered
      <4>2. CASE e = c
        <5>1. CASE Apart
          BY <3>1, <3>4, <4>2, <5>1
        <5>2. CASE ~Apart
          BY <3>5, <5>2 DEF Answered, Separate
        <5> QED BY <5>1, <5>2
      <4> QED BY <4>1, <4>2
    <3>6. \A i \in 1..Len(tasks) : tasks[i] \in Commits
      BY DEF Commits, Range, Typed, TypeOK
    <3>7. \A w \in Worker : running[w] # None => running[w] \in Commits
      BY DEF Commits
    <3>8. \A i \in 1..Len(tasks) : Answered(tasks[i])'
      <4> SUFFICES ASSUME NEW i \in 1..Len(tasks)  PROVE Answered(tasks[i])'
        OBVIOUS
      <4>1. Answered(tasks[i])
        BY DEF AnsweredAll
      <4>2. DEFINE t == tasks[i]
      <4>3. t' = t
        BY <3>2
      <4>4. \A u \in Commits : Answered(u) => Answered(u)'
        BY <3>5
      <4> QED BY <3>6, <4>1, <4>3, <4>4 DEF Answered
    <3>9. \A w \in Worker : running[w] # None => Answered(running[w])'
      BY <3>2, <3>5, <3>7 DEF AnsweredAll, Answered
    <3> QED BY <3>2, <3>8, <3>9 DEF AnsweredAll
  <2>2. CASE ~Connect(c)
    <3>1. fd' = fd /\ tasks' = tasks /\ running' = running
      BY <1>2, <2>2 DEF ClientStep, StartUpload, GotReady, GotChunkOk, GotSuccess, GotFailure, server
    <3> QED BY <1>1, <3>1
  <2> QED BY <2>1, <2>2
<1>3. ASSUME ReactorStep  PROVE AnsweredAll'
  <2>1. ASSUME NEW c \in Client, SubmitCommit(c)  PROVE AnsweredAll'
    <3> DEFINE t == [path |-> PathOf[c], fd |-> fd[c], at |-> "rename"]
    <3>1. /\ fd' = fd /\ running' = running /\ tasks' = Append(tasks, t)
      BY <2>1 DEF SubmitCommit
    <3>2. t.path = PathOf[c] /\ t.fd = fd[c]
      OBVIOUS
    <3>3. t \in CommitTask
      BY DEF CommitTask, Stages, Typed, TypeOK
    <3> HIDE DEF t
    <3>4. Len(tasks') = Len(tasks) + 1 /\ Len(tasks) \in Nat /\ tasks'[Len(tasks) + 1] = t
          /\ \A i \in 1..Len(tasks) : tasks'[i] = tasks[i]
      BY <3>1, <3>3, Queues DEF Typed, TypeOK
    <3>5. ASSUME NEW i \in 1..Len(tasks')  PROVE Answered(tasks[i])'
      <4>1. CASE i \in 1..Len(tasks)
        BY <3>1, <3>4, <4>1 DEF AnsweredAll, Answered
      <4>2. CASE i = Len(tasks) + 1
        BY <3>1, <3>2, <3>4, <4>2 DEF Answered, Owners
      <4> QED BY <3>4, <4>1, <4>2
    <3>6. \A w \in Worker : running'[w] # None => Answered(running[w])'
      BY <3>1 DEF AnsweredAll, Answered
    <3> QED BY <3>5, <3>6 DEF AnsweredAll
  <2>2. CASE ~ \E c \in Client : SubmitCommit(c)
    <3>1. fd' = fd /\ tasks' = tasks /\ running' = running
      BY <1>3, <2>2 DEF ReactorStep, InstantInit, PrepareInit, AcceptChunk, RefuseChunk,
        RefuseCommit, CopyFile, InstantUpsert, TruncateMeta, FlushMeta, server
    <3> QED BY <1>1, <3>1
  <2> QED BY <2>1, <2>2
<1>4. ASSUME NEW w \in Worker, WorkerStep(w)  PROVE AnsweredAll'
  <2>1. CASE TakeTask(w)
    <3>1. /\ Len(tasks) > 0 /\ Len(tasks') = Len(tasks) - 1 /\ running'[w] = tasks[1]
          /\ \A i \in 1..Len(tasks') : tasks'[i] = tasks[i + 1]
          /\ \A v \in Worker : v # w => running'[v] = running[v]
      BY <2>1, Taking
    <3>2. fd' = fd /\ Len(tasks) \in Nat
      BY <2>1 DEF TakeTask, Typed, TypeOK
    <3>3. ASSUME NEW i \in 1..Len(tasks')  PROVE Answered(tasks[i])'
      <4>1. i + 1 \in 1..Len(tasks)
        BY <3>1, <3>2
      <4> QED BY <3>1, <3>2, <4>1 DEF AnsweredAll, Answered
    <3>4. ASSUME NEW v \in Worker, running'[v] # None  PROVE Answered(running[v])'
      <4>1. 1 \in 1..Len(tasks)
        BY <3>1, <3>2
      <4>2. CASE v = w
        BY <3>1, <3>2, <4>1, <4>2 DEF AnsweredAll, Answered
      <4>3. CASE v # w
        BY <3>1, <3>2, <3>4, <4>3 DEF AnsweredAll, Answered
      <4> QED BY <4>2, <4>3
    <3> QED BY <3>3, <3>4 DEF AnsweredAll
  <2>2. CASE RenamePart(w) \/ RemoveMeta(w) \/ DiscardPart(w) \/ HashStored(w)
    <3>1. \E s, step \in Stages : At(w, s) /\ Goto(w, step)
      BY <2>2 DEF RenamePart, RemoveMeta, DiscardPart, HashStored, Stages
    <3>2. fd' = fd /\ tasks' = tasks
      BY <2>2 DEF RenamePart, RemoveMeta, DiscardPart, HashStored
    <3> QED BY <3>1, <3>2, Going, AnsweredMoves
  <2>3. CASE RenameFails(w) \/ UpsertRow(w) \/ DiscardMeta(w)
    <3>1. \E status \in {"ok", "error"} : Finish(w, status) /\ running[w] # None
      BY <2>3 DEF RenameFails, UpsertRow, DiscardMeta, At
    <3>2. fd' = fd /\ tasks' = tasks
      BY <2>3 DEF RenameFails, UpsertRow, DiscardMeta
    <3> QED BY <3>1, <3>2, Finishing, AnsweredMoves
  <2> QED BY <1>4, <2>1, <2>2, <2>3 DEF WorkerStep
<1>5. ASSUME Failure  PROVE AnsweredAll'
  <2>1. ASSUME NEW c \in Client, Drop(c)  PROVE AnsweredAll'
    <3>1. tasks' = tasks /\ running' = running /\ \A e \in Client : fd'[e] # None => fd'[e] = fd[e]
      BY <2>1 DEF Drop, Typed, TypeOK
    <3>2. \A t : Answered(t) => \A e \in Client : fd'[e] # None /\ t.fd = fd'[e] => t.path = PathOf[e]
      BY <3>1 DEF Answered
    <3> QED BY <3>1, <3>2 DEF AnsweredAll, Answered
  <2>2. CASE Crash
    BY <2>2 DEF Crash, AnsweredAll
  <2> QED BY <1>5, <2>1, <2>2 DEF Failure
<1> QED BY <1>2, <1>3, <1>4, <1>5 DEF Next

LEMMA SavesNext ==
  ASSUME Typed, SavesProgress, Next
  PROVE  SavesProgress'
<1> USE Numbers
<1>1. job' = job /\ ctx' = ctx => SavesProgress'
  BY DEF SavesProgress, Saving
<1>2. (job' = Idle \/ job'.phase \in {"copy", "upsert"}) => SavesProgress'
  BY DEF SavesProgress, Saving, Idle
<1>3. ASSUME NEW c \in Client, ClientStep(c)  PROVE SavesProgress'
  <2>1. job' = job /\ ctx' = ctx
    BY <1>3 DEF ClientStep, Connect, StartUpload, GotReady, GotChunkOk, GotSuccess, GotFailure, server
  <2> QED BY <1>1, <2>1
<1>4. ASSUME NEW w \in Worker, WorkerStep(w)  PROVE SavesProgress'
  <2>1. job' = job /\ ctx' = ctx
    BY <1>4 DEF WorkerStep, TakeTask, RenamePart, RenameFails, RemoveMeta, HashStored,
      UpsertRow, DiscardPart, DiscardMeta
  <2> QED BY <1>1, <2>1
<1>5. ASSUME Failure  PROVE SavesProgress'
  <2>1. ASSUME NEW c \in Client, Drop(c)  PROVE SavesProgress'
    <3>1. job' = job /\ \A e \in Client : ctx'[e] \in {ctx[e], None}
      BY <2>1 DEF Drop, Typed, TypeOK
    <3>2. Saving => job.client \in Client
      BY JobKinds DEF Saving, Typed, TypeOK, Saves
    <3> QED BY <3>1, <3>2 DEF SavesProgress, Saving
  <2>2. CASE Crash
    BY <1>2, <2>2 DEF Crash
  <2> QED BY <1>5, <2>1, <2>2 DEF Failure
<1>6. ASSUME ReactorStep  PROVE SavesProgress'
  <2>1. ASSUME NEW c \in Client, InstantInit(c) \/ RefuseChunk(c) \/ RefuseCommit(c) \/ SubmitCommit(c)
        PROVE  SavesProgress'
    <3>1. job = Idle
      BY <2>1 DEF InstantInit, RefuseChunk, RefuseCommit, SubmitCommit, Request
    <3>2. job' = job \/ job'.phase = "copy"
      BY <2>1 DEF InstantInit, RefuseChunk, RefuseCommit, SubmitCommit, server
    <3> QED BY <1>2, <3>1, <3>2
  <2>2. ASSUME NEW c \in Client, PrepareInit(c)  PROVE SavesProgress'
    <3>1. job = Idle /\ ctx'[c] = Resumed
      BY <2>2 DEF PrepareInit, Request, Typed, TypeOK
    <3>2. CASE meta # None
      BY <1>2, <2>2, <3>1, <3>2 DEF PrepareInit
    <3>3. CASE meta = None
      BY <2>2, <3>1, <3>3 DEF PrepareInit, SavesProgress, Saving, Reply
    <3> QED BY <3>2, <3>3
  <2>3. ASSUME NEW c \in Client, AcceptChunk(c)  PROVE SavesProgress'
    <3>1. ctx[c] \in 0..Blocks /\ ctx'[c] = ctx[c] + 1
      BY <2>3 DEF AcceptChunk, Typed, TypeOK
    <3>2. job' = [phase |-> "truncate", client |-> c, received |-> ctx[c] + 1, reply |-> Reply("ok", 0)]
      BY <2>3 DEF AcceptChunk
    <3>3. /\ job'.client = c /\ job'.received = ctx[c] + 1 /\ job'.reply.status = "ok"
      BY <3>2 DEF Reply
    <3>4. ctx[c] + 1 > 0
      BY <3>1
    <3> QED BY <3>1, <3>3, <3>4 DEF SavesProgress
  <2>4. CASE TruncateMeta
    <3>1. job \in Saves
      BY <2>4, JobKinds DEF TruncateMeta, Typed, TypeOK
    <3>2. job' = [job EXCEPT !.phase = "flush"] /\ ctx' = ctx
      BY <2>4 DEF TruncateMeta
    <3>3. job'.reply = job.reply /\ job'.received = job.received /\ job'.client = job.client
      BY <3>1, <3>2 DEF Saves
    <3>4. Saving
      BY <2>4 DEF TruncateMeta, Saving
    <3> QED BY <3>2, <3>3, <3>4 DEF SavesProgress
  <2>5. CASE FlushMeta \/ CopyFile \/ InstantUpsert
    BY <1>2, <2>5 DEF FlushMeta, CopyFile, InstantUpsert
  <2> QED BY <1>6, <2>1, <2>2, <2>3, <2>4, <2>5 DEF ReactorStep
<1> QED BY <1>3, <1>4, <1>5, <1>6 DEF Next

(* Error replies are no progress, whoever gets them.                       *)
LEMMA StreamError ==
  ASSUME Typed, SavesProgress, Typed', SavesProgress', NEW c \in Client, Stream(c),
         index \subseteq index', NEW r \in Replies, r.status = "error",
         outbox'[c] = outbox[c] \/ outbox'[c] = Append(outbox[c], r),
         SeenBy(c)' = SeenBy(c), Reached(c)' = Reached(c)
  PROVE  Stream(c)'
<1>1. SeenBy(c) \in 0..Blocks /\ Reached(c) \in 0..Blocks /\ outbox[c] \in Seq(Replies)
  BY SeenTypes DEF Within, Typed, TypeOK
<1>2. SeenBy(c) \in Int /\ Reached(c) \in Int /\ Reached(c) <= Reached(c) /\ SeenBy(c) <= SeenBy(c)
  BY <1>1, Numbers
<1>3. CASE outbox'[c] = outbox[c]
  BY <1>2, <1>3, StreamKeeps
<1>4. CASE outbox'[c] = Append(outbox[c], r) /\ PathOf[c] \notin index
  <2>1. Fits(outbox[c], SeenBy(c), Reached(c))
    BY <1>4 DEF Stream
  <2>2. Fits(Append(outbox[c], r), SeenBy(c), Reached(c))
    BY <1>1, <1>2, <2>1, FitsAppend
  <2> QED BY <1>4, <2>2 DEF Stream
<1>5. CASE PathOf[c] \in index
  BY <1>5 DEF Stream
<1> QED BY <1>3, <1>4, <1>5

(* What the client has seen and what is under way depends on few variables. *)
LEMMA SameSeen ==
  ASSUME NEW c \in Client, pc'[c] = pc[c], offset'[c] = offset[c]
  PROVE  SeenBy(c)' = SeenBy(c)
  BY DEF SeenBy

LEMMA SameReached ==
  ASSUME NEW c \in Client, ctx'[c] = ctx[c], job' = job
  PROVE  Reached(c)' = Reached(c)
  BY DEF Reached, Saving

Tells == \A c \in Client : (pc[c] = "done" => PathOf[c] \in index) /\ Stream(c)

(* The steps of a client.                                                  *)
LEMMA TellsClient ==
  ASSUME Typed, SavesProgress, Tells, Typed', SavesProgress', NEW c \in Client, ClientStep(c)
  PROVE  Tells'
<1> USE Numbers
<1>1. index' = index /\ ctx' = ctx /\ job' = job
  BY DEF ClientStep, Connect, StartUpload, GotReady, GotChunkOk, GotSuccess, GotFailure, server, disk
<1>2. \A e \in Client : e # c => /\ outbox'[e] = outbox[e] /\ pc'[e] = pc[e]
                                 /\ offset'[e] = offset[e]
  <2>1. CASE Connect(c) \/ StartUpload(c) \/ GotSuccess(c) \/ GotFailure(c)
    BY <2>1 DEF Connect, StartUpload, GotSuccess, GotFailure, client, Typed, TypeOK
  <2>2. CASE GotReady(c)
    BY <2>2 DEF GotReady, SendNext, Typed, TypeOK
  <2>3. CASE GotChunkOk(c)
    BY <2>3 DEF GotChunkOk, SendNext, Typed, TypeOK
  <2> QED BY <2>1, <2>2, <2>3 DEF ClientStep
<1>3. \A e \in Client : Reached(e)' = Reached(e)
  BY <1>1, SameReached
<1>4. \A e \in Client : SeenBy(e) \in Int /\ Reached(e) \in Int
  BY SeenTypes DEF Within
<1>5. ASSUME NEW e \in Client, e # c
      PROVE  (pc'[e] = "done" => PathOf[e] \in index') /\ Stream(e)'
  <2>1. SeenBy(e)' = SeenBy(e)
    BY <1>2, <1>5, SameSeen
  <2>2. Stream(e)'
    BY <1>1, <1>2, <1>3, <1>4, <1>5, <2>1, StreamKeeps DEF Tells
  <2> QED BY <1>1, <1>2, <1>5, <2>2 DEF Tells
<1>6. ASSUME PathOf[c] \in index
      PROVE  (pc'[c] = "done" => PathOf[c] \in index') /\ Stream(c)'
  BY <1>1, <1>6 DEF Stream
<1>7. ASSUME PathOf[c] \notin index
      PROVE  (pc'[c] = "done" => PathOf[c] \in index') /\ Stream(c)'
  <2>1. Fits(outbox[c], SeenBy(c), Reached(c)) /\ pc[c] # "done"
    BY <1>7 DEF Tells, Stream
  <2>2. outbox[c] \in Seq(Replies)
    BY DEF Typed, TypeOK
  <2>3. CASE Connect(c)
    <3>1. pc' = pc /\ offset' = offset /\ outbox' = outbox
      BY <2>3 DEF Connect, client
    <3>2. SeenBy(c)' = SeenBy(c)
      BY <3>1, SameSeen
    <3> QED BY <1>1, <1>3, <2>1, <3>1, <3>2 DEF Stream
  <2>4. CASE StartUpload(c)
    <3>1. pc'[c] = "init" /\ outbox' = outbox /\ pc[c] \in {"idle", "failed"}
      BY <2>4 DEF StartUpload, Typed, TypeOK
    <3>2. SeenBy(c)' = SeenBy(c)
      BY <3>1 DEF SeenBy
    <3> QED BY <1>1, <1>3, <2>1, <3>1, <3>2 DEF Stream
  <2>5. CASE GotReady(c) \/ GotChunkOk(c) \/ GotSuccess(c) \/ GotFailure(c)
    <3>1. outbox[c] # <<>> /\ outbox'[c] = Tail(outbox[c])
      BY <2>5 DEF GotReady, GotChunkOk, GotSuccess, GotFailure, Typed, TypeOK
    <3>2. Head(outbox[c]).status # "instant"
      BY <1>4, <2>1, <2>2, <3>1, FitsTail
    <3>3. PICK from \in 0..Blocks :
              /\ Fits(Tail(outbox[c]), from, Reached(c))
              /\ Head(outbox[c]).status = "ready" => Head(outbox[c]).offset <= from
              /\ Head(outbox[c]).status = "ok" => SeenBy(c) < from
              /\ Head(outbox[c]).status = "error" => SeenBy(c) <= from
      BY <1>4, <2>1, <2>2, <3>1, FitsTail
    <3>4. Len(Tail(outbox[c])) \in Nat
      BY <2>2, <3>1
    <3>5. ASSUME NEW low \in 0..from, SeenBy(c)' = low, pc'[c] # "done"
          PROVE  (pc'[c] = "done" => PathOf[c] \in index') /\ Stream(c)'
      <4>1. Fits(Tail(outbox[c]), low, Reached(c))
        BY <1>4, <3>3, <3>4, FitsMore
      <4> QED BY <1>3, <3>1, <3>5, <4>1 DEF Stream
    <3>6. CASE GotReady(c)
      <4> DEFINE off == Head(outbox[c]).offset
      <4>1. off \in 0..Blocks /\ off <= from
        <5>1. Head(outbox[c]) \in Replies
          BY <2>2, <3>1, Queues
        <5> QED BY <3>3, <3>6, <5>1 DEF GotReady, Replies
      <4>2. offset'[c] = off /\ pc'[c] = (IF off < Blocks THEN "chunk" ELSE "commit")
        BY <3>6 DEF GotReady, SendNext, Typed, TypeOK
      <4> HIDE DEF off
      <4>3. SeenBy(c)' = (IF off < Blocks THEN off ELSE Blocks)
        BY <4>2 DEF SeenBy
      <4>4. (IF off < Blocks THEN off ELSE Blocks) \in 0..from
        BY <4>1
      <4> QED BY <3>5, <4>2, <4>3, <4>4
    <3>7. CASE GotChunkOk(c)
      <4> DEFINE off == offset[c] + 1
      <4>1. off \in Nat /\ off <= from
        <5>1. SeenBy(c) = offset[c] /\ offset[c] \in 0..Blocks
          BY <3>7 DEF GotChunkOk, SeenBy, Typed, TypeOK
        <5> QED BY <3>3, <3>7, <5>1 DEF GotChunkOk
      <4>2. offset'[c] = off /\ pc'[c] = (IF off < Blocks THEN "chunk" ELSE "commit")
        BY <3>7 DEF GotChunkOk, SendNext, Typed, TypeOK
      <4> HIDE DEF off
      <4>3. SeenBy(c)' = (IF off < Blocks THEN off ELSE Blocks)
        BY <4>2 DEF SeenBy
      <4>4. (IF off < Blocks THEN off ELSE Blocks) \in 0..from
        BY <4>1
      <4> QED BY <3>5, <4>2, <4>3, <4>4
    <3>8. CASE GotSuccess(c)
      <4>1. pc[c] = "commit" /\ Head(outbox[c]).status = "ok"
        BY <3>2, <3>8 DEF GotSuccess
      <4>2. SeenBy(c) = Blocks
        BY <4>1 DEF SeenBy
      <4> QED BY <3>3, <4>1, <4>2
    <3>9. CASE GotFailure(c)
      <4>1. pc'[c] = "failed"
        BY <3>9 DEF GotFailure, Typed, TypeOK
      <4>2. SeenBy(c)' = 0 /\ 0 \in 0..from
        BY <4>1 DEF SeenBy
      <4> QED BY <3>5, <4>1, <4>2
    <3> QED BY <2>5, <3>6, <3>7, <3>8, <3>9
  <2> QED BY <2>3, <2>4, <2>5 DEF ClientStep
<1> QED BY <1>5, <1>6, <1>7 DEF Tells

(* The steps of a worker.                                                  *)
LEMMA TellsWorker ==
  ASSUME Typed, SavesProgress, Tells, AnsweredAll, Typed', SavesProgress',
         NEW w \in Worker, WorkerStep(w)
  PROVE  Tells'
<1> USE Numbers
<1>1. /\ pc' = pc /\ offset' = offset /\ ctx' = ctx /\ job' = job /\ index \subseteq index'
  BY DEF WorkerStep, TakeTask, RenamePart, RenameFails, RemoveMeta, HashStored, UpsertRow,
    DiscardPart, DiscardMeta, client, disk
<1>2. \A e \in Client : SeenBy(e)' = SeenBy(e) /\ Reached(e)' = Reached(e)
  BY <1>1, SameSeen, SameReached
<1>3. \A e \in Client : SeenBy(e) \in Int /\ Reached(e) \in Int
  BY SeenTypes DEF Within
<1>4. SUFFICES ASSUME NEW c \in Client  PROVE Stream(c)'
  BY <1>1 DEF Tells
<1>5. CASE outbox' = outbox
  BY <1>1, <1>2, <1>3, <1>5, StreamKeeps DEF Tells
<1>6. CASE UpsertRow(w)
  <2>1. /\ running[w] \in CommitTask /\ running[w] # None
        /\ outbox'[c] = IF running[w].fd # None /\ fd[c] = running[w].fd
                        THEN Append(outbox[c], Reply("ok", 0)) ELSE outbox[c]
    BY <1>6, Finishing DEF UpsertRow, At
  <2>2. CASE running[w].fd # None /\ fd[c] = running[w].fd
    <3>1. running[w].path = PathOf[c]
      BY <2>1, <2>2 DEF AnsweredAll, Answered
    <3> QED BY <1>6, <3>1 DEF UpsertRow, Stream
  <2>3. CASE ~(running[w].fd # None /\ fd[c] = running[w].fd)
    <3>1. outbox'[c] = outbox[c]
      BY <2>1, <2>3
    <3> QED BY <1>1, <1>2, <1>3, <3>1, StreamKeeps DEF Tells
  <2> QED BY <2>2, <2>3
<1>7. CASE RenameFails(w) \/ DiscardMeta(w)
  <2>1. outbox'[c] = outbox[c] \/ outbox'[c] = Append(outbox[c], Reply("error", 0))
    BY <1>7, Finishing DEF RenameFails, DiscardMeta, At
  <2>2. Reply("error", 0) \in Replies /\ Reply("error", 0).status = "error"
    BY Answer DEF Reply
  <2> QED BY <1>1, <1>2, <2>1, <2>2, StreamError DEF Tells
<1>8. CASE TakeTask(w) \/ RenamePart(w) \/ RemoveMeta(w) \/ HashStored(w) \/ DiscardPart(w)
  BY <1>5, <1>8 DEF TakeTask, RenamePart, RemoveMeta, HashStored, DiscardPart
<1> QED BY <1>6, <1>7, <1>8 DEF WorkerStep

LEMMA TellsFailure ==
  ASSUME Typed, SavesProgress, Tells, Typed', SavesProgress', Failure
  PROVE  Tells'
<1> USE Numbers
<1>1. ASSUME NEW c \in Client, outbox'[c] = <<>>, pc'[c] = Interrupted(c), ctx'[c] = None,
             index' = index
      PROVE  (pc'[c] = "done" => PathOf[c] \in index') /\ Stream(c)'
  <2>1. pc'[c] \in {"idle", "done", "failed"} /\ (pc'[c] = "done" => pc[c] = "done")
    BY <1>1 DEF Interrupted
  <2>2. SeenBy(c)' = 0
    BY <2>1 DEF SeenBy
  <2>3. Within'
    BY SeenTypes, PTL
  <2>4. Reached(c)' \in 0..Blocks /\ 0 \in 0..Blocks /\ 0 <= Reached(c)'
    BY <2>3 DEF Within
  <2>5. Fits(<<>>, 0, Reached(c)')
    BY <2>4, FitsNone
  <2> QED BY <1>1, <2>1, <2>2, <2>5 DEF Stream, Tells
<1>2. ASSUME NEW c \in Client, Drop(c)  PROVE Tells'
  <2>1. /\ outbox'[c] = <<>> /\ pc'[c] = Interrupted(c) /\ ctx'[c] = None
        /\ index' = index /\ job' = job /\ offset' = offset
    BY <1>2 DEF Drop, disk, Typed, TypeOK
  <2>2. ASSUME NEW e \in Client, e # c
        PROVE  (pc'[e] = "done" => PathOf[e] \in index') /\ Stream(e)'
    <3>1. outbox'[e] = outbox[e] /\ pc'[e] = pc[e] /\ ctx'[e] = ctx[e]
      BY <1>2, <2>2 DEF Drop, Typed, TypeOK
    <3>2. SeenBy(e)' = SeenBy(e) /\ Reached(e)' = Reached(e)
      BY <2>1, <3>1, SameSeen, SameReached
    <3>3. SeenBy(e) \in Int /\ Reached(e) \in Int
      BY SeenTypes DEF Within
    <3> QED BY <2>1, <3>1, <3>2, <3>3, StreamKeeps DEF Tells
  <2> QED BY <1>1, <2>1, <2>2 DEF Tells
<1>3. CASE Crash
  <2>1. \A c \in Client : outbox'[c] = <<>> /\ pc'[c] = Interrupted(c) /\ ctx'[c] = None
    BY <1>3 DEF Crash
  <2> QED BY <1>1, <1>3, <2>1 DEF Crash, disk, Tells
<1> QED BY <1>2, <1>3 DEF Failure

(* Nothing is under way for a client without a connection.                 *)
Connected ==
  \A c \in Client : fd[c] = None =>
    ctx[c] = None /\ inbox[c] = <<>> /\ outbox[c] = <<>>

LEMMA ConnectedNext ==
  ASSUME Typed, Connected, Next
  PROVE  Connected'
<1> USE Numbers
<1>1. ASSUME fd' = fd,
             \A c \in Client : fd[c] = None =>
               ctx'[c] = ctx[c] /\ inbox'[c] = inbox[c] /\ outbox'[c] = outbox[c]
      PROVE  Connected'
  BY <1>1 DEF Connected
<1>2. ASSUME NEW d, NEW r \in Replies, SendTo(d, r), NEW c \in Client, fd[c] = None
      PROVE  outbox'[c] = outbox[c]
  BY <1>2, Sending DEF Typed, TypeOK
<1>3. ASSUME NEW c \in Client, ClientStep(c)  PROVE Connected'
  <2>1. CASE Connect(c)
    BY <2>1 DEF Connect, Connected, server, Typed, TypeOK
  <2>2. CASE StartUpload(c)
    BY <1>1, <2>2 DEF StartUpload, Send, server, Typed, TypeOK
  <2>3. CASE GotReady(c) \/ GotChunkOk(c) \/ GotSuccess(c) \/ GotFailure(c)
    <3>1. outbox[c] # <<>> /\ fd' = fd /\ ctx' = ctx /\ fd[c] # None
      BY <2>3 DEF GotReady, GotChunkOk, GotSuccess, GotFailure, server, Connected
    <3>2. \A e \in Client : e # c => inbox'[e] = inbox[e] /\ outbox'[e] = outbox[e]
      BY <2>3 DEF GotReady, GotChunkOk, GotSuccess, GotFailure, SendNext, Send, Typed, TypeOK
    <3> QED BY <1>1, <3>1, <3>2
  <2> QED BY <1>3, <2>1, <2>2, <2>3 DEF ClientStep
<1>4. ASSUME ReactorStep  PROVE Connected'
  <2>1. ASSUME NEW c \in Client, NEW cmd, Request(c, cmd), Take(c)
        PROVE  fd[c] # None /\ \A e \in Client : e # c => inbox'[e] = inbox[e]
    BY <2>1 DEF Request, Take, Connected, Typed, TypeOK
  <2>2. ASSUME NEW c \in Client,
               InstantInit(c) \/ PrepareInit(c) \/ AcceptChunk(c) \/ RefuseChunk(c)
                 \/ SubmitCommit(c) \/ RefuseCommit(c)
        PROVE  Connected'
    <3>1. fd[c] # None /\ \A e \in Client : e # c => inbox'[e] = inbox[e]
      BY <2>1, <2>2 DEF InstantInit, PrepareInit, AcceptChunk, RefuseChunk, SubmitCommit, RefuseCommit
    <3>2. fd' = fd /\ \A e \in Client : e # c => ctx'[e] = ctx[e]
      BY <2>2 DEF InstantInit, PrepareInit, AcceptChunk, RefuseChunk, SubmitCommit, RefuseCommit,
        server, Typed, TypeOK
    <3>3. outbox' = outbox \/ \E r \in Replies : SendTo(fd[c], r)
      BY <2>2, ResumedIs, Answer DEF InstantInit, PrepareInit, AcceptChunk, RefuseChunk,
        SubmitCommit, RefuseCommit
    <3> QED BY <1>1, <1>2, <3>1, <3>2, <3>3
  <2>3. CASE CopyFile \/ InstantUpsert \/ TruncateMeta \/ FlushMeta
    <3>1. fd' = fd /\ ctx' = ctx /\ inbox' = inbox
      BY <2>3 DEF CopyFile, InstantUpsert, TruncateMeta, FlushMeta
    <3>2. FlushMeta => job.reply \in Replies
      BY JobKinds DEF FlushMeta, Typed, TypeOK, Saves
    <3>3. outbox' = outbox \/ \E d : \E r \in Replies : SendTo(d, r)
      BY <2>3, <3>2, Answer DEF CopyFile, InstantUpsert, TruncateMeta, FlushMeta
    <3> QED BY <1>1, <1>2, <3>1, <3>3
  <2> QED BY <1>4, <2>2, <2>3 DEF ReactorStep
<1>5. ASSUME NEW w \in Worker, WorkerStep(w)  PROVE Connected'
  <2>1. fd' = fd /\ ctx' = ctx /\ inbox' = inbox
    BY <1>5 DEF WorkerStep, TakeTask, RenamePart, RenameFails, RemoveMeta, HashStored, UpsertRow,
      DiscardPart, DiscardMeta
  <2>2. outbox' = outbox \/ \E d : \E r \in Replies : SendTo(d, r)
    BY <1>5, Answer DEF WorkerStep, TakeTask, RenamePart, RenameFails, RemoveMeta, HashStored, UpsertRow,
      DiscardPart, DiscardMeta, Finish
  <2> QED BY <1>1, <1>2, <2>1, <2>2
<1>6. ASSUME Failure  PROVE Connected'
  <2>1. ASSUME NEW c \in Client, Drop(c)  PROVE Connected'
    BY <2>1 DEF Drop, Connected, Typed, TypeOK
  <2>2. CASE Crash
    BY <2>2 DEF Crash, Connected
  <2> QED BY <1>6, <2>1, <2>2 DEF Failure
<1> QED BY <1>3, <1>4, <1>5, <1>6 DEF Next

(* A client that the step of the reactor is not about.                     *)
LEMMA StreamOther ==
  ASSUME Typed, SavesProgress, Typed', SavesProgress', NEW c \in Client, Stream(c),
         index \subseteq index', outbox'[c] = outbox[c], pc' = pc, offset' = offset,
         ctx'[c] = ctx[c], ~(Saving /\ job.client = c), ~(Saving' /\ job'.client = c)
  PROVE  Stream(c)'
<1>1. SeenBy(c)' = SeenBy(c)
  BY SameSeen
<1>2. Reached(c)' = Reached(c)
  BY DEF Reached
<1>3. SeenBy(c) \in Int /\ Reached(c) \in Int
  BY SeenTypes DEF Within
<1> QED BY <1>1, <1>2, <1>3, StreamKeeps

LEMMA TellsReactor ==
  ASSUME Typed, SavesProgress, Tells, Owners, Connected, Typed', SavesProgress', ReactorStep
  PROVE  Tells'
<1> USE Numbers
<1>1. pc' = pc /\ offset' = offset /\ fd' = fd /\ index \subseteq index'
  BY DEF ReactorStep, InstantInit, PrepareInit, AcceptChunk, RefuseChunk, SubmitCommit,
    RefuseCommit, CopyFile, InstantUpsert, TruncateMeta, FlushMeta, client, disk
<1>2. SUFFICES ASSUME NEW e \in Client  PROVE Stream(e)'
  BY <1>1 DEF Tells
<1>3. /\ SeenBy(e)' = SeenBy(e) /\ Stream(e) /\ outbox[e] \in Seq(Replies)
      /\ SeenBy(e) \in 0..Blocks /\ Reached(e) \in 0..Blocks
      /\ SeenBy(e) \in Int /\ Reached(e) \in Int /\ Len(outbox[e]) \in Nat
  <2>1. SeenBy(e)' = SeenBy(e)
    BY <1>1, SameSeen
  <2>2. Stream(e) /\ outbox[e] \in Seq(Replies)
    BY DEF Tells, Typed, TypeOK
  <2>3. Len(outbox[e]) \in Nat
    BY <2>2
  <2>4. SeenBy(e) \in 0..Blocks /\ Reached(e) \in 0..Blocks
    BY SeenTypes DEF Within
  <2> QED BY <2>1, <2>2, <2>3, <2>4
<1>4. ASSUME NEW c \in Client, c # e, NEW r \in Replies, SendTo(fd[c], r)
      PROVE  outbox'[e] = outbox[e]
  BY <1>4, Sending DEF Owners, Typed, TypeOK
<1>5. ASSUME NEW r \in Replies, fd[e] # None, SendTo(fd[e], r)
      PROVE  outbox'[e] = Append(outbox[e], r)
  BY <1>5, Sending DEF Typed, TypeOK
<1>6. ASSUME NEW c \in Client, NEW cmd, Request(c, cmd)
      PROVE  job = Idle /\ ~Saving /\ fd[c] # None
  BY <1>6 DEF Request, Connected, Saving, Idle
<1>7. ASSUME NEW c \in Client, InstantInit(c)  PROVE Stream(e)'
  <2>1. job = Idle /\ ~Saving /\ ctx' = ctx
    BY <1>6, <1>7 DEF InstantInit
  <2>2. PICK p \in index :
          IF p = PathOf[c]
          THEN SendTo(fd[c], Reply("error", 0)) /\ UNCHANGED <<job, stored>>
          ELSE job' = [phase |-> "copy", client |-> c, data |-> stored[p]] /\ UNCHANGED outbox
    BY <1>7 DEF InstantInit
  <2>3. ~Saving'
    BY <2>1, <2>2 DEF Saving, Idle
  <2>4. CASE outbox'[e] = outbox[e]
    BY <1>1, <1>3, <2>1, <2>3, <2>4, StreamOther
  <2>5. CASE p = PathOf[c] /\ e # c
    BY <1>4, <2>2, <2>4, <2>5, Answer
  <2>6. CASE p = PathOf[c] /\ e = c
    BY <1>1, <2>6 DEF Stream
  <2> QED BY <2>2, <2>4, <2>5, <2>6
<1>8. CASE CopyFile
  <2>1. ~Saving /\ ~Saving' /\ outbox' = outbox /\ ctx' = ctx
    BY <1>8 DEF CopyFile, Saving
  <2> QED BY <1>1, <1>3, <2>1, StreamOther
<1>9. CASE InstantUpsert
  <2>1. ~Saving /\ ~Saving' /\ ctx' = ctx /\ job.client \in Client
    BY <1>9, JobKinds DEF InstantUpsert, Saving, Idle, Typed, TypeOK
  <2>2. CASE job.client = e
    BY <1>9, <2>2 DEF InstantUpsert, Stream
  <2>3. CASE job.client # e
    <3>1. outbox'[e] = outbox[e]
      BY <1>4, <1>9, <2>1, <2>3, Answer DEF InstantUpsert
    <3> QED BY <1>1, <1>3, <2>1, <3>1, StreamOther
  <2> QED BY <2>2, <2>3
<1>10. ASSUME NEW c \in Client, PrepareInit(c)  PROVE Stream(e)'
  <2>1. job = Idle /\ ~Saving /\ fd[c] # None /\ index' = index
    BY <1>6, <1>10 DEF PrepareInit, disk
  <2>2. Resumed \in 0..Blocks /\ ctx' = [ctx EXCEPT ![c] = Resumed]
    BY <1>10, ResumedIs DEF PrepareInit
  <2>3. Reply("ready", Resumed) \in Replies /\ Reply("ready", Resumed).status = "ready"
        /\ Reply("ready", Resumed).offset = Resumed
    BY <2>2, Answer DEF Reply
  <2>4. CASE meta # None
    <3>1. SendTo(fd[c], Reply("ready", Resumed)) /\ job' = job
      BY <1>10, <2>4 DEF PrepareInit
    <3>2. CASE e # c
      <4>1. outbox'[e] = outbox[e] /\ ctx'[e] = ctx[e]
        BY <1>4, <2>2, <2>3, <3>1, <3>2 DEF Typed, TypeOK
      <4>2. ~Saving'
        BY <2>1, <3>1 DEF Saving
      <4> QED BY <1>1, <1>3, <2>1, <4>1, <4>2, StreamOther
    <3>3. CASE e = c /\ PathOf[e] \notin index
      <4>1. outbox'[e] = Append(outbox[e], Reply("ready", Resumed))
        BY <1>5, <2>1, <2>3, <3>1, <3>3
      <4>2. Fits(outbox[e], SeenBy(e), Reached(e))
        BY <1>3, <3>3 DEF Stream
      <4> DEFINE r == Reply("ready", Resumed)
      <4>3. r \in Replies /\ r.status = "ready" /\ r.offset <= Resumed
        BY <2>2, <2>3
      <4> HIDE DEF r
      <4>4. Fits(Append(outbox[e], r), SeenBy(e), Resumed)
        BY <1>3, <2>2, <4>2, <4>3, FitsAppend
      <4>5. Reached(e)' = Resumed
        <5>1. ctx'[e] = Resumed /\ Resumed # None /\ job' = Idle
          BY <2>1, <2>2, <3>1, <3>3 DEF Typed, TypeOK
        <5> QED BY <5>1 DEF Reached, Saving, Idle
      <4> QED BY <1>3, <4>1, <4>4, <4>5 DEF Stream, r
    <3>4. CASE PathOf[e] \in index
      BY <2>1, <3>4 DEF Stream
    <3> QED BY <3>2, <3>3, <3>4
  <2>5. CASE meta = None
    <3>1. /\ outbox' = outbox
          /\ job' = [phase |-> "truncate", client |-> c, received |-> Resumed,
                     reply |-> Reply("ready", Resumed)]
      BY <1>10, <2>5 DEF PrepareInit
    <3>2. CASE e # c
      <4>1. ctx'[e] = ctx[e] /\ job'.client # e
        BY <2>2, <3>1, <3>2 DEF Typed, TypeOK
      <4> QED BY <1>1, <1>3, <2>1, <3>1, <4>1, StreamOther
    <3>3. CASE e = c
      <4>1. Saving' /\ job'.client = e /\ job'.reply.status = "ready"
        BY <3>1, <3>3 DEF Saving, Reply
      <4>2. Reached(e)' = Blocks
        BY <4>1 DEF Reached
      <4> QED BY <1>1, <1>3, <3>1, <4>2, StreamKeeps
    <3> QED BY <3>2, <3>3
  <2> QED BY <2>4, <2>5
<1>11. ASSUME NEW c \in Client, AcceptChunk(c)  PROVE Stream(e)'
  <2>1. job = Idle /\ ~Saving /\ outbox' = outbox
    BY <1>6, <1>11 DEF AcceptChunk
  <2>2. /\ ctx[c] # None /\ ctx[c] \in 0..Blocks /\ ctx' = [ctx EXCEPT ![c] = @ + 1]
        /\ job' = [phase |-> "truncate", client |-> c, received |-> ctx[c] + 1, reply |-> Reply("ok", 0)]
    BY <1>11 DEF AcceptChunk, Typed, TypeOK
  <2>3. CASE e # c
    <3>1. ctx'[e] = ctx[e] /\ job'.client # e
      BY <2>2, <2>3 DEF Typed, TypeOK
    <3> QED BY <1>1, <1>3, <2>1, <3>1, StreamOther
  <2>4. CASE e = c
    <3>1. Saving' /\ job'.client = e /\ job'.reply.status = "ok" /\ job'.received = ctx[c] + 1
      BY <2>2, <2>4 DEF Saving, Reply
    <3>2. Reached(e)' = (ctx[c] + 1) - 1
      BY <3>1 DEF Reached
    <3>3. Reached(e) = ctx[c]
      BY <2>1, <2>2, <2>4 DEF Reached
    <3>4. Reached(e)' = Reached(e)
      BY <2>2, <3>2, <3>3
    <3> QED BY <1>1, <1>3, <2>1, <3>4, StreamKeeps
  <2> QED BY <2>3, <2>4
<1>12. ASSUME NEW c \in Client, RefuseChunk(c) \/ RefuseCommit(c)  PROVE Stream(e)'
  <2>1. SendTo(fd[c], Reply("error", 0)) /\ job' = job /\ ctx' = ctx
    BY <1>12 DEF RefuseChunk, RefuseCommit, server
  <2>2. Reply("error", 0) \in Replies /\ Reply("error", 0).status = "error"
    BY Answer DEF Reply
  <2>3. outbox'[e] = outbox[e] \/ outbox'[e] = Append(outbox[e], Reply("error", 0))
    BY <2>1, <2>2, Sending DEF Typed, TypeOK
  <2>4. Reached(e)' = Reached(e)
    BY <2>1, SameReached
  <2> QED BY <1>1, <1>3, <2>2, <2>3, <2>4, StreamError
<1>13. ASSUME NEW c \in Client, SubmitCommit(c)  PROVE Stream(e)'
  <2>1. job = Idle /\ ~Saving /\ job' = job /\ outbox' = outbox
    BY <1>6, <1>13 DEF SubmitCommit
  <2>2. ctx'[e] = ctx[e] \/ ctx'[e] = None
    BY <1>13 DEF SubmitCommit, Typed, TypeOK
  <2>3. Reached(e) <= Reached(e)'
    BY <1>3, <2>1, <2>2 DEF Reached, Saving
  <2> QED BY <1>1, <1>3, <2>1, <2>3, StreamKeeps
<1>14. CASE TruncateMeta
  <2>1. job \in Saves /\ Saving
    BY <1>14, JobKinds DEF TruncateMeta, Saving, Typed, TypeOK
  <2>2. job' = [job EXCEPT !.phase = "flush"] /\ ctx' = ctx /\ outbox' = outbox
    BY <1>14 DEF TruncateMeta
  <2>3. Saving' /\ job'.client = job.client /\ job'.received = job.received /\ job'.reply = job.reply
    BY <2>1, <2>2 DEF Saves, Saving
  <2>4. Reached(e)' = Reached(e)
    BY <2>1, <2>2, <2>3 DEF Reached
  <2> QED BY <1>1, <1>3, <2>2, <2>4, StreamKeeps
<1>15. CASE FlushMeta
  <2>1. /\ Saving /\ job.client \in Client /\ job.reply \in Replies /\ job.received \in 0..Blocks
    BY <1>15, JobKinds DEF FlushMeta, Saving, Typed, TypeOK, Saves
  <2>2. /\ SendTo(fd[job.client], job.reply) /\ ctx' = ctx /\ job' = Idle /\ ~Saving'
        /\ index' = index
    BY <1>15 DEF FlushMeta, Saving, Idle
  <2>3. CASE job.client # e
    <3>1. outbox'[e] = outbox[e]
      BY <1>4, <2>1, <2>2, <2>3
    <3> QED BY <1>1, <1>3, <2>2, <2>3, <3>1, StreamOther
  <2>4. CASE job.client = e /\ fd[e] = None
    <3>1. outbox'[e] = outbox[e]
      BY <2>1, <2>2, <2>4, Sending DEF Typed, TypeOK
    <3>2. Reached(e)' = Blocks
      BY <2>2, <2>4 DEF Reached, Connected
    <3> QED BY <1>1, <1>3, <3>1, <3>2, StreamKeeps
  <2>5. CASE job.client = e /\ fd[e] # None /\ PathOf[e] \notin index
    <3>1. outbox'[e] = Append(outbox[e], job.reply)
      BY <1>5, <2>1, <2>2, <2>5
    <3>2. Fits(outbox[e], SeenBy(e), Reached(e))
      BY <1>3, <2>5 DEF Stream
    <3>3. /\ job.reply.status # "instant"
          /\ job.reply.status = "ready" => job.reply.offset <= job.received
          /\ job.reply.status # "error"
          /\ job.reply.status = "ok" => Reached(e) < job.received
      BY <2>1, <2>5 DEF SavesProgress, Reached
    <3>4. Fits(Append(outbox[e], job.reply), SeenBy(e), job.received)
      BY <1>3, <2>1, <3>2, <3>3, FitsAppend
    <3>5. Reached(e)' = (IF ctx[e] = None THEN Blocks ELSE ctx[e]) /\ ctx[e] \in {job.received, None}
      BY <2>1, <2>2, <2>5 DEF Reached, SavesProgress
    <3>6. job.received <= Reached(e)' /\ Reached(e)' \in Int /\ job.received \in Int
      BY <2>1, <3>5
    <3>7. Len(Append(outbox[e], job.reply)) \in Nat
      BY <1>3, <2>1
    <3>8. Fits(Append(outbox[e], job.reply), SeenBy(e), Reached(e)')
      BY <1>3, <3>4, <3>6, <3>7, FitsMore
    <3> QED BY <1>3, <3>1, <3>8 DEF Stream
  <2>6. CASE PathOf[e] \in index
    BY <1>1, <2>6 DEF Stream
  <2> QED BY <2>3, <2>4, <2>5, <2>6
<1> QED BY <1>7, <1>8, <1>9, <1>10, <1>11, <1>12, <1>13, <1>14, <1>15 DEF ReactorStep

(* The queues of requests and replies and the commits, of every state.     *)
ToldInv == Typed /\ Owners /\ Connected /\ AnsweredAll /\ SavesProgress /\ Tells

LEMMA ToldInit == Init => ToldInv
<1> SUFFICES ASSUME Init  PROVE ToldInv
  OBVIOUS
<1>1. Typed /\ Owners /\ Connected /\ AnsweredAll /\ SavesProgress
  BY TypedInit DEF Init, Owners, Connected, AnsweredAll, SavesProgress, Saving, Idle
<1>2. ASSUME NEW c \in Client  PROVE Stream(c) /\ pc[c] # "done"
  <2>1. outbox[c] = <<>> /\ SeenBy(c) = 0 /\ Reached(c) = Blocks /\ pc[c] # "done"
    BY <1>2 DEF Init, SeenBy, Reached, Saving, Idle
  <2>2. Fits(<<>>, 0, Blocks)
    BY Numbers, FitsNone
  <2> QED BY <2>1, <2>2 DEF Stream
<1> QED BY <1>1, <1>2 DEF ToldInv, Tells

LEMMA ToldNext ==
  ASSUME Separate, ToldInv, [Next]_vars
  PROVE  ToldInv'
<1>1. CASE Next
  <2>1. Typed' /\ Owners' /\ Connected' /\ AnsweredAll' /\ SavesProgress'
    BY <1>1, TypedNext, OwnersNext, ConnectedNext, AnsweredNext, SavesNext DEF ToldInv
  <2>2. Tells'
    BY <1>1, <2>1, TellsClient, TellsReactor, TellsWorker, TellsFailure DEF ToldInv, Next
  <2> QED BY <2>1, <2>2 DEF ToldInv
<1>2. CASE UNCHANGED vars
  <2>1. Typed'
    BY <1>2, TypedNext DEF ToldInv
  <2>2. Owners' /\ Connected' /\ AnsweredAll' /\ SavesProgress'
    BY <1>2 DEF vars, disk, server, client, ToldInv, Owners, Connected, AnsweredAll, Answered,
      SavesProgress, Saving
  <2>3. Tells'
    BY <1>2 DEF vars, disk, server, client, ToldInv, Tells, Stream, SeenBy, Reached, Saving
  <2> QED BY <2>1, <2>2, <2>3 DEF ToldInv
<1> QED BY <1>1, <1>2

LEMMA ToldAlways == ASSUME Separate  PROVE Spec => []ToldInv
<1>1. ToldInv /\ [Next]_vars => ToldInv'
  BY ToldNext
<1> QED BY <1>1, ToldInit, PTL DEF Spec

(* ToldOnlyIndexed: a terminal that handle_upload tells of success has its *)
(* row in the index, for any number of blocks, terminals and workers, read *)
(* through a mapping or a stream, whatever connections and crashes do: a   *)
(* reply that a worker schedules for a connection that is gone, and that   *)
(* the next connection with its descriptor number reads, is never counted  *)
(* for another step than the one it answers.                               *)
THEOREM ToldIsIndexed == ASSUME Separate  PROVE Spec => []ToldOnlyIndexed
<1>1. ToldInv => ToldOnlyIndexed
  BY DEF ToldInv, Tells, ToldOnlyIndexed
<1> QED BY <1>1, ToldAlways, PTL

-----------------------------------------------------------------------------
(* The upload is an atomic put *)

(* One terminal, a file that is not empty and is large enough to be mapped *)
(* (a stream goes on from the wrong block after a resume), and no          *)
(* connection lost while two commits are in the executor.                  *)
OneTerminal ==
  /\ \A c, e \in Client : c = e
  /\ UseMmap = TRUE /\ MaxOverlap <= 1 /\ Blocks > 0

FirstBlocks(n) == [i \in 1..n |-> i]
Stage(S) == \E w \in Worker : running[w] # None /\ running[w].at \in S
ToRename == tasks # <<>> \/ Stage({"rename"})
Early == ToRename \/ Stage({"removeMeta"})
Renamed == {"removeMeta", "hash", "upsert"}

(* A crash has separated the rename from the removal of the checkpoint.    *)
Orphan == part = None /\ meta = Blocks /\ ~Stage({"removeMeta"})

OnDisk ==
  /\ part # None => \E n \in 1..Blocks : part = FirstBlocks(n)
  /\ part # None /\ meta # None => meta <= Len(part)
  /\ part = None => meta \in {None, 0, Blocks}
  /\ \A p \in Path : stored[p] \in {None, File}
  /\ \A p \in index : stored[p] = File /\ \A c \in Client : p = PathOf[c]

(* Progress is saved only while no commit is before the removal of the     *)
(* checkpoint.                                                             *)
SavesBehind ==
  job # Idle =>
    /\ Saving /\ ~Early
    /\ part # None => job.received <= Len(part)
    /\ part = None => job.received = 0
    /\ job.phase = "truncate" /\ part = None => meta = None
    /\ job.phase = "flush" => meta = 0

(* What the server takes for received ...                                  *)
SessionOk(c) ==
  ctx[c] # None =>
    /\ part # None => ctx[c] <= Len(part)
    /\ part = None => ctx[c] \in {0, Blocks}
    /\ part = None /\ meta = Blocks => ctx[c] = Blocks
    /\ Early => ctx[c] = Blocks
    /\ job # Idle => ctx[c] = job.received
    /\ part # None /\ ctx[c] = Blocks /\ job = Idle => meta = Blocks
    /\ part = None /\ ctx[c] = Blocks /\ meta # Blocks /\ job = Idle /\ index = {}
         => Stage({"hash", "upsert"})

(* ... and the commits.                                                    *)
CommitsOk ==
  /\ \A i \in 1..Len(tasks) : tasks[i].at = "rename"
  /\ \A w \in Worker : running[w] # None =>
       /\ running[w].at \in {"rename", "removeMeta", "hash", "upsert"}
       /\ running[w].at # "rename" => stored[running[w].path] = File
       /\ running[w].at = "removeMeta" =>
            /\ part = None /\ meta = Blocks
            /\ \A v \in Worker : running[v] # None /\ running[v].at = "removeMeta" => v = w
  /\ ToRename /\ part # None => part = File /\ meta = Blocks
  /\ ToRename /\ part = None /\ index = {} /\ ~Orphan => Stage(Renamed)

Steady == OnDisk /\ SavesBehind /\ CommitsOk /\ \A c \in Client : SessionOk(c)

(* A mapped chunk is that of its offset.                                   *)
MappedChunks ==
  \A c \in Client : \A i \in 1..Len(inbox[c]) : inbox[c][i].cmd = "chunk" =>
    inbox[c][i].offset < Blocks /\ inbox[c][i].block = inbox[c][i].offset + 1

Busy == {w \in Worker : running[w] # None}
Count == Len(tasks) + Cardinality(Busy)

(* Before the row is there, one message is under way at most, and a second *)
(* commit in the executor means that the client waits for it.              *)
Quiet(c) ==
  pc[c] = "commit" /\ inbox[c] = <<>> /\ outbox[c] = <<>> /\ ctx[c] = None /\ job = Idle
InTurn(c) ==
  /\ Len(inbox[c]) + Len(outbox[c]) <= 1
  /\ job # Idle => inbox[c] = <<>> /\ outbox[c] = <<>>
  /\ fd[c] = None \/ job = Idle \/ pc[c] \in {"init", "chunk"}
  /\ inbox[c] # <<>> => inbox[c][1].cmd = pc[c]
  /\ outbox[c] # <<>> => pc[c] \in {"init", "chunk", "commit"}
  /\ fd[c] = None => pc[c] \in {"idle", "failed", "done"}
  /\ Count <= 1 \/ (Count = 2 /\ Quiet(c))
Ordered == index = {} /\ ~Orphan => \A c \in Client : InTurn(c)

Placed == Steady /\ MappedChunks /\ IsFiniteSet(Busy) /\ Ordered

LEMMA Firsts ==
  ASSUME OneTerminal
  PROVE  /\ Blocks \in Nat \ {0} /\ File = FirstBlocks(Blocks) /\ File # None
         /\ \A n \in Nat : Len(FirstBlocks(n)) = n /\ FirstBlocks(n) # None
         /\ \A n \in Nat : FirstBlocks(n) \in Seq(Nat)
<1>1. \A n \in Nat : Len(FirstBlocks(n)) = n /\ FirstBlocks(n) \in Seq(Nat)
  BY DEF FirstBlocks
<1>2. \A n \in Nat : FirstBlocks(n) # None
  BY <1>1, Numbers
<1> QED BY <1>1, <1>2, Numbers DEF OneTerminal, FirstBlocks, File

(* A chunk at the end of the part file, or within it.                      *)
LEMMA Writes ==
  ASSUME OneTerminal, NEW off \in 0..Blocks - 1
  PROVE  /\ PWrite(None, off, off + 1) = FirstBlocks(off + 1) \/ off # 0
         /\ \A n \in 1..Blocks : off <= n =>
              PWrite(FirstBlocks(n), off, off + 1) =
                FirstBlocks(IF n > off THEN n ELSE off + 1)
<1> USE Numbers
<1>1. ASSUME off = 0  PROVE PWrite(None, off, off + 1) = FirstBlocks(off + 1)
  <2>1. Len(<<>>) = 0
    OBVIOUS
  <2>2. PWrite(None, off, off + 1) =
          [i \in 1..1 |-> IF i = 1 THEN 1 ELSE IF i <= Len(<<>>) THEN <<>>[i] ELSE 0]
    BY <1>1, <2>1 DEF PWrite
  <2>3. \A i \in 1..1 : (IF i = 1 THEN 1 ELSE IF i <= Len(<<>>) THEN <<>>[i] ELSE 0) = i
    OBVIOUS
  <2> QED BY <1>1, <2>2, <2>3 DEF FirstBlocks
<1>2. ASSUME NEW n \in 1..Blocks, off <= n
      PROVE  PWrite(FirstBlocks(n), off, off + 1) =
               FirstBlocks(IF n > off THEN n ELSE off + 1)
  <2> DEFINE len == IF n > off THEN n ELSE off + 1
             F == FirstBlocks(n)
  <2>1. Len(F) = n /\ F # None /\ n \in Nat /\ len \in Nat
    BY Firsts
  <2>2. \A i \in 1..n : F[i] = i
    BY DEF FirstBlocks
  <2> HIDE DEF F
  <2>3. PWrite(F, off, off + 1) =
          [i \in 1..len |-> IF i = off + 1 THEN off + 1 ELSE IF i <= Len(F) THEN F[i] ELSE 0]
    BY <2>1 DEF PWrite
  <2>4. \A i \in 1..len :
          (IF i = off + 1 THEN off + 1 ELSE IF i <= Len(F) THEN F[i] ELSE 0) = i
    BY <1>2, <2>1, <2>2
  <2>5. PWrite(F, off, off + 1) = [i \in 1..len |-> i]
    BY <2>3, <2>4
  <2> QED BY <2>5 DEF FirstBlocks, F
<1> QED BY <1>1, <1>2

(* Where the commits are after a step of a worker.                         *)
LEMMA StageGoing ==
  ASSUME Typed, NEW w \in Worker, NEW s, NEW step \in Stages, At(w, s), Goto(w, step), NEW S
  PROVE  /\ Stage(S)' => Stage(S) \/ step \in S
         /\ Stage(S) /\ s \notin S => Stage(S)'
         /\ step \in S => Stage(S)'
<1>1. /\ running'[w] # None /\ running'[w].at = step
      /\ running[w] # None /\ running[w].at = s
      /\ \A v \in Worker : v # w => running'[v] = running[v]
  BY Going, Numbers DEF At
<1> QED BY <1>1 DEF Stage

LEMMA StageFinishing ==
  ASSUME NEW w \in Worker, running'[w] = None, NEW S, NEW s, running[w].at = s,
         \A v \in Worker : v # w => running'[v] = running[v]
  PROVE  /\ Stage(S)' => Stage(S)
         /\ Stage(S) /\ s \notin S => Stage(S)'
  BY DEF Stage

LEMMA StageTaking ==
  ASSUME Typed, NEW w \in Worker, TakeTask(w), tasks[1].at = "rename", NEW S
  PROVE  /\ Stage(S)' => Stage(S) \/ "rename" \in S
         /\ Stage(S) => Stage(S)'
<1>1. /\ running'[w] = tasks[1] /\ running[w] = None
      /\ \A v \in Worker : v # w => running'[v] = running[v]
      /\ running'[w] # None
  BY Taking, Numbers
<1> QED BY <1>1 DEF Stage

(* How many there are.                                                     *)
LEMMA CountFinishing ==
  ASSUME NEW w \in Worker, running[w] # None, running'[w] = None, tasks' = tasks,
         \A v \in Worker : v # w => running'[v] = running[v], IsFiniteSet(Busy), Typed
  PROVE  IsFiniteSet(Busy') /\ Count' = Count - 1 /\ Count \in Nat
<1>1. Busy' = Busy \ {w} /\ w \in Busy
  BY DEF Busy
<1>2. IsFiniteSet(Busy') /\ Cardinality(Busy') = Cardinality(Busy) - 1 /\ Cardinality(Busy) \in Nat
  BY <1>1, FS_RemoveElement, FS_CardinalityType
<1>3. Len(tasks) \in Nat
  BY DEF Typed, TypeOK
<1> QED BY <1>2, <1>3 DEF Count

LEMMA CountTaking ==
  ASSUME NEW w \in Worker, TakeTask(w), IsFiniteSet(Busy), Typed
  PROVE  IsFiniteSet(Busy') /\ Count' = Count
<1>1. /\ running[w] = None /\ running'[w] # None /\ Len(tasks') = Len(tasks) - 1
      /\ \A v \in Worker : v # w => running'[v] = running[v]
  BY Taking, Numbers
<1>2. Busy' = Busy \cup {w} /\ w \notin Busy
  BY <1>1 DEF Busy
<1>3. IsFiniteSet(Busy') /\ Cardinality(Busy') = Cardinality(Busy) + 1 /\ Cardinality(Busy) \in Nat
  BY <1>2, FS_AddElement, FS_CardinalityType
<1>4. Len(tasks) \in Nat
  BY DEF Typed, TypeOK
<1> QED BY <1>1, <1>3, <1>4 DEF Count

LEMMA CountGoing ==
  ASSUME NEW w \in Worker, NEW s, NEW step \in Stages, At(w, s), Goto(w, step), tasks' = tasks,
         Typed, IsFiniteSet(Busy)
  PROVE  IsFiniteSet(Busy') /\ Count' = Count
<1>1. /\ running'[w] # None /\ running[w] # None
      /\ \A v \in Worker : v # w => running'[v] = running[v]
  BY Going, Numbers DEF At
<1>2. Busy' = Busy
  BY <1>1 DEF Busy
<1> QED BY <1>2 DEF Count

LEMMA TwoCommits ==
  ASSUME Typed, IsFiniteSet(Busy), ToRename, Stage(Renamed)
  PROVE  Count >= 2
<1>1. PICK w \in Worker : running[w] # None /\ running[w].at \in Renamed
  BY DEF Stage
<1>2. w \in Busy
  BY <1>1 DEF Busy
<1>3. /\ IsFiniteSet(Busy \ {w}) /\ Cardinality(Busy \ {w}) = Cardinality(Busy) - 1
      /\ Cardinality(Busy) \in Nat /\ Cardinality(Busy \ {w}) \in Nat
  BY <1>2, FS_RemoveElement, FS_CardinalityType
<1>4. Len(tasks) \in Nat /\ (tasks # <<>> => Len(tasks) > 0)
  BY Queues DEF Typed, TypeOK
<1>5. CASE tasks # <<>>
  BY <1>3, <1>4, <1>5 DEF Count
<1>6. CASE Stage({"rename"})
  <2>1. PICK v \in Worker : running[v] # None /\ running[v].at = "rename"
    BY <1>6 DEF Stage
  <2>2. v \in Busy \ {w}
    BY <1>1, <2>1 DEF Busy, Renamed
  <2>3. Cardinality(Busy \ {w}) # 0
    BY <1>3, <2>2, FS_EmptySet
  <2> QED BY <1>3, <1>4, <2>3 DEF Count
<1> QED BY <1>5, <1>6 DEF ToRename


LEMMA EmptyQueue ==
  ASSUME NEW S, NEW q \in Seq(S), Len(q) = 0  PROVE q = <<>>
  OBVIOUS

LEMMA NoneLeft ==
  ASSUME NEW a \in Nat, NEW b \in Nat, NEW t \in Nat, a + b <= 1 \/ b + a <= 1, b > 0, t = b - 1
  PROVE  a = 0 /\ t = 0
  OBVIOUS

(* While the row is not there, a reply is the only message under way ...   *)
LEMMA OneReply ==
  ASSUME Typed, Ordered, IsFiniteSet(Busy), NEW c \in Client, outbox[c] # <<>>,
         index = {}, ~Orphan
  PROVE  /\ inbox[c] = <<>> /\ Tail(outbox[c]) = <<>> /\ job = Idle /\ Count <= 1
         /\ fd[c] # None \/ pc[c] \in {"idle", "failed", "done"}
<1>1. InTurn(c)
  BY DEF Ordered
<1>2. inbox[c] \in Seq(Requests) /\ outbox[c] \in Seq(Replies)
  BY DEF Typed, TypeOK
<1>3. Len(inbox[c]) \in Nat /\ Len(outbox[c]) \in Nat /\ Len(outbox[c]) > 0
      /\ Tail(outbox[c]) \in Seq(Replies) /\ Len(Tail(outbox[c])) = Len(outbox[c]) - 1
  BY <1>2, Queues
<1>4. Len(inbox[c]) + Len(outbox[c]) <= 1
  BY <1>1 DEF InTurn
<1>5. Len(inbox[c]) = 0 /\ Len(Tail(outbox[c])) = 0
  <2>1. Len(Tail(outbox[c])) \in Nat
    BY <1>3
  <2> QED BY <1>3, <1>4, <2>1, NoneLeft
<1>6. inbox[c] = <<>> /\ Tail(outbox[c]) = <<>>
  BY <1>2, <1>3, <1>5, EmptyQueue
<1> QED BY <1>1, <1>6 DEF InTurn, Quiet

(* ... and a request, too.                                                 *)
LEMMA OneRequest ==
  ASSUME Typed, Ordered, IsFiniteSet(Busy), NEW c \in Client, inbox[c] # <<>>,
         index = {}, ~Orphan
  PROVE  /\ outbox[c] = <<>> /\ Tail(inbox[c]) = <<>> /\ job = Idle /\ Count <= 1
         /\ pc[c] = Head(inbox[c]).cmd
<1>1. InTurn(c)
  BY DEF Ordered
<1>2. inbox[c] \in Seq(Requests) /\ outbox[c] \in Seq(Replies)
  BY DEF Typed, TypeOK
<1>3. Len(outbox[c]) \in Nat /\ Len(inbox[c]) \in Nat /\ Len(inbox[c]) > 0
      /\ Tail(inbox[c]) \in Seq(Requests) /\ Len(Tail(inbox[c])) = Len(inbox[c]) - 1
      /\ Head(inbox[c]) = inbox[c][1]
  BY <1>2, Queues
<1>4. Len(inbox[c]) + Len(outbox[c]) <= 1
  BY <1>1 DEF InTurn
<1>5. Len(outbox[c]) = 0 /\ Len(Tail(inbox[c])) = 0
  <2>1. Len(Tail(inbox[c])) \in Nat
    BY <1>3
  <2> QED BY <1>3, <1>4, <2>1, NoneLeft
<1>6. outbox[c] = <<>> /\ Tail(inbox[c]) = <<>>
  BY <1>2, <1>3, <1>5, EmptyQueue
<1> QED BY <1>1, <1>3, <1>6 DEF InTurn, Quiet

(* Neither the disk nor the server changes.                                *)
LEMMA SteadySame ==
  ASSUME Steady, UNCHANGED <<disk, server>>
  PROVE  Steady' /\ Busy' = Busy /\ Count' = Count /\ Orphan' = Orphan
<1>1. /\ part' = part /\ meta' = meta /\ stored' = stored /\ index' = index
      /\ ctx' = ctx /\ job' = job /\ tasks' = tasks /\ running' = running
  BY DEF disk, server
<1>2. Busy' = Busy /\ Count' = Count /\ Orphan' = Orphan
  BY <1>1 DEF Busy, Count, Orphan, Stage
<1>3. OnDisk'
  BY <1>1 DEF Steady, OnDisk
<1>4. SavesBehind'
  BY <1>1 DEF Steady, SavesBehind, Saving, Early, ToRename, Stage
<1>5. CommitsOk'
  BY <1>1 DEF Steady, CommitsOk, ToRename, Stage, Orphan
<1>6. \A c \in Client : SessionOk(c)'
  BY <1>1 DEF Steady, SessionOk, Early, ToRename, Stage
<1> QED BY <1>2, <1>3, <1>4, <1>5, <1>6 DEF Steady

(* A queue of one request.                                                 *)
LEMMA Single ==
  ASSUME NEW S, NEW q \in Seq(S), NEW x \in S
  PROVE  q = <<>> => Append(q, x) = <<x>> /\ Len(Append(q, x)) = 1 /\ Append(q, x)[1] = x
                     /\ Append(q, x) # <<>>
  OBVIOUS

LEMMA MappedSend ==
  ASSUME Typed, MappedChunks, NEW c \in Client, NEW r \in Requests, Send(c, r),
         r.cmd = "chunk" => r.offset < Blocks /\ r.block = r.offset + 1
  PROVE  MappedChunks'
<1> SUFFICES ASSUME NEW e \in Client, NEW i \in 1..Len(inbox'[e])
             PROVE  (inbox[e][i].cmd = "chunk" =>
                      inbox[e][i].offset < Blocks /\ inbox[e][i].block = inbox[e][i].offset + 1)'
  BY DEF MappedChunks
<1>1. CASE e # c
  BY <1>1 DEF MappedChunks, Send, Typed, TypeOK
<1>2. CASE e = c
  <2>1. inbox[c] \in Seq(Requests) /\ inbox'[c] = Append(inbox[c], r)
    BY DEF Send, Typed, TypeOK
  <2>2. /\ Len(inbox'[c]) = Len(inbox[c]) + 1 /\ Len(inbox[c]) \in Nat
        /\ inbox'[c][Len(inbox[c]) + 1] = r
        /\ \A j \in 1..Len(inbox[c]) : inbox'[c][j] = inbox[c][j]
    BY <2>1, Queues
  <2>3. i \in 1..Len(inbox[c]) \/ i = Len(inbox[c]) + 1
    BY <1>2, <2>2
  <2> QED BY <1>2, <2>2, <2>3 DEF MappedChunks
<1> QED BY <1>1, <1>2


LEMMA NoneUnderWay == Len(<<>>) + Len(<<>>) <= 1
  OBVIOUS

LEMMA OneUnderWay ==
  ASSUME NEW x
  PROVE  /\ Append(<<>>, x) # <<>> /\ Append(<<>>, x)[1] = x
         /\ Len(Append(<<>>, x)) + Len(<<>>) <= 1
         /\ Len(<<>>) + Len(Append(<<>>, x)) <= 1
  OBVIOUS

(* The next request of a client that has read a reply.                     *)
LEMMA PlacedNext ==
  ASSUME OneTerminal, Typed, Placed, NEW c \in Client, outbox[c] # <<>>,
         NEW off \in Nat, NEW streamed, SendNext(c, off, streamed),
         outbox' = [outbox EXCEPT ![c] = Tail(@)], UNCHANGED <<disk, server, fd>>
  PROVE  Placed'
<1> USE Numbers
<1>1. Steady' /\ Busy' = Busy /\ Count' = Count /\ Orphan' = Orphan
  BY SteadySame DEF Placed
<1>2. PICK r \in Requests : /\ Send(c, r) /\ pc' = [pc EXCEPT ![c] = r.cmd]
                            /\ r.cmd = "chunk" => r.offset < Blocks /\ r.block = r.offset + 1
  <2>1. CASE off < Blocks
    <3> DEFINE r == [cmd |-> "chunk", offset |-> off, block |-> off + 1]
    <3>1. r \in Requests /\ r.cmd = "chunk" /\ r.offset = off /\ r.block = off + 1
      BY <2>1 DEF Requests
    <3>2. Send(c, r) /\ pc' = [pc EXCEPT ![c] = "chunk"]
      BY <2>1 DEF SendNext, ChunkAt, OneTerminal
    <3> QED BY <2>1, <3>1, <3>2
  <2>2. CASE ~(off < Blocks)
    <3>1. [cmd |-> "commit"] \in Requests
      BY DEF Requests
    <3> QED BY <2>2, <3>1 DEF SendNext
  <2> QED BY <2>1, <2>2
<1>3. MappedChunks'
  BY <1>2, MappedSend DEF Placed
<1>4. ASSUME index = {}, ~Orphan  PROVE InTurn(c)'
  <2>1. /\ inbox[c] = <<>> /\ Tail(outbox[c]) = <<>> /\ job = Idle /\ Count <= 1
    BY <1>4, OneReply DEF Placed
  <2>2. /\ InTurn(c) /\ outbox[c] # <<>>
    BY <1>4 DEF Placed, Ordered
  <2>3. pc[c] \in {"init", "chunk", "commit"} /\ fd[c] # None
    BY <2>2 DEF InTurn
  <2>4. /\ outbox'[c] = <<>> /\ inbox'[c] = Append(<<>>, r) /\ pc'[c] = r.cmd
        /\ job' = Idle /\ fd' = fd
    BY <1>2, <2>1 DEF Send, Typed, TypeOK, server
  <2>5. inbox'[c] # <<>> /\ inbox'[c][1] = r /\ Len(inbox'[c]) + Len(outbox'[c]) <= 1
    BY <2>4, OneUnderWay
  <2> QED BY <1>1, <2>1, <2>3, <2>4, <2>5 DEF InTurn
<1>5. Ordered'
  BY <1>1, <1>4 DEF Ordered, OneTerminal, disk
<1> QED BY <1>1, <1>3, <1>5 DEF Placed

LEMMA PlacedClient ==
  ASSUME OneTerminal, Typed, Placed, NEW c \in Client, ClientStep(c)
  PROVE  Placed'
<1> USE Numbers
<1>1. UNCHANGED <<disk, server>>
  BY DEF ClientStep, Connect, StartUpload, GotReady, GotChunkOk, GotSuccess, GotFailure
<1>2. Steady' /\ Busy' = Busy /\ Count' = Count /\ Orphan' = Orphan
  BY <1>1, SteadySame DEF Placed
<1>3. index' = index /\ job' = job /\ ctx' = ctx
  BY <1>1 DEF disk, server
<1>4. ASSUME index = {} /\ ~Orphan => InTurn(c)'  PROVE Ordered'
  BY <1>2, <1>3, <1>4 DEF Ordered, OneTerminal
<1>5. CASE Connect(c)
  <2>1. /\ job = Idle /\ inbox' = inbox /\ outbox' = outbox /\ pc' = pc /\ fd'[c] # None
    BY <1>5 DEF Connect, client, Typed, TypeOK
  <2>2. MappedChunks'
    BY <2>1 DEF Placed, MappedChunks
  <2>3. ASSUME InTurn(c)  PROVE InTurn(c)'
    BY <1>2, <1>3, <2>1, <2>3 DEF InTurn, Quiet
  <2> QED BY <1>2, <1>4, <2>2, <2>3 DEF Placed, Ordered
<1>6. CASE StartUpload(c)
  <2> DEFINE r == [cmd |-> "init"]
  <2>1. r \in Requests /\ r.cmd = "init" /\ Send(c, r) /\ outbox' = outbox /\ fd' = fd
        /\ pc'[c] = "init" /\ pc[c] \in {"idle", "failed"} /\ fd[c] # None
    BY <1>6 DEF StartUpload, Requests, Typed, TypeOK
  <2> HIDE DEF r
  <2>2. MappedChunks'
    BY <2>1, MappedSend DEF Placed
  <2>3. ASSUME InTurn(c)  PROVE InTurn(c)'
    <3>1. outbox[c] = <<>> /\ inbox[c] \in Seq(Requests) /\ Count <= 1 /\ job = Idle
      BY <2>1, <2>3 DEF InTurn, Quiet, Typed, TypeOK
    <3>2. inbox[c] = <<>>
      <4>1. inbox[c] # <<>> => Head(inbox[c]) \in Requests /\ Head(inbox[c]) = inbox[c][1]
        BY <3>1, Queues
      <4>2. inbox[c] # <<>> => inbox[c][1].cmd \in {"init", "chunk", "commit"}
        BY <4>1 DEF Requests
      <4> QED BY <2>1, <2>3, <4>2 DEF InTurn
    <3>3. inbox'[c] = Append(<<>>, r)
      BY <2>1, <3>2 DEF Send, Typed, TypeOK
    <3>4. /\ inbox'[c] # <<>> /\ inbox'[c][1] = r /\ outbox'[c] = <<>>
          /\ Len(inbox'[c]) + Len(outbox'[c]) <= 1
      BY <2>1, <3>1, <3>3, OneUnderWay
    <3> QED BY <1>2, <1>3, <2>1, <3>1, <3>4 DEF InTurn
  <2> QED BY <1>2, <1>4, <2>2, <2>3 DEF Placed, Ordered
<1>7. CASE GotReady(c)
  <2>1. outbox[c] # <<>> /\ Head(outbox[c]).offset \in Nat
    <3>1. outbox[c] # <<>> /\ Head(outbox[c]) \in Replies
      BY <1>7, ReadTypes DEF GotReady
    <3> QED BY <3>1 DEF Replies
  <2> QED BY <1>7, <2>1, PlacedNext DEF GotReady
<1>8. CASE GotChunkOk(c)
  <2>1. offset[c] + 1 \in Nat
    BY DEF Typed, TypeOK
  <2> QED BY <1>8, <2>1, PlacedNext DEF GotChunkOk
<1>9. CASE GotSuccess(c) \/ GotFailure(c)
  <2>1. /\ outbox[c] # <<>> /\ outbox'[c] = Tail(outbox[c]) /\ inbox' = inbox /\ fd' = fd
        /\ pc'[c] \in {"done", "failed"}
    BY <1>9 DEF GotSuccess, GotFailure, Typed, TypeOK
  <2>2. MappedChunks'
    BY <2>1 DEF Placed, MappedChunks
  <2>3. ASSUME index = {}, ~Orphan  PROVE InTurn(c)'
    <3>1. inbox[c] = <<>> /\ Tail(outbox[c]) = <<>> /\ job = Idle /\ Count <= 1
      BY <2>1, <2>3, OneReply DEF Placed
    <3>2. inbox'[c] = <<>> /\ outbox'[c] = <<>>
      BY <2>1, <3>1
    <3>3. Len(inbox'[c]) + Len(outbox'[c]) <= 1
      BY <3>2, NoneUnderWay
    <3> QED BY <1>2, <1>3, <2>1, <3>1, <3>2, <3>3 DEF InTurn
  <2> QED BY <1>2, <1>4, <2>2, <2>3 DEF Placed
<1> QED BY <1>5, <1>6, <1>7, <1>8, <1>9 DEF ClientStep


LEMMA PartIs ==
  ASSUME OneTerminal, OnDisk, part # None
  PROVE  /\ \E n \in 1..Blocks : part = FirstBlocks(n) /\ Len(part) = n
         /\ Len(part) \in 1..Blocks /\ Len(part) \in 0..Blocks
         /\ Len(part) = Blocks => part = File
<1>1. PICK n \in 1..Blocks : part = FirstBlocks(n)
  BY DEF OnDisk
<1>2. n \in Nat /\ Len(part) = n
  BY <1>1, Firsts
<1>3. n \in 0..Blocks
  OBVIOUS
<1>4. n = Blocks => part = File
  BY <1>1, Firsts
<1> QED BY <1>1, <1>2, <1>3, <1>4

(* A request that is taken, and answered at once or while it is saved.     *)
LEMMA MappedTake ==
  ASSUME Typed, MappedChunks, NEW c \in Client, NEW cmd, Request(c, cmd), Take(c)
  PROVE  MappedChunks'
<1> SUFFICES ASSUME NEW e \in Client, NEW i \in 1..Len(inbox'[e])
             PROVE  (inbox[e][i].cmd = "chunk" =>
                      inbox[e][i].offset < Blocks /\ inbox[e][i].block = inbox[e][i].offset + 1)'
  BY DEF MappedChunks
<1>1. CASE e # c
  BY <1>1 DEF MappedChunks, Take, Typed, TypeOK
<1>2. CASE e = c
  <2>1. inbox[c] \in Seq(Requests) /\ inbox[c] # <<>> /\ inbox'[c] = Tail(inbox[c])
    BY DEF Request, Take, Typed, TypeOK
  <2>2. /\ Len(inbox'[c]) = Len(inbox[c]) - 1 /\ Len(inbox[c]) \in Nat
        /\ \A j \in 1..Len(inbox[c]) - 1 : inbox'[c][j] = inbox[c][j + 1]
    BY <2>1, Queues
  <2>3. i + 1 \in 1..Len(inbox[c]) /\ inbox'[c][i] = inbox[c][i + 1]
    BY <1>2, <2>2
  <2> QED BY <1>2, <2>3 DEF MappedChunks
<1> QED BY <1>1, <1>2

LEMMA RequestTurn ==
  ASSUME Typed, Connected, Placed, NEW c \in Client,
         NEW cmd \in {"init", "chunk", "commit"}, Request(c, cmd), Take(c),
         index = {}, ~Orphan, pc' = pc, fd' = fd, Count' = Count,
         outbox' = outbox \/ (job' = Idle /\ \E r \in Replies : SendTo(fd[c], r)),
         job' = Idle \/ cmd \in {"init", "chunk"}
  PROVE  InTurn(c)'
<1>1. inbox[c] # <<>> /\ Head(inbox[c]).cmd = cmd /\ inbox'[c] = Tail(inbox[c])
  BY DEF Request, Take, Typed, TypeOK
<1>2. /\ outbox[c] = <<>> /\ inbox'[c] = <<>> /\ Count' <= 1 /\ pc'[c] = cmd
  BY <1>1, OneRequest DEF Placed
<1>3. fd'[c] # None
  BY <1>1 DEF Connected
<1>4. CASE outbox' = outbox
  <2>1. Len(inbox'[c]) + Len(outbox'[c]) <= 1 /\ outbox'[c] = <<>>
    BY <1>2, <1>4, NoneUnderWay
  <2> QED BY <1>2, <1>3, <2>1 DEF InTurn
<1>5. ASSUME job' = Idle, NEW r \in Replies, SendTo(fd[c], r)  PROVE InTurn(c)'
  <2>1. outbox'[c] = Append(<<>>, r)
    BY <1>2, <1>3, <1>5, Sending DEF Typed, TypeOK
  <2>2. Len(inbox'[c]) + Len(outbox'[c]) <= 1
    BY <1>2, <2>1, OneUnderWay
  <2> QED BY <1>2, <1>3, <1>5, <2>2 DEF InTurn
<1> QED BY <1>4, <1>5

(* Of the commits, those before the removal of the checkpoint have one.    *)
LEMMA EarlyMeta ==
  ASSUME OneTerminal, Typed, Placed, NEW c \in Client, inbox[c] # <<>>, index = {}, Early
  PROVE  meta = Blocks
<1>1. ASSUME Stage({"removeMeta"})  PROVE meta = Blocks
  BY <1>1 DEF Placed, Steady, CommitsOk, Stage
<1>2. ASSUME ToRename, part = None, meta # Blocks  PROVE FALSE
  <2>1. ~Orphan /\ Stage(Renamed)
    BY <1>2 DEF Placed, Steady, CommitsOk, Orphan
  <2>2. Count >= 2
    BY <1>2, <2>1, TwoCommits DEF Placed
  <2>3. Count <= 1
    BY <2>1, OneRequest DEF Placed
  <2>4. Count \in Nat
    <3>1. Cardinality(Busy) \in Nat /\ Len(tasks) \in Nat
      BY FS_CardinalityType DEF Placed, Typed, TypeOK
    <3> QED BY <3>1 DEF Count
  <2> QED BY <2>2, <2>3, <2>4
<1> QED BY <1>1, <1>2 DEF Early, Placed, Steady, CommitsOk

LEMMA PlacedInstant ==
  ASSUME OneTerminal, Typed, Placed, NEW c \in Client, InstantInit(c)
  PROVE  Placed'
<1>1. PICK p \in index :
        IF p = PathOf[c] THEN UNCHANGED <<job, stored>>
        ELSE /\ stored' = [stored EXCEPT ![PathOf[c]] = <<>>]
             /\ job' = [phase |-> "copy", client |-> c, data |-> stored[p]]
  BY DEF InstantInit
<1>2. p = PathOf[c]
  BY DEF Placed, Steady, OnDisk
<1>3. UNCHANGED <<disk, server>> /\ index' # {}
  BY <1>1, <1>2 DEF InstantInit, disk, server
<1>4. MappedChunks'
  BY MappedTake DEF InstantInit, Placed
<1>5. Steady' /\ Busy' = Busy
  BY <1>3, SteadySame DEF Placed
<1> QED BY <1>3, <1>4, <1>5 DEF Placed, Ordered

LEMMA PlacedRefuse ==
  ASSUME OneTerminal, Typed, Connected, Placed, NEW c \in Client, RefuseChunk(c) \/ RefuseCommit(c)
  PROVE  Placed'
<1>1. PICK cmd \in {"chunk", "commit"} :
        Request(c, cmd) /\ Take(c) /\ SendTo(fd[c], Reply("error", 0))
  BY DEF RefuseChunk, RefuseCommit
<1>2. UNCHANGED <<disk, server>> /\ fd' = fd /\ pc' = pc /\ index' = index /\ job' = job
  BY DEF RefuseChunk, RefuseCommit, client, disk, server
<1>3. Steady' /\ Busy' = Busy /\ Count' = Count /\ Orphan' = Orphan
  BY <1>2, SteadySame DEF Placed
<1>4. MappedChunks'
  BY <1>1, MappedTake DEF Placed
<1>5. ASSUME index = {}, ~Orphan  PROVE InTurn(c)'
  <2>1. job' = Idle /\ Reply("error", 0) \in Replies
    BY <1>1, <1>2, Answer, Numbers DEF Request
  <2> QED BY <1>1, <1>2, <1>3, <1>5, <2>1, RequestTurn
<1> QED BY <1>2, <1>3, <1>4, <1>5 DEF Placed, Ordered, OneTerminal

(* FILE_UPLOAD_INIT resumes the checkpoint, or makes one.                  *)
LEMMA PlacedPrepare ==
  ASSUME OneTerminal, Typed, Connected, Placed, NEW c \in Client, PrepareInit(c)
  PROVE  Placed'
<1> USE Numbers
<1>1. /\ Request(c, "init") /\ Take(c) /\ job = Idle /\ inbox[c] # <<>>
      /\ ctx' = [ctx EXCEPT ![c] = Resumed]
      /\ part' = part /\ meta' = meta /\ stored' = stored /\ index' = index
      /\ tasks' = tasks /\ running' = running /\ fd' = fd /\ pc' = pc
  BY DEF PrepareInit, Request, disk, client
<1>2. index = {}
  <2>1. \A p \in index : stored[p] # None
    BY Firsts DEF Placed, Steady, OnDisk
  <2> QED BY <2>1 DEF PrepareInit
<1>3. ctx'[c] = Resumed
  BY <1>1 DEF Typed, TypeOK
<1>4. Early => meta = Blocks
  BY <1>1, <1>2, EarlyMeta
<1>5. Busy' = Busy /\ Count' = Count /\ Orphan' = Orphan /\ (Early' <=> Early)
  BY <1>1 DEF Busy, Count, Orphan, Stage, Early, ToRename
<1>6. OnDisk' /\ CommitsOk'
  BY <1>1 DEF Placed, Steady, OnDisk, CommitsOk, ToRename, Stage, Orphan
<1>7. MappedChunks'
  BY <1>1, MappedTake DEF Placed
<1>8. part # None => Len(part) \in 0..Blocks
  BY PartIs DEF Placed, Steady
<1>9. CASE meta # None
  <2>1. job' = Idle /\ SendTo(fd[c], Reply("ready", Resumed)) /\ Reply("ready", Resumed) \in Replies
    BY <1>1, <1>9, ResumedIs, Answer DEF PrepareInit
  <2>2. Resumed = meta
    BY <1>9 DEF Resumed, Smaller, Typed, TypeOK
  <2>3. SessionOk(c)'
    BY <1>1, <1>3, <1>4, <1>5, <1>9, <2>1, <2>2 DEF SessionOk, Placed, Steady, OnDisk
  <2>4. Steady'
    BY <1>6, <2>1, <2>3 DEF Steady, SavesBehind, OneTerminal
  <2>5. ASSUME ~Orphan  PROVE InTurn(c)'
    BY <1>1, <1>2, <1>5, <2>1, <2>5, RequestTurn
  <2> QED BY <1>1, <1>5, <1>7, <2>4, <2>5 DEF Placed, Ordered, OneTerminal
<1>10. CASE meta = None
  <2>1. /\ outbox' = outbox /\ job'.phase = "truncate" /\ job'.received = Resumed /\ job' # Idle
    BY <1>10 DEF PrepareInit, Idle
  <2>2. Resumed = IF part = None THEN 0 ELSE Len(part)
    BY <1>8, <1>10 DEF Resumed, Smaller
  <2>3. ~Early
    BY <1>4, <1>10
  <2>4. SessionOk(c)'
    BY <1>1, <1>3, <1>5, <1>8, <1>10, <2>1, <2>2, <2>3 DEF SessionOk
  <2>5. SavesBehind'
    BY <1>1, <1>5, <1>8, <1>10, <2>1, <2>2, <2>3 DEF SavesBehind, Saving
  <2>6. Steady'
    BY <1>6, <2>4, <2>5 DEF Steady, OneTerminal
  <2>7. ASSUME ~Orphan  PROVE InTurn(c)'
    BY <1>1, <1>2, <1>5, <2>1, <2>7, RequestTurn
  <2> QED BY <1>1, <1>5, <1>7, <2>6, <2>7 DEF Placed, Ordered, OneTerminal
<1> QED BY <1>9, <1>10


(* A chunk at the expected offset: the part file is still the first blocks *)
(* of the file, and no fewer.                                              *)
LEMMA PlacedChunk ==
  ASSUME OneTerminal, Typed, Connected, Placed, NEW c \in Client, AcceptChunk(c)
  PROVE  Placed'
<1> USE Numbers
<1>0. OnDisk /\ CommitsOk /\ SessionOk(c)
  BY DEF Placed, Steady
<1>1. PICK off : off = Head(inbox[c]).offset
  OBVIOUS
<1>2. /\ Request(c, "chunk") /\ Take(c) /\ job = Idle /\ inbox[c] # <<>>
      /\ ctx[c] = off /\ ctx' = [ctx EXCEPT ![c] = @ + 1]
      /\ part' = PWrite(part, off, Head(inbox[c]).block)
      /\ job' = [phase |-> "truncate", client |-> c, received |-> off + 1,
                 reply |-> Reply("ok", 0)]
      /\ meta' = meta /\ stored' = stored /\ index' = index
      /\ tasks' = tasks /\ running' = running /\ fd' = fd /\ pc' = pc /\ outbox' = outbox
  BY <1>1 DEF AcceptChunk, Request, client
<1>3. off \in 0..Blocks - 1 /\ Head(inbox[c]).block = off + 1
  <2>1. Head(inbox[c]) \in Requests /\ Head(inbox[c]).cmd = "chunk"
    BY <1>2, TakeTypes
  <2>2. Head(inbox[c]) = inbox[c][1] /\ 1 \in 1..Len(inbox[c])
    BY <1>2, Queues DEF Typed, TypeOK
  <2> QED BY <1>1, <2>1, <2>2 DEF Requests, Placed, MappedChunks
<1>4. ctx[c] # None /\ off # Blocks /\ ~Early /\ ctx'[c] = off + 1
  BY <1>0, <1>2, <1>3 DEF SessionOk, Typed, TypeOK
<1>5. /\ part = None => off = 0 /\ meta # Blocks
      /\ part # None => off <= Len(part)
  BY <1>0, <1>2, <1>4 DEF SessionOk
<1>6. PICK n \in 1..Blocks :
        /\ part' = FirstBlocks(n) /\ Len(part') = n /\ part' # None /\ off + 1 <= n
        /\ part # None => Len(part) <= n
  <2>1. CASE part = None
    <3>1. part' = FirstBlocks(off + 1) /\ off + 1 \in 1..Blocks
      BY <1>2, <1>3, <1>5, <2>1, Writes
    <3>2. Len(FirstBlocks(off + 1)) = off + 1 /\ FirstBlocks(off + 1) # None
      BY <3>1, Firsts
    <3> QED BY <2>1, <3>1, <3>2
  <2>2. CASE part # None
    <3>1. PICK k \in 1..Blocks : part = FirstBlocks(k) /\ Len(part) = k
      BY <1>0, <2>2, PartIs
    <3> DEFINE n == IF k > off THEN k ELSE off + 1
    <3>2. part' = FirstBlocks(n)
      BY <1>2, <1>3, <1>5, <2>2, <3>1, Writes
    <3>3. n \in 1..Blocks /\ off + 1 <= n /\ k <= n
      BY <1>3, <3>1
    <3>4. Len(FirstBlocks(n)) = n /\ FirstBlocks(n) # None
      BY <3>3, Firsts
    <3> HIDE DEF n
    <3> QED BY <3>1, <3>2, <3>3, <3>4
  <2> QED BY <2>1, <2>2
<1>7. Busy' = Busy /\ Count' = Count /\ ~Early' /\ ~Orphan' /\ ~Orphan
  BY <1>2, <1>4, <1>5, <1>6 DEF Busy, Count, Orphan, Stage, Early, ToRename
<1>8. part # None /\ meta # None => meta <= Len(part) /\ meta \in Nat /\ Len(part) \in Nat
  BY <1>0, PartIs DEF OnDisk, Typed, TypeOK
<1>9. OnDisk'
  <2>1. meta' # None => meta' <= Len(part')
    <3>1. CASE part = None
      BY <1>0, <1>2, <1>5, <1>6, <3>1 DEF OnDisk
    <3>2. CASE part # None
      BY <1>2, <1>6, <1>8, <3>2
    <3> QED BY <3>1, <3>2
  <2>2. \E k \in 1..Blocks : part' = FirstBlocks(k)
    BY <1>6
  <2> QED BY <1>0, <1>2, <1>6, <2>1, <2>2 DEF OnDisk
<1>10. CommitsOk'
  <2>1. ~ToRename' /\ ~Stage({"removeMeta"}) /\ ~Stage({"rename"})
    BY <1>4, <1>7 DEF Early, ToRename
  <2> QED BY <1>0, <1>2, <2>1 DEF CommitsOk, Stage
<1>11. SessionOk(c)'
  BY <1>2, <1>4, <1>6, <1>7 DEF SessionOk, Idle
<1>12. SavesBehind'
  BY <1>2, <1>6, <1>7 DEF SavesBehind, Saving
<1>13. MappedChunks'
  BY <1>2, MappedTake DEF Placed
<1>14. ASSUME index = {}  PROVE InTurn(c)'
  BY <1>2, <1>7, <1>14, RequestTurn
<1>15. Steady'
  BY <1>9, <1>10, <1>11, <1>12 DEF Steady, OneTerminal
<1> QED BY <1>2, <1>7, <1>13, <1>14, <1>15 DEF Placed, Ordered, OneTerminal

(* write_meta, in its two steps.                                           *)
LEMMA PlacedTruncate ==
  ASSUME OneTerminal, Typed, Placed, TruncateMeta
  PROVE  Placed'
<1> USE Numbers
<1>0. OnDisk /\ CommitsOk /\ SavesBehind /\ \A c \in Client : SessionOk(c)
  BY DEF Placed, Steady
<1>1. /\ job.phase = "truncate" /\ meta' = 0 /\ job' = [job EXCEPT !.phase = "flush"]
      /\ part' = part /\ stored' = stored /\ index' = index /\ ctx' = ctx
      /\ tasks' = tasks /\ running' = running /\ fd' = fd /\ pc' = pc
      /\ inbox' = inbox /\ outbox' = outbox
  BY DEF TruncateMeta, client
<1>2. job \in Saves /\ job # Idle
  BY <1>1, JobKinds DEF Idle, Typed, TypeOK
<1>3. /\ job'.phase = "flush" /\ job'.received = job.received /\ job' # Idle
  BY <1>1, <1>2 DEF Saves, Idle
<1>4. ~Early /\ (part = None => job.received = 0 /\ meta = None)
      /\ (part # None => job.received <= Len(part))
  BY <1>0, <1>1, <1>2 DEF SavesBehind
<1>5. Blocks # 0 /\ Blocks # None
  BY Firsts
<1>6. Busy' = Busy /\ Count' = Count /\ ~Early' /\ ~Orphan' /\ ~Orphan
  BY <1>1, <1>4, <1>5 DEF Busy, Count, Orphan, Stage, Early, ToRename
<1>7. OnDisk'
  <2>1. part # None => 0 <= Len(part)
    BY <1>0, PartIs
  <2> QED BY <1>0, <1>1, <2>1 DEF OnDisk
<1>8. CommitsOk'
  <2>1. ~ToRename' /\ ~Stage({"removeMeta"}) /\ ~Stage({"rename"})
    BY <1>4, <1>6 DEF Early, ToRename
  <2> QED BY <1>0, <1>1, <2>1 DEF CommitsOk, Stage
<1>9. \A c \in Client : SessionOk(c)'
  BY <1>0, <1>1, <1>2, <1>3, <1>5, <1>6 DEF SessionOk
<1>10. SavesBehind'
  BY <1>1, <1>3, <1>4, <1>6 DEF SavesBehind, Saving
<1>11. MappedChunks'
  BY <1>1 DEF Placed, MappedChunks
<1>12. ASSUME NEW c \in Client, InTurn(c)  PROVE InTurn(c)'
  BY <1>1, <1>2, <1>3, <1>6, <1>12 DEF InTurn, Quiet
<1>13. Steady'
  BY <1>7, <1>8, <1>9, <1>10 DEF Steady
<1> QED BY <1>1, <1>6, <1>11, <1>12, <1>13 DEF Placed, Ordered

LEMMA PlacedFlush ==
  ASSUME OneTerminal, Typed, Connected, Placed, FlushMeta
  PROVE  Placed'
<1> USE Numbers
<1>0. OnDisk /\ CommitsOk /\ SavesBehind /\ \A c \in Client : SessionOk(c)
  BY DEF Placed, Steady
<1>1. /\ job.phase = "flush" /\ meta' = job.received /\ job' = Idle
      /\ SendTo(fd[job.client], job.reply)
      /\ part' = part /\ stored' = stored /\ index' = index /\ ctx' = ctx
      /\ tasks' = tasks /\ running' = running /\ fd' = fd /\ pc' = pc
      /\ inbox' = inbox
  BY DEF FlushMeta, client
<1>2. job \in Saves /\ job # Idle /\ job.reply \in Replies /\ job.client \in Client
      /\ job.received \in 0..Blocks
  BY <1>1, JobKinds DEF Idle, Typed, TypeOK, Saves
<1>3. ~Early /\ (part = None => job.received = 0) /\ meta = 0
      /\ (part # None => job.received <= Len(part))
  BY <1>0, <1>1, <1>2 DEF SavesBehind
<1>4. Blocks # 0 /\ Blocks # None
  BY Firsts
<1>5. Busy' = Busy /\ Count' = Count /\ ~Early' /\ ~Orphan' /\ ~Orphan
  BY <1>1, <1>3, <1>4 DEF Busy, Count, Orphan, Stage, Early, ToRename
<1>6. OnDisk'
  BY <1>0, <1>1, <1>3 DEF OnDisk
<1>7. CommitsOk'
  <2>1. ~ToRename' /\ ~Stage({"removeMeta"}) /\ ~Stage({"rename"})
    BY <1>3, <1>5 DEF Early, ToRename
  <2> QED BY <1>0, <1>1, <2>1 DEF CommitsOk, Stage
<1>8. ASSUME NEW c \in Client  PROVE SessionOk(c)'
  <2>1. ctx[c] # None => ctx[c] = job.received
    BY <1>0, <1>2 DEF SessionOk
  <2> QED BY <1>0, <1>1, <1>3, <1>4, <1>5, <2>1 DEF SessionOk
<1>9. SavesBehind'
  BY <1>1 DEF SavesBehind
<1>10. MappedChunks'
  BY <1>1 DEF Placed, MappedChunks
<1>11. ASSUME NEW c \in Client, InTurn(c)  PROVE InTurn(c)'
  <2>1. inbox[c] = <<>> /\ outbox[c] = <<>> /\ ~Quiet(c) /\ Count <= 1
    BY <1>2, <1>11 DEF InTurn, Quiet
  <2>2. outbox'[c] = <<>> \/ (outbox'[c] = Append(<<>>, job.reply) /\ fd[c] # None)
    BY <1>1, <1>2, <2>1, Sending DEF Typed, TypeOK
  <2>3. Len(inbox'[c]) + Len(outbox'[c]) <= 1
    BY <1>1, <2>1, <2>2, OneUnderWay, NoneUnderWay
  <2> QED BY <1>1, <1>2, <1>5, <1>11, <2>1, <2>2, <2>3 DEF InTurn
<1>12. Steady'
  BY <1>6, <1>7, <1>8, <1>9 DEF Steady
<1> QED BY <1>1, <1>5, <1>10, <1>11, <1>12 DEF Placed, Ordered

(* A commit goes to the executor.                                          *)
LEMMA PlacedSubmit ==
  ASSUME OneTerminal, Typed, Connected, Placed, NEW c \in Client, SubmitCommit(c)
  PROVE  Placed'
<1> USE Numbers
<1>0. OnDisk /\ CommitsOk /\ SessionOk(c)
  BY DEF Placed, Steady
<1> DEFINE t == [path |-> PathOf[c], fd |-> fd[c], at |-> "rename"]
<1>1. /\ Request(c, "commit") /\ Take(c) /\ job = Idle /\ inbox[c] # <<>>
      /\ ctx[c] = Blocks /\ ctx' = [ctx EXCEPT ![c] = None] /\ tasks' = Append(tasks, t)
      /\ part' = part /\ meta' = meta /\ stored' = stored /\ index' = index
      /\ job' = job /\ running' = running /\ fd' = fd /\ pc' = pc /\ outbox' = outbox
  BY DEF SubmitCommit, Request, disk, client
<1>2. t \in CommitTask /\ t.at = "rename"
  BY DEF CommitTask, Stages, Typed, TypeOK
<1> HIDE DEF t
<1>3. /\ Len(tasks') = Len(tasks) + 1 /\ Len(tasks) \in Nat /\ tasks'[Len(tasks) + 1] = t
      /\ \A i \in 1..Len(tasks) : tasks'[i] = tasks[i]
  BY <1>1, <1>2, Queues DEF Typed, TypeOK
<1>4. ctx'[c] = None /\ ctx[c] # None
  BY <1>1 DEF Typed, TypeOK
<1>5. Busy' = Busy /\ Orphan' = Orphan /\ Count' = Count + 1
  <2>1. Busy' = Busy /\ Orphan' = Orphan
    BY <1>1 DEF Busy, Orphan, Stage
  <2>2. Cardinality(Busy) \in Nat
    BY FS_CardinalityType DEF Placed
  <2> QED BY <1>3, <2>1, <2>2 DEF Count
<1>6. OnDisk'
  BY <1>0, <1>1 DEF OnDisk
<1>7. part # None => part = File /\ meta = Blocks
  <2>1. part # None => meta = Blocks /\ Blocks <= Len(part)
    BY <1>0, <1>1, <1>4 DEF SessionOk
  <2>2. part # None => Len(part) \in 1..Blocks /\ (Len(part) = Blocks => part = File)
    BY <1>0, PartIs
  <2>3. part # None => Len(part) = Blocks
    BY <2>1, <2>2
  <2> QED BY <2>1, <2>2, <2>3
<1>8. ASSUME part = None, index = {}, ~Orphan  PROVE Stage(Renamed)
  <2>1. CASE meta = Blocks
    BY <1>8, <2>1 DEF Orphan, Stage, Renamed
  <2>2. CASE meta # Blocks
    BY <1>0, <1>1, <1>4, <1>8, <2>2 DEF SessionOk, Stage, Renamed
  <2> QED BY <2>1, <2>2
<1>9. CommitsOk'
  <2>1. \A i \in 1..Len(tasks') : tasks'[i].at = "rename"
    <3>1. \A i \in 1..Len(tasks') : i \in 1..Len(tasks) \/ i = Len(tasks) + 1
      BY <1>3
    <3> QED BY <1>0, <1>2, <1>3, <3>1 DEF CommitsOk
  <2>2. Stage(Renamed)' <=> Stage(Renamed)
    BY <1>1 DEF Stage
  <2> QED BY <1>0, <1>1, <1>5, <1>7, <1>8, <2>1, <2>2 DEF CommitsOk
<1>10. SessionOk(c)' /\ SavesBehind'
  BY <1>1, <1>4 DEF SessionOk, SavesBehind
<1>11. MappedChunks'
  BY <1>1, MappedTake DEF Placed
<1>12. ASSUME index = {}, ~Orphan  PROVE InTurn(c)'
  <2>1. outbox[c] = <<>> /\ Tail(inbox[c]) = <<>> /\ Count <= 1 /\ pc[c] = "commit"
    BY <1>1, <1>12, OneRequest DEF Placed, Request
  <2>2. inbox'[c] = <<>> /\ outbox'[c] = <<>> /\ pc'[c] = "commit" /\ fd'[c] # None
    BY <1>1, <2>1 DEF Take, Typed, TypeOK, Connected
  <2>3. Len(inbox'[c]) + Len(outbox'[c]) <= 1
    BY <2>2, NoneUnderWay
  <2>4. Count' <= 1 \/ Count' = 2
    <3>1. Count \in Nat
      <4>1. Cardinality(Busy) \in Nat
        BY FS_CardinalityType DEF Placed
      <4> QED BY <1>3, <4>1 DEF Count
    <3> QED BY <1>5, <2>1, <3>1
  <2> QED BY <1>1, <1>4, <2>2, <2>3, <2>4 DEF InTurn, Quiet
<1>13. Steady'
  BY <1>6, <1>9, <1>10 DEF Steady, OneTerminal
<1> QED BY <1>1, <1>5, <1>11, <1>12, <1>13 DEF Placed, Ordered, OneTerminal

LEMMA PlacedReactor ==
  ASSUME OneTerminal, Typed, Connected, Placed, ReactorStep
  PROVE  Placed'
<1>1. ASSUME CopyFile \/ InstantUpsert  PROVE FALSE
  BY <1>1 DEF CopyFile, InstantUpsert, Placed, Steady, SavesBehind, Saving, Idle
<1> QED BY <1>1, PlacedInstant, PlacedPrepare, PlacedChunk, PlacedRefuse, PlacedSubmit,
  PlacedTruncate, PlacedFlush DEF ReactorStep


(* What InTurn needs of a step that adds nothing to read.                  *)
LEMMA TurnSame ==
  ASSUME NEW c \in Client, InTurn(c), Count' = Count, ctx' = ctx, job' = job, fd' = fd,
         pc' = pc, inbox' = inbox, outbox' = outbox
  PROVE  InTurn(c)'
  BY DEF InTurn, Quiet

LEMMA PlacedTake ==
  ASSUME OneTerminal, Typed, Placed, NEW w \in Worker, TakeTask(w)
  PROVE  Placed'
<1> USE Numbers
<1>0. OnDisk /\ CommitsOk /\ SavesBehind /\ \A c \in Client : SessionOk(c)
  BY DEF Placed, Steady
<1>1. /\ part' = part /\ meta' = meta /\ stored' = stored /\ index' = index
      /\ ctx' = ctx /\ job' = job /\ fd' = fd /\ pc' = pc
      /\ inbox' = inbox /\ outbox' = outbox /\ tasks # <<>>
  BY DEF TakeTask, disk, client
<1>2. /\ running[w] = None /\ running'[w] = tasks[1] /\ running'[w] # None
      /\ Len(tasks) > 0 /\ Len(tasks') = Len(tasks) - 1 /\ Len(tasks) \in Nat
      /\ \A i \in 1..Len(tasks') : tasks'[i] = tasks[i + 1]
      /\ \A v \in Worker : v # w => running'[v] = running[v]
  BY Taking DEF Typed, TypeOK
<1>3. tasks[1].at = "rename" /\ \A i \in 1..Len(tasks') : tasks'[i].at = "rename"
  <2>1. 1 \in 1..Len(tasks) /\ \A i \in 1..Len(tasks') : i + 1 \in 1..Len(tasks)
    BY <1>2
  <2> QED BY <1>0, <1>2, <2>1 DEF CommitsOk
<1>4. \A S : (Stage(S) => Stage(S)') /\ (Stage(S)' => Stage(S) \/ "rename" \in S)
  BY <1>3, StageTaking
<1>5. ToRename /\ ToRename' /\ Early /\ Early' /\ job = Idle
  <2>1. Stage({"rename"})'
    BY <1>2, <1>3 DEF Stage
  <2> QED BY <1>0, <1>1, <2>1 DEF ToRename, Early, SavesBehind
<1>6. (Stage({"removeMeta"})' <=> Stage({"removeMeta"})) /\ (Orphan' <=> Orphan)
  <2>1. Stage({"removeMeta"})' <=> Stage({"removeMeta"})
    BY <1>4
  <2> QED BY <1>1, <2>1 DEF Orphan
<1>7. OnDisk'
  BY <1>0, <1>1 DEF OnDisk
<1>8. CommitsOk'
  <2>1. \A v \in Worker : running'[v] # None =>
          /\ running'[v].at \in {"rename", "removeMeta", "hash", "upsert"}
          /\ running'[v].at # "rename" => stored'[running'[v].path] = File
          /\ running'[v].at = "removeMeta" =>
               /\ part' = None /\ meta' = Blocks
               /\ \A u \in Worker : running'[u] # None /\ running'[u].at = "removeMeta" => u = v
    BY <1>0, <1>1, <1>2, <1>3 DEF CommitsOk
  <2>2. part' # None => part' = File /\ meta' = Blocks
    BY <1>0, <1>1, <1>5 DEF CommitsOk
  <2>3. part' = None /\ index' = {} /\ ~Orphan' => Stage(Renamed)'
    BY <1>0, <1>1, <1>4, <1>5, <1>6 DEF CommitsOk
  <2> QED BY <1>3, <2>1, <2>2, <2>3 DEF CommitsOk
<1>9. \A c \in Client : SessionOk(c)'
  <2>1. Stage({"hash", "upsert"}) => Stage({"hash", "upsert"})'
    BY <1>4
  <2> QED BY <1>0, <1>1, <1>5, <2>1 DEF SessionOk
<1>10. SavesBehind' /\ MappedChunks'
  BY <1>1, <1>5 DEF SavesBehind, Placed, MappedChunks
<1>11. IsFiniteSet(Busy)' /\ Count' = Count
  BY CountTaking DEF Placed
<1>12. \A c \in Client : InTurn(c) => InTurn(c)'
  BY <1>1, <1>11, TurnSame
<1> QED BY <1>1, <1>6, <1>7, <1>8, <1>9, <1>10, <1>11, <1>12 DEF Placed, Steady, Ordered

(* finalize_upload moves the whole file into its place.                    *)
LEMMA PlacedRename ==
  ASSUME OneTerminal, Typed, Placed, NEW w \in Worker, RenamePart(w)
  PROVE  Placed' /\ part = File
<1> USE Numbers
<1>0. OnDisk /\ CommitsOk /\ SavesBehind /\ \A c \in Client : SessionOk(c)
  BY DEF Placed, Steady
<1>1. /\ At(w, "rename") /\ Goto(w, "removeMeta") /\ part # None /\ part' = None
      /\ stored' = [stored EXCEPT ![running[w].path] = part]
      /\ meta' = meta /\ index' = index /\ tasks' = tasks
      /\ ctx' = ctx /\ job' = job /\ fd' = fd /\ pc' = pc
      /\ inbox' = inbox /\ outbox' = outbox /\ "removeMeta" \in Stages
  BY DEF RenamePart, client, Stages
<1>2. /\ running[w] # None /\ running[w].at = "rename" /\ running[w].path \in Path
      /\ running'[w] # None /\ running'[w].at = "removeMeta"
      /\ running'[w].path = running[w].path
      /\ \A v \in Worker : v # w => running'[v] = running[v]
  BY <1>1, Going DEF At, CommitTask
<1>3. ToRename /\ Early /\ job = Idle
  BY <1>0, <1>2 DEF ToRename, Early, Stage, SavesBehind
<1>4. part = File /\ meta = Blocks /\ \A c \in Client : ctx[c] # None => ctx[c] = Blocks
  BY <1>0, <1>1, <1>3 DEF CommitsOk, SessionOk
<1>5. \A p \in Path : stored'[p] = (IF p = running[w].path THEN File ELSE stored[p])
  BY <1>1, <1>4 DEF Typed, TypeOK
<1>6. ~Orphan /\ ~Orphan' /\ Stage({"removeMeta"})' /\ Stage(Renamed)' /\ Early'
  BY <1>1, <1>2 DEF Orphan, Stage, Renamed, Early
<1>7. OnDisk'
  BY <1>0, <1>1, <1>4, <1>5 DEF OnDisk, Typed, TypeOK
<1>8. CommitsOk'
  <2>1. \A v \in Worker : running[v] # None =>
          running[v].at # "removeMeta" /\ running[v].path \in Path
    BY <1>0, <1>1 DEF CommitsOk, Typed, TypeOK, CommitTask
  <2>2. \A v \in Worker : running'[v] # None =>
          /\ running'[v].at \in {"rename", "removeMeta", "hash", "upsert"}
          /\ running'[v].at # "rename" => stored'[running'[v].path] = File
    BY <1>0, <1>2, <1>5, <2>1 DEF CommitsOk
  <2>3. \A v \in Worker : running'[v] # None /\ running'[v].at = "removeMeta" =>
          v = w /\ part' = None /\ meta' = Blocks
    BY <1>1, <1>2, <1>4, <2>1
  <2>4. \A i \in 1..Len(tasks') : tasks'[i].at = "rename"
    BY <1>0, <1>1 DEF CommitsOk
  <2> QED BY <1>1, <1>6, <2>2, <2>3, <2>4 DEF CommitsOk
<1>9. \A c \in Client : SessionOk(c)'
  BY <1>1, <1>3, <1>4 DEF SessionOk
<1>10. SavesBehind' /\ MappedChunks'
  BY <1>1, <1>3 DEF SavesBehind, Placed, MappedChunks
<1>11. IsFiniteSet(Busy)' /\ Count' = Count
  BY <1>1, CountGoing DEF Placed
<1>12. \A c \in Client : InTurn(c) => InTurn(c)'
  BY <1>1, <1>11, TurnSame
<1> QED BY <1>1, <1>4, <1>6, <1>7, <1>8, <1>9, <1>10, <1>11, <1>12 DEF Placed, Steady, Ordered

(* A commit that finds no part file: another was renamed before it.        *)
LEMMA PlacedFails ==
  ASSUME OneTerminal, Typed, Placed, NEW w \in Worker, RenameFails(w)
  PROVE  Placed'
<1> USE Numbers
<1>0. OnDisk /\ CommitsOk /\ SavesBehind /\ \A c \in Client : SessionOk(c)
  BY DEF Placed, Steady
<1>1. /\ running[w] # None /\ running[w].at = "rename" /\ part = None /\ Finish(w, "error")
      /\ part' = part /\ meta' = meta /\ stored' = stored /\ index' = index
      /\ tasks' = tasks /\ ctx' = ctx /\ job' = job /\ fd' = fd /\ pc' = pc /\ inbox' = inbox
  BY DEF RenameFails, At, disk, client
<1>2. /\ running'[w] = None /\ \A v \in Worker : v # w => running'[v] = running[v]
      /\ \A c \in Client : outbox'[c] = outbox[c] \/ outbox'[c] = Append(outbox[c], Reply("error", 0))
      /\ \A c \in Client : fd[c] = None => outbox'[c] = outbox[c]
  BY <1>1, Finishing
<1>3. ToRename /\ Early /\ job = Idle
  BY <1>0, <1>1 DEF ToRename, Early, Stage, SavesBehind
<1>4. \A S : (Stage(S)' => Stage(S)) /\ (Stage(S) /\ "rename" \notin S => Stage(S)')
  BY <1>1, <1>2, StageFinishing
<1>5. (ToRename' => ToRename) /\ (Early' => Early) /\ (Orphan' <=> Orphan)
      /\ (Stage(Renamed) => Stage(Renamed)')
  <2>1. Stage(Renamed) => Stage(Renamed)'
    BY <1>4 DEF Renamed
  <2>2. Stage({"removeMeta"}) <=> Stage({"removeMeta"})'
    BY <1>4
  <2> QED BY <1>1, <1>4, <2>1, <2>2 DEF ToRename, Early, Orphan
<1>6. OnDisk'
  BY <1>0, <1>1 DEF OnDisk
<1>7. CommitsOk'
  <2>1. \A v \in Worker : running'[v] # None => v # w /\ running'[v] = running[v]
    BY <1>2
  <2>2. \A v \in Worker : running'[v] # None =>
          /\ running'[v].at \in {"rename", "removeMeta", "hash", "upsert"}
          /\ running'[v].at # "rename" => stored'[running'[v].path] = File
          /\ running'[v].at = "removeMeta" =>
               /\ part' = None /\ meta' = Blocks
               /\ \A u \in Worker : running'[u] # None /\ running'[u].at = "removeMeta" => u = v
    BY <1>0, <1>1, <2>1 DEF CommitsOk
  <2>3. index = {} /\ ~Orphan => Stage(Renamed)
    BY <1>0, <1>1, <1>3 DEF CommitsOk
  <2> QED BY <1>0, <1>1, <1>5, <2>2, <2>3 DEF CommitsOk
<1>8. \A c \in Client : SessionOk(c)'
  <2>1. Stage({"hash", "upsert"}) => Stage({"hash", "upsert"})'
    BY <1>4
  <2> QED BY <1>0, <1>1, <1>5, <2>1 DEF SessionOk
<1>9. SavesBehind' /\ MappedChunks'
  BY <1>1, <1>3 DEF SavesBehind, Placed, MappedChunks
<1>10. IsFiniteSet(Busy)' /\ Count' = Count - 1 /\ Count \in Nat
  BY <1>1, <1>2, CountFinishing DEF Placed
<1>11. ASSUME NEW c \in Client, index = {}, ~Orphan  PROVE InTurn(c)'
  <2>1. InTurn(c)
    BY <1>11 DEF Placed, Ordered
  <2>2. Count >= 2
    <3>1. Stage(Renamed)
      BY <1>0, <1>1, <1>3, <1>11 DEF CommitsOk
    <3> QED BY <1>3, <3>1, TwoCommits DEF Placed
  <2>3. Count = 2 /\ Quiet(c)
    BY <1>10, <2>1, <2>2 DEF InTurn
  <2>4. Count' <= 1
    BY <1>10, <2>3
  <2>5. inbox[c] = <<>> /\ outbox[c] = <<>> /\ pc[c] = "commit" /\ fd[c] # None
    BY <2>1, <2>3 DEF Quiet, InTurn
  <2>6. Len(inbox'[c]) + Len(outbox'[c]) <= 1 /\ inbox'[c] = <<>>
    BY <1>1, <1>2, <2>5, OneUnderWay, NoneUnderWay
  <2> QED BY <1>1, <1>3, <2>4, <2>5, <2>6 DEF InTurn
<1> QED BY <1>1, <1>5, <1>6, <1>7, <1>8, <1>9, <1>10, <1>11 DEF Placed, Steady, Ordered


(* The checkpoint goes after the part file.                                *)
LEMMA PlacedRemove ==
  ASSUME OneTerminal, Typed, Placed, NEW w \in Worker, RemoveMeta(w)
  PROVE  Placed'
<1> USE Numbers
<1>0. OnDisk /\ CommitsOk /\ SavesBehind /\ \A c \in Client : SessionOk(c)
  BY DEF Placed, Steady
<1>1. /\ At(w, "removeMeta") /\ Goto(w, "hash") /\ meta' = None
      /\ part' = part /\ stored' = stored /\ index' = index /\ tasks' = tasks
      /\ ctx' = ctx /\ job' = job /\ fd' = fd /\ pc' = pc
      /\ inbox' = inbox /\ outbox' = outbox /\ "hash" \in Stages
  BY DEF RemoveMeta, client, Stages
<1>2. /\ running[w] # None /\ running[w].at = "removeMeta"
      /\ running'[w] # None /\ running'[w].at = "hash" /\ running'[w].path = running[w].path
      /\ \A v \in Worker : v # w => running'[v] = running[v]
  BY <1>1, Going DEF At
<1>3. part = None /\ Early /\ job = Idle /\ ~Orphan
  BY <1>0, <1>2 DEF Early, Stage, SavesBehind, CommitsOk, Orphan
<1>4. \A c \in Client : ctx[c] # None => ctx[c] = Blocks
  BY <1>0, <1>3 DEF SessionOk
<1>5. Stage(Renamed)' /\ Stage({"hash", "upsert"})' /\ (ToRename' => ToRename)
  <2>1. Stage({"rename"})' => Stage({"rename"})
    BY <1>2 DEF Stage
  <2> QED BY <1>1, <1>2, <2>1 DEF Stage, Renamed, ToRename
<1>6. Blocks # None
  OBVIOUS
<1>7. OnDisk' /\ ~Orphan'
  BY <1>0, <1>1, <1>3, <1>6 DEF OnDisk, Orphan
<1>8. CommitsOk'
  <2>1. \A v \in Worker : running'[v] # None =>
          /\ running'[v].at \in {"rename", "hash", "upsert"}
          /\ running'[v].at # "rename" => stored'[running'[v].path] = File
    BY <1>0, <1>1, <1>2 DEF CommitsOk
  <2> QED BY <1>0, <1>1, <1>3, <1>5, <2>1 DEF CommitsOk
<1>9. \A c \in Client : SessionOk(c)'
  BY <1>1, <1>3, <1>4, <1>5, <1>6 DEF SessionOk
<1>10. SavesBehind' /\ MappedChunks'
  BY <1>1, <1>3 DEF SavesBehind, Placed, MappedChunks
<1>11. IsFiniteSet(Busy)' /\ Count' = Count
  BY <1>1, CountGoing DEF Placed
<1>12. \A c \in Client : InTurn(c) => InTurn(c)'
  BY <1>1, <1>11, TurnSame
<1> QED BY <1>1, <1>3, <1>7, <1>8, <1>9, <1>10, <1>11, <1>12 DEF Placed, Steady, Ordered

(* The hash is right.                                                      *)
LEMMA PlacedHash ==
  ASSUME OneTerminal, Typed, Placed, NEW w \in Worker, HashStored(w)
  PROVE  Placed'
<1> USE Numbers
<1>0. OnDisk /\ CommitsOk /\ SavesBehind /\ \A c \in Client : SessionOk(c)
  BY DEF Placed, Steady
<1>1. At(w, "hash") /\ Goto(w, "upsert") /\ "upsert" \in Stages
  BY <1>0 DEF HashStored, At, CommitsOk, Stages
<1>2. /\ part' = part /\ meta' = meta /\ stored' = stored /\ index' = index /\ tasks' = tasks
      /\ ctx' = ctx /\ job' = job /\ fd' = fd /\ pc' = pc
      /\ inbox' = inbox /\ outbox' = outbox
  BY DEF HashStored, client, disk
<1>3. /\ running[w] # None /\ running[w].at = "hash"
      /\ running'[w] # None /\ running'[w].at = "upsert" /\ running'[w].path = running[w].path
      /\ \A v \in Worker : v # w => running'[v] = running[v]
  BY <1>1, Going DEF At
<1>4. /\ Stage({"rename"})' <=> Stage({"rename"})
      /\ Stage({"removeMeta"})' <=> Stage({"removeMeta"})
      /\ Stage({"hash", "upsert"})' /\ Stage(Renamed)'
  BY <1>3 DEF Stage, Renamed
<1>5. (Early' <=> Early) /\ (ToRename' <=> ToRename) /\ (Orphan' <=> Orphan)
  BY <1>2, <1>4 DEF Early, ToRename, Orphan
<1>6. OnDisk'
  BY <1>0, <1>2 DEF OnDisk
<1>7. CommitsOk'
  <2>1. \A v \in Worker : running'[v] # None =>
          /\ running'[v].at \in {"rename", "removeMeta", "hash", "upsert"}
          /\ running'[v].at # "rename" => stored'[running'[v].path] = File
          /\ running'[v].at = "removeMeta" =>
               /\ part' = None /\ meta' = Blocks
               /\ \A u \in Worker : running'[u] # None /\ running'[u].at = "removeMeta" => u = v
    BY <1>0, <1>2, <1>3 DEF CommitsOk
  <2> QED BY <1>0, <1>2, <1>4, <1>5, <2>1 DEF CommitsOk
<1>8. \A c \in Client : SessionOk(c)'
  BY <1>0, <1>2, <1>4, <1>5 DEF SessionOk
<1>9. SavesBehind' /\ MappedChunks'
  BY <1>0, <1>2, <1>5 DEF SavesBehind, Saving, Placed, MappedChunks
<1>10. IsFiniteSet(Busy)' /\ Count' = Count
  BY <1>1, <1>2, CountGoing DEF Placed
<1>11. \A c \in Client : InTurn(c) => InTurn(c)'
  BY <1>2, <1>10, TurnSame
<1> QED BY <1>2, <1>5, <1>6, <1>7, <1>8, <1>9, <1>10, <1>11 DEF Placed, Steady, Ordered

(* The row follows the file.                                               *)
LEMMA PlacedUpsert ==
  ASSUME OneTerminal, Typed, AnsweredAll, Placed, NEW w \in Worker, UpsertRow(w)
  PROVE  Placed' /\ stored[running[w].path] = File
<1> USE Numbers
<1>0. OnDisk /\ CommitsOk /\ SavesBehind /\ \A c \in Client : SessionOk(c)
  BY DEF Placed, Steady
<1>1. /\ running[w] # None /\ running[w].at = "upsert" /\ Finish(w, "ok")
      /\ index' = index \cup {running[w].path}
      /\ part' = part /\ meta' = meta /\ stored' = stored
      /\ tasks' = tasks /\ ctx' = ctx /\ job' = job /\ inbox' = inbox
  BY DEF UpsertRow, At, client
<1>2. /\ running'[w] = None /\ \A v \in Worker : v # w => running'[v] = running[v]
  BY <1>1, Finishing
<1>3. stored[running[w].path] = File
  BY <1>0, <1>1 DEF CommitsOk
<1>4. \A c \in Client : running[w].path = PathOf[c]
  BY <1>1 DEF AnsweredAll, Answered, OneTerminal
<1>5. \A S : (Stage(S)' => Stage(S)) /\ (Stage(S) /\ "upsert" \notin S => Stage(S)')
  BY <1>1, <1>2, StageFinishing
<1>6. (Early' <=> Early) /\ (ToRename' <=> ToRename) /\ index' # {}
  <2>1. (Stage({"rename"}) <=> Stage({"rename"})') /\ (Stage({"removeMeta"}) <=> Stage({"removeMeta"})')
    BY <1>5
  <2> QED BY <1>1, <2>1 DEF ToRename, Early
<1>7. OnDisk'
  BY <1>0, <1>1, <1>3, <1>4 DEF OnDisk
<1>8. CommitsOk'
  <2>1. \A v \in Worker : running'[v] # None =>
          /\ running'[v].at \in {"rename", "removeMeta", "hash", "upsert"}
          /\ running'[v].at # "rename" => stored'[running'[v].path] = File
          /\ running'[v].at = "removeMeta" =>
               /\ part' = None /\ meta' = Blocks
               /\ \A u \in Worker : running'[u] # None /\ running'[u].at = "removeMeta" => u = v
    BY <1>0, <1>1, <1>2 DEF CommitsOk
  <2> QED BY <1>0, <1>1, <1>6, <2>1 DEF CommitsOk
<1>9. \A c \in Client : SessionOk(c)'
  BY <1>0, <1>1, <1>6 DEF SessionOk
<1>10. SavesBehind' /\ MappedChunks'
  BY <1>0, <1>1, <1>6 DEF SavesBehind, Saving, Placed, MappedChunks
<1>11. IsFiniteSet(Busy)'
  BY <1>1, <1>2, CountFinishing DEF Placed
<1> QED BY <1>3, <1>6, <1>7, <1>8, <1>9, <1>10, <1>11 DEF Placed, Steady, Ordered

LEMMA PlacedWorker ==
  ASSUME OneTerminal, Typed, AnsweredAll, Placed, NEW w \in Worker, WorkerStep(w)
  PROVE  Placed'
<1>1. ASSUME DiscardPart(w) \/ DiscardMeta(w)  PROVE FALSE
  BY <1>1 DEF DiscardPart, DiscardMeta, At, Placed, Steady, CommitsOk
<1> QED BY <1>1, PlacedTake, PlacedRename, PlacedFails, PlacedRemove, PlacedHash,
  PlacedUpsert DEF WorkerStep

LEMMA PlacedFailure ==
  ASSUME OneTerminal, Typed, Placed, Failure
  PROVE  Placed'
<1> USE Numbers
<1>0. OnDisk /\ CommitsOk /\ SavesBehind
  BY DEF Placed, Steady
<1>1. ASSUME NEW c \in Client, Drop(c)  PROVE Placed'
  <2>1. /\ part' = part /\ meta' = meta /\ stored' = stored /\ index' = index
        /\ tasks' = tasks /\ running' = running /\ job' = job
        /\ fd'[c] = None /\ ctx'[c] = None /\ inbox'[c] = <<>> /\ outbox'[c] = <<>>
        /\ pc'[c] \in {"idle", "failed", "done"}
    BY <1>1 DEF Drop, disk, Interrupted, Typed, TypeOK
  <2>2. Busy' = Busy /\ Count' = Count /\ Orphan' = Orphan /\ (Early' <=> Early)
    BY <2>1 DEF Busy, Count, Orphan, Stage, Early, ToRename
  <2>3. Count <= 1
    <3>1. Count <= MaxOverlap
      BY <1>1 DEF Drop, Count, Busy
    <3>2. MaxOverlap <= 1 /\ MaxOverlap \in Nat
      BY UploadAssumption DEF OneTerminal
    <3>3. Count \in Nat
      <4>1. Cardinality(Busy) \in Nat /\ Len(tasks) \in Nat
        BY FS_CardinalityType DEF Placed, Typed, TypeOK
      <4> QED BY <4>1 DEF Count
    <3> QED BY <3>1, <3>2, <3>3
  <2>4. OnDisk' /\ CommitsOk'
    BY <1>0, <2>1 DEF OnDisk, CommitsOk, ToRename, Stage, Orphan
  <2>5. SavesBehind'
    BY <1>0, <2>1, <2>2 DEF SavesBehind, Saving
  <2>6. SessionOk(c)'
    BY <2>1 DEF SessionOk
  <2>7. Steady'
    BY <2>4, <2>5, <2>6 DEF Steady, OneTerminal
  <2>8. MappedChunks'
    <3>1. Len(inbox'[c]) = 0
      BY <2>1
    <3> QED BY <3>1 DEF MappedChunks, OneTerminal
  <2>9. InTurn(c)'
    <3>1. Len(inbox'[c]) + Len(outbox'[c]) <= 1
      BY <2>1, NoneUnderWay
    <3> QED BY <2>1, <2>2, <2>3, <3>1 DEF InTurn
  <2> QED BY <2>2, <2>7, <2>8, <2>9 DEF Placed, Ordered, OneTerminal
<1>2. CASE Crash
  <2>1. /\ part' = part /\ meta' = meta /\ stored' = stored /\ index' = index
        /\ tasks' = <<>> /\ (\A w \in Worker : running'[w] = None) /\ job' = Idle
    BY <1>2 DEF Crash, disk
  <2>2. \A c \in Client : /\ fd'[c] = None /\ ctx'[c] = None
                          /\ inbox'[c] = <<>> /\ outbox'[c] = <<>>
                          /\ pc'[c] \in {"idle", "failed", "done"}
    BY <1>2 DEF Crash, Interrupted, Typed, TypeOK
  <2>3. Busy' = {} /\ IsFiniteSet(Busy') /\ Count' <= 1
    <3>1. Busy' = {}
      BY <2>1 DEF Busy
    <3>2. Cardinality({}) = 0 /\ IsFiniteSet({})
      BY FS_EmptySet
    <3>3. Len(<<>>) + 0 <= 1
      OBVIOUS
    <3> QED BY <2>1, <3>1, <3>2, <3>3 DEF Count
  <2>4. \A S : ~Stage(S)'
    BY <2>1 DEF Stage
  <2>5. OnDisk'
    BY <1>0, <2>1 DEF OnDisk
  <2>6. CommitsOk'
    <3>1. Len(tasks') = 0
      BY <2>1
    <3> QED BY <2>1, <2>4, <3>1 DEF CommitsOk, ToRename
  <2>7. SavesBehind' /\ \A c \in Client : SessionOk(c)'
    BY <2>1, <2>2 DEF SavesBehind, SessionOk
  <2>8. MappedChunks'
    <3>1. \A c \in Client : Len(inbox'[c]) = 0
      BY <2>2
    <3> QED BY <3>1 DEF MappedChunks
  <2>9. \A c \in Client : InTurn(c)'
    <3>1. \A c \in Client : Len(inbox'[c]) + Len(outbox'[c]) <= 1
      BY <2>2, NoneUnderWay
    <3> QED BY <2>1, <2>2, <2>3, <3>1 DEF InTurn
  <2> QED BY <2>3, <2>5, <2>6, <2>7, <2>8, <2>9 DEF Placed, Steady, Ordered
<1> QED BY <1>1, <1>2 DEF Failure

LEMMA PlacedInit == Init => Placed
<1> SUFFICES ASSUME Init  PROVE Placed
  OBVIOUS
<1> USE Numbers
<1>1. /\ part = None /\ meta = None /\ index = {} /\ job = Idle /\ tasks = <<>>
      /\ (\A p \in Path : stored[p] = None) /\ (\A w \in Worker : running[w] = None)
      /\ \A c \in Client : /\ ctx[c] = None /\ inbox[c] = <<>> /\ outbox[c] = <<>>
                           /\ pc[c] = "idle" /\ fd[c] = None
  BY DEF Init
<1>2. Busy = {} /\ IsFiniteSet(Busy) /\ Count <= 1
  <2>1. Busy = {}
    BY <1>1 DEF Busy
  <2>2. Cardinality({}) = 0 /\ IsFiniteSet({})
    BY FS_EmptySet
  <2>3. Len(<<>>) + 0 <= 1
    OBVIOUS
  <2> QED BY <1>1, <2>1, <2>2, <2>3 DEF Count
<1>3. Len(tasks) = 0 /\ \A c \in Client : Len(inbox[c]) = 0
  BY <1>1
<1>4. \A S : ~Stage(S)
  BY <1>1 DEF Stage
<1>5. OnDisk
  BY <1>1 DEF OnDisk
<1>6. CommitsOk
  BY <1>1, <1>3, <1>4 DEF CommitsOk, ToRename
<1>7. SavesBehind /\ \A c \in Client : SessionOk(c)
  BY <1>1 DEF SavesBehind, SessionOk
<1>8. MappedChunks
  BY <1>3 DEF MappedChunks
<1>9. \A c \in Client : InTurn(c)
  <2>1. \A c \in Client : Len(inbox[c]) + Len(outbox[c]) <= 1
    BY <1>1, NoneUnderWay
  <2> QED BY <1>1, <1>2, <2>1 DEF InTurn
<1> QED BY <1>2, <1>5, <1>6, <1>7, <1>8, <1>9 DEF Placed, Steady, Ordered


PutInv == ToldInv /\ Placed

LEMMA PutInit == Init => PutInv
  BY ToldInit, PlacedInit DEF PutInv

LEMMA PutNext ==
  ASSUME OneTerminal, PutInv, [Next]_vars
  PROVE  PutInv'
<1>1. Separate
  BY DEF OneTerminal, Separate
<1>2. ToldInv'
  BY <1>1, ToldNext DEF PutInv
<1>3. CASE Next
  BY <1>2, <1>3, PlacedClient, PlacedReactor, PlacedWorker, PlacedFailure DEF Next, PutInv, ToldInv
<1>4. CASE UNCHANGED vars
  <2>1. UNCHANGED <<disk, server>> /\ inbox' = inbox /\ outbox' = outbox /\ fd' = fd /\ pc' = pc
        /\ ctx' = ctx /\ job' = job /\ index' = index
    BY <1>4 DEF vars, disk, server, client
  <2>2. Steady' /\ Busy' = Busy /\ Count' = Count /\ Orphan' = Orphan
    BY <2>1, SteadySame DEF PutInv, Placed
  <2>3. MappedChunks' /\ Ordered'
    BY <2>1, <2>2, TurnSame DEF PutInv, Placed, MappedChunks, Ordered
  <2> QED BY <1>2, <2>2, <2>3 DEF PutInv, Placed
<1> QED BY <1>3, <1>4

LEMMA PutAlways == ASSUME OneTerminal  PROVE Spec => []PutInv
<1>1. PutInv /\ [Next]_vars => PutInv'
  BY PutNext
<1> QED BY <1>1, PutInit, PTL DEF Spec

LEMMA Prefixes ==
  ASSUME OneTerminal, NEW k \in Nat, part # None, OnDisk, k <= Len(part)
  PROVE  HasPrefix(part, k)
<1>1. PICK n \in 1..Blocks : part = FirstBlocks(n) /\ Len(part) = n
  BY PartIs
<1>2. \A i \in 1..n : FirstBlocks(n)[i] = i
  BY DEF FirstBlocks
<1> QED BY <1>1, <1>2 DEF HasPrefix

(* CheckpointHonest, under OneTerminal: as long as the part file exists,   *)
(* every byte that its checkpoint (write_meta) or a session (received)     *)
(* claims is in it and is the file's, whichever system call the server     *)
(* died after and wherever a commit of an earlier connection is.           *)
THEOREM ProgressIsOnDisk == ASSUME OneTerminal  PROVE Spec => []CheckpointHonest
<1>1. ASSUME PutInv  PROVE CheckpointHonest
  <2>1. OnDisk /\ (\A c \in Client : SessionOk(c)) /\ TypeOK
    BY <1>1 DEF PutInv, Placed, Steady, ToldInv, Typed
  <2>2. ASSUME part # None, meta # None  PROVE HasPrefix(part, meta)
    <3>1. meta \in Nat /\ meta <= Len(part)
      BY <2>1, <2>2, Numbers DEF TypeOK, OnDisk
    <3> QED BY <2>1, <2>2, <3>1, Prefixes
  <2>3. ASSUME NEW c \in Client, part # None, ctx[c] # None  PROVE HasPrefix(part, ctx[c])
    <3>1. ctx[c] \in Nat /\ ctx[c] <= Len(part)
      BY <2>1, <2>3, Numbers DEF TypeOK, SessionOk
    <3> QED BY <2>1, <2>3, <3>1, Prefixes
  <2> QED BY <2>2, <2>3 DEF CheckpointHonest
<1> QED BY <1>1, PutAlways, PTL

(* IndexMatchesContent, under OneTerminal: what a path with a row holds is *)
(* the whole file, although finalize_upload renames before it compares the *)
(* MD5 and a commit may be taken up after a crash or submitted anew.       *)
THEOREM IndexIsRight == ASSUME OneTerminal  PROVE Spec => []IndexMatchesContent
<1>1. PutInv => IndexMatchesContent
  BY DEF PutInv, Placed, Steady, OnDisk, IndexMatchesContent
<1> QED BY <1>1, PutAlways, PTL

Whole == {p \in Path : stored[p] = File}
Told == {c \in Client : pc[c] = "done"}

LEMMA PutSteps ==
  ASSUME OneTerminal, PutInv, PutInv', [Next]_vars
  PROVE  [Put!Next]_<<Whole, index, Told>>
<1> USE Numbers
<1>0. Typed /\ AnsweredAll /\ Placed /\ Tells'
  BY DEF PutInv, ToldInv
<1> SUFFICES ASSUME ~UNCHANGED <<Whole, index, Told>>  PROVE Put!Next
  BY DEF Whole, Told
<1>1. ASSUME stored' = stored, index' = index,
             \A c \in Client : pc'[c] = "done" <=> pc[c] = "done"
      PROVE  FALSE
  BY <1>1 DEF Whole, Told
<1>2. ASSUME NEW c \in Client, ClientStep(c)  PROVE Put!Next
  <2>1. stored' = stored /\ index' = index
    BY <1>2 DEF ClientStep, Connect, StartUpload, GotReady, GotChunkOk, GotSuccess, GotFailure, disk
  <2>2. CASE GotSuccess(c)
    <3>1. pc' = [pc EXCEPT ![c] = "done"]
      BY <2>2 DEF GotSuccess
    <3>2. Told' = Told \cup {c}
      BY <3>1, <1>0 DEF Told, Typed, TypeOK
    <3>3. PathOf[c] \in index
      BY <1>0, <2>1, <3>1 DEF Tells, Typed, TypeOK
    <3>4. Put!Tell(c)
      BY <2>1, <3>2, <3>3 DEF Put!Tell, Whole, Told
    <3> QED BY <3>4 DEF Put!Next
  <2>3. CASE Connect(c) \/ StartUpload(c) \/ GotReady(c) \/ GotChunkOk(c) \/ GotFailure(c)
    <3>1. \A e \in Client : pc'[e] = "done" <=> pc[e] = "done"
      BY <1>0, <2>3 DEF Connect, StartUpload, GotReady, GotChunkOk, GotFailure, SendNext, client,
        Typed, TypeOK
    <3> QED BY <1>1, <2>1, <3>1
  <2> QED BY <1>2, <2>2, <2>3 DEF ClientStep
<1>3. ASSUME ReactorStep  PROVE Put!Next
  <2>1. ASSUME NEW c \in Client, InstantInit(c)  PROVE stored' = stored
    <3>1. \A p \in index : p = PathOf[c]
      BY <1>0 DEF Placed, Steady, OnDisk
    <3> QED BY <2>1, <3>1 DEF InstantInit
  <2>2. ~CopyFile /\ ~InstantUpsert
    BY <1>0 DEF CopyFile, InstantUpsert, Placed, Steady, SavesBehind, Saving, Idle
  <2>3. stored' = stored /\ index' = index /\ pc' = pc
    BY <1>3, <2>1, <2>2 DEF ReactorStep, InstantInit, PrepareInit, AcceptChunk, RefuseChunk,
      SubmitCommit, RefuseCommit, TruncateMeta, FlushMeta, disk, client
  <2> QED BY <1>1, <2>3
<1>4. ASSUME NEW w \in Worker, WorkerStep(w)  PROVE Put!Next
  <2>1. pc' = pc
    BY <1>4 DEF WorkerStep, TakeTask, RenamePart, RenameFails, RemoveMeta, HashStored, UpsertRow,
      DiscardPart, DiscardMeta, client
  <2>2. CASE RenamePart(w)
    <3>1. part = File /\ index' = index /\ stored' = [stored EXCEPT ![running[w].path] = part]
      BY <1>0, <2>2, PlacedRename DEF RenamePart
    <3>2. PICK p \in Path : p = running[w].path
      BY <1>0, <2>2 DEF RenamePart, At, Typed, TypeOK, CommitTask
    <3>3. Whole' = Whole \cup {p}
      BY <1>0, <3>1, <3>2 DEF Whole, Typed, TypeOK
    <3>4. Put!Store(p)
      BY <2>1, <3>1, <3>3 DEF Put!Store, Whole, Told
    <3> QED BY <3>4 DEF Put!Next
  <2>3. CASE UpsertRow(w)
    <3>1. stored[running[w].path] = File
      BY <1>0, <2>3, PlacedUpsert
    <3>2. PICK p \in Path : p = running[w].path
      BY <1>0, <2>3 DEF UpsertRow, At, Typed, TypeOK, CommitTask
    <3>3. stored' = stored /\ index' = index \cup {p}
      BY <2>3, <3>2 DEF UpsertRow
    <3>4. Put!Record(p)
      BY <2>1, <3>1, <3>2, <3>3 DEF Put!Record, Whole, Told
    <3> QED BY <3>4 DEF Put!Next
  <2>4. CASE ~RenamePart(w) /\ ~UpsertRow(w)
    <3>1. stored' = stored /\ index' = index
      BY <1>4, <2>4 DEF WorkerStep, TakeTask, RenameFails, RemoveMeta, HashStored, DiscardPart,
        DiscardMeta, disk
    <3> QED BY <1>1, <2>1, <3>1
  <2> QED BY <2>2, <2>3, <2>4
<1>5. ASSUME Failure  PROVE FALSE
  <2>1. stored' = stored /\ index' = index
    BY <1>5 DEF Failure, Drop, Crash, disk
  <2>2. \A e \in Client : pc'[e] = "done" <=> pc[e] = "done"
    BY <1>0, <1>5 DEF Failure, Drop, Crash, Interrupted, Typed, TypeOK
  <2> QED BY <1>1, <2>1, <2>2
<1>6. CASE UNCHANGED vars
  BY <1>1, <1>6 DEF vars, disk, client
<1> QED BY <1>2, <1>3, <1>4, <1>5, <1>6 DEF Next

(* PutSpec, under OneTerminal: the upload implements the atomic put.       *)
(* finalize_upload stores the whole file or nothing, the row comes after   *)
(* it, the client is told after the row, and nothing takes a stored file   *)
(* or a row away: no crash, no retry and no commit submitted anew.         *)
THEOREM UploadIsPut == ASSUME OneTerminal  PROVE Spec => PutSpec
<1>1. Init => Put!Init
  <2> SUFFICES ASSUME Init  PROVE Put!Init
    OBVIOUS
  <2>1. File # None
    BY Firsts
  <2> QED BY <2>1 DEF Init, Put!Init
<1>2. PutInv /\ PutInv' /\ [Next]_vars => [Put!Next]_<<Whole, index, Told>>
  BY PutSteps
<1> QED BY <1>1, <1>2, PutAlways, PTL DEF Spec, PutSpec, Put!Spec, Whole, Told

===============================================================================
