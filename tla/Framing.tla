-------------------------------- MODULE Framing --------------------------------
(***************************************************************************)
(* One direction of a connection of the C++ drive: messages become bytes   *)
(* (encode), the bytes travel in pieces of any size, and the receiver cuts *)
(* them into messages again (try_decode), over a buffer whose front it     *)
(* erases only now and then.                                               *)
(*                                                                         *)
(* Byte <<k, i>> is the i-th byte of message k.  A wire header is three    *)
(* bytes: the magic number with the version, the size of the headers and   *)
(* the size of the body.  The server takes any number of requests at a     *)
(* time, reads all there is and decodes all it has; the client waits for   *)
(* one reply in each call and reads until it has it.                       *)
(*                                                                         *)
(* Its names are its own, so that its proofs can share a module with those *)
(* of UploadResume.                                                        *)
(***************************************************************************)
EXTENDS Integers, Sequences

CONSTANTS
  Shape,        \* sizes of messages: [head, body], in bytes
  FieldLimit,   \* first size that does not fit into header_size
  RecvMax,      \* size of the array given to recv
  MaxMessages   \* bound on messages

ASSUME FramingAssumption ==
  /\ Shape \subseteq [head : Nat, body : Nat]
  /\ FieldLimit \in Nat \ {0} /\ RecvMax \in Nat \ {0} /\ MaxMessages \in Nat

VARIABLES
  receiver,        \* "server" or "client"
  sent,            \* shapes of the messages sent so far
  outbound,        \* bytes not sent yet
  wire,            \* bytes in the receiver's socket
  inbound,         \* the receiver's buffer
  inbound_offset,  \* bytes of it that are decoded already
  decoded,         \* messages the receiver has got
  rpc              \* where the receiver is

buffer == <<inbound, inbound_offset>>
framingVars == <<receiver, sent, outbound, wire, buffer, decoded, rpc>>

Wire == 3

FramingInit ==
  /\ receiver \in {"server", "client"}
  /\ sent = <<>> /\ outbound = <<>> /\ wire = <<>>
  /\ inbound = <<>> /\ inbound_offset = 0 /\ decoded = <<>> /\ rpc = "wait"

-----------------------------------------------------------------------------
(* The sender *)

Bytes(k, from, to) == [i \in 1..to - from + 1 |-> <<k, from + i - 1>>]

(* encode, and the end of the outbound buffer.  A client gets only the     *)
(* reply of the call it is in.                                             *)
Encode(s) ==
  /\ Len(sent) < MaxMessages
  /\ receiver = "client" => rpc # "wait" /\ Len(sent) = Len(decoded)
  /\ sent' = Append(sent, s)
  /\ outbound' = outbound \o Bytes(Len(sent) + 1, 1, Wire + s.head + s.body)
  /\ UNCHANGED <<receiver, wire, buffer, decoded, rpc>>

(* send takes as much as there is room for; the rest waits for EPOLLOUT,   *)
(* or for the next turn of send_all.                                       *)
SendBytes(n) ==
  /\ n \in 1..Len(outbound)
  /\ wire' = wire \o SubSeq(outbound, 1, n)
  /\ outbound' = SubSeq(outbound, n + 1, Len(outbound))
  /\ UNCHANGED <<receiver, sent, buffer, decoded, rpc>>

-----------------------------------------------------------------------------
(* try_decode *)

Available == Len(inbound) - inbound_offset
ByteAt(i) == inbound[inbound_offset + i]

(* What the wire header at the offset says.                                *)
HasMagic == ByteAt(1)[2] = 1
HeaderField == sent[ByteAt(2)[1]].head % FieldLimit
BodyField == sent[ByteAt(3)[1]].body
FrameSize == Wire + HeaderField + BodyField

Decoded ==
  [head |-> SubSeq(inbound, inbound_offset + Wire + 1,
                   inbound_offset + Wire + HeaderField),
   body |-> SubSeq(inbound, inbound_offset + Wire + HeaderField + 1,
                   inbound_offset + FrameSize)]

(* Part of a header, or of the frame it announces.                         *)
Short == IF Available < Wire THEN TRUE ELSE HasMagic /\ Available < FrameSize

(* Mutation: the offset stays where it was in the erased buffer. *)
Consume_KeepsOffset(to) ==
  /\ inbound' = IF to > Len(inbound) \div 2
                THEN SubSeq(inbound, to + 1, Len(inbound)) ELSE inbound
  /\ inbound_offset' = to

(* The front is erased when it is more than half of the buffer.            *)
Consume(to) ==
  IF to > Len(inbound) \div 2
  THEN inbound' = SubSeq(inbound, to + 1, Len(inbound)) /\ inbound_offset' = 0
  ELSE inbound' = inbound /\ inbound_offset' = to

(* Mutation: one message for each event, although no byte is left to read. *)
AfterMessage_Waits == "wait"

(* The server's loop goes on, the client's call returns.                   *)
AfterMessage == IF receiver = "server" THEN "decode" ELSE "wait"

(* Without the magic number, "Protocol magic mismatch" ends the receiver:  *)
(* nothing catches it.                                                     *)
DecodeMessage ==
  /\ rpc = "decode" /\ ~Short
  /\ IF HasMagic
     THEN /\ decoded' = Append(decoded, Decoded)
          /\ Consume(inbound_offset + FrameSize)
          /\ rpc' = AfterMessage
     ELSE rpc' = "thrown" /\ UNCHANGED <<buffer, decoded>>
  /\ UNCHANGED <<receiver, sent, outbound, wire>>

NoMessage ==
  /\ rpc = "decode" /\ Short
  /\ rpc' = IF receiver = "server" THEN "wait" ELSE "recv"
  /\ UNCHANGED <<receiver, sent, outbound, wire, buffer, decoded>>

-----------------------------------------------------------------------------
(* The loops around it *)

(* EPOLLIN.                                                                *)
Readable ==
  /\ rpc = "wait" /\ receiver = "server" /\ wire # <<>>
  /\ rpc' = "recv"
  /\ UNCHANGED <<receiver, sent, outbound, wire, buffer, decoded>>

(* The client's call has sent its request and reads the reply.             *)
Call ==
  /\ rpc = "wait" /\ receiver = "client" /\ Len(sent) < MaxMessages
  /\ rpc' = "decode"
  /\ UNCHANGED <<receiver, sent, outbound, wire, buffer, decoded>>

Recv ==
  LET n == IF Len(wire) < RecvMax THEN Len(wire) ELSE RecvMax
  IN /\ rpc = "recv" /\ wire # <<>>
     /\ inbound' = inbound \o SubSeq(wire, 1, n)
     /\ wire' = SubSeq(wire, n + 1, Len(wire))
     /\ rpc' = IF receiver = "server" THEN "recv" ELSE "decode"
     /\ UNCHANGED <<receiver, sent, outbound, inbound_offset, decoded>>

(* EAGAIN, on the server's non-blocking socket.                            *)
RecvAgain ==
  /\ rpc = "recv" /\ wire = <<>> /\ receiver = "server"
  /\ rpc' = "decode"
  /\ UNCHANGED <<receiver, sent, outbound, wire, buffer, decoded>>

Receiver == DecodeMessage \/ NoMessage \/ Readable \/ Recv \/ RecvAgain
Sender == \E n \in 1..Len(outbound) : SendBytes(n)

FramingNext == Receiver \/ Sender \/ Call \/ \E s \in Shape : Encode(s)

FramingSpec == FramingInit /\ [][FramingNext]_framingVars

(* Both ends run; nobody has to send another message or make another call. *)
FairFraming == FramingSpec /\ WF_framingVars(Receiver) /\ WF_framingVars(Sender)

-----------------------------------------------------------------------------
(* Properties *)

Byte == (1..MaxMessages) \X (Nat \ {0})

(* Every variable has its type.                                            *)
FramingTypeOK ==
  /\ receiver \in {"server", "client"} /\ sent \in Seq(Shape)
  /\ outbound \in Seq(Byte) /\ wire \in Seq(Byte) /\ inbound \in Seq(Byte)
  /\ inbound_offset \in 0..Len(inbound)
  /\ decoded \in Seq([head : Seq(Byte), body : Seq(Byte)])
  /\ rpc \in {"wait", "recv", "decode", "thrown"}

(* However the stream is cut and whenever the buffer is compacted, the     *)
(* receiver gets the messages that were sent, in their order, with all     *)
(* their bytes, and never takes the middle of one for the start.           *)
DecodedIsSent ==
  /\ rpc # "thrown" /\ Len(decoded) <= Len(sent)
  /\ \A k \in 1..Len(decoded) :
       LET h == Wire + sent[k].head
       IN decoded[k] = [head |-> Bytes(k, Wire + 1, h),
                        body |-> Bytes(k, h + 1, h + sent[k].body)]

(* Every message that is sent is read in the end: the rest of one that is  *)
(* cut anywhere is waited for, and several that come in one piece do not   *)
(* wait for each other.                                                    *)
EveryMessageRead ==
  \A k \in 1..MaxMessages : Len(sent) >= k ~> Len(decoded) >= k

=============================================================================
