--------------------------- MODULE WireFormatProofs --------------------------
(***************************************************************************)
(* Theorems about WireFormat, for every packet that a client may send      *)
(* (PacketsAssumption): any number of frames of any reliability, any       *)
(* indices, payloads, times, versions and MTUs.                            *)
(*                                                                         *)
(* That the frames of a datagram are found again is a matter of positions. *)
(* A layout of a datagram says where each of its frames begins and ends;   *)
(* the bytes of a frame stand there (Carries, of CodecProofs), FrameRead   *)
(* shows that FrameInfo::read makes of them what was written and goes on   *)
(* exactly where the frame ends, and the invariant says that the position  *)
(* of the loop is always one of the layout's.                              *)
(***************************************************************************)
EXTENDS WireFormat, CodecProofs

-----------------------------------------------------------------------------
(* Bytes, and the octets of integers in them.                              *)

IsBytes(s, n) == s \in Seq(Byte) /\ Len(s) = n

(* Two runs of bytes make one.                                             *)
LEMMA BytesConcat ==
  ASSUME NEW a, NEW b, NEW m \in Nat, NEW n \in Nat, IsBytes(a, m), IsBytes(b, n)
  PROVE  IsBytes(a \o b, m + n) /\ m + n \in Nat
<1>1. a \in Seq(Byte) /\ b \in Seq(Byte) /\ Len(a) = m /\ Len(b) = n
  BY DEF IsBytes
<1>2. a \o b \in Seq(Byte) /\ Len(a \o b) = Len(a) + Len(b)
  BY <1>1, ConcatProperties
<1>. QED  BY <1>1, <1>2 DEF IsBytes

(* A byte alone.                                                           *)
LEMMA OneByte ==
  ASSUME NEW b \in Byte
  PROVE  IsBytes(<<b>>, 1)
BY DEF IsBytes

(* A literal is an integer of its width.                                   *)
LEMMA NumberIsWord ==
  ASSUME NEW w, NEW n
  PROVE  Number(w, n) \in Word(w)
BY DEF Number, Word

(* A part of an integer that a byte holds.                                 *)
LEMMA OctetIsByte ==
  ASSUME NEW v, NEW k
  PROVE  Octet(v, k) \in Byte
BY DEF Octet, Byte, Word

(* An integer takes as many bytes as its width says, in either order.      *)
LEMMA IntegerBytes ==
  ASSUME NEW w \in Nat, NEW v
  PROVE  IsBytes(BigEndian(w, v), w) /\ IsBytes(LittleEndian(w, v), w)
         /\ IsBytes(WriteIntegral(w, v), w) /\ IsBytes(WriteUint24(v), 3)
<1>1. BigEndian(w, v) \in [1 .. w -> Byte] /\ LittleEndian(w, v) \in [1 .. w -> Byte]
  BY OctetIsByte DEF BigEndian, LittleEndian
<1>2. WriteIntegral(w, v) \in [1 .. w -> Byte] /\ WriteUint24(v) \in [1 .. 3 -> Byte]
  BY OctetIsByte DEF WriteIntegral, InMemory, WriteUint24
<1>. QED  BY <1>1, <1>2, FunctionIsSeq DEF IsBytes

(* A packet id, or another small literal.                                  *)
LEMMA IdIsByte ==
  ASSUME NEW n
  PROVE  Id(n) \in Byte
BY NumberIsWord DEF Id, Byte

(* Different literals are different bytes.                                 *)
LEMMA IdDiffers ==
  ASSUME NEW m \in 0 .. 255, NEW n \in 0 .. 255, m # n
  PROVE  Id(m) # Id(n)
BY NarrowNumber DEF Id

(* The offline message id.                                                 *)
LEMMA MagicBytes == IsBytes(Magic, 16)
<1>. DEFINE numbers == <<0, 255, 255, 0, 254, 254, 254, 254,
                         253, 253, 253, 253, 18, 52, 86, 120>>
<1>1. Magic = [i \in 1 .. 16 |-> Id(numbers[i])]
  BY DEF Magic
<1>. HIDE DEF numbers
<1>2. Magic \in [1 .. 16 -> Byte]
  BY <1>1, IdIsByte
<1>. QED  BY <1>2, FunctionIsSeq DEF IsBytes

-----------------------------------------------------------------------------

(* A length or an MTU, written by the server, as a client reads it.        *)
LEMMA WrittenNumber ==
  ASSUME NEW n
  PROVE  WriteIntegral(2, Number(2, n)) = BigEndian(2, Number(2, n))
BY WrittenBigEndian, NumberIsWord

(* An octet of what a cast made of the octets of an address.               *)
LEMMA OctetFromMemory ==
  ASSUME NEW w \in 1 .. 8, NEW bytes \in [1 .. w -> Byte], NEW k \in 0 .. w - 1
  PROVE  FromMemory(w, bytes) \in Word(w) /\ Octet(FromMemory(w, bytes), k) = bytes[k + 1]
<1>1. \A x \in 1 .. w : bytes[x] \subseteq 0 .. 7
  BY DEF Byte, Word, Bits
<1>2. FromMemory(w, bytes) \in Word(w)
  <2>1. ASSUME NEW x \in 1 .. w, NEW i \in bytes[x]
        PROVE  i + 8 * (x - 1) \in Bits(w)
    <3>1. i \in 0 .. 7
      BY <1>1
    <3>. QED  BY <3>1 DEF Bits
  <2>. QED  BY <2>1 DEF FromMemory, Word
<1>3. Bits(1) = 0 .. 7
  BY DEF Bits
<1>4. ASSUME NEW i \in 0 .. 7, 8 * k + i \in FromMemory(w, bytes)
      PROVE  i \in bytes[k + 1]
  <2>1. PICK x \in 1 .. w : \E j \in bytes[x] : 8 * k + i = j + 8 * (x - 1)
    BY <1>4 DEF FromMemory
  <2>2. PICK j \in bytes[x] : 8 * k + i = j + 8 * (x - 1)
    BY <2>1
  <2>3. j \in 0 .. 7
    BY <1>1
  <2>4. x = k + 1 /\ j = i
    BY <2>2, <2>3
  <2>. QED  BY <2>4
<1>5. ASSUME NEW i \in bytes[k + 1]
      PROVE  8 * k + i \in FromMemory(w, bytes)
  <2>1. k + 1 \in 1 .. w /\ i \in 0 .. 7
    BY <1>1
  <2>2. 8 * k + i = i + 8 * ((k + 1) - 1)
    BY <2>1
  <2>. QED  BY <2>1, <2>2 DEF FromMemory
<1>6. bytes[k + 1] \subseteq 0 .. 7
  BY <1>1
<1>7. Octet(FromMemory(w, bytes), k) = bytes[k + 1]
  BY <1>3, <1>4, <1>5, <1>6 DEF Octet
<1>. QED  BY <1>2, <1>7

(* The octets of the client's address are written in reverse.              *)
LEMMA WrittenReversed ==
  ASSUME NEW w \in 1 .. 8, NEW bytes \in [1 .. w -> Byte]
  PROVE  WriteIntegral(w, FromMemory(w, bytes)) = Reversed(bytes)
<1>1. FromMemory(w, bytes) \in Word(w)
  <2>1. 0 \in 0 .. w - 1
    OBVIOUS
  <2>. QED  BY <2>1, OctetFromMemory
<1>2. WriteIntegral(w, FromMemory(w, bytes)) = BigEndian(w, FromMemory(w, bytes))
  BY <1>1, WrittenBigEndian
<1>3. Len(bytes) = w /\ DOMAIN bytes = 1 .. w
  BY FunctionIsSeq
<1>4. ASSUME NEW k \in 1 .. w
      PROVE  Octet(FromMemory(w, bytes), w - k) = bytes[w + 1 - k]
  <2>1. w - k \in 0 .. w - 1 /\ (w - k) + 1 = w + 1 - k
    OBVIOUS
  <2>. QED  BY <2>1, OctetFromMemory
<1>. QED  BY <1>2, <1>3, <1>4 DEF BigEndian, Reversed

(* The complement of the complement is the octet.                          *)
LEMMA ComplementTwice ==
  ASSUME NEW n \in Nat, NEW octets \in [1 .. n -> Byte]
  PROVE  /\ Reversed(octets) \in [1 .. n -> Byte]
         /\ Complement(Complement(octets)) = octets
<1>1. Len(octets) = n /\ DOMAIN octets = 1 .. n
  BY FunctionIsSeq
<1>2. \A i \in 1 .. n : n + 1 - i \in 1 .. n
  OBVIOUS
<1>3. Reversed(octets) \in [1 .. n -> Byte]
  BY <1>1, <1>2 DEF Reversed
<1>4. \A octet \in Byte : Bits(1) \ (Bits(1) \ octet) = octet
  BY DEF Byte, Word
<1>5. Complement(Complement(octets)) = [i \in 1 .. n |-> Bits(1) \ (Bits(1) \ octets[i])]
  BY <1>1 DEF Complement
<1>6. Complement(Complement(octets)) = [i \in 1 .. n |-> octets[i]]
  BY <1>4, <1>5
<1>. QED  BY <1>1, <1>3, <1>6

(* The address of the client: from_ipv4 takes the octets for an integer of *)
(* the machine, and write reverses them.                                   *)
LEMMA ClientAddressReversed ==
  /\ WriteClientAddress = PeerAddress(IpAsRead, PortAsRead)
  /\ IsBytes(WriteClientAddress, 7)
<1>1. client_ip \in [1 .. 4 -> Byte] /\ client_port \in [1 .. 2 -> Byte]
  BY ServerAssumption
<1>2. WriteClientAddress = PeerAddress(IpAsRead, PortAsRead)
  <2>1. /\ WriteIntegral(4, FromMemory(4, client_ip)) = Reversed(client_ip)
        /\ WriteIntegral(2, FromMemory(2, client_port)) = PortAsRead
    BY <1>1, WrittenReversed DEF PortAsRead
  <2>2. Complement(IpAsRead) = Reversed(client_ip)
    BY <1>1, ComplementTwice DEF IpAsRead
  <2>. QED  BY <2>1, <2>2 DEF WriteClientAddress, WriteAddress, PeerAddress
<1>3. IsBytes(<<Id(4)>> \o WriteIntegral(4, FromMemory(4, client_ip)), 5)
  BY IdIsByte, OneByte, IntegerBytes, BytesConcat
<1>4. IsBytes(WriteClientAddress, 7)
  BY <1>3, IntegerBytes, BytesConcat DEF WriteClientAddress, WriteAddress
<1>. QED  BY <1>2, <1>4

-----------------------------------------------------------------------------
(* What the server writes is what RakNet's clients read.                   *)

(* UnconnectedPong::write: what a client reads is the time, the guid and   *)
(* the id of the server.                                                   *)
LEMMA PongWritten ==
  ASSUME NEW time \in Word(8)
  PROVE  /\ UnconnectedPong(time) = PeerPong(time)
         /\ IsBytes(UnconnectedPong(time), 35 + Len(server_id))
<1>1. server_guid \in Word(8) /\ server_id \in Seq(Byte) /\ Len(server_id) \in Nat
  BY ServerAssumption, LenProperties
<1>2. IsBytes(server_id, Len(server_id))
  BY <1>1 DEF IsBytes
<1>3. /\ WriteIntegral(8, time) = BigEndian(8, time)
      /\ WriteIntegral(8, server_guid) = BigEndian(8, server_guid)
  BY <1>1, WrittenBigEndian
<1>4. WriteString(server_id) = BigEndian(2, Number(2, Len(server_id))) \o server_id
  BY WrittenNumber DEF WriteString
<1>. DEFINE start == <<Id(28)>> \o WriteIntegral(8, time) \o WriteIntegral(8, server_guid) \o Magic
<1>5. IsBytes(start, 33)
  BY IdIsByte, OneByte, IntegerBytes, MagicBytes, BytesConcat
<1>6. IsBytes(WriteString(server_id), 2 + Len(server_id))
  BY <1>1, <1>2, IntegerBytes, BytesConcat DEF WriteString
<1>7. UnconnectedPong(time) = start \o WriteString(server_id)
  BY DEF UnconnectedPong
<1>8. PeerPong(time) = start \o WriteString(server_id)
  <2>. DEFINE length == BigEndian(2, Number(2, Len(server_id)))
  <2>1. PeerPong(time) = start \o length \o server_id
    BY <1>3 DEF PeerPong
  <2>2. start \in Seq(Byte) /\ length \in Seq(Byte)
    BY <1>5, IntegerBytes DEF IsBytes
  <2>. HIDE DEF start, length
  <2>3. start \o length \o server_id = start \o (length \o server_id)
    BY <1>1, <2>2, ConcatAssociative
  <2>4. WriteString(server_id) = length \o server_id
    BY <1>4 DEF length
  <2>. QED  BY <2>1, <2>3, <2>4
<1>. HIDE DEF start
<1>9. IsBytes(start \o WriteString(server_id), 33 + (2 + Len(server_id)))
  BY <1>1, <1>5, <1>6, BytesConcat
<1>10. 33 + (2 + Len(server_id)) = 35 + Len(server_id)
  BY <1>1
<1>. QED  BY <1>7, <1>8, <1>9, <1>10

(* IncompatibleProtocol::write.                                            *)
LEMMA IncompatibleWritten ==
  ASSUME NEW version \in Byte
  PROVE  /\ IncompatibleProtocol(version) = PeerIncompatible(version)
         /\ IsBytes(IncompatibleProtocol(version), 26)
<1>1. WriteIntegral(8, server_guid) = BigEndian(8, server_guid)
  BY ServerAssumption, WrittenBigEndian
<1>2. IsBytes(<<Id(25), version>>, 2)
  BY IdIsByte DEF IsBytes
<1>3. IsBytes(<<Id(25), version>> \o Magic \o WriteIntegral(8, server_guid), 26)
  BY <1>2, IntegerBytes, MagicBytes, BytesConcat
<1>. QED  BY <1>1, <1>3 DEF IncompatibleProtocol, PeerIncompatible

(* A flag that is not set is a byte of zeros.                              *)
LEMMA FalseWritten == WriteBool(FALSE) = {} /\ {} \in Byte
BY DEF WriteBool, Byte, Word

(* OpenConnectionReply1::write.                                            *)
LEMMA ReplyOneWritten ==
  ASSUME NEW n
  PROVE  /\ OpenConnectionReply1(Number(2, n)) = PeerReplyOne(n)
         /\ IsBytes(OpenConnectionReply1(Number(2, n)), 28)
<1>1. WriteIntegral(8, server_guid) = BigEndian(8, server_guid)
  BY ServerAssumption, WrittenBigEndian
<1>2. OpenConnectionReply1(Number(2, n)) = PeerReplyOne(n)
  BY <1>1, WrittenNumber, FalseWritten DEF OpenConnectionReply1, PeerReplyOne
<1>. DEFINE start == <<Id(6)>> \o Magic \o WriteIntegral(8, server_guid)
            bool == <<WriteBool(FALSE)>>
<1>3. IsBytes(start, 25)
  BY IdIsByte, OneByte, IntegerBytes, MagicBytes, BytesConcat
<1>4. IsBytes(bool, 1)
  BY FalseWritten, OneByte
<1>5. OpenConnectionReply1(Number(2, n)) = start \o bool \o WriteIntegral(2, Number(2, n))
  BY DEF OpenConnectionReply1
<1>. HIDE DEF start, bool
<1>6. IsBytes(start \o bool, 26)
  BY <1>3, <1>4, BytesConcat
<1>7. IsBytes(start \o bool \o WriteIntegral(2, Number(2, n)), 28)
  BY <1>6, IntegerBytes, BytesConcat
<1>. QED  BY <1>2, <1>5, <1>7

(* OpenConnectionReply2::write: all but the address is as a client reads   *)
(* it.                                                                     *)
LEMMA ReplyTwoWritten ==
  ASSUME NEW mtu \in Word(2)
  PROVE  /\ OpenConnectionReply2(mtu)
              = PeerReplyTwo(mtu, IpAsRead, PortAsRead)
         /\ IsBytes(OpenConnectionReply2(mtu), 35)
<1>1. /\ WriteIntegral(8, server_guid) = BigEndian(8, server_guid)
      /\ WriteIntegral(2, mtu) = BigEndian(2, mtu)
  BY ServerAssumption, WrittenBigEndian
<1>2. OpenConnectionReply2(mtu)
        = PeerReplyTwo(mtu, IpAsRead, PortAsRead)
  BY <1>1, ClientAddressReversed, FalseWritten DEF OpenConnectionReply2, PeerReplyTwo
<1>. DEFINE start == <<Id(8)>> \o Magic \o WriteIntegral(8, server_guid)
            bool == <<WriteBool(FALSE)>>
<1>3. IsBytes(start, 25)
  BY IdIsByte, OneByte, IntegerBytes, MagicBytes, BytesConcat
<1>4. IsBytes(bool, 1)
  BY FalseWritten, OneByte
<1>5. OpenConnectionReply2(mtu)
        = start \o WriteClientAddress \o WriteIntegral(2, mtu) \o bool
  BY DEF OpenConnectionReply2
<1>. HIDE DEF start, bool
<1>6. IsBytes(start \o WriteClientAddress, 32)
  BY <1>3, ClientAddressReversed, BytesConcat
<1>7. IsBytes(start \o WriteClientAddress \o WriteIntegral(2, mtu), 34)
  BY <1>6, IntegerBytes, BytesConcat
<1>8. IsBytes(start \o WriteClientAddress \o WriteIntegral(2, mtu) \o bool, 35)
  BY <1>4, <1>7, BytesConcat
<1>. QED  BY <1>2, <1>5, <1>8

(* The addresses of the other systems, of which there are none:            *)
(* 255.255.255.255, port 19132.                                            *)
LEMMA OtherSystemWritten ==
  /\ OtherSystem = PeerAddress([i \in 1 .. 4 |-> {}], BigEndian(2, Number(2, 19132)))
  /\ OtherSystem \in Seq(Byte)
<1>1. Bits(4) \in Word(4)
  BY DEF Word
<1>2. WriteIntegral(4, Bits(4)) = BigEndian(4, Bits(4))
  BY <1>1, WrittenBigEndian
<1>3. \A k \in 1 .. 4 : Octet(Bits(4), 4 - k) = Bits(1)
  BY DEF Octet, Bits
<1>4. BigEndian(4, Bits(4)) = [i \in 1 .. 4 |-> Bits(1)]
  BY <1>3 DEF BigEndian
<1>5. Complement([i \in 1 .. 4 |-> {}]) = BigEndian(4, Bits(4))
  BY <1>4 DEF Complement
<1>6. IsBytes(<<Id(4)>> \o WriteIntegral(4, Bits(4)) \o WriteIntegral(2, Number(2, 19132)), 7)
  BY IdIsByte, OneByte, IntegerBytes, BytesConcat
<1>7. OtherSystem = PeerAddress([i \in 1 .. 4 |-> {}], BigEndian(2, Number(2, 19132)))
  <2>1. OtherSystem = <<Id(4)>> \o BigEndian(4, Bits(4)) \o BigEndian(2, Number(2, 19132))
    BY <1>2, WrittenNumber DEF OtherSystem, WriteAddress
  <2>. DEFINE ip == [i \in 1 .. 4 |-> {}]
              port == BigEndian(2, Number(2, 19132))
  <2>2. Complement(ip) = BigEndian(4, Bits(4))
    BY <1>5
  <2>. HIDE DEF ip
  <2>3. OtherSystem = PeerAddress(ip, port)
    BY <2>1, <2>2 DEF PeerAddress
  <2>. QED  BY <2>3 DEF ip
<1>8. OtherSystem \in Seq(Byte)
  BY <1>6 DEF OtherSystem, WriteAddress, IsBytes
<1>. QED  BY <1>7, <1>8

(* ConnectionRequestAccepted::write.                                       *)
LEMMA AcceptedWritten ==
  ASSUME NEW time \in Word(8), NEW up \in Word(8)
  PROVE  /\ ConnectionRequestAccepted(time, up)
              = PeerAccepted(IpAsRead, PortAsRead, time, up)
         /\ ConnectionRequestAccepted(time, up) \in Seq(Byte)
<1>1. WriteIntegral(8, time) = BigEndian(8, time)
      /\ WriteIntegral(8, up) = BigEndian(8, up)
  BY WrittenBigEndian
<1>2. WriteIntegral(2, {}) = <<{}, {}>> /\ IsBytes(WriteIntegral(2, {}), 2)
  <2>1. {} \in Word(2)
    BY DEF Word
  <2>2. WriteIntegral(2, {}) = BigEndian(2, {})
    BY <2>1, WrittenBigEndian
  <2>3. \A k : Octet({}, k) = {}
    BY DEF Octet
  <2>4. BigEndian(2, {}) = [k \in 1 .. 2 |-> {}]
    BY <2>3 DEF BigEndian
  <2>. QED  BY <2>2, <2>4, IntegerBytes
<1>. DEFINE others == [x \in 1 .. 20 |-> OtherSystem]
<1>3. FlattenSeq(others) \in Seq(Byte)
  <2>1. others \in Seq(Seq(Byte))
    BY OtherSystemWritten, FunctionIsSeq
  <2>. QED  BY <2>1, FlattenParts
<1>4. ConnectionRequestAccepted(time, up)
        = PeerAccepted(IpAsRead, PortAsRead, time, up)
  <2>. DEFINE other == PeerAddress([i \in 1 .. 4 |-> {}], BigEndian(2, Number(2, 19132)))
  <2>1. others = [x \in 1 .. 20 |-> other]
    BY OtherSystemWritten
  <2>2. ConnectionRequestAccepted(time, up)
          = <<Id(16)>> \o WriteClientAddress \o <<{}, {}>> \o FlattenSeq(others)
              \o BigEndian(8, time) \o BigEndian(8, up)
    BY <1>1, <1>2 DEF ConnectionRequestAccepted
  <2>3. PeerAccepted(IpAsRead, PortAsRead, time, up)
          = <<Id(16)>> \o PeerAddress(IpAsRead, PortAsRead) \o <<{}, {}>>
              \o FlattenSeq([x \in 1 .. 20 |-> other])
              \o BigEndian(8, time) \o BigEndian(8, up)
    BY DEF PeerAccepted
  <2>. HIDE DEF others, other
  <2>. QED  BY <2>1, <2>2, <2>3, ClientAddressReversed
<1>. HIDE DEF others
<1>5. <<Id(16)>> \in Seq(Byte) /\ WriteClientAddress \in Seq(Byte)
  BY IdIsByte, ClientAddressReversed DEF IsBytes
<1>6. /\ WriteIntegral(2, {}) \in Seq(Byte)
      /\ WriteIntegral(8, time) \in Seq(Byte) /\ WriteIntegral(8, up) \in Seq(Byte)
  BY IntegerBytes DEF IsBytes
<1>7. (<<Id(16)>> \o WriteClientAddress \o WriteIntegral(2, {}) \o FlattenSeq(others)
         \o WriteIntegral(8, time) \o WriteIntegral(8, up)) \in Seq(Byte)
  BY <1>3, <1>5, <1>6, ConcatProperties
<1>. QED  BY <1>4, <1>7 DEF ConnectionRequestAccepted, others

(* ConnectedPong::write leaves out the id of the packet.                   *)
LEMMA ConnectedPongWritten ==
  ASSUME NEW time \in Word(8), NEW up \in Word(8)
  PROVE  /\ ConnectedPong(time, up) = Tail(PeerConnectedPong(time, up))
         /\ ConnectedPong(time, up) \in Seq(Byte)
<1>1. WriteIntegral(8, time) = BigEndian(8, time)
      /\ WriteIntegral(8, up) = BigEndian(8, up)
  BY WrittenBigEndian
<1>2. IsBytes(WriteIntegral(8, time), 8) /\ IsBytes(WriteIntegral(8, up), 8)
  BY IntegerBytes
<1>3. ConnectedPong(time, up) \in Seq(Byte)
  BY <1>2, ConcatProperties DEF ConnectedPong, IsBytes
<1>4. PeerConnectedPong(time, up) = <<Id(3)>> \o ConnectedPong(time, up)
  BY <1>1 DEF PeerConnectedPong, ConnectedPong
<1>. DEFINE pong == ConnectedPong(time, up)
<1>. HIDE DEF pong
<1>5. Tail(<<Id(3)>> \o pong) = pong
  BY <1>3, IdIsByte DEF pong
<1>. QED  BY <1>3, <1>4, <1>5 DEF pong

-----------------------------------------------------------------------------
(* The frames the server writes.                                           *)

(* A datagram with one frame.                                              *)
LEMMA FlattenOne ==
  ASSUME NEW S, NEW x \in Seq(S)
  PROVE  FlattenSeq(<<x>>) = x
<1>1. <<x>> \in Seq(Seq(S)) /\ Len(<<x>>) = 1
  OBVIOUS
<1>2. PICK c \in [0 .. 1 -> Seq(S)] :
         c[0] = <<>> /\ c[1] = FlattenSeq(<<x>>) /\ \A k \in 1 .. 1 : c[k] = c[k - 1] \o <<x>>[k]
  <2>. DEFINE fs == <<x>>
  <2>. HIDE DEF fs
  <2>1. \E c \in [0 .. Len(fs) -> Seq(S)] :
           /\ c[0] = <<>> /\ c[Len(fs)] = FlattenSeq(fs)
           /\ \A k \in 1 .. Len(fs) : c[k] = c[k - 1] \o fs[k]
    BY <1>1, FlattenBeginnings DEF fs
  <2>. QED  BY <1>1, <2>1 DEF fs
<1>3. c[1] = c[0] \o x
  <2>1. 1 \in 1 .. 1 /\ 1 - 1 = 0 /\ <<x>>[1] = x
    OBVIOUS
  <2>. QED  BY <1>2, <2>1
<1>. QED  BY <1>2, <1>3, ConcatEmptySeq

(* Numbers below eight, and the two that mean a reliability to make_info.  *)
LEMMA LowBits ==
  ASSUME NEW n \in 0 .. 4
  PROVE  /\ Number(1, n) \subseteq 0 .. 2
         /\ FrameFlags(n) \ 0 .. 3 = {}
<1>1. ASSUME NEW i \in 3 .. 7
      PROVE  (n \div 2 ^ i) % 2 # 1
  <2>1. CASE i = 3
    BY <2>1
  <2>2. CASE i = 4
    BY <2>2
  <2>3. CASE i = 5
    BY <2>3
  <2>4. CASE i = 6
    BY <2>4
  <2>5. CASE i = 7
    BY <2>5
  <2>. QED  BY <2>1, <2>2, <2>3, <2>4, <2>5
<1>2. \A i \in Bits(1) : i \in 0 .. 2 \/ i \in 3 .. 7
  BY DEF Bits
<1>3. Number(1, n) \subseteq 0 .. 2
  BY <1>1, <1>2 DEF Number
<1>4. \A i \in 0 .. 2 : i \in 0 .. 3
  OBVIOUS
<1>. QED  BY <1>3, <1>4 DEF FrameFlags

(* The first byte of a frame, as RakNet writes it.                         *)
PeerFlags(rely, info) ==
  {i + 5 : i \in Number(1, rely)} \cup (IF info.fragment_info # <<>> THEN {4} ELSE {})

(* From that byte FrameInfo::read takes the reliability and whether the    *)
(* frame is a fragment.                                                    *)
LEMMA PeerFlagsRead ==
  ASSUME NEW rely \in 0 .. 4, NEW info
  PROVE  /\ PeerFlags(rely, info) \in Byte
         /\ {i \in Bits(1) : i + 5 \in PeerFlags(rely, info)} = Number(1, rely)
         /\ NumberOf(Number(1, rely)) = rely
         /\ 4 \in PeerFlags(rely, info) <=> info.fragment_info # <<>>
<1>1. Number(1, rely) \subseteq 0 .. 2 /\ Bits(1) = 0 .. 7
  BY LowBits DEF Bits
<1>2. \A j \in PeerFlags(rely, info) : j = 4 \/ \E i \in Number(1, rely) : j = i + 5
  BY DEF PeerFlags
<1>3. \A j \in PeerFlags(rely, info) : j \in 0 .. 7
  BY <1>1, <1>2
<1>4. ASSUME NEW i \in 0 .. 7
      PROVE  i + 5 \in PeerFlags(rely, info) <=> i \in Number(1, rely)
  <2>1. ASSUME i + 5 \in PeerFlags(rely, info) PROVE i \in Number(1, rely)
    <3>1. i + 5 # 4
      OBVIOUS
    <3>2. PICK k \in Number(1, rely) : i + 5 = k + 5
      BY <1>2, <2>1, <3>1
    <3>3. k = i
      BY <1>1, <3>2
    <3>. QED  BY <3>3
  <2>. QED  BY <2>1 DEF PeerFlags
<1>5. 4 \in PeerFlags(rely, info) <=> info.fragment_info # <<>>
  <2>1. \A i \in Number(1, rely) : i + 5 # 4
    BY <1>1
  <2>. QED  BY <2>1 DEF PeerFlags
<1>6. PeerFlags(rely, info) \in Byte
  BY <1>1, <1>3 DEF Byte, Word
<1>7. \A i \in Number(1, rely) : i \in 0 .. 7
  BY <1>1
<1>8. {i \in Bits(1) : i + 5 \in PeerFlags(rely, info)} = Number(1, rely)
  BY <1>1, <1>4, <1>7
<1>9. NumberOf(Number(1, rely)) = rely
  BY NarrowNumber
<1>. QED  BY <1>5, <1>6, <1>8, <1>9

(* The frame a peer sees in what the server writes.                        *)
PlainFrame(body) ==
  [rely |-> 0, info |-> [reliability_index |-> <<>>, sequence_frame_index |-> <<>>,
                         order_info |-> <<>>, fragment_info |-> <<>>, body |-> body]]

(* The bytes of a datagram with that frame.                                *)
LEMMA PlainFrameBytes ==
  ASSUME NEW id, NEW num, NEW body \in Seq(Byte)
  PROVE  PeerFrameSet(id, num, <<PlainFrame(body)>>)
           = <<Id(id)>> \o LittleEndian(3, num)
               \o (<<{}>> \o BigEndian(2, Number(2, 8 * Len(body))) \o body)
<1>. DEFINE frame == PlainFrame(body)
            bytes == <<{}>> \o BigEndian(2, Number(2, 8 * Len(body))) \o body
<1>1. frame.rely = 0 /\ frame.info.fragment_info = <<>> /\ frame.info.body = body
      /\ frame.info.reliability_index = <<>> /\ frame.info.sequence_frame_index = <<>>
      /\ frame.info.order_info = <<>>
  BY DEF PlainFrame
<1>2. {i + 5 : i \in Number(1, 0)} \cup {} = {}
  BY NumberZero
<1>3. BigEndian(2, Number(2, 8 * Len(body))) \in Seq(Byte) /\ <<{}>> \in Seq(Byte)
  BY IntegerBytes, FalseWritten DEF IsBytes
<1>. HIDE DEF frame
<1>4. PeerFrame(frame.rely, frame.info)
        = <<{}>> \o BigEndian(2, Number(2, 8 * Len(body))) \o <<>> \o <<>> \o <<>> \o <<>> \o body
  BY <1>1, <1>2 DEF PeerFrame, PeerIndex
<1>5. /\ bytes \in Seq(Byte)
      /\ <<{}>> \o BigEndian(2, Number(2, 8 * Len(body))) \in Seq(Byte)
  BY <1>3, ConcatProperties
<1>6. PeerFrame(frame.rely, frame.info) = bytes
  BY <1>4, <1>5, ConcatEmptySeq
<1>7. [i \in DOMAIN <<frame>> |-> PeerFrame(<<frame>>[i].rely, <<frame>>[i].info)] = <<bytes>>
  <2>. HIDE DEF bytes
  <2>1. DOMAIN <<frame>> = 1 .. 1 /\ <<frame>>[1] = frame
    OBVIOUS
  <2>. QED  BY <1>6, <2>1
<1>8. FlattenSeq(<<bytes>>) = bytes
  BY <1>5, FlattenOne
<1>9. PeerFrameSet(id, num, <<frame>>) = <<Id(id)>> \o LittleEndian(3, num) \o bytes
  <2>. HIDE DEF bytes
  <2>. QED  BY <1>7, <1>8 DEF PeerFrameSet
<1>. QED  BY <1>9 DEF frame

(* Of the first byte of its frame a peer looks at what the server leaves   *)
(* empty.                                                                  *)
LEMMA BytesAround ==
  ASSUME NEW a, NEW b \in Byte, NEW c \in Seq(Byte), IsBytes(a, 4)
  PROVE  /\ a \o <<b>> \o c \in Seq(Byte)
         /\ Len(a \o <<b>> \o c) = 5 + Len(c)
         /\ \A i \in 1 .. 5 + Len(c) :
              (a \o <<b>> \o c)[i]
                = IF i <= 4 THEN a[i] ELSE IF i = 5 THEN b ELSE c[i - 5]
<1>. DEFINE ab == a \o <<b>>
<1>1. a \in Seq(Byte) /\ Len(a) = 4 /\ Len(c) \in Nat /\ <<b>> \in Seq(Byte)
      /\ Len(<<b>>) = 1
  BY LenProperties DEF IsBytes
<1>2. /\ ab \in Seq(Byte) /\ Len(ab) = Len(a) + Len(<<b>>)
      /\ \A i \in 1 .. Len(a) + Len(<<b>>) :
            ab[i] = IF i <= Len(a) THEN a[i] ELSE <<b>>[i - Len(a)]
  BY <1>1, ConcatProperties
<1>3. Len(ab) = 5 /\ \A i \in 1 .. 5 : ab[i] = IF i <= 4 THEN a[i] ELSE <<b>>[i - 4]
  BY <1>1, <1>2
<1>4. ab[5] = b /\ \A i \in 1 .. 4 : ab[i] = a[i]
  <2>1. ab[5] = <<b>>[5 - 4] /\ <<b>>[1] = b /\ 5 - 4 = 1
    BY <1>3
  <2>2. ab[5] = b
    BY <2>1
  <2>3. \A i \in 1 .. 4 : i \in 1 .. 5 /\ i <= 4
    OBVIOUS
  <2>. QED  BY <1>3, <2>2, <2>3
<1>0. ab \in Seq(Byte)
  BY <1>2
<1>. HIDE DEF ab
<1>5. /\ ab \o c \in Seq(Byte) /\ Len(ab \o c) = Len(ab) + Len(c)
      /\ \A i \in 1 .. Len(ab) + Len(c) : (ab \o c)[i] = IF i <= Len(ab) THEN ab[i] ELSE c[i - Len(ab)]
  BY <1>0, ConcatProperties
<1>6. ASSUME NEW i \in 1 .. 5 + Len(c)
      PROVE  (ab \o c)[i] = IF i <= 4 THEN a[i] ELSE IF i = 5 THEN b ELSE c[i - 5]
  <2>1. (ab \o c)[i] = IF i <= 5 THEN ab[i] ELSE c[i - 5]
    BY <1>3, <1>5
  <2>2. CASE i <= 4
    <3>1. i \in 1 .. 4
      BY <1>1, <2>2
    <3>. QED  BY <1>4, <2>1, <2>2, <3>1
  <2>3. CASE i = 5
    BY <1>4, <2>1, <2>3
  <2>4. CASE i > 5
    BY <1>1, <2>1, <2>4
  <2>5. i <= 4 \/ i = 5 \/ i > 5
    BY <1>1
  <2>. QED  BY <2>2, <2>3, <2>4, <2>5
<1>7. Len(ab \o c) = 5 + Len(c)
  BY <1>3, <1>5
<1>8. /\ ab \o c \in Seq(Byte)
      /\ Len(ab \o c) = 5 + Len(c)
      /\ \A i \in 1 .. 5 + Len(c) :
           (ab \o c)[i] = IF i <= 4 THEN a[i] ELSE IF i = 5 THEN b ELSE c[i - 5]
  BY <1>5, <1>6, <1>7
<1>. QED  BY <1>8 DEF ab

(* Of the first byte of its frame a peer looks at what the server leaves   *)
(* empty.                                                                  *)
LEMMA FifthByte ==
  ASSUME NEW a, NEW b \in Byte, NEW c \in Seq(Byte), IsBytes(a, 4), b \ 0 .. 3 = {}
  PROVE  SeenByPeer(a \o <<b>> \o c) = a \o <<{}>> \o c
<1>. DEFINE s == a \o <<b>> \o c
            t == a \o <<{}>> \o c
            n == 5 + Len(c)
<1>1. n \in Nat /\ 5 \in 1 .. n
  BY LenProperties
<1>2. /\ s \in Seq(Byte) /\ Len(s) = n
      /\ \A i \in 1 .. n : s[i] = IF i <= 4 THEN a[i] ELSE IF i = 5 THEN b ELSE c[i - 5]
  BY BytesAround
<1>3. /\ t \in Seq(Byte) /\ Len(t) = n
      /\ \A i \in 1 .. n : t[i] = IF i <= 4 THEN a[i] ELSE IF i = 5 THEN {} ELSE c[i - 5]
  <2>1. {} \in Byte
    BY FalseWritten
  <2>. DEFINE e == {}
  <2>2. e \in Byte
    BY <2>1
  <2>. HIDE DEF e
  <2>3. /\ a \o <<e>> \o c \in Seq(Byte) /\ Len(a \o <<e>> \o c) = n
        /\ \A i \in 1 .. n :
             (a \o <<e>> \o c)[i] = IF i <= 4 THEN a[i] ELSE IF i = 5 THEN e ELSE c[i - 5]
    BY <2>2, BytesAround
  <2>. QED  BY <2>3 DEF e
<1>. HIDE DEF s, t, n
<1>4. s[5] = b
  BY <1>1, <1>2
<1>5. SeenByPeer(s) = [s EXCEPT ![5] = {}]
  BY <1>4 DEF SeenByPeer
<1>. DEFINE r == [s EXCEPT ![5] = {}]
<1>6. /\ r \in Seq(Byte) /\ Len(r) = n
      /\ \A j \in 1 .. n : r[j] = IF j = 5 THEN {} ELSE s[j]
  BY <1>1, <1>2, FalseWritten, ExceptSeq
<1>. HIDE DEF r
<1>7. ASSUME NEW i \in 1 .. Len(r)
      PROVE  r[i] = t[i]
  <2>1. i \in 1 .. n
    BY <1>6
  <2>2. CASE i = 5
    <3>1. r[5] = {} /\ t[5] = {}
      BY <1>1, <1>3, <1>6
    <3>. QED  BY <2>2, <3>1
  <2>3. CASE i # 5
    BY <1>2, <1>3, <1>6, <2>1, <2>3
  <2>. QED  BY <2>2, <2>3
<1>8. r = t
  BY <1>3, <1>6, <1>7, SeqEqual
<1>. QED  BY <1>5, <1>8 DEF r, s, t

(* ready_buffer: whichever reliability is asked for, a peer sees a plain   *)
(* frame, in a datagram whose number has lost its lowest byte.             *)
LEMMA ReplyFramed ==
  ASSUME next_expected_seq \in Nat, next_expected_seq < 2 ^ 24,
         NEW rely \in {0, 2}, NEW body \in Seq(Byte)
  PROVE  /\ ready_buffer(rely, body) \in Seq(Byte)
         /\ SeenByPeer(ready_buffer(rely, body))
              = PeerFrameSet(128, Number(3, next_expected_seq \div 256), <<PlainFrame(body)>>)
<1>. DEFINE num == Number(3, next_expected_seq \div 256)
            header == <<Id(128)>> \o LittleEndian(3, num)
            len == BigEndian(2, Number(2, 8 * Len(body)))
<1>1. WriteFrameHeader = header
  BY NumberLosesLowByte DEF WriteFrameHeader
<1>2. WriteFrameInfo(make_info(rely, body)) = <<FrameFlags(rely)>> \o len
  <2>1. Len(body) \in Nat
    BY LenProperties
  <2>2. {i + 3 : i \in Number(2, Len(body))} \cap Bits(2) = Number(2, 8 * Len(body))
    BY <2>1, EightTimes
  <2>3. make_info(rely, body).rely = rely
        /\ make_info(rely, body).body_leng = Number(2, Len(body))
    BY DEF make_info
  <2>. QED  BY <2>2, <2>3, WrittenNumber DEF WriteFrameInfo
<1>3. FrameFlags(rely) \in Byte /\ FrameFlags(rely) \ 0 .. 3 = {}
  BY LowBits, IdIsByte DEF FrameFlags, Id
<1>4. IsBytes(header, 4)
  BY IdIsByte, OneByte, IntegerBytes, BytesConcat
<1>5. len \in Seq(Byte)
  BY IntegerBytes DEF IsBytes
<1>. HIDE DEF header, len
<1>6. ready_buffer(rely, body) = header \o <<FrameFlags(rely)>> \o (len \o body)
  <2>1. ready_buffer(rely, body) = header \o (<<FrameFlags(rely)>> \o len) \o body
    BY <1>1, <1>2 DEF ready_buffer
  <2>2. header \in Seq(Byte) /\ <<FrameFlags(rely)>> \in Seq(Byte)
    BY <1>3, <1>4 DEF IsBytes
  <2>3. header \o (<<FrameFlags(rely)>> \o len) = header \o <<FrameFlags(rely)>> \o len
    BY <1>5, <2>2, ConcatAssociative
  <2>4. header \o <<FrameFlags(rely)>> \in Seq(Byte)
    BY <2>2, ConcatProperties
  <2>5. header \o <<FrameFlags(rely)>> \o len \o body
          = header \o <<FrameFlags(rely)>> \o (len \o body)
    <3>. DEFINE front == header \o <<FrameFlags(rely)>>
    <3>1. front \in Seq(Byte)
      BY <2>4
    <3>. HIDE DEF front
    <3>2. front \o len \o body = front \o (len \o body)
      BY <1>5, <3>1, ConcatAssociative
    <3>. QED  BY <3>2 DEF front
  <2>. QED  BY <2>1, <2>3, <2>5
<1>7. len \o body \in Seq(Byte) /\ <<FrameFlags(rely)>> \in Seq(Byte)
  BY <1>3, <1>5, ConcatProperties
<1>8. SeenByPeer(ready_buffer(rely, body)) = header \o <<{}>> \o (len \o body)
  BY <1>3, <1>4, <1>6, <1>7, FifthByte
<1>9. PeerFrameSet(128, num, <<PlainFrame(body)>>) = header \o <<{}>> \o (len \o body)
  <2>1. PeerFrameSet(128, num, <<PlainFrame(body)>>) = header \o (<<{}>> \o len \o body)
    BY PlainFrameBytes DEF header, len
  <2>2. header \o (<<{}>> \o len \o body) = header \o <<{}>> \o (len \o body)
    <3>1. header \in Seq(Byte) /\ <<{}>> \in Seq(Byte)
      BY <1>4, FalseWritten DEF IsBytes
    <3>2. <<{}>> \o (len \o body) = <<{}>> \o len \o body
      BY <1>5, <3>1, ConcatAssociative
    <3>3. header \o <<{}>> \o (len \o body) = header \o (<<{}>> \o (len \o body))
      <4>. DEFINE flags == <<{}>>
                  rest == len \o body
      <4>1. flags \in Seq(Byte) /\ rest \in Seq(Byte)
        BY <1>7, <3>1
      <4>. HIDE DEF flags, rest
      <4>2. header \o flags \o rest = header \o (flags \o rest)
        BY <3>1, <4>1, ConcatAssociative
      <4>. QED  BY <4>2 DEF flags, rest
    <3>. QED  BY <3>2, <3>3
  <2>. QED  BY <2>1, <2>2
<1>10. ready_buffer(rely, body) \in Seq(Byte)
  BY <1>4, <1>6, <1>7, ConcatProperties DEF IsBytes
<1>. QED  BY <1>8, <1>9, <1>10

-----------------------------------------------------------------------------
(* The frames the server reads.                                            *)

(* The parts of a frame that are there or not.                             *)
PeerOrder(info) ==
  IF info.order_info = <<>> THEN <<>>
  ELSE PeerIndex(info.order_info) \o <<info.order_info[2]>>

PeerFragment(info) ==
  IF info.fragment_info = <<>> THEN <<>>
  ELSE BigEndian(4, info.fragment_info[1]) \o BigEndian(2, info.fragment_info[2])
         \o BigEndian(4, info.fragment_info[3])

PeerLength(info) == BigEndian(2, Number(2, 8 * Len(info.body)))

(* The indices of a frame are those of its reliability, and how many bytes *)
(* each takes.                                                             *)
LEMMA FrameParts ==
  ASSUME NEW rely \in 0 .. 4, NEW info \in PeerInfo, WholeFrame(rely, info)
  PROVE  /\ is_reliable(rely) <=> info.reliability_index # <<>>
         /\ is_seq(rely) <=> info.sequence_frame_index # <<>>
         /\ is_ordered(rely) <=> info.order_info # <<>>
         /\ IsBytes(PeerLength(info), 2)
         /\ IsBytes(PeerIndex(info.reliability_index), Bytes(3, is_reliable(rely)))
         /\ IsBytes(PeerIndex(info.sequence_frame_index), Bytes(3, is_seq(rely)))
         /\ IsBytes(PeerOrder(info), Bytes(4, is_ordered(rely)))
         /\ IsBytes(PeerFragment(info), Bytes(10, info.fragment_info # <<>>))
         /\ IsBytes(info.body, Len(info.body)) /\ Len(info.body) \in Nat
<1>0. /\ info.reliability_index \in Seq(Word(3))
      /\ info.sequence_frame_index \in Seq(Word(3))
      /\ info.order_info \in Optional(Word(3) \X Byte)
      /\ info.fragment_info \in Optional(Word(4) \X Word(2) \X Word(4))
      /\ info.body \in Seq(Byte)
  BY DEF PeerInfo
<1>1. is_reliable(rely) <=> info.reliability_index # <<>>
  BY <1>0, EmptySeq DEF WholeFrame, is_reliable
<1>2. is_seq(rely) <=> info.sequence_frame_index # <<>>
  BY <1>0, EmptySeq DEF WholeFrame, is_seq
<1>3. is_ordered(rely) <=> info.order_info # <<>>
  BY DEF WholeFrame, is_ordered
<1>4. IsBytes(<<>>, 0)
  BY EmptySeq DEF IsBytes
<1>5. ASSUME NEW x
      PROVE  IsBytes(PeerIndex(x), Bytes(3, x # <<>>))
  BY <1>4, IntegerBytes DEF PeerIndex, Bytes
<1>6. IsBytes(PeerIndex(info.reliability_index), Bytes(3, is_reliable(rely)))
  BY <1>1, <1>5 DEF Bytes
<1>7. IsBytes(PeerIndex(info.sequence_frame_index), Bytes(3, is_seq(rely)))
  BY <1>2, <1>5 DEF Bytes
<1>8. IsBytes(PeerOrder(info), Bytes(4, is_ordered(rely)))
  <2>1. CASE info.order_info = <<>>
    BY <1>3, <1>4, <2>1 DEF PeerOrder, Bytes
  <2>2. CASE info.order_info # <<>>
    <3>1. info.order_info[2] \in Byte
      BY <1>0, <2>2 DEF Optional
    <3>2. IsBytes(PeerIndex(info.order_info), 3)
      BY <1>5, <2>2 DEF Bytes
    <3>3. IsBytes(PeerIndex(info.order_info) \o <<info.order_info[2]>>, 4)
      BY <3>1, <3>2, OneByte, BytesConcat
    <3>. QED  BY <1>3, <2>2, <3>3 DEF PeerOrder, Bytes
  <2>. QED  BY <2>1, <2>2
<1>9. IsBytes(PeerFragment(info), Bytes(10, info.fragment_info # <<>>))
  <2>1. CASE info.fragment_info = <<>>
    BY <1>4, <2>1 DEF PeerFragment, Bytes
  <2>2. CASE info.fragment_info # <<>>
    <3>1. IsBytes(BigEndian(4, info.fragment_info[1]), 4)
          /\ IsBytes(BigEndian(2, info.fragment_info[2]), 2)
          /\ IsBytes(BigEndian(4, info.fragment_info[3]), 4)
      BY IntegerBytes
    <3>2. IsBytes(BigEndian(4, info.fragment_info[1]) \o BigEndian(2, info.fragment_info[2]), 6)
      BY <3>1, BytesConcat
    <3>3. IsBytes((BigEndian(4, info.fragment_info[1]) \o BigEndian(2, info.fragment_info[2]))
                    \o BigEndian(4, info.fragment_info[3]), 10)
      BY <3>1, <3>2, BytesConcat
    <3>. QED  BY <2>2, <3>3 DEF PeerFragment, Bytes
  <2>. QED  BY <2>1, <2>2
<1>10. IsBytes(PeerLength(info), 2)
  BY IntegerBytes DEF PeerLength
<1>11. IsBytes(info.body, Len(info.body)) /\ Len(info.body) \in Nat
  BY <1>0, LenProperties DEF IsBytes
<1>. QED  BY <1>1, <1>2, <1>3, <1>6, <1>7, <1>8, <1>9, <1>10, <1>11

SequenceAt(at, rely) == at + 3 + Bytes(3, is_reliable(rely))
OrderAt(at, rely) == SequenceAt(at, rely) + Bytes(3, is_seq(rely))
FragmentAt(at, rely) == OrderAt(at, rely) + Bytes(4, is_ordered(rely))

(* Those places are numbers, and at least three bytes of a frame are there *)
(* before its payload.                                                     *)
LEMMA PlacesAreNumbers ==
  ASSUME NEW at \in Nat, NEW rely, NEW split \in BOOLEAN
  PROVE  /\ SequenceAt(at, rely) \in Nat /\ OrderAt(at, rely) \in Nat
         /\ FragmentAt(at, rely) \in Nat /\ InfoLength(rely, split) \in Nat
         /\ InfoLength(rely, split) >= 3
         /\ at + InfoLength(rely, split) = FragmentAt(at, rely) + Bytes(10, split)
<1>. DEFINE x == Bytes(3, is_reliable(rely))
            y == Bytes(3, is_seq(rely))
            z == Bytes(4, is_ordered(rely))
            w == Bytes(10, split)
<1>1. x \in Nat /\ y \in Nat /\ z \in Nat /\ w \in Nat
  BY DEF Bytes
<1>2. /\ SequenceAt(at, rely) = at + 3 + x /\ OrderAt(at, rely) = at + 3 + x + y
      /\ FragmentAt(at, rely) = at + 3 + x + y + z
      /\ InfoLength(rely, split) = 3 + x + y + z + w
  BY DEF SequenceAt, OrderAt, FragmentAt, InfoLength
<1>. HIDE DEF x, y, z, w
<1>3. /\ SequenceAt(at, rely) \in Nat /\ OrderAt(at, rely) \in Nat
      /\ FragmentAt(at, rely) \in Nat /\ InfoLength(rely, split) \in Nat
      /\ InfoLength(rely, split) >= 3
      /\ at + InfoLength(rely, split) = FragmentAt(at, rely) + w
  BY <1>1, <1>2
<1>. QED  BY <1>3 DEF w

(* Where the parts of a frame stand.                                       *)
LEMMA FramePlaces ==
  ASSUME NEW rely \in 0 .. 4, NEW info \in PeerInfo, WholeFrame(rely, info),
         NEW m, NEW at, Carries(m, at, PeerFrame(rely, info))
  PROVE  /\ Carries(m, at, <<PeerFlags(rely, info)>>)
         /\ Carries(m, at + 1, PeerLength(info))
         /\ Carries(m, at + 3, PeerIndex(info.reliability_index))
         /\ Carries(m, SequenceAt(at, rely), PeerIndex(info.sequence_frame_index))
         /\ Carries(m, OrderAt(at, rely), PeerOrder(info))
         /\ Carries(m, FragmentAt(at, rely), PeerFragment(info))
         /\ Carries(m, at + InfoLength(rely, info.fragment_info # <<>>), info.body)
<1>. DEFINE a == <<PeerFlags(rely, info)>>
            b == PeerLength(info)
            c == PeerIndex(info.reliability_index)
            d == PeerIndex(info.sequence_frame_index)
            e == PeerOrder(info)
            f == PeerFragment(info)
            g == info.body
            split == info.fragment_info # <<>>
<1>1. PeerFrame(rely, info) = a \o b \o c \o d \o e \o f \o g
  BY DEF PeerFrame, PeerFlags, PeerLength, PeerOrder, PeerFragment
<1>2. IsBytes(a, 1)
  BY PeerFlagsRead, OneByte
<1>3. /\ IsBytes(b, 2) /\ IsBytes(c, Bytes(3, is_reliable(rely)))
      /\ IsBytes(d, Bytes(3, is_seq(rely))) /\ IsBytes(e, Bytes(4, is_ordered(rely)))
      /\ IsBytes(f, Bytes(10, split)) /\ g \in Seq(Byte)
  BY FrameParts DEF IsBytes
<1>. HIDE DEF a, b, c, d, e, f, g, split
<1>4. at \in Nat
  BY DEF Carries
<1>5. a \in Seq(Byte) /\ b \in Seq(Byte) /\ c \in Seq(Byte) /\ d \in Seq(Byte)
      /\ e \in Seq(Byte) /\ f \in Seq(Byte)
  BY <1>2, <1>3 DEF IsBytes
<1>6. a \o b \in Seq(Byte)
  BY <1>5, ConcatProperties
<1>7. (a \o b) \o c \in Seq(Byte)
  BY <1>5, <1>6, ConcatProperties
<1>8. ((a \o b) \o c) \o d \in Seq(Byte)
  BY <1>5, <1>7, ConcatProperties
<1>9. (((a \o b) \o c) \o d) \o e \in Seq(Byte)
  BY <1>5, <1>8, ConcatProperties
<1>10. ((((a \o b) \o c) \o d) \o e) \o f \in Seq(Byte)
  BY <1>5, <1>9, ConcatProperties
<1>. DEFINE abc == (a \o b) \o c
            abcd == abc \o d
            abcde == abcd \o e
            abcdef == abcde \o f
<1>11. /\ abc \in Seq(Byte) /\ abcd \in Seq(Byte) /\ abcde \in Seq(Byte)
       /\ abcdef \in Seq(Byte)
       /\ PeerFrame(rely, info) = abcdef \o g
  BY <1>1, <1>7, <1>8, <1>9, <1>10
<1>12. Len(abc) = Len(a \o b) + Len(c) /\ Len(a \o b) = Len(a) + Len(b)
  BY <1>5, <1>6, ConcatProperties
<1>. HIDE DEF abc
<1>13. Len(abcd) = Len(abc) + Len(d)
  BY <1>5, <1>11, ConcatProperties
<1>. HIDE DEF abcd
<1>14. Len(abcde) = Len(abcd) + Len(e)
  BY <1>5, <1>11, ConcatProperties
<1>. HIDE DEF abcde
<1>15. Len(abcdef) = Len(abcde) + Len(f)
  BY <1>5, <1>11, ConcatProperties
<1>. HIDE DEF abcdef
<1>16. /\ Len(a) = 1 /\ Len(a \o b) = 3 /\ at + Len(abc) = SequenceAt(at, rely)
       /\ at + Len(abcd) = OrderAt(at, rely) /\ at + Len(abcde) = FragmentAt(at, rely)
       /\ at + Len(abcdef) = at + InfoLength(rely, split)
  <2>. DEFINE x == Bytes(3, is_reliable(rely))
              y == Bytes(3, is_seq(rely))
              z == Bytes(4, is_ordered(rely))
              w == Bytes(10, split)
  <2>1. x \in Nat /\ y \in Nat /\ z \in Nat /\ w \in Nat
    BY DEF Bytes
  <2>2. /\ SequenceAt(at, rely) = at + 3 + x /\ OrderAt(at, rely) = at + 3 + x + y
        /\ FragmentAt(at, rely) = at + 3 + x + y + z
        /\ InfoLength(rely, split) = 3 + x + y + z + w
    BY DEF SequenceAt, OrderAt, FragmentAt, InfoLength
  <2>3. Len(a) = 1 /\ Len(b) = 2 /\ Len(c) = x /\ Len(d) = y /\ Len(e) = z /\ Len(f) = w
    BY <1>2, <1>3 DEF IsBytes
  <2>. HIDE DEF x, y, z, w
  <2>4. Len(a \o b) = 3 /\ Len(abc) = 3 + x
    BY <1>12, <2>1, <2>3
  <2>5. Len(abcd) = 3 + x + y
    BY <1>13, <2>1, <2>3, <2>4
  <2>6. Len(abcde) = 3 + x + y + z
    BY <1>14, <2>1, <2>3, <2>5
  <2>7. Len(abcdef) = 3 + x + y + z + w
    BY <1>15, <2>1, <2>3, <2>6
  <2>. QED  BY <1>4, <2>1, <2>2, <2>3, <2>4, <2>5, <2>6, <2>7
<1>17. Carries(m, at, abcdef) /\ Carries(m, at + Len(abcdef), g)
  BY <1>3, <1>11, CarriesConcat
<1>18. Carries(m, at, abcde) /\ Carries(m, at + Len(abcde), f)
  BY <1>5, <1>11, <1>17, CarriesConcat DEF abcdef
<1>19. Carries(m, at, abcd) /\ Carries(m, at + Len(abcd), e)
  BY <1>5, <1>11, <1>18, CarriesConcat DEF abcde
<1>20. Carries(m, at, abc) /\ Carries(m, at + Len(abc), d)
  BY <1>5, <1>11, <1>19, CarriesConcat DEF abcd
<1>21. Carries(m, at, a \o b) /\ Carries(m, at + Len(a \o b), c)
  BY <1>5, <1>6, <1>20, CarriesConcat DEF abc
<1>22. Carries(m, at, a) /\ Carries(m, at + Len(a), b)
  BY <1>5, <1>21, CarriesConcat
<1>23. /\ Carries(m, at + InfoLength(rely, split), g)
       /\ Carries(m, FragmentAt(at, rely), f)
       /\ Carries(m, OrderAt(at, rely), e) /\ Carries(m, SequenceAt(at, rely), d)
       /\ Carries(m, at + 3, c) /\ Carries(m, at + 1, b)
  BY <1>16, <1>17, <1>18, <1>19, <1>20, <1>21, <1>22
<1>. QED  BY <1>22, <1>23 DEF a, b, c, d, e, f, g, split

(* How long a frame is.                                                    *)
LEMMA FrameBytes ==
  ASSUME NEW rely \in 0 .. 4, NEW info \in PeerInfo, WholeFrame(rely, info)
  PROVE  /\ PeerFrame(rely, info) \in Seq(Byte)
         /\ Len(PeerFrame(rely, info))
              = InfoLength(rely, info.fragment_info # <<>>) + Len(info.body)
<1>. DEFINE a == <<PeerFlags(rely, info)>>
            b == PeerLength(info)
            c == PeerIndex(info.reliability_index)
            d == PeerIndex(info.sequence_frame_index)
            e == PeerOrder(info)
            f == PeerFragment(info)
            g == info.body
            x == Bytes(3, is_reliable(rely))
            y == Bytes(3, is_seq(rely))
            z == Bytes(4, is_ordered(rely))
            w == Bytes(10, info.fragment_info # <<>>)
            n == Len(info.body)
<1>1. PeerFrame(rely, info) = a \o b \o c \o d \o e \o f \o g
  BY DEF PeerFrame, PeerFlags, PeerLength, PeerOrder, PeerFragment
<1>2. IsBytes(a, 1)
  BY PeerFlagsRead, OneByte
<1>3. /\ IsBytes(b, 2) /\ IsBytes(c, x) /\ IsBytes(d, y) /\ IsBytes(e, z)
      /\ IsBytes(f, w) /\ IsBytes(g, n) /\ n \in Nat
  BY FrameParts
<1>4. x \in Nat /\ y \in Nat /\ z \in Nat /\ w \in Nat
  BY DEF Bytes
<1>5. InfoLength(rely, info.fragment_info # <<>>) + n
        = (((((1 + 2) + x) + y) + z) + w) + n
  <2>1. InfoLength(rely, info.fragment_info # <<>>) = 3 + x + y + z + w
    BY DEF InfoLength
  <2>. DEFINE l == InfoLength(rely, info.fragment_info # <<>>)
  <2>. HIDE DEF x, y, z, w, n, l
  <2>2. l = 3 + x + y + z + w
    BY <2>1 DEF l
  <2>3. l + n = (((((1 + 2) + x) + y) + z) + w) + n
    BY <1>3, <1>4, <2>2
  <2>. QED  BY <2>3 DEF l
<1>. HIDE DEF a, b, c, d, e, f, g, x, y, z, w, n
<1>6. IsBytes(a \o b, 1 + 2)
  BY <1>2, <1>3, BytesConcat
<1>7. IsBytes((a \o b) \o c, (1 + 2) + x) /\ (1 + 2) + x \in Nat
  BY <1>3, <1>4, <1>6, BytesConcat
<1>8. IsBytes(((a \o b) \o c) \o d, ((1 + 2) + x) + y) /\ ((1 + 2) + x) + y \in Nat
  BY <1>3, <1>4, <1>7, BytesConcat
<1>9. /\ IsBytes((((a \o b) \o c) \o d) \o e, (((1 + 2) + x) + y) + z)
      /\ (((1 + 2) + x) + y) + z \in Nat
  BY <1>3, <1>4, <1>8, BytesConcat
<1>10. /\ IsBytes(((((a \o b) \o c) \o d) \o e) \o f, ((((1 + 2) + x) + y) + z) + w)
       /\ ((((1 + 2) + x) + y) + z) + w \in Nat
  BY <1>3, <1>4, <1>9, BytesConcat
<1>11. IsBytes((((((a \o b) \o c) \o d) \o e) \o f) \o g, (((((1 + 2) + x) + y) + z) + w) + n)
  BY <1>3, <1>10, BytesConcat
<1>. QED  BY <1>1, <1>5, <1>11 DEF IsBytes, n

(* The bytes that stand at a position are what is read there.              *)
LEMMA SliceRead ==
  ASSUME NEW at, NEW n, NEW b, IsBytes(b, n), Carries(memory, at, b)
  PROVE  Slice(at, n) = b
BY CarriesSubSeq DEF Slice, IsBytes

(* And so for one byte.                                                    *)
LEMMA ByteRead ==
  ASSUME NEW at, NEW b \in Byte, Carries(memory, at, <<b>>)
  PROVE  memory[at + 1] = b
BY DEF Carries

(* An integer that a peer wrote.                                           *)
LEMMA WordRead ==
  ASSUME NEW w \in 1 .. 4, NEW v \in Word(w), NEW at, Carries(memory, at, BigEndian(w, v))
  PROVE  ReadIntegral(w, Slice(at, w), 32) = v
<1>1. Slice(at, w) = BigEndian(w, v)
  BY IntegerBytes, SliceRead
<1>2. BigEndian(w, v) = WriteIntegral(w, v)
  BY WrittenBigEndian
<1>3. ReadIntegral(w, WriteIntegral(w, v), 32) = v
  BY NarrowReadBack
<1>. QED  BY <1>1, <1>2, <1>3

(* And one of 24 bits.                                                     *)
LEMMA IndexRead ==
  ASSUME NEW v \in Word(3), NEW at, Carries(memory, at, LittleEndian(3, v))
  PROVE  ReadUint24(Slice(at, 3)) = v
BY IntegerBytes, SliceRead, Uint24ReadFromPeer

(* FrameInfo::read reads what the peer wrote, whatever reliability, indices *)
(* and fragment the frame has, and ends where the frame does.              *)
THEOREM FrameRead ==
  ASSUME NEW rely \in 0 .. 4, NEW info \in PeerInfo, WholeFrame(rely, info),
         NEW at, Carries(memory, at, PeerFrame(rely, info))
  PROVE  /\ FrameAt(at) = info
         /\ FrameEnd(at) = at + Len(PeerFrame(rely, info))
<1>. DEFINE split == info.fragment_info # <<>>
<1>0. /\ info.reliability_index \in Seq(Word(3))
      /\ info.sequence_frame_index \in Seq(Word(3))
      /\ info.order_info \in Optional(Word(3) \X Byte)
      /\ info.fragment_info \in Optional(Word(4) \X Word(2) \X Word(4))
      /\ info.body \in Seq(Byte) /\ Len(info.body) \in Nat
      /\ info = [reliability_index |-> info.reliability_index,
                 sequence_frame_index |-> info.sequence_frame_index,
                 order_info |-> info.order_info,
                 fragment_info |-> info.fragment_info,
                 body |-> info.body]
  BY LenProperties DEF PeerInfo
<1>1. memory[at + 1] = PeerFlags(rely, info)
  BY FramePlaces, PeerFlagsRead, ByteRead
<1>2. RelyAt(at) = rely /\ SplitAt(at) = split
  <2>1. RelyAt(at) = rely
    <3>1. {i \in Bits(1) : i + 5 \in memory[at + 1]} = Number(1, rely)
      BY <1>1, PeerFlagsRead
    <3>2. NumberOf(Number(1, rely)) = rely
      BY PeerFlagsRead
    <3>. QED  BY <3>1, <3>2 DEF RelyAt
  <2>2. 4 \in PeerFlags(rely, info) <=> split
    BY PeerFlagsRead
  <2>3. SplitAt(at) = split
    BY <1>1, <2>2 DEF SplitAt
  <2>. QED  BY <2>1, <2>3
<1>3. BodyLength(at) = Len(info.body)
  <2>1. ReadIntegral(2, Slice(at + 1, 2), 32) = Number(2, 8 * Len(info.body))
    <3>1. Carries(memory, at + 1, BigEndian(2, Number(2, 8 * Len(info.body))))
      BY FramePlaces DEF PeerLength
    <3>2. Number(2, 8 * Len(info.body)) \in Word(2)
      BY NumberIsWord
    <3>. QED  BY <3>1, <3>2, WordRead
  <2>2. 8 * Len(info.body) < 2 ^ 16
    BY DEF WholeFrame
  <2>3. {i \in Bits(2) : i + 3 \in Number(2, 8 * Len(info.body))}
          = Number(2, Len(info.body))
    BY <1>0, <2>2, EightTimes
  <2>4. NumberOf(Number(2, Len(info.body))) = Len(info.body)
    BY <1>0, <2>2, TwoByteNumber
  <2>. QED  BY <2>1, <2>3, <2>4 DEF BodyLength
<1>4. FrameEnd(at) = at + Len(PeerFrame(rely, info))
  <2>1. at \in Nat /\ InfoLength(rely, split) \in Nat
    BY PlacesAreNumbers DEF Carries
  <2>2. FrameEnd(at) = at + InfoLength(rely, split) + Len(info.body)
    BY <1>2, <1>3 DEF FrameEnd
  <2>3. Len(PeerFrame(rely, info)) = InfoLength(rely, split) + Len(info.body)
    BY FrameBytes
  <2>. QED  BY <1>0, <2>1, <2>2, <2>3
<1>5. FrameAt(at).reliability_index = info.reliability_index
  <2>1. CASE is_reliable(rely)
    <3>1. Len(info.reliability_index) = 1 /\ info.reliability_index # <<>>
      BY <2>1, FrameParts DEF WholeFrame, is_reliable
    <3>2. info.reliability_index[1] \in Word(3)
          /\ info.reliability_index = <<info.reliability_index[1]>>
      BY <1>0, <3>1
    <3>3. ReadUint24(Slice(at + 3, 3)) = info.reliability_index[1]
      BY <3>1, <3>2, FramePlaces, IndexRead DEF PeerIndex
    <3>. QED  BY <1>2, <2>1, <3>2, <3>3 DEF FrameAt
  <2>2. CASE ~ is_reliable(rely)
    BY <1>2, <2>2, FrameParts DEF FrameAt
  <2>. QED  BY <2>1, <2>2
<1>6. FrameAt(at).sequence_frame_index = info.sequence_frame_index
  <2>1. CASE is_seq(rely)
    <3>1. Len(info.sequence_frame_index) = 1 /\ info.sequence_frame_index # <<>>
      BY <2>1, FrameParts DEF WholeFrame, is_seq
    <3>2. info.sequence_frame_index[1] \in Word(3)
          /\ info.sequence_frame_index = <<info.sequence_frame_index[1]>>
      BY <1>0, <3>1
    <3>3. ReadUint24(Slice(SequenceAt(at, rely), 3)) = info.sequence_frame_index[1]
      BY <3>1, <3>2, FramePlaces, IndexRead DEF PeerIndex
    <3>. QED  BY <1>2, <2>1, <3>2, <3>3 DEF FrameAt, SequenceAt
  <2>2. CASE ~ is_seq(rely)
    BY <1>2, <2>2, FrameParts DEF FrameAt
  <2>. QED  BY <2>1, <2>2
<1>7. FrameAt(at).order_info = info.order_info
  <2>. DEFINE place == OrderAt(at, rely)
  <2>1. CASE is_ordered(rely)
    <3>1. info.order_info # <<>>
      BY <2>1, FrameParts
    <3>2. info.order_info[1] \in Word(3) /\ info.order_info[2] \in Byte
          /\ info.order_info = <<info.order_info[1], info.order_info[2]>>
      BY <1>0, <3>1 DEF Optional
    <3>. HIDE DEF place
    <3>3. Carries(memory, place, LittleEndian(3, info.order_info[1]) \o <<info.order_info[2]>>)
      BY <3>1, FramePlaces DEF PeerOrder, PeerIndex, place
    <3>4. /\ Carries(memory, place, LittleEndian(3, info.order_info[1]))
          /\ Carries(memory, place + 3, <<info.order_info[2]>>)
      <4>1. LittleEndian(3, info.order_info[1]) \in Seq(Byte)
            /\ Len(LittleEndian(3, info.order_info[1])) = 3
            /\ <<info.order_info[2]>> \in Seq(Byte)
        <5>1. IsBytes(LittleEndian(3, info.order_info[1]), 3)
              /\ IsBytes(<<info.order_info[2]>>, 1)
          BY <3>2, IntegerBytes, OneByte
        <5>. QED  BY <5>1 DEF IsBytes
      <4>. QED  BY <3>3, <4>1, CarriesConcat
    <3>5. ReadUint24(Slice(place, 3)) = info.order_info[1]
      BY <3>2, <3>4, IndexRead
    <3>6. memory[place + 4] = info.order_info[2]
      <4>1. place \in Nat /\ (place + 3) + 1 = place + 4
        BY <3>4 DEF Carries
      <4>2. memory[(place + 3) + 1] = info.order_info[2]
        BY <3>2, <3>4, ByteRead
      <4>. QED  BY <4>1, <4>2
    <3>. QED  BY <1>2, <2>1, <3>2, <3>5, <3>6 DEF FrameAt, OrderAt, SequenceAt, place
  <2>2. CASE ~ is_ordered(rely)
    BY <1>2, <2>2, FrameParts DEF FrameAt
  <2>. QED  BY <2>1, <2>2
<1>8. FrameAt(at).fragment_info = info.fragment_info
  <2>. DEFINE place == FragmentAt(at, rely)
              id == info.fragment_info[1]
              idx == info.fragment_info[2]
              cnt == info.fragment_info[3]
  <2>1. CASE split
    <3>2. id \in Word(4) /\ idx \in Word(2) /\ cnt \in Word(4)
          /\ info.fragment_info = <<id, idx, cnt>>
      BY <1>0, <2>1 DEF Optional
    <3>3. Carries(memory, place, BigEndian(4, id) \o BigEndian(2, idx) \o BigEndian(4, cnt))
      BY <2>1, FramePlaces DEF PeerFragment
    <3>. HIDE DEF place, id, idx, cnt
    <3>4. /\ BigEndian(4, id) \in Seq(Byte) /\ BigEndian(2, idx) \in Seq(Byte)
          /\ BigEndian(4, cnt) \in Seq(Byte)
          /\ Len(BigEndian(4, id)) = 4 /\ Len(BigEndian(2, idx)) = 2
          /\ BigEndian(4, id) \o BigEndian(2, idx) \in Seq(Byte)
          /\ Len(BigEndian(4, id) \o BigEndian(2, idx)) = 6
      <4>1. /\ IsBytes(BigEndian(4, id), 4) /\ IsBytes(BigEndian(2, idx), 2)
            /\ IsBytes(BigEndian(4, cnt), 4)
        BY IntegerBytes
      <4>2. IsBytes(BigEndian(4, id) \o BigEndian(2, idx), 6)
        BY <4>1, BytesConcat
      <4>. QED  BY <4>1, <4>2 DEF IsBytes
    <3>5. /\ Carries(memory, place, BigEndian(4, id) \o BigEndian(2, idx))
          /\ Carries(memory, place + 6, BigEndian(4, cnt))
      BY <3>3, <3>4, CarriesConcat
    <3>6. Carries(memory, place, BigEndian(4, id))
          /\ Carries(memory, place + 4, BigEndian(2, idx))
      BY <3>4, <3>5, CarriesConcat
    <3>7. /\ ReadIntegral(4, Slice(place, 4), 32) = id
          /\ ReadIntegral(2, Slice(place + 4, 2), 32) = idx
          /\ ReadIntegral(4, Slice(place + 6, 4), 32) = cnt
      BY <3>2, <3>5, <3>6, WordRead
    <3>. QED  BY <1>2, <2>1, <3>2, <3>7 DEF FrameAt, FragmentAt, OrderAt, SequenceAt, place
  <2>2. CASE ~ split
    BY <1>2, <2>2 DEF FrameAt
  <2>. QED  BY <2>1, <2>2
<1>9. FrameAt(at).body = info.body
  <2>1. IsBytes(info.body, Len(info.body))
    BY FrameParts
  <2>2. Slice(at + InfoLength(rely, split), Len(info.body)) = info.body
    BY <2>1, FramePlaces, SliceRead
  <2>. QED  BY <1>2, <1>3, <2>2 DEF FrameAt
<1>10. FrameAt(at) = [reliability_index |-> FrameAt(at).reliability_index,
                      sequence_frame_index |-> FrameAt(at).sequence_frame_index,
                      order_info |-> FrameAt(at).order_info,
                      fragment_info |-> FrameAt(at).fragment_info,
                      body |-> FrameAt(at).body]
  BY DEF FrameAt
<1>. QED  BY <1>0, <1>4, <1>5, <1>6, <1>7, <1>8, <1>9, <1>10

-----------------------------------------------------------------------------
(* The datagrams of clients.                                               *)

(* A number of bytes, and the first of them: what follows leaves it.       *)
Begins(s, b, n) == IsBytes(s, n) /\ s[1] = b /\ n >= 1

(* What is appended leaves the first byte.                                 *)
LEMMA BytesAppended ==
  ASSUME NEW a, NEW b, NEW m \in Nat, Begins(a, b, m), NEW c, NEW n \in Nat, IsBytes(c, n)
  PROVE  Begins(a \o c, b, m + n) /\ m + n \in Nat
<1>1. IsBytes(a, m) /\ m >= 1 /\ a[1] = b
  BY DEF Begins
<1>2. IsBytes(a \o c, m + n) /\ m + n \in Nat
  BY <1>1, BytesConcat
<1>3. a \in Seq(Byte) /\ c \in Seq(Byte) /\ 1 \in 1 .. Len(a) + Len(c) /\ 1 <= Len(a)
  BY <1>1 DEF IsBytes
<1>4. (a \o c)[1] = a[1]
  BY <1>3, ConcatProperties
<1>. QED  BY <1>1, <1>2, <1>4 DEF Begins

(* The id of a packet comes first.                                         *)
LEMMA IdFirst ==
  ASSUME NEW n
  PROVE  Begins(<<Id(n)>>, Id(n), 1) /\ IsBytes(<<Id(n)>>, 1)
BY IdIsByte, OneByte DEF Begins

(* Both kinds of ping have 33 bytes.                                       *)
LEMMA PingBytes ==
  ASSUME NEW id, NEW time, NEW guid
  PROVE  LET m == <<Id(id)>> \o BigEndian(8, time) \o Magic \o BigEndian(8, guid)
         IN  Begins(m, Id(id), 33)
<1>. DEFINE one == <<Id(id)>>
            two == one \o BigEndian(8, time)
            three == two \o Magic
            four == three \o BigEndian(8, guid)
<1>1. Begins(one, Id(id), 1)
  BY IdFirst
<1>. HIDE DEF one
<1>2. Begins(two, Id(id), 9)
  BY <1>1, IntegerBytes, BytesAppended
<1>. HIDE DEF two
<1>3. Begins(three, Id(id), 25)
  BY <1>2, MagicBytes, BytesAppended
<1>. HIDE DEF three
<1>4. Begins(four, Id(id), 33)
  BY <1>3, IntegerBytes, BytesAppended
<1>. QED  BY <1>4 DEF one, two, three

(* A request one is as long as the MTU, and its version is the 18th byte.  *)
LEMMA RequestOneBytes ==
  ASSUME NEW version \in Byte, NEW mtu \in Nat, mtu >= MinMtu, NEW m,
         m = <<Id(5)>> \o Magic \o <<version>> \o [i \in 1 .. mtu - 18 |-> {}]
  PROVE  Begins(m, Id(5), mtu) /\ m[18] = version
<1>. DEFINE fill == [i \in 1 .. mtu - 18 |-> {}]
            one == <<Id(5)>>
            two == one \o Magic
            three == two \o <<version>>
            four == three \o fill
<1>0. mtu - 18 \in Nat /\ 18 + (mtu - 18) = mtu
  BY DEF MinMtu
<1>1. Begins(one, Id(5), 1)
  BY IdFirst
<1>. HIDE DEF one
<1>2. Begins(two, Id(5), 17)
  BY <1>1, MagicBytes, BytesAppended
<1>. HIDE DEF two
<1>3. Begins(three, Id(5), 18)
  BY <1>2, OneByte, BytesAppended
<1>4. three[18] = version
  <2>1. two \in Seq(Byte) /\ Len(two) = 17 /\ <<version>> \in Seq(Byte)
        /\ Len(<<version>>) = 1
    BY <1>2, OneByte DEF Begins, IsBytes
  <2>2. 18 \in 1 .. Len(two) + Len(<<version>>) /\ ~(18 <= Len(two)) /\ 18 - Len(two) = 1
    BY <2>1
  <2>3. three[18] = <<version>>[18 - Len(two)]
    BY <2>1, <2>2, ConcatProperties
  <2>. QED  BY <2>2, <2>3
<1>. HIDE DEF three
<1>5. IsBytes(fill, mtu - 18)
  <2>1. fill \in [1 .. mtu - 18 -> Byte]
    BY FalseWritten
  <2>. HIDE DEF fill
  <2>. QED  BY <1>0, <2>1, FunctionIsSeq DEF IsBytes
<1>. HIDE DEF fill
<1>6. Begins(four, Id(5), 18 + (mtu - 18))
  BY <1>0, <1>3, <1>5, BytesAppended
<1>7. four[18] = version
  <2>1. three \in Seq(Byte) /\ Len(three) = 18 /\ fill \in Seq(Byte) /\ Len(fill) \in Nat
    BY <1>0, <1>3, <1>5 DEF Begins, IsBytes
  <2>2. 18 \in 1 .. Len(three) + Len(fill) /\ 18 <= Len(three)
    BY <2>1
  <2>3. \A i \in 1 .. Len(three) + Len(fill) :
           four[i] = IF i <= Len(three) THEN three[i] ELSE fill[i - Len(three)]
    BY <2>1, ConcatProperties
  <2>4. four[18] = three[18]
    BY <2>2, <2>3
  <2>. QED  BY <1>4, <2>4
<1>. HIDE DEF four
<1>8. m = four
  BY DEF one, two, three, four, fill
<1>. QED  BY <1>0, <1>6, <1>7, <1>8

(* A request two has 34 bytes.                                             *)
LEMMA RequestTwoBytes ==
  ASSUME NEW address \in [1 .. 6 -> Byte], NEW mtu, NEW guid
  PROVE  LET m == <<Id(7)>> \o Magic \o <<Id(4)>> \o address
                    \o BigEndian(2, Number(2, mtu)) \o BigEndian(8, guid)
         IN  Begins(m, Id(7), 34)
<1>. DEFINE one == <<Id(7)>>
            two == one \o Magic
            three == two \o <<Id(4)>>
            four == three \o address
            five == four \o BigEndian(2, Number(2, mtu))
            six == five \o BigEndian(8, guid)
<1>1. Begins(one, Id(7), 1)
  BY IdFirst
<1>. HIDE DEF one
<1>2. Begins(two, Id(7), 17)
  BY <1>1, MagicBytes, BytesAppended
<1>. HIDE DEF two
<1>3. Begins(three, Id(7), 18)
  BY <1>2, IdFirst, BytesAppended
<1>. HIDE DEF three
<1>4. Begins(four, Id(7), 24)
  <2>1. IsBytes(address, 6)
    BY FunctionIsSeq DEF IsBytes
  <2>. QED  BY <1>3, <2>1, BytesAppended
<1>. HIDE DEF four
<1>5. Begins(five, Id(7), 26)
  BY <1>4, IntegerBytes, BytesAppended
<1>. HIDE DEF five
<1>6. Begins(six, Id(7), 34)
  BY <1>5, IntegerBytes, BytesAppended
<1>. QED  BY <1>6 DEF one, two, three, four, five

(* A NACK of one record.                                                   *)
LEMMA NackBytes ==
  LET m == <<Id(160)>> \o BigEndian(2, Id(1)) \o <<Id(1)>> \o LittleEndian(3, Id(0))
  IN  Begins(m, Id(160), 7)
<1>. DEFINE one == <<Id(160)>>
            two == one \o BigEndian(2, Id(1))
            three == two \o <<Id(1)>>
            four == three \o LittleEndian(3, Id(0))
<1>1. Begins(one, Id(160), 1)
  BY IdFirst
<1>. HIDE DEF one
<1>2. Begins(two, Id(160), 3)
  BY <1>1, IntegerBytes, BytesAppended
<1>. HIDE DEF two
<1>3. Begins(three, Id(160), 4)
  BY <1>2, IdFirst, BytesAppended
<1>. HIDE DEF three
<1>4. Begins(four, Id(160), 7)
  BY <1>3, IntegerBytes, BytesAppended
<1>. QED  BY <1>4 DEF one, two, three

-----------------------------------------------------------------------------
FrameOf(p, k) == PeerFrame(p.frames[k].rely, p.frames[k].info)

(* Where each frame of a packet ends, and the next one begins.             *)
Layout(p, m, f) ==
  /\ f \in [0 .. Len(p.frames) -> Nat]
  /\ f[0] = 4 /\ f[Len(p.frames)] = Len(m)
  /\ \A k \in 1 .. Len(p.frames) :
        f[k] = f[k - 1] + Len(FrameOf(p, k)) /\ Carries(m, f[k - 1], FrameOf(p, k))

(* A datagram of frames, and its number.                                   *)
LEMMA FramesPacket ==
  ASSUME NEW p, InFull(p), p.kind = "frames"
  PROVE  /\ p.num \in Nat /\ p.num < 2 ^ 24
         /\ p.frames \in Seq([rely : 0 .. 4, info : PeerInfo])
         /\ PeerPacket(p) = PeerFrameSet(132, Number(3, p.num), p.frames)
<1>1. p \in [kind : {"frames"}, num : 0 .. 2 ^ 24 - 1,
             frames : Seq([rely : 0 .. 4, info : PeerInfo])]
  BY DEF InFull, ClientPacket
<1>2. p.num \in 0 .. 2 ^ 24 - 1
  BY <1>1
<1>3. PeerPacket(p) = PeerFrameSet(132, Number(3, p.num), p.frames)
  BY DEF PeerPacket
<1>4. p.num \in Nat /\ p.num < 2 ^ 24
  BY <1>2
<1>. QED  BY <1>1, <1>3, <1>4

(* The datagram of a client has such a layout, and begins with its id.     *)
LEMMA FramesLaidOut ==
  ASSUME NEW p, InFull(p), p.kind = "frames"
  PROVE  /\ PeerPacket(p) \in Seq(Byte) /\ Len(PeerPacket(p)) >= 4
         /\ PeerPacket(p)[1] = Id(132)
         /\ \E f : Layout(p, PeerPacket(p), f)
<1>. DEFINE n == Len(p.frames)
            fs == [k \in DOMAIN p.frames |-> PeerFrame(p.frames[k].rely, p.frames[k].info)]
            head == <<Id(132)>> \o LittleEndian(3, Number(3, p.num))
            m == PeerPacket(p)
<1>1. n \in Nat /\ DOMAIN p.frames = 1 .. n
      /\ \A k \in 1 .. n : /\ p.frames[k] \in [rely : 0 .. 4, info : PeerInfo]
                           /\ WholeFrame(p.frames[k].rely, p.frames[k].info)
  <2>1. p.frames \in Seq([rely : 0 .. 4, info : PeerInfo])
    BY FramesPacket
  <2>2. n \in Nat /\ DOMAIN p.frames = 1 .. n
    BY <2>1, LenProperties
  <2>3. \A k \in DOMAIN p.frames : WholeFrame(p.frames[k].rely, p.frames[k].info)
    BY DEF InFull
  <2>. QED  BY <2>1, <2>2, <2>3, ElementOfSeq
<1>2. m = head \o FlattenSeq(fs)
  BY FramesPacket DEF PeerFrameSet
<1>3. fs \in Seq(Seq(Byte)) /\ Len(fs) = n /\ \A k \in 1 .. n : fs[k] = FrameOf(p, k)
  <2>1. \A k \in 1 .. n : PeerFrame(p.frames[k].rely, p.frames[k].info) \in Seq(Byte)
    BY <1>1, FrameBytes
  <2>2. fs \in [1 .. n -> Seq(Byte)] /\ \A k \in 1 .. n : fs[k] = FrameOf(p, k)
    BY <1>1, <2>1 DEF FrameOf
  <2>. HIDE DEF fs
  <2>. QED  BY <1>1, <2>2, FunctionIsSeq
<1>4. Begins(head, Id(132), 4)
  <2>1. Begins(<<Id(132)>>, Id(132), 1)
    BY IdFirst
  <2>2. IsBytes(LittleEndian(3, Number(3, p.num)), 3)
    BY IntegerBytes
  <2>. QED  BY <2>1, <2>2, BytesAppended
<1>. HIDE DEF fs, head, m, n
<1>5. FlattenSeq(fs) \in Seq(Byte)
  BY <1>3, FlattenParts
<1>6. PICK g \in [0 .. n -> Nat] :
         /\ g[0] = 0 /\ g[n] = Len(FlattenSeq(fs))
         /\ \A k \in 1 .. n : /\ g[k] = g[k - 1] + Len(fs[k])
                              /\ Carries(FlattenSeq(fs), g[k - 1], fs[k])
  BY <1>3, FlattenParts
<1>7. /\ m \in Seq(Byte) /\ Len(m) = 4 + Len(FlattenSeq(fs))
      /\ Len(FlattenSeq(fs)) \in Nat
      /\ m[1] = Id(132) /\ head \in Seq(Byte) /\ Len(head) = 4
  <2>1. head \in Seq(Byte) /\ Len(head) = 4 /\ 1 \in 1 .. Len(head) + Len(FlattenSeq(fs))
        /\ Len(FlattenSeq(fs)) \in Nat
    BY <1>4, <1>5, LenProperties DEF Begins, IsBytes
  <2>2. /\ head \o FlattenSeq(fs) \in Seq(Byte)
        /\ Len(head \o FlattenSeq(fs)) = Len(head) + Len(FlattenSeq(fs))
        /\ (head \o FlattenSeq(fs))[1] = head[1]
    <3>. DEFINE fl == FlattenSeq(fs)
    <3>. HIDE DEF fl
    <3>1. fl \in Seq(Byte)
      BY <1>5 DEF fl
    <3>2. /\ head \o fl \in Seq(Byte) /\ Len(head \o fl) = Len(head) + Len(fl)
          /\ (head \o fl)[1] = head[1]
      <4>1. 1 \in 1 .. Len(head) + Len(fl)
        BY <2>1 DEF fl
      <4>2. \A i \in 1 .. Len(head) + Len(fl) :
               (head \o fl)[i] = IF i <= Len(head) THEN head[i] ELSE fl[i - Len(head)]
        BY <2>1, <3>1, ConcatProperties
      <4>3. (head \o fl)[1] = head[1]
        BY <2>1, <4>1, <4>2
      <4>. QED  BY <2>1, <3>1, <4>3, ConcatProperties
    <3>. QED  BY <3>2 DEF fl
  <2>. QED  BY <1>2, <1>4, <2>1, <2>2 DEF Begins
<1>. DEFINE f == [k \in 0 .. n |-> 4 + g[k]]
<1>8. f \in [0 .. n -> Nat] /\ f[0] = 4 /\ f[n] = Len(m)
  <2>1. 0 \in 0 .. n /\ n \in 0 .. n
    BY <1>1
  <2>. QED  BY <1>6, <1>7, <2>1
<1>9. ASSUME NEW k \in 1 .. n
      PROVE  f[k] = f[k - 1] + Len(FrameOf(p, k)) /\ Carries(m, f[k - 1], FrameOf(p, k))
  <2>1. k \in 0 .. n /\ k - 1 \in 0 .. n
    BY <1>1
  <2>2. fs[k] = FrameOf(p, k) /\ fs[k] \in Seq(Byte) /\ Len(fs[k]) \in Nat
    BY <1>3, ElementOfSeq, LenProperties
  <2>3. f[k] = 4 + g[k] /\ f[k - 1] = 4 + g[k - 1] /\ g[k] \in Nat /\ g[k - 1] \in Nat
    BY <1>6, <2>1
  <2>4. g[k] = g[k - 1] + Len(fs[k]) /\ Carries(FlattenSeq(fs), g[k - 1], fs[k])
    BY <1>6
  <2>. HIDE DEF f
  <2>5. f[k] = f[k - 1] + Len(fs[k])
    BY <2>2, <2>3, <2>4
  <2>6. Carries(head \o FlattenSeq(fs), Len(head) + g[k - 1], fs[k])
    BY <1>5, <1>7, <2>2, <2>4, CarriesShifted
  <2>. QED  BY <1>2, <1>7, <2>2, <2>3, <2>5, <2>6
<1>. HIDE DEF f
<1>10. Layout(p, m, f)
  BY <1>8, <1>9 DEF Layout, n
<1>11. m \in Seq(Byte) /\ Len(m) >= 4 /\ m[1] = Id(132)
  BY <1>7
<1>. QED  BY <1>10, <1>11 DEF m

(* Whatever is read as an integer of w bytes is one.                       *)
LEMMA ReadIsWord ==
  ASSUME NEW w \in Nat \ {0}, NEW bytes, NEW m
  PROVE  ReadIntegral(w, bytes, m) \in Word(w)
<1>. DEFINE u == UNION {Cast(w, ShiftedByte(bytes[x + 1], 8 * x, m)) : x \in 0 .. w - 1}
<1>1. \A x \in 0 .. w - 1 : Cast(w, ShiftedByte(bytes[x + 1], 8 * x, m)) \subseteq Bits(w)
  BY DEF Cast
<1>2. u \in Word(w)
  BY <1>1 DEF Word
<1>. HIDE DEF u
<1>3. byteswap(w, u) \in Word(w)
  BY <1>2, ByteswapTwice
<1>. QED  BY <1>3 DEF ReadIntegral, u

(* What is in the datagram of each kind of packet.                         *)
OfflineKinds == {"ping", "open_ping", "request_one", "request_two"}

(* Every packet of a client is a sequence of bytes, which begins with the  *)
(* id of its kind and is as long as the reader takes for granted.          *)
LEMMA PacketBytes ==
  ASSUME NEW p \in ClientPackets
  PROVE  /\ p.kind \in OfflineKinds \cup {"nack", "frames"}
         /\ p.kind = "ping" => Begins(PeerPacket(p), Id(1), 33)
         /\ p.kind = "open_ping" => Begins(PeerPacket(p), Id(2), 33)
         /\ p.kind = "request_one" =>
              /\ p.mtu \in Nat /\ p.mtu >= MinMtu /\ p.version \in Byte
              /\ Begins(PeerPacket(p), Id(5), p.mtu) /\ PeerPacket(p)[18] = p.version
         /\ p.kind = "request_two" => Begins(PeerPacket(p), Id(7), 34)
         /\ p.kind = "nack" => Begins(PeerPacket(p), Id(160), 7)
         /\ p.kind = "frames" => PeerPacket(p)[1] = Id(132)
         /\ PeerPacket(p) \in Seq(Byte) /\ Len(PeerPacket(p)) \in 0 .. BlockSize
<1>1. InFull(p) /\ p \in ClientPacket
  BY PacketsAssumption DEF InFull
<1>2. p.kind \in OfflineKinds \cup {"nack", "frames"}
  BY <1>1 DEF ClientPacket, OfflineKinds
<1>3. ASSUME p.kind = "ping"
      PROVE  Begins(PeerPacket(p), Id(1), 33)
  <2>1. PeerPacket(p) = <<Id(1)>> \o BigEndian(8, p.time) \o Magic \o BigEndian(8, p.guid)
    BY <1>3 DEF PeerPacket
  <2>. QED  BY <2>1, PingBytes
<1>4. ASSUME p.kind = "open_ping"
      PROVE  Begins(PeerPacket(p), Id(2), 33)
  <2>1. PeerPacket(p) = <<Id(2)>> \o BigEndian(8, p.time) \o Magic \o BigEndian(8, p.guid)
    BY <1>4 DEF PeerPacket
  <2>. QED  BY <2>1, PingBytes
<1>5. ASSUME p.kind = "request_one"
      PROVE  /\ p.mtu \in Nat /\ p.mtu >= MinMtu /\ p.version \in Byte
             /\ Begins(PeerPacket(p), Id(5), p.mtu) /\ PeerPacket(p)[18] = p.version
  <2>1. p.mtu \in MinMtu .. BlockSize /\ p.version \in Byte
    BY <1>1, <1>5 DEF ClientPacket
  <2>2. p.mtu \in Nat /\ p.mtu >= MinMtu
    BY <2>1 DEF MinMtu
  <2>3. PeerPacket(p) = <<Id(5)>> \o Magic \o <<p.version>> \o [i \in 1 .. p.mtu - 18 |-> {}]
    BY <1>5 DEF PeerPacket
  <2>. DEFINE mtu == p.mtu
              version == p.version
              m == PeerPacket(p)
  <2>. HIDE DEF mtu, version, m
  <2>4. mtu \in Nat /\ mtu >= MinMtu /\ version \in Byte
        /\ m = <<Id(5)>> \o Magic \o <<version>> \o [i \in 1 .. mtu - 18 |-> {}]
    BY <2>1, <2>2, <2>3 DEF mtu, version, m
  <2>5. Begins(m, Id(5), mtu) /\ m[18] = version
    BY <2>4, RequestOneBytes
  <2>. QED  BY <2>1, <2>2, <2>5 DEF mtu, version, m
<1>6. ASSUME p.kind = "request_two"
      PROVE  Begins(PeerPacket(p), Id(7), 34)
  <2>1. p.address \in [1 .. 6 -> Byte]
    BY <1>1, <1>6 DEF ClientPacket
  <2>2. PeerPacket(p) = <<Id(7)>> \o Magic \o <<Id(4)>> \o p.address
                          \o BigEndian(2, Number(2, p.mtu)) \o BigEndian(8, p.guid)
    BY <1>6 DEF PeerPacket
  <2>. QED  BY <2>1, <2>2, RequestTwoBytes
<1>7. ASSUME p.kind = "nack"
      PROVE  Begins(PeerPacket(p), Id(160), 7)
  <2>1. PeerPacket(p)
          = <<Id(160)>> \o BigEndian(2, Id(1)) \o <<Id(1)>> \o LittleEndian(3, Id(0))
    BY <1>7 DEF PeerPacket
  <2>. QED  BY <2>1, NackBytes
<1>8. ASSUME p.kind = "frames"
      PROVE  PeerPacket(p)[1] = Id(132) /\ PeerPacket(p) \in Seq(Byte)
  BY <1>1, <1>8, FramesLaidOut
<1>9. PeerPacket(p) \in Seq(Byte)
  BY <1>2, <1>3, <1>4, <1>5, <1>6, <1>7, <1>8 DEF OfflineKinds, Begins, IsBytes
<1>10. Len(PeerPacket(p)) \in Nat /\ Len(PeerPacket(p)) <= BlockSize
  BY <1>1, <1>9, LenProperties DEF InFull
<1>11. Len(PeerPacket(p)) \in 0 .. BlockSize
  BY <1>10, ServerAssumption
<1>. QED  BY <1>2, <1>3, <1>4, <1>5, <1>6, <1>7, <1>8, <1>9, <1>11

(* Which of them the server takes for offline ones.                        *)
LEMMA PacketSorted ==
  ASSUME NEW p \in ClientPackets
  PROVE  /\ is_trivial_packet(PeerPacket(p)[1]) <=> p.kind \in OfflineKinds
         /\ PeerPacket(p)[1] = Id(1) => p.kind = "ping"
         /\ PeerPacket(p)[1] = Id(2) => p.kind = "open_ping"
         /\ PeerPacket(p)[1] = Id(5) => p.kind = "request_one"
         /\ PeerPacket(p)[1] = Id(7) => p.kind = "request_two"
<1>1. /\ p.kind = "ping" => PeerPacket(p)[1] = Id(1)
      /\ p.kind = "open_ping" => PeerPacket(p)[1] = Id(2)
      /\ p.kind = "request_one" => PeerPacket(p)[1] = Id(5)
      /\ p.kind = "request_two" => PeerPacket(p)[1] = Id(7)
      /\ p.kind = "nack" => PeerPacket(p)[1] = Id(160)
      /\ p.kind = "frames" => PeerPacket(p)[1] = Id(132)
  BY PacketBytes DEF Begins
<1>2. /\ NumberOf(Id(1)) = 1 /\ NumberOf(Id(2)) = 2 /\ NumberOf(Id(5)) = 5
      /\ NumberOf(Id(7)) = 7 /\ NumberOf(Id(132)) = 132 /\ NumberOf(Id(160)) = 160
  BY NarrowNumber DEF Id
<1>4. p.kind \in {"ping", "open_ping", "request_one", "request_two", "nack", "frames"}
  BY PacketBytes DEF OfflineKinds
<1>. DEFINE number == NumberOf(PeerPacket(p)[1])
<1>5. /\ p.kind = "ping" => number = 1
      /\ p.kind = "open_ping" => number = 2
      /\ p.kind = "request_one" => number = 5
      /\ p.kind = "request_two" => number = 7
      /\ p.kind = "nack" => number = 160
      /\ p.kind = "frames" => number = 132
  BY <1>1, <1>2
<1>6. /\ PeerPacket(p)[1] = Id(1) => number = 1
      /\ PeerPacket(p)[1] = Id(2) => number = 2
      /\ PeerPacket(p)[1] = Id(5) => number = 5
      /\ PeerPacket(p)[1] = Id(7) => number = 7
  BY <1>2
<1>. HIDE DEF number
<1>7. /\ number = 1 => p.kind = "ping"
      /\ number = 2 => p.kind = "open_ping"
      /\ number = 5 => p.kind = "request_one"
      /\ number = 7 => p.kind = "request_two"
  BY <1>4, <1>5
<1>. QED  BY <1>1, <1>4, <1>6, <1>7 DEF is_trivial_packet, OfflineKinds

(* Id(132) is that of a frame set, and Id(160) is not.                     *)
LEMMA IdNumbers == NumberOf(Id(132)) = 132 /\ NumberOf(Id(160)) = 160
BY NarrowNumber DEF Id

-----------------------------------------------------------------------------
(***************************************************************************)
(* The inductive invariant.  The five properties of WireFormat look at     *)
(* what was read and sent; that it will go on like this needs that the     *)
(* buffer still is the datagram the client sent (Whole), that an offline   *)
(* packet is read from its beginning (Untouched) by who can read it        *)
(* (Sorted), and that the loop stands where a frame begins, or at the end  *)
(* (AtFrame).                                                              *)
(***************************************************************************)
Before ==
  pc = "receive" => /\ memory = <<>> /\ size = 0 /\ index = 0
                    /\ request = NoRequest /\ understood = <<>> /\ reply = <<>>

Whole ==
  pc \in {"handle", "route", "frames"} =>
    memory = PeerPacket(request) /\ size = Len(memory)

Untouched ==
  pc \in {"handle", "route"} => index = 0 /\ understood = <<>> /\ reply = <<>>

Sorted ==
  /\ pc # "receive" => request \in ClientPackets
  /\ pc = "handle" => request.kind \in OfflineKinds
  /\ pc = "route" => request.kind \in {"frames", "nack"}
  /\ pc = "frames" => request.kind = "frames"

FramesUnderstood ==
  request.kind = "frames" =>
    /\ understood \in Seq(PeerInfo)
    /\ Len(understood) <= Len(request.frames)
    /\ \A k \in DOMAIN understood : understood[k] = request.frames[k].info

(* Without the second part a loop that read a last frame of four bytes     *)
(* would be in the invariant as well.                                      *)
AtFrame ==
  pc = "frames" =>
    /\ \E f : Layout(request, memory, f) /\ index = f[Len(understood)]
    /\ Len(understood) = Len(request.frames) /\ request.frames # <<>> =>
         Len(FrameOf(request, Len(understood))) > 4

WireInv ==
  /\ TypeOK /\ Before /\ Whole /\ Untouched /\ Sorted /\ FramesUnderstood /\ AtFrame
  /\ NothingThrows /\ OfflineRepliesReadable /\ FramesSplit /\ FramedRepliesReadable

(* In the beginning there is no datagram.                                  *)
LEMMA WireInit == Init => WireInv
<1>. SUFFICES ASSUME Init PROVE WireInv
  OBVIOUS
<1>1. TypeOK
  <2>1. 0 \in 0 .. 2 ^ 24 - 1
    OBVIOUS
  <2>. QED  BY <2>1, ServerAssumption, EmptySeq DEF Init, TypeOK, NoRequest
<1>2. Before /\ Whole /\ Untouched /\ Sorted /\ FramesUnderstood /\ AtFrame
  BY DEF Init, Before, Whole, Untouched, Sorted, FramesUnderstood, AtFrame,
     NoRequest, Nothing
<1>3. NothingThrows /\ OfflineRepliesReadable /\ FramesSplit /\ FramedRepliesReadable
  BY DEF Init, NothingThrows, OfflineRepliesReadable, FramesSplit, FramedRepliesReadable,
         NoRequest, Nothing
<1>. QED  BY <1>1, <1>2, <1>3 DEF WireInv

-----------------------------------------------------------------------------
(* The offline packets.                                                    *)

(* A reply that fits into the block is written there, and what is sent is  *)
(* just the reply, whatever was in the block before.                       *)
LEMMA ReplySent ==
  ASSUME memory \in Seq(Byte), NEW read, NEW bytes, NEW n \in Nat, IsBytes(bytes, n),
         n <= BlockSize, Answer(read, bytes)
  PROVE  /\ memory' \in Seq(Byte) /\ size' = BlockSize /\ index' = n /\ n <= BlockSize
         /\ reply' = bytes /\ pc' = "done"
<1>1. bytes \in Seq(Byte) /\ Len(bytes) = n /\ BlockSize \in Nat
      /\ \A i \in 1 .. n : bytes[i] \in Byte
  BY ServerAssumption, ElementOfSeq DEF IsBytes
<1>2. ~(clear(read) + Len(bytes) > clearedSize)
  BY <1>1 DEF clear, clearedSize
<1>3. /\ memory' = Overwrite(0, bytes) /\ index' = n /\ size' = BlockSize
      /\ reply' = SubSeq(memory', 1, n) /\ pc' = "done"
  BY <1>1, <1>2 DEF Answer, clear, clearedSize
<1>4. Len(memory) \in Nat /\ \A i \in 1 .. Len(memory) : memory[i] \in Byte
  BY LenProperties, ElementOfSeq
<1>. DEFINE l == Max({Len(memory), n})
<1>5. l \in Nat /\ l >= n /\ l \in {Len(memory), n}
  <2>1. \E x \in {Len(memory), n} : \A y \in {Len(memory), n} : x >= y
    BY <1>4
  <2>2. l \in {Len(memory), n} /\ \A y \in {Len(memory), n} : l >= y
    BY <2>1 DEF Max
  <2>. QED  BY <1>4, <2>2
<1>6. memory' = [i \in 1 .. l |-> IF i <= n THEN bytes[i] ELSE memory[i]]
  <2>1. \A i \in 1 .. Max({Len(memory), 0 + Len(bytes)}) :
           (i > 0 /\ i <= 0 + Len(bytes) <=> i <= n) /\ i - 0 = i
    BY <1>1, <1>5
  <2>2. 0 + Len(bytes) = n
    BY <1>1
  <2>. QED  BY <1>3, <2>1, <2>2 DEF Overwrite
<1>. HIDE DEF l
<1>7. memory' \in [1 .. l -> Byte]
  <2>1. \A i \in 1 .. l : (IF i <= n THEN bytes[i] ELSE memory[i]) \in Byte
    <3>. TAKE i \in 1 .. l
    <3>1. CASE i <= n
      BY <1>1, <1>5, <3>1
    <3>2. CASE ~(i <= n)
      BY <1>4, <1>5, <3>2
    <3>. QED  BY <3>1, <3>2
  <2>. QED  BY <1>6, <2>1
<1>8. memory' \in Seq(Byte) /\ Len(memory') = l
  BY <1>5, <1>7, FunctionIsSeq
<1>9. Carries(memory', 0, bytes)
  <2>1. \A j \in 1 .. n : j \in 1 .. l /\ memory'[j] = bytes[j]
    BY <1>5, <1>6
  <2>2. \A j \in 1 .. n : 0 + j = j
    OBVIOUS
  <2>. QED  BY <1>1, <1>5, <1>8, <2>1, <2>2 DEF Carries
<1>10. SubSeq(memory', 0 + 1, 0 + Len(bytes)) = bytes
  BY <1>1, <1>9, CarriesSubSeq
<1>. QED  BY <1>1, <1>3, <1>8, <1>10

(* Receive: a new datagram, of which nothing was understood.               *)
LEMMA WireReceive ==
  ASSUME WireInv, Receive
  PROVE  WireInv'
<1>1. PICK p \in ClientPackets :
         /\ request' = p /\ memory' = PeerPacket(p) /\ size' = Len(PeerPacket(p))
         /\ pc' = IF is_trivial_packet(PeerPacket(p)[1]) THEN "handle" ELSE "route"
         /\ next_expected_seq' = IF p.kind = "frames" THEN p.num ELSE 0
  BY DEF Receive
<1>2. pc = "receive" /\ index' = 0 /\ understood' = <<>> /\ reply' = <<>>
  BY DEF Receive, WireInv, Before
<1>3. /\ p.kind \in OfflineKinds \cup {"nack", "frames"}
      /\ PeerPacket(p) \in Seq(Byte) /\ Len(PeerPacket(p)) \in 0 .. BlockSize
  BY PacketBytes
<1>4. \/ pc' = "handle" /\ p.kind \in OfflineKinds
      \/ pc' = "route" /\ p.kind \in {"frames", "nack"}
  <2>1. is_trivial_packet(PeerPacket(p)[1]) <=> p.kind \in OfflineKinds
    BY PacketSorted
  <2>2. p.kind \notin OfflineKinds => p.kind \in {"frames", "nack"}
    BY <1>3
  <2>. QED  BY <1>1, <2>1, <2>2
<1>5. next_expected_seq' \in 0 .. 2 ^ 24 - 1
  <2>1. CASE p.kind = "frames"
    <3>1. InFull(p)
      BY PacketsAssumption
    <3>2. p.num \in Nat /\ p.num < 2 ^ 24
      BY <2>1, <3>1, FramesPacket
    <3>. QED  BY <1>1, <2>1, <3>2
  <2>2. CASE p.kind # "frames"
    BY <1>1, <2>2
  <2>. QED  BY <2>1, <2>2
<1>6. TypeOK'
  BY <1>1, <1>2, <1>3, <1>4, <1>5, EmptySeq DEF TypeOK, OfflineKinds
<1>7. Before' /\ Whole' /\ Untouched' /\ AtFrame'
  BY <1>1, <1>2, <1>4 DEF Before, Whole, Untouched, AtFrame
<1>8. Sorted'
  BY <1>1, <1>4 DEF Sorted
<1>9. FramesUnderstood' /\ FramesSplit'
  <2>1. p.kind = "frames" => Len(p.frames) \in Nat
    BY PacketsAssumption, FramesPacket, LenProperties
  <2>2. Len(<<>>) = 0 /\ <<>> \in Seq(PeerInfo) /\ DOMAIN <<>> = {}
    BY EmptySeq
  <2>. QED  BY <1>1, <1>2, <1>4, <2>1, <2>2 DEF FramesUnderstood, FramesSplit
<1>10. NothingThrows'
  BY <1>1, <1>2, <1>3, <1>4 DEF NothingThrows
<1>11. OfflineRepliesReadable' /\ FramedRepliesReadable'
  BY <1>2 DEF OfflineRepliesReadable, FramedRepliesReadable
<1>. QED  BY <1>6, <1>7, <1>8, <1>9, <1>10, <1>11 DEF WireInv

(* NextIteration: as in the beginning.                                     *)
LEMMA WireNextIteration ==
  ASSUME WireInv, NextIteration
  PROVE  WireInv'
<1>1. Init'
  BY DEF NextIteration, Init
<1>2. WireInv'
  BY <1>1, WireInit, PTL
<1>. QED  BY <1>2

(* A step of the server that ends with an offline reply, or without one.   *)
LEMMA WireAnswered ==
  ASSUME WireInv, pc = "handle", pc' = "done", request' = request,
         next_expected_seq' = next_expected_seq,
         memory' \in Seq(Byte), size' \in 0 .. BlockSize, index' \in Nat, index' <= size',
         reply' \in Seq(Byte), OfflineRepliesReadable'
  PROVE  WireInv'
<1>1. request \in ClientPackets /\ request.kind \in OfflineKinds
  BY DEF WireInv, Sorted
<1>2. request'.kind # "frames" /\ request' \in ClientPackets
  BY <1>1 DEF OfflineKinds
<1>3. TypeOK'
  BY DEF WireInv, TypeOK
<1>4. Before' /\ Whole' /\ Untouched' /\ Sorted' /\ FramesUnderstood' /\ AtFrame'
  BY <1>2 DEF Before, Whole, Untouched, Sorted, FramesUnderstood, AtFrame
<1>5. NothingThrows' /\ FramesSplit' /\ FramedRepliesReadable'
  BY <1>2 DEF NothingThrows, FramesSplit, FramedRepliesReadable
<1>. QED  BY <1>3, <1>4, <1>5 DEF WireInv

(* UnconnectedPing: the whole of the ping is there, and so the pong is     *)
(* sent.                                                                   *)
LEMMA WireUnconnectedPing ==
  ASSUME WireInv, UnconnectedPing
  PROVE  WireInv'
<1>1. /\ pc = "handle" /\ memory = PeerPacket(request) /\ size = Len(memory)
      /\ request \in ClientPackets /\ memory[1] = Id(1) /\ memory \in Seq(Byte)
  BY DEF UnconnectedPing, WireInv, Whole, Sorted, TypeOK
<1>2. request.kind = "ping" /\ size = 33
  <2>1. request.kind = "ping"
    BY <1>1, PacketSorted
  <2>. QED  BY <1>1, <2>1, PacketBytes DEF Begins, IsBytes
<1>3. PICK time \in Clocks : Answer(33, UnconnectedPong(time))
  <2>1. bounds_check(1, 16 + 16)
    BY <1>2 DEF bounds_check
  <2>. QED  BY <2>1 DEF UnconnectedPing
<1>4. time \in Word(8) /\ Len(server_id) \in Nat /\ 35 + Len(server_id) <= BlockSize
      /\ BlockSize \in Nat
  BY ServerAssumption, LenProperties
<1>5. /\ memory' \in Seq(Byte) /\ size' = BlockSize /\ index' = 35 + Len(server_id)
      /\ reply' = UnconnectedPong(time) /\ pc' = "done"
  <2>1. IsBytes(UnconnectedPong(time), 35 + Len(server_id)) /\ 35 + Len(server_id) \in Nat
    BY <1>4, PongWritten
  <2>. QED  BY <1>1, <1>3, <1>4, <2>1, ReplySent
<1>6. reply' = PeerPong(time) /\ reply' \in Seq(Byte)
  BY <1>4, <1>5, PongWritten DEF IsBytes
<1>7. request' = request /\ next_expected_seq' = next_expected_seq
  BY DEF UnconnectedPing
<1>8. OfflineRepliesReadable'
  BY <1>2, <1>6, <1>7 DEF OfflineRepliesReadable
<1>9. size' \in 0 .. BlockSize /\ index' \in Nat /\ index' <= size'
  BY <1>4, <1>5
<1>. QED  BY <1>1, <1>5, <1>6, <1>7, <1>8, <1>9, WireAnswered

(* OpenConnectionRequest1: there are as many bytes as the MTU, of which    *)
(* RakNet's least is greater than the 100 that the server asks for.        *)
LEMMA WireRequest1 ==
  ASSUME WireInv, OpenConnectionRequest1
  PROVE  WireInv'
<1>1. /\ pc = "handle" /\ memory = PeerPacket(request) /\ size = Len(memory)
      /\ request \in ClientPackets /\ memory[1] = Id(5) /\ memory \in Seq(Byte)
  BY DEF OpenConnectionRequest1, WireInv, Whole, Sorted, TypeOK
<1>2. request.kind = "request_one"
  BY <1>1, PacketSorted
<1>3. /\ request.mtu \in Nat /\ request.mtu >= 400 /\ request.version \in Byte
      /\ size = request.mtu /\ memory[18] = request.version
  BY <1>1, <1>2, PacketBytes DEF Begins, IsBytes, MinMtu
<1>. DEFINE answer == IF request.version # protocol_version
                      THEN IncompatibleProtocol(request.version)
                      ELSE OpenConnectionReply1(Number(2, size))
            n == IF request.version # protocol_version THEN 26 ELSE 28
<1>4. Answer(size, answer)
  <2>1. bounds_check(1, 100)
    BY <1>3 DEF bounds_check
  <2>. QED  BY <1>3, <2>1 DEF OpenConnectionRequest1
<1>5. IsBytes(answer, n) /\ n \in Nat
      /\ answer = IF request.version # protocol_version
                  THEN PeerIncompatible(request.version)
                  ELSE PeerReplyOne(request.mtu)
  BY <1>3, IncompatibleWritten, ReplyOneWritten
<1>. HIDE DEF answer
<1>6. n <= BlockSize /\ BlockSize \in Nat
  BY ServerAssumption, LenProperties
<1>. HIDE DEF n
<1>7. /\ memory' \in Seq(Byte) /\ size' = BlockSize /\ index' = n
      /\ reply' = answer /\ pc' = "done"
  BY <1>1, <1>4, <1>5, <1>6, ReplySent
<1>8. request' = request /\ next_expected_seq' = next_expected_seq
  BY DEF OpenConnectionRequest1
<1>9. OfflineRepliesReadable'
  BY <1>2, <1>5, <1>7, <1>8 DEF OfflineRepliesReadable
<1>10. size' \in 0 .. BlockSize /\ index' \in Nat /\ index' <= size'
       /\ reply' \in Seq(Byte)
  BY <1>5, <1>6, <1>7 DEF IsBytes
<1>. QED  BY <1>1, <1>7, <1>8, <1>9, <1>10, WireAnswered

(* OpenConnectionRequest2: with or without a reply.                        *)
LEMMA WireRequest2 ==
  ASSUME WireInv, OpenConnectionRequest2
  PROVE  WireInv'
<1>1. /\ pc = "handle" /\ memory = PeerPacket(request) /\ size = Len(memory)
      /\ request \in ClientPackets /\ memory[1] = Id(7) /\ memory \in Seq(Byte)
      /\ reply = <<>> /\ size \in 0 .. BlockSize
  BY DEF OpenConnectionRequest2, WireInv, Whole, Sorted, TypeOK, Untouched
<1>2. request.kind = "request_two"
  BY <1>1, PacketSorted
<1>3. size = 34
  BY <1>1, <1>2, PacketBytes DEF Begins, IsBytes
<1>. DEFINE mtu == ReadIntegral(2, Slice(AfterAddress, 2), 32)
            answer == OpenConnectionReply2(mtu)
<1>4. mtu \in Word(2)
  BY ReadIsWord
<1>5. /\ \E m \in ShiftModuli :
            understood' = <<mtu, ReadIntegral(8, Slice(AfterAddress + 2, 8), m)>>
      /\ \/ Answer(AfterAddress + 10, answer)
         \/ /\ pc' = "done" /\ index' = AfterAddress + 10
            /\ UNCHANGED <<memory, size, reply>>
  <2>1. bounds_check(1, 33)
    BY <1>3 DEF bounds_check
  <2>. QED  BY <2>1 DEF OpenConnectionRequest2
<1>. HIDE DEF mtu
<1>6. understood'[1] = mtu
  BY <1>5
<1>7. request' = request /\ next_expected_seq' = next_expected_seq
  BY DEF OpenConnectionRequest2
<1>8. /\ IsBytes(answer, 35)
      /\ answer = PeerReplyTwo(mtu, IpAsRead, PortAsRead)
  BY <1>4, ReplyTwoWritten
<1>. HIDE DEF answer
<1>9. CASE Answer(AfterAddress + 10, answer)
  <2>1. 35 <= BlockSize /\ BlockSize \in Nat
    BY ServerAssumption, LenProperties
  <2>2. /\ memory' \in Seq(Byte) /\ size' = BlockSize /\ index' = 35
        /\ reply' = answer /\ pc' = "done"
    BY <1>1, <1>8, <1>9, <2>1, ReplySent
  <2>3. OfflineRepliesReadable'
    BY <1>2, <1>6, <1>7, <1>8, <2>2 DEF OfflineRepliesReadable
  <2>4. size' \in 0 .. BlockSize /\ index' \in Nat /\ index' <= size'
        /\ reply' \in Seq(Byte)
    BY <1>8, <2>1, <2>2 DEF IsBytes
  <2>. QED  BY <1>1, <1>7, <2>2, <2>3, <2>4, WireAnswered
<1>10. CASE pc' = "done" /\ index' = AfterAddress + 10 /\ UNCHANGED <<memory, size, reply>>
  <2>1. OfflineRepliesReadable'
    BY <1>1, <1>10 DEF OfflineRepliesReadable
  <2>2. index' = 27 /\ index' <= size'
    BY <1>3, <1>10 DEF AfterAddress
  <2>3. reply' \in Seq(Byte)
    BY <1>1, <1>10, EmptySeq
  <2>. QED  BY <1>1, <1>7, <1>10, <2>1, <2>2, <2>3, WireAnswered
<1>. QED  BY <1>5, <1>9, <1>10

-----------------------------------------------------------------------------
(* The frame sets.                                                         *)

(* OtherPacket: nothing changes, and it was not a frame set.               *)
LEMMA WireOtherPacket ==
  ASSUME WireInv, OtherPacket
  PROVE  WireInv'
<1>1. /\ pc \in {"handle", "route"} /\ pc' = "done" /\ memory = PeerPacket(request)
      /\ request \in ClientPackets /\ reply = <<>>
      /\ UNCHANGED <<memory, size, index, next_expected_seq, request, understood, reply>>
  BY DEF OtherPacket, WireInv, Whole, Sorted, Untouched
<1>2. request.kind # "frames"
  <2>1. CASE pc = "handle"
    BY <2>1 DEF WireInv, Sorted, OfflineKinds
  <2>2. CASE pc = "route"
    <3>1. NumberOf(memory[1]) > 141
      BY <2>2 DEF OtherPacket
    <3>2. request.kind = "frames" => memory[1] = Id(132)
      BY <1>1, PacketBytes
    <3>3. NumberOf(Id(132)) = 132
      BY IdNumbers
    <3>. QED  BY <3>1, <3>2, <3>3
  <2>. QED  BY <1>1, <2>1, <2>2
<1>3. TypeOK'
  BY <1>1 DEF WireInv, TypeOK
<1>4. Before' /\ Whole' /\ Untouched' /\ Sorted' /\ FramesUnderstood' /\ AtFrame'
  BY <1>1, <1>2 DEF Before, Whole, Untouched, Sorted, FramesUnderstood, AtFrame
<1>5. NothingThrows' /\ FramesSplit' /\ FramedRepliesReadable' /\ OfflineRepliesReadable'
  BY <1>1, <1>2 DEF WireInv, NothingThrows, FramesSplit, FramedRepliesReadable,
                    OfflineRepliesReadable
<1>. QED  BY <1>3, <1>4, <1>5 DEF WireInv

(* Every octet is a number.                                                *)
LEMMA NumberIsNat ==
  ASSUME NEW v
  PROVE  NumberOf(v) \in Nat
<1>1. ASSUME NEW byte
      PROVE  OctetValue(byte) \in Nat
  <2>. DEFINE bit(i) == IF i \in byte THEN 2 ^ i ELSE 0
  <2>1. /\ bit(0) \in Nat /\ bit(1) \in Nat /\ bit(2) \in Nat /\ bit(3) \in Nat
        /\ bit(4) \in Nat /\ bit(5) \in Nat /\ bit(6) \in Nat /\ bit(7) \in Nat
    OBVIOUS
  <2>2. OctetValue(byte)
          = bit(0) + bit(1) + bit(2) + bit(3) + bit(4) + bit(5) + bit(6) + bit(7)
    BY DEF OctetValue
  <2>. HIDE DEF bit
  <2>. QED  BY <2>1, <2>2
<1>. DEFINE x == OctetValue(Octet(v, 0))
            y == OctetValue(Octet(v, 1))
            z == OctetValue(Octet(v, 2))
<1>2. x \in Nat /\ y \in Nat /\ z \in Nat /\ NumberOf(v) = x + 2 ^ 8 * y + 2 ^ 16 * z
  BY <1>1 DEF NumberOf
<1>. HIDE DEF x, y, z
<1>. QED  BY <1>2

(* FrameHeader: the loop begins at the first frame.                        *)
LEMMA WireFrameHeader ==
  ASSUME WireInv, FrameHeader
  PROVE  WireInv'
<1>1. /\ pc = "route" /\ memory = PeerPacket(request) /\ size = Len(memory)
      /\ request \in ClientPackets /\ reply = <<>> /\ understood = <<>>
      /\ NumberOf(memory[1]) <= 141 /\ index' = 4 /\ pc' = "frames"
      /\ UNCHANGED <<memory, size, request, understood, reply>>
  BY DEF FrameHeader, WireInv, Whole, Sorted, Untouched
<1>2. request.kind = "frames"
  <2>1. request.kind \in {"frames", "nack"}
    BY <1>1 DEF WireInv, Sorted
  <2>2. request.kind = "nack" => memory[1] = Id(160)
    BY <1>1, PacketBytes DEF Begins
  <2>. QED  BY <1>1, <2>1, <2>2, IdNumbers
<1>3. InFull(request)
  BY <1>1, PacketsAssumption
<1>4. request.frames \in Seq([rely : 0 .. 4, info : PeerInfo])
      /\ Len(request.frames) \in Nat
  BY <1>2, <1>3, FramesPacket, LenProperties
<1>5. /\ Len(memory) >= 4
      /\ \E f : Layout(request, memory, f)
  BY <1>1, <1>2, <1>3, FramesLaidOut
<1>6. next_expected_seq' \in 0 .. 2 ^ 24 - 1
  <2>. DEFINE n == sequence_number
  <2>1. n \in Nat
    BY NumberIsNat DEF sequence_number
  <2>2. next_expected_seq' = NextNumber(n)
    BY DEF FrameHeader
  <2>. HIDE DEF n
  <2>. QED  BY <2>1, <2>2 DEF NextNumber
<1>7. TypeOK'
  BY <1>1, <1>6 DEF WireInv, TypeOK
<1>8. Before' /\ Whole' /\ Untouched' /\ Sorted'
  BY <1>1, <1>2 DEF Before, Whole, Untouched, Sorted
<1>9. FramesUnderstood'
  BY <1>1 DEF WireInv, FramesUnderstood
<1>10. AtFrame'
  <2>1. PICK f : Layout(request, memory, f)
    BY <1>5
  <2>2. Layout(request', memory', f) /\ index' = f[Len(understood')]
    BY <1>1, <2>1, EmptySeq DEF Layout
  <2>3. ~(Len(understood') = Len(request'.frames) /\ request'.frames # <<>>)
    BY <1>1, <1>4, EmptySeq
  <2>. QED  BY <2>2, <2>3 DEF AtFrame
<1>11. NothingThrows'
  <2>1. size \in Nat
    BY DEF WireInv, TypeOK
  <2>. QED  BY <1>1, <1>5, <2>1 DEF NothingThrows
<1>12. FramesSplit'
  BY <1>1 DEF WireInv, FramesSplit
<1>13. OfflineRepliesReadable' /\ FramedRepliesReadable'
  BY <1>1 DEF OfflineRepliesReadable, FramedRepliesReadable
<1>. QED  BY <1>7, <1>8, <1>9, <1>10, <1>11, <1>12, <1>13 DEF WireInv

(* What is known of a datagram of frames.                                  *)
LEMMA FramesAtHand ==
  ASSUME WireInv, pc = "frames"
  PROVE  /\ request.kind = "frames" /\ InFull(request)
         /\ Len(request.frames) \in Nat /\ DOMAIN request.frames = 1 .. Len(request.frames)
         /\ \A k \in 1 .. Len(request.frames) :
              /\ request.frames[k].rely \in 0 .. 4 /\ request.frames[k].info \in PeerInfo
              /\ WholeFrame(request.frames[k].rely, request.frames[k].info)
              /\ Len(FrameOf(request, k)) \in Nat /\ Len(FrameOf(request, k)) >= 4
         /\ understood \in Seq(PeerInfo) /\ Len(understood) \in 0 .. Len(request.frames)
         /\ DOMAIN understood = 1 .. Len(understood)
         /\ memory \in Seq(Byte) /\ size = Len(memory) /\ size \in Nat /\ index \in Nat
<1>1. request.kind = "frames" /\ request \in ClientPackets
  BY DEF WireInv, Sorted
<1>2. InFull(request)
  BY <1>1, PacketsAssumption
<1>3. request.frames \in Seq([rely : 0 .. 4, info : PeerInfo])
  BY <1>1, <1>2, FramesPacket
<1>4. Len(request.frames) \in Nat /\ DOMAIN request.frames = 1 .. Len(request.frames)
  BY <1>3, LenProperties
<1>5. understood \in Seq(PeerInfo) /\ Len(understood) <= Len(request.frames)
  BY <1>1 DEF WireInv, FramesUnderstood
<1>6. Len(understood) \in 0 .. Len(request.frames)
      /\ DOMAIN understood = 1 .. Len(understood)
  BY <1>4, <1>5, LenProperties
<1>7. memory \in Seq(Byte) /\ size = Len(memory) /\ size \in Nat /\ index \in Nat
  BY LenProperties DEF WireInv, TypeOK, Whole
<1>8. ASSUME NEW k \in 1 .. Len(request.frames)
      PROVE  /\ request.frames[k].rely \in 0 .. 4 /\ request.frames[k].info \in PeerInfo
             /\ WholeFrame(request.frames[k].rely, request.frames[k].info)
             /\ Len(FrameOf(request, k)) \in Nat /\ Len(FrameOf(request, k)) >= 4
  <2>. DEFINE rely == request.frames[k].rely
              info == request.frames[k].info
  <2>1. rely \in 0 .. 4 /\ info \in PeerInfo
    <3>1. request.frames[k] \in [rely : 0 .. 4, info : PeerInfo]
      BY <1>3, <1>4, ElementOfSeq
    <3>. QED  BY <3>1
  <2>2. WholeFrame(rely, info)
    BY <1>1, <1>2, <1>4 DEF InFull
  <2>. HIDE DEF rely, info
  <2>3. Len(info.body) \in Nat /\ 0 < Len(info.body)
    BY <2>1, <2>2, FrameParts DEF WholeFrame
  <2>. DEFINE l == InfoLength(rely, info.fragment_info # <<>>)
  <2>4. l \in Nat /\ l >= 3
    BY PlacesAreNumbers
  <2>5. Len(PeerFrame(rely, info)) = l + Len(info.body)
    BY <2>1, <2>2, FrameBytes
  <2>. HIDE DEF l
  <2>6. Len(PeerFrame(rely, info)) \in Nat /\ Len(PeerFrame(rely, info)) >= 4
    BY <2>3, <2>4, <2>5
  <2>7. FrameOf(request, k) = PeerFrame(rely, info)
    BY DEF FrameOf, rely, info
  <2>. QED  BY <2>1, <2>2, <2>6, <2>7 DEF rely, info
<1>. QED  BY <1>1, <1>2, <1>4, <1>5, <1>6, <1>7, <1>8

(* EndOfFrames: no more than four bytes are left. Every frame has as many, *)
(* and so there is none left, or one of four bytes, and it is the last.    *)
LEMMA WireEndOfFrames ==
  ASSUME WireInv, EndOfFrames
  PROVE  WireInv'
<1>1. /\ pc = "frames" /\ pc' = "done" /\ ~ MoreFrames
      /\ UNCHANGED <<memory, size, index, next_expected_seq, request, understood, reply>>
  BY DEF EndOfFrames
<1>. DEFINE n == Len(understood)
            last == Len(request.frames)
            length(k) == Len(FrameOf(request, k))
<1>2. /\ request.kind = "frames" /\ n \in 0 .. last /\ last \in Nat /\ size \in Nat
      /\ index \in Nat /\ size = Len(memory) /\ DOMAIN request.frames = 1 .. last
      /\ \A k \in 1 .. last : length(k) \in Nat /\ length(k) >= 4
  BY <1>1, FramesAtHand
<1>3. PICK f : Layout(request, memory, f) /\ index = f[n]
  BY <1>1 DEF WireInv, AtFrame
<1>4. n = last /\ last # 0 => length(last) > 4
  <2>1. last # 0 => request.frames # <<>>
    BY EmptySeq
  <2>. QED  BY <1>1, <2>1 DEF WireInv, AtFrame
<1>5. size - index <= 4
  BY <1>1, <1>2 DEF MoreFrames
<1>6. /\ f[last] = size
      /\ \A k \in 1 .. last : /\ f[k] = f[k - 1] + length(k)
                              /\ f[k - 1] \in Nat /\ f[k] \in Nat
                              /\ f[k - 1] + length(k) <= size
  BY <1>2, <1>3 DEF Layout, Carries
<1>. HIDE DEF n, last, length
<1>7. ASSUME NEW k \in 1 .. last
      PROVE  k > n <=> k = last /\ length(k) <= 4
  <2>1. CASE n = last
    BY <1>2, <1>4, <2>1
  <2>2. CASE n # last
    <3>1. n + 1 \in 1 .. last /\ (n + 1) - 1 = n
      BY <1>2, <2>2
    <3>2. f[n + 1] = index + length(n + 1) /\ length(n + 1) >= 4
      BY <1>2, <1>3, <1>6, <3>1
    <3>3. n + 1 = last
      <4>1. SUFFICES ASSUME n + 1 # last PROVE FALSE
        OBVIOUS
      <4>2. n + 2 \in 1 .. last /\ (n + 2) - 1 = n + 1
        BY <1>2, <3>1, <4>1
      <4>3. f[n + 1] + length(n + 2) <= size /\ length(n + 2) >= 4
            /\ length(n + 2) \in Nat /\ length(n + 1) \in Nat
        BY <1>2, <1>6, <3>1, <4>2
      <4>. QED  BY <1>2, <1>5, <3>2, <4>3
    <3>4. length(last) <= 4
      BY <1>2, <1>5, <1>6, <3>1, <3>2, <3>3
    <3>. QED  BY <1>2, <3>3, <3>4
  <2>. QED  BY <2>1, <2>2
<1>8. FramesSplit'
  <2>1. \A k \in DOMAIN request.frames :
           k > Len(understood) <=>
             /\ k = Len(request.frames)
             /\ Len(PeerFrame(request.frames[k].rely, request.frames[k].info)) <= 4
    BY <1>2, <1>7 DEF n, last, length, FrameOf
  <2>. QED  BY <1>1, <2>1 DEF WireInv, FramesSplit
<1>9. TypeOK'
  BY <1>1 DEF WireInv, TypeOK
<1>10. Before' /\ Whole' /\ Untouched' /\ Sorted' /\ FramesUnderstood' /\ AtFrame'
  BY <1>1 DEF WireInv, Before, Whole, Untouched, Sorted, FramesUnderstood, AtFrame
<1>11. NothingThrows' /\ OfflineRepliesReadable' /\ FramedRepliesReadable'
  BY <1>1 DEF WireInv, NothingThrows, OfflineRepliesReadable, FramedRepliesReadable
<1>. QED  BY <1>8, <1>9, <1>10, <1>11 DEF WireInv

(* What the server sends for a payload is what a peer sees as one plain    *)
(* frame with the reply.                                                   *)
LEMMA ReplyToPayload ==
  ASSUME next_expected_seq \in Nat, next_expected_seq < 2 ^ 24,
         NEW payload, NEW m, NEW up \in Word(8)
  PROVE  LET body == IF payload[1] = Id(0)
                     THEN Tail(PeerConnectedPong(U64In(payload, 1, m), up))
                     ELSE PeerAccepted(IpAsRead, PortAsRead, U64In(payload, 9, m), up)
             sent == ResponseTo(payload, m, up)
         IN  /\ sent \in Seq(Byte)
             /\ sent # <<>> =>
                  SeenByPeer(sent)
                    = PeerFrameSet(128, Number(3, next_expected_seq \div 256),
                                   <<PlainFrame(body)>>)
<1>. DEFINE time1 == U64In(payload, 1, m)
            time9 == U64In(payload, 9, m)
            accepted == ConnectionRequestAccepted(time9, up)
            pong == ConnectedPong(time1, up)
            asked == payload[1] = Id(9) /\ ~ReadBool(payload[18])
            pinged == payload[1] = Id(0) /\ Len(payload) = 9
            sent == ResponseTo(payload, m, up)
            body == IF payload[1] = Id(0)
                    THEN Tail(PeerConnectedPong(time1, up))
                    ELSE PeerAccepted(IpAsRead, PortAsRead, time9, up)
            seen(b) == PeerFrameSet(128, Number(3, next_expected_seq \div 256), <<PlainFrame(b)>>)
<1>1. time1 \in Word(8) /\ time9 \in Word(8)
  BY ReadIsWord DEF U64In
<1>2. NumberOf(Id(9)) = 9 /\ NumberOf(Id(0)) = 0
  BY NarrowNumber DEF Id
<1>3. ~(asked /\ payload[1] = Id(0))
  BY <1>2
<1>4. sent = IF asked THEN ready_buffer(2, accepted)
             ELSE IF pinged THEN ready_buffer(0, pong) ELSE <<>>
  <2>1. sent = CASE asked -> ready_buffer(2, accepted)
                 [] pinged -> ready_buffer(0, pong)
                 [] OTHER -> <<>>
    BY DEF ResponseTo
  <2>2. ~(asked /\ pinged)
    BY <1>3
  <2>. HIDE DEF asked, pinged, accepted, pong, sent
  <2>3. CASE asked
    BY <2>1, <2>2, <2>3
  <2>4. CASE ~asked /\ pinged
    BY <2>1, <2>4
  <2>5. CASE ~asked /\ ~pinged
    BY <2>1, <2>5
  <2>. QED  BY <2>3, <2>4, <2>5
<1>5. /\ accepted \in Seq(Byte)
      /\ accepted = PeerAccepted(IpAsRead, PortAsRead, time9, up)
      /\ pong \in Seq(Byte) /\ pong = Tail(PeerConnectedPong(time1, up))
  <2>. HIDE DEF time1, time9
  <2>. QED  BY <1>1, AcceptedWritten, ConnectedPongWritten
<1>0. \A rely \in {0, 2}, b \in Seq(Byte) :
        /\ ready_buffer(rely, b) \in Seq(Byte)
        /\ SeenByPeer(ready_buffer(rely, b)) = seen(b)
  BY ReplyFramed
<1>6. CASE asked
  <2>1. body = accepted
    BY <1>3, <1>5, <1>6
  <2>. HIDE DEF accepted, body
  <2>2. ready_buffer(2, accepted) \in Seq(Byte)
        /\ SeenByPeer(ready_buffer(2, accepted)) = seen(accepted)
    BY <1>0, <1>5
  <2>3. sent = ready_buffer(2, accepted)
    BY <1>4, <1>6
  <2>. HIDE DEF sent
  <2>4. sent \in Seq(Byte) /\ SeenByPeer(sent) = seen(body)
    BY <2>1, <2>2, <2>3
  <2>. QED  BY <2>4 DEF sent, body
<1>7. CASE ~asked /\ pinged
  <2>1. body = pong
    BY <1>5, <1>7
  <2>2. ready_buffer(0, pong) \in Seq(Byte)
        /\ SeenByPeer(ready_buffer(0, pong)) = seen(pong)
    <3>1. pong \in Seq(Byte)
      BY <1>5
    <3>. HIDE DEF pong, seen
    <3>. QED  BY <1>0, <3>1
  <2>. HIDE DEF pong, body
  <2>3. sent = ready_buffer(0, pong)
    BY <1>4, <1>7
  <2>. HIDE DEF sent
  <2>4. sent \in Seq(Byte) /\ SeenByPeer(sent) = seen(body)
    BY <2>1, <2>2, <2>3
  <2>. QED  BY <2>4 DEF sent, body
<1>8. CASE ~asked /\ ~pinged
  BY <1>4, <1>8, EmptySeq
<1>. QED  BY <1>6, <1>7, <1>8

(* process_frame: the position is that of the next frame, which is read as *)
(* it was written, and the position after it is again that of a frame.     *)
LEMMA WireProcessFrame ==
  ASSUME WireInv, process_frame
  PROVE  WireInv'
<1>. DEFINE n == Len(understood)
            last == Len(request.frames)
            frame == FrameOf(request, n + 1)
            info == request.frames[n + 1].info
<1>1. pc = "frames" /\ MoreFrames /\ request' = request
      /\ next_expected_seq' = next_expected_seq
  BY DEF process_frame
<1>2. /\ request.kind = "frames" /\ last \in Nat /\ n \in 0 .. last
      /\ understood \in Seq(PeerInfo) /\ DOMAIN understood = 1 .. n
      /\ memory \in Seq(Byte) /\ size = Len(memory) /\ size \in Nat /\ index \in Nat
  BY <1>1, FramesAtHand
<1>3. PICK f : Layout(request, memory, f) /\ index = f[n]
  BY <1>1 DEF WireInv, AtFrame
<1>4. size - index > 4
  <2>1. index <= size
    BY DEF WireInv, NothingThrows
  <2>. QED  BY <1>1, <1>2, <2>1 DEF MoreFrames
<1>5. n + 1 \in 1 .. last /\ (n + 1) - 1 = n
  <2>1. f[last] = size
    BY <1>2, <1>3 DEF Layout
  <2>2. n # last
    BY <1>2, <1>3, <1>4, <2>1
  <2>. QED  BY <1>2, <2>2
<1>6. /\ request.frames[n + 1].rely \in 0 .. 4 /\ info \in PeerInfo
      /\ WholeFrame(request.frames[n + 1].rely, info)
      /\ Len(frame) \in Nat /\ Len(frame) >= 4
      /\ frame = PeerFrame(request.frames[n + 1].rely, info)
  BY <1>1, <1>5, FramesAtHand DEF FrameOf
<1>7. f[n + 1] = index + Len(frame) /\ Carries(memory, index, frame)
  BY <1>3, <1>5 DEF Layout
<1>8. FrameAt(index) = info /\ FrameEnd(index) = index + Len(frame)
  BY <1>6, <1>7, FrameRead
<1>9. index + Len(frame) <= size
  BY <1>2, <1>7 DEF Carries
<1>10. index + 3 <= size /\ FrameEnd(index) <= size
  BY <1>2, <1>6, <1>8, <1>9
<1>11. /\ understood' = Append(understood, info)
       /\ index' = index + Len(frame)
       /\ \E m \in ShiftModuli, up \in Clocks :
             reply' = IF info.fragment_info # <<>> THEN <<>> ELSE ResponseTo(info.body, m, up)
       /\ UNCHANGED <<pc, memory, size>>
  <2>. DEFINE turn ==
         LET i == FrameAt(index) IN
         /\ understood' = Append(understood, i)
         /\ index' = FrameEnd(index)
         /\ \E m \in ShiftModuli, up \in Clocks :
               reply' = IF i.fragment_info # <<>> THEN <<>> ELSE ResponseTo(i.body, m, up)
         /\ UNCHANGED <<pc, memory, size>>
  <2>1. IF index + 3 <= size /\ FrameEnd(index) <= size THEN turn ELSE Throw
    BY DEF process_frame
  <2>2. turn
    BY <1>10, <2>1
  <2>. HIDE DEF info, frame
  <2>. QED  BY <1>8, <2>2
<1>12. /\ understood' \in Seq(PeerInfo) /\ Len(understood') = n + 1
       /\ DOMAIN understood' = 1 .. n + 1 /\ Last(understood') = info
       /\ \A k \in 1 .. n : understood'[k] = understood[k]
       /\ understood'[n + 1] = info
  <2>. HIDE DEF info, n
  <2>1. info \in PeerInfo /\ Len(understood) = n /\ n \in Nat
    BY <1>2, <1>6 DEF n
  <2>2. /\ understood' \in Seq(PeerInfo) /\ Len(understood') = n + 1
        /\ \A k \in 1 .. n : understood'[k] = understood[k]
        /\ understood'[n + 1] = info
    BY <1>2, <1>11, <2>1, AppendProperties
  <2>. QED  BY <2>1, <2>2, LenProperties DEF Last
<1>13. FramesUnderstood'
  <2>1. \A k \in 1 .. n : understood[k] = request.frames[k].info
    BY <1>2 DEF WireInv, FramesUnderstood
  <2>2. \A k \in 1 .. n + 1 : k \in 1 .. n \/ k = n + 1
    BY <1>2
  <2>3. \A k \in 1 .. n + 1 : understood'[k] = request.frames[k].info
    BY <1>12, <2>1, <2>2
  <2>4. n + 1 <= last
    BY <1>5
  <2>. HIDE DEF info
  <2>. QED  BY <1>1, <1>12, <2>3, <2>4 DEF FramesUnderstood
<1>14. AtFrame'
  <2>1. Layout(request', memory', f) /\ index' = f[Len(understood')]
    BY <1>1, <1>3, <1>7, <1>11, <1>12
  <2>2. n + 1 = last => Len(frame) > 4
    <3>1. ASSUME n + 1 = last
          PROVE  Len(frame) > 4
      <4>1. f[n + 1] = size
        BY <1>2, <1>3, <3>1 DEF Layout
      <4>. QED  BY <1>2, <1>4, <1>6, <1>7, <4>1
    <3>. QED  BY <3>1
  <2>3. Len(understood') = Len(request'.frames) =>
          Len(FrameOf(request', Len(understood'))) > 4
    BY <1>1, <1>12, <2>2
  <2>. QED  BY <2>1, <2>3 DEF AtFrame
<1>15. \E m \in ShiftModuli, up \in Clocks :
          /\ up \in Word(8)
          /\ reply' = IF info.fragment_info # <<>> THEN <<>> ELSE ResponseTo(info.body, m, up)
  BY <1>11, ServerAssumption
<1>16. next_expected_seq \in Nat /\ next_expected_seq < 2 ^ 24
  <2>1. next_expected_seq \in 0 .. 2 ^ 24 - 1
    BY DEF WireInv, TypeOK
  <2>. QED  BY <2>1
<1>17. reply' \in Seq(Byte) /\ FramedRepliesReadable'
  <2>1. PICK m \in ShiftModuli, up \in Clocks :
          /\ up \in Word(8)
          /\ reply' = IF info.fragment_info # <<>> THEN <<>> ELSE ResponseTo(info.body, m, up)
    BY <1>15
  <2>. DEFINE payload == info.body
              body == IF payload[1] = Id(0)
                      THEN Tail(PeerConnectedPong(U64In(payload, 1, m), up))
                      ELSE PeerAccepted(IpAsRead, PortAsRead, U64In(payload, 9, m), up)
  <2>2. CASE info.fragment_info # <<>>
    BY <2>1, <2>2, EmptySeq DEF FramedRepliesReadable
  <2>3. CASE info.fragment_info = <<>>
    <3>1. reply' = ResponseTo(payload, m, up)
      BY <2>1, <2>3
    <3>. HIDE DEF payload
    <3>2. /\ reply' \in Seq(Byte)
          /\ reply' # <<>> => SeenByPeer(reply')
               = PeerFrameSet(128, Number(3, next_expected_seq \div 256), <<PlainFrame(body)>>)
      BY <1>16, <2>1, <3>1, ReplyToPayload
    <3>3. Last(understood').body = payload
      BY <1>12 DEF payload
    <3>4. FramedRepliesReadable'
      <4>1. reply' # <<>> =>
              LET content == Last(understood').body
                  reading == IF content[1] = Id(0)
                             THEN Tail(PeerConnectedPong(U64In(content, 1, m), up))
                             ELSE PeerAccepted(IpAsRead, PortAsRead, U64In(content, 9, m), up)
              IN  SeenByPeer(reply') = PeerFrameSet(
                     128, Number(3, next_expected_seq' \div 256), <<PlainFrame(reading)>>)
        BY <1>1, <3>2, <3>3
      <4>2. m \in ShiftModuli /\ up \in Clocks
        BY <2>1
      <4>. QED  BY <4>1, <4>2 DEF FramedRepliesReadable, PlainFrame
    <3>. QED  BY <3>2, <3>4
  <2>. QED  BY <2>2, <2>3
<1>18. TypeOK'
  BY <1>1, <1>2, <1>6, <1>11, <1>17 DEF WireInv, TypeOK
<1>19. Before' /\ Whole' /\ Untouched' /\ Sorted'
  BY <1>1, <1>11 DEF WireInv, Before, Whole, Untouched, Sorted
<1>20. NothingThrows'
  BY <1>1, <1>9, <1>11 DEF NothingThrows
<1>21. OfflineRepliesReadable'
  BY <1>1, <1>2 DEF OfflineRepliesReadable
<1>22. FramesSplit'
  BY <1>1, <1>11, <1>13 DEF FramesSplit, FramesUnderstood
<1>. QED  BY <1>13, <1>14, <1>17, <1>18, <1>19, <1>20, <1>21, <1>22 DEF WireInv

(* Nothing changes.                                                        *)
LEMMA WireStutter ==
  ASSUME WireInv, UNCHANGED vars
  PROVE  WireInv'
<1>1. /\ pc' = pc /\ memory' = memory /\ size' = size /\ index' = index
      /\ next_expected_seq' = next_expected_seq /\ request' = request
      /\ understood' = understood /\ reply' = reply
  BY DEF vars
<1>2. TypeOK' /\ Before' /\ Whole' /\ Untouched' /\ Sorted' /\ FramesUnderstood'
      /\ AtFrame'
  BY <1>1 DEF WireInv, TypeOK, Before, Whole, Untouched, Sorted, FramesUnderstood, AtFrame
<1>3. NothingThrows' /\ OfflineRepliesReadable' /\ FramesSplit' /\ FramedRepliesReadable'
  BY <1>1 DEF WireInv, NothingThrows, OfflineRepliesReadable, FramesSplit,
              FramedRepliesReadable
<1>. QED  BY <1>2, <1>3 DEF WireInv

(* The invariant is inductive: each action carries it over.                *)
THEOREM WireInvariant == Spec => []WireInv
<1>1. WireInv /\ [Next]_vars => WireInv'
  <2>. SUFFICES ASSUME WireInv, [Next]_vars PROVE WireInv'
    OBVIOUS
  <2>1. CASE Receive
    BY <2>1, WireReceive
  <2>2. CASE NextIteration
    BY <2>2, WireNextIteration
  <2>3. CASE UnconnectedPing
    BY <2>3, WireUnconnectedPing
  <2>4. CASE OpenConnectionRequest1
    BY <2>4, WireRequest1
  <2>5. CASE OpenConnectionRequest2
    BY <2>5, WireRequest2
  <2>6. CASE OtherPacket
    BY <2>6, WireOtherPacket
  <2>7. CASE FrameHeader
    BY <2>7, WireFrameHeader
  <2>8. CASE process_frame
    BY <2>8, WireProcessFrame
  <2>9. CASE EndOfFrames
    BY <2>9, WireEndOfFrames
  <2>10. CASE UNCHANGED vars
    BY <2>10, WireStutter
  <2>. QED
    BY <2>1, <2>2, <2>3, <2>4, <2>5, <2>6, <2>7, <2>8, <2>9, <2>10 DEF Next
<1>. QED  BY <1>1, WireInit, PTL DEF Spec

(* Every variable of WireFormat has its type, whatever clients send in     *)
(* full.                                                                   *)
THEOREM WireTypeCorrect == Spec => []TypeOK
BY WireInvariant, PTL DEF WireInv

(* No bounds_check of handle_packet or of the loop of process_packet fails *)
(* for a client that sends its packets in full, and the position never     *)
(* leaves the datagram.                                                    *)
THEOREM WireNothingThrows == Spec => []NothingThrows
BY WireInvariant, PTL DEF WireInv

(* Every offline reply has RakNet's layout and byte order, for a request   *)
(* of any version, MTU, time and guid, and a server of any name, with      *)
(* nothing that was in the buffer before; but for the client's own         *)
(* address, written in reverse and without RakNet's complement (IpAsRead), *)
(* and the MTU of reply 2, which is what the server read.                  *)
THEOREM WireOfflineRepliesReadable == Spec => []OfflineRepliesReadable
BY WireInvariant, PTL DEF WireInv

(* However many frames a datagram has, of whatever reliability, with       *)
(* whatever indices, fragments and payloads: process_packet finds just     *)
(* these frames, in order, all but a last one of four bytes.               *)
THEOREM WireFramesSplit == Spec => []FramesSplit
BY WireInvariant, PTL DEF WireInv

(* The server's answer to a connection request or a ping reaches a client  *)
(* as one unreliable frame, whose indices are left out, with the reply to  *)
(* the payload at hand, whichever frame of the datagram that was in; the   *)
(* number of the datagram lacks its lowest byte, the client's address is   *)
(* as wrong as in reply 2, a pong has no id, and half of the client's time *)
(* may be lost.                                                            *)
THEOREM WireFramedRepliesReadable == Spec => []FramedRepliesReadable
BY WireInvariant, PTL DEF WireInv
=============================================================================
