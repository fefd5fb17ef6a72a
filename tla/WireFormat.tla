----------------------------- MODULE WireFormat -----------------------------
(***************************************************************************)
(* What datagrams mean: the server reads what a RakNet client wrote, and   *)
(* writes what the client will read (RakServer::handle_packet, the loop    *)
(* of RakroServerClient::process_packet, the replies of process_data, and  *)
(* the packets of rakro/packet with the BinaryBuffer under them).          *)
(*                                                                         *)
(* One datagram is handled after the other, and an offline reply is        *)
(* written into the buffer its request came in.  Frame sets are those of   *)
(* clients with a session that have the expected number, and every frame   *)
(* is processed once: which sessions there are, what is late and what is   *)
(* processed how often are the subjects of RakServer and ClientSession.    *)
(* ACKs are in SendPath.                                                   *)
(***************************************************************************)
EXTENDS Codec, SequencesExt

CONSTANTS
  BlockSize,         \* the size of a buffer of the pool, larger than any packet
  protocol_version, server_guid, server_id,
  Clocks,            \* readings of the system clock, and their differences
  ShiftModuli,       \* how the build shifts by 32 and more, see ReadIntegral
  ClientPackets,     \* what clients send
  client_ip, client_port   \* the octets of their address

ASSUME ServerAssumption ==
  /\ protocol_version \in Byte
  /\ server_guid \in Word(8)
  /\ server_id \in Seq(Byte)
  /\ BlockSize \in Nat /\ 35 + Len(server_id) <= BlockSize   \* the longest offline reply
  /\ Clocks \subseteq Word(8)
  /\ ShiftModuli \subseteq {32, 64}
  /\ client_ip \in [1 .. 4 -> Byte] /\ client_port \in [1 .. 2 -> Byte]

VARIABLES
  pc,
  memory,            \* what is known of the bytes of the block,
  size,              \*   how many the BinaryBuffer shows,
  index,             \*   and its position
  next_expected_seq, \* of the session the datagram is for
  request,           \* what the client meant
  understood,        \* what the server read
  reply              \* the bytes it sent last, for this datagram or frame

vars == <<pc, memory, size, index, next_expected_seq, request, understood, reply>>

Id(n) == Number(1, n)

-----------------------------------------------------------------------------
(* The buffer.                                                             *)

(* Mutant: >= for >.                                                       *)
bounds_check_strict(at, extra) == at + extra < size

(* What bounds_check lets through, at a position.                          *)
bounds_check(at, extra) == at + extra <= size

Slice(at, n) == SubSeq(memory, at + 1, at + n)

Overwrite(at, bytes) ==
  [i \in 1 .. Max({Len(memory), at + Len(bytes)}) |->
     IF i > at /\ i <= at + Len(bytes) THEN bytes[i - at] ELSE memory[i]]

(* Mutant: the position stays.                                             *)
ClearKeepsIndex(at) == at

(* Where clear() leaves a buffer that was read up to a position.           *)
clear(at) == 0

clearedSize == BlockSize

-----------------------------------------------------------------------------
(* The packets the server writes.                                          *)
Magic ==
  LET numbers == <<0, 255, 255, 0, 254, 254, 254, 254,
                   253, 253, 253, 253, 18, 52, 86, 120>>
  IN  [i \in 1 .. 16 |-> Id(numbers[i])]

WriteString(s) == WriteIntegral(2, Number(2, Len(s))) \o s

UnconnectedPong(time) ==
  <<Id(28)>> \o WriteIntegral(8, time) \o WriteIntegral(8, server_guid)
    \o Magic \o WriteString(server_id)

IncompatibleProtocol(version) ==
  <<Id(25), version>> \o Magic \o WriteIntegral(8, server_guid)

OpenConnectionReply1(mtu) ==
  <<Id(6)>> \o Magic \o WriteIntegral(8, server_guid) \o <<WriteBool(FALSE)>>
    \o WriteIntegral(2, mtu)

WriteAddress(ip, port) == <<Id(4)>> \o WriteIntegral(4, ip) \o WriteIntegral(2, port)

(* from_ipv4 takes the octets of the address, which are in network order,  *)
(* for integers of the machine.                                            *)
WriteClientAddress == WriteAddress(FromMemory(4, client_ip), FromMemory(2, client_port))

OpenConnectionReply2(mtu) ==
  <<Id(8)>> \o Magic \o WriteIntegral(8, server_guid) \o WriteClientAddress
    \o WriteIntegral(2, mtu) \o <<WriteBool(FALSE)>>

OtherSystem == WriteAddress(Bits(4), Number(2, 19132))

ConnectionRequestAccepted(time, up) ==
  <<Id(16)>> \o WriteClientAddress \o WriteIntegral(2, {})
    \o FlattenSeq([x \in 1 .. 20 |-> OtherSystem])
    \o WriteIntegral(8, time) \o WriteIntegral(8, up)

(* Without a packet id.                                                    *)
ConnectedPong(time, up) == WriteIntegral(8, time) \o WriteIntegral(8, up)

(* Mutant: the reliability goes where the reader looks for it.             *)
FrameFlagsShifted(rely) == {i + 5 : i \in Number(1, rely)}

FrameFlags(rely) == Number(1, rely)

(* No caller gives an index, so there are none.                            *)
make_info(rely, data) == [rely |-> rely, body_leng |-> Number(2, Len(data))]

WriteFrameInfo(info) ==
  <<FrameFlags(info.rely)>>
    \o WriteIntegral(2, {i + 3 : i \in info.body_leng} \cap Bits(2))

WriteFrameHeader == <<Id(128)>> \o WriteUint24(Number(3, next_expected_seq))

ready_buffer(rely, body) ==
  WriteFrameHeader \o WriteFrameInfo(make_info(rely, body)) \o body

-----------------------------------------------------------------------------
(* FrameInfo::read, at a position.  An index that is absent is an empty    *)
(* sequence.  The reliability itself is not kept.                          *)
is_reliable(rely) == rely \in {2, 3, 4}
is_seq(rely) == rely \in {1, 4}

(* Mutant: sequenced frames are not ordered ones, too.                     *)
OrderedExclusively(rely) == rely \in {3, 7}

is_ordered(rely) == rely \in {1, 3, 4, 7}

RelyAt(at) == NumberOf({i \in Bits(1) : i + 5 \in memory[at + 1]})
SplitAt(at) == 4 \in memory[at + 1]

BodyLength(at) ==
  NumberOf({i \in Bits(2) : i + 3 \in ReadIntegral(2, Slice(at + 1, 2), 32)})

Bytes(n, present) == IF present THEN n ELSE 0

InfoLength(rely, split) ==
  3 + Bytes(3, is_reliable(rely)) + Bytes(3, is_seq(rely))
    + Bytes(4, is_ordered(rely)) + Bytes(10, split)

FrameAt(at) ==
  LET rely == RelyAt(at)
      seqAt == at + 3 + Bytes(3, is_reliable(rely))
      orderAt == seqAt + Bytes(3, is_seq(rely))
      fragmentAt == orderAt + Bytes(4, is_ordered(rely))
  IN  [reliability_index |->
         IF is_reliable(rely) THEN <<ReadUint24(Slice(at + 3, 3))>> ELSE <<>>,
       sequence_frame_index |->
         IF is_seq(rely) THEN <<ReadUint24(Slice(seqAt, 3))>> ELSE <<>>,
       order_info |->
         IF is_ordered(rely)
         THEN <<ReadUint24(Slice(orderAt, 3)), memory[orderAt + 4]>> ELSE <<>>,
       fragment_info |->
         IF SplitAt(at)
         THEN <<ReadIntegral(4, Slice(fragmentAt, 4), 32),
                ReadIntegral(2, Slice(fragmentAt + 4, 2), 32),
                ReadIntegral(4, Slice(fragmentAt + 6, 4), 32)>> ELSE <<>>,
       body |-> Slice(at + InfoLength(rely, SplitAt(at)), BodyLength(at))]

-----------------------------------------------------------------------------
(***************************************************************************)
(* RakNet's own format, in which clients write and read: they are not part *)
(* of the repository.                                                      *)
(***************************************************************************)
PeerIndex(present) == IF present = <<>> THEN <<>> ELSE LittleEndian(3, present[1])

PeerFrame(rely, info) ==
  <<{i + 5 : i \in Number(1, rely)} \cup (IF info.fragment_info # <<>> THEN {4} ELSE {})>>
    \o BigEndian(2, Number(2, 8 * Len(info.body)))
    \o PeerIndex(info.reliability_index)
    \o PeerIndex(info.sequence_frame_index)
    \o (IF info.order_info = <<>> THEN <<>>
        ELSE PeerIndex(info.order_info) \o <<info.order_info[2]>>)
    \o (IF info.fragment_info = <<>> THEN <<>>
        ELSE BigEndian(4, info.fragment_info[1]) \o BigEndian(2, info.fragment_info[2])
               \o BigEndian(4, info.fragment_info[3]))
    \o info.body

PeerFrameSet(id, num, frames) ==
  <<Id(id)>> \o LittleEndian(3, num)
    \o FlattenSeq([i \in DOMAIN frames |-> PeerFrame(frames[i].rely, frames[i].info)])

PeerPacket(p) ==
  CASE p.kind = "ping" ->
         <<Id(1)>> \o BigEndian(8, p.time) \o Magic \o BigEndian(8, p.guid)
    [] p.kind = "request_one" ->
         <<Id(5)>> \o Magic \o <<p.version>> \o [i \in 1 .. p.mtu - 18 |-> {}]
    [] p.kind = "request_two" ->
         <<Id(7)>> \o Magic \o <<Id(4)>> \o p.address
           \o BigEndian(2, Number(2, p.mtu)) \o BigEndian(8, p.guid)
    [] p.kind = "open_ping" ->
         <<Id(2)>> \o BigEndian(8, p.time) \o Magic \o BigEndian(8, p.guid)
    [] p.kind = "nack" ->
         <<Id(160)>> \o BigEndian(2, Id(1)) \o <<Id(1)>> \o LittleEndian(3, Id(0))
    [] p.kind = "frames" -> PeerFrameSet(132, Number(3, p.num), p.frames)

\* The octets of an IPv4 address travel as their complement.
Complement(octets) == [i \in DOMAIN octets |-> Bits(1) \ octets[i]]

PeerAddress(ip, port) == <<Id(4)>> \o Complement(ip) \o port

PeerPong(time) ==
  <<Id(28)>> \o BigEndian(8, time) \o BigEndian(8, server_guid) \o Magic
    \o BigEndian(2, Number(2, Len(server_id))) \o server_id

PeerIncompatible(version) ==
  <<Id(25), version>> \o Magic \o BigEndian(8, server_guid)

PeerReplyOne(mtu) ==
  <<Id(6)>> \o Magic \o BigEndian(8, server_guid) \o <<{}>> \o BigEndian(2, Number(2, mtu))

PeerReplyTwo(mtu, ip, port) ==
  <<Id(8)>> \o Magic \o BigEndian(8, server_guid) \o PeerAddress(ip, port)
    \o BigEndian(2, mtu) \o <<{}>>

\* The other addresses come from the server as 255.255.255.255, which is
\* the complement of 0.0.0.0.
PeerAccepted(ip, port, time, up) ==
  <<Id(16)>> \o PeerAddress(ip, port) \o <<{}, {}>>
    \o FlattenSeq([x \in 1 .. 20 |->
          PeerAddress([i \in 1 .. 4 |-> {}], BigEndian(2, Number(2, 19132)))])
    \o BigEndian(8, time) \o BigEndian(8, up)

PeerConnectedPong(time, up) == <<Id(3)>> \o BigEndian(8, time) \o BigEndian(8, up)

-----------------------------------------------------------------------------
(***************************************************************************)
(* What clients may send: packets in full.  The indices a frame carries    *)
(* are those of its reliability.  Its length in bits is a number of two    *)
(* bytes, and that of the datagram one of three; a payload is not empty,   *)
(* and one that begins like a connection request or a ping is one in full: *)
(* cut-short packets and payloads are left out.  A request one is filled   *)
(* up to the MTU that it probes, of which RakNet's least is 400.           *)
(***************************************************************************)
MinMtu == 400

Optional(S) == {<<>>} \cup S

PeerInfo ==
  [reliability_index : Seq(Word(3)),
   sequence_frame_index : Seq(Word(3)),
   order_info : Optional(Word(3) \X Byte),
   fragment_info : Optional(Word(4) \X Word(2) \X Word(4)),
   body : Seq(Byte)]

WholeFrame(rely, info) ==
  /\ Len(info.reliability_index) = IF rely \in {2, 3, 4} THEN 1 ELSE 0
  /\ Len(info.sequence_frame_index) = IF rely \in {1, 4} THEN 1 ELSE 0
  /\ info.order_info # <<>> <=> rely \in {1, 3, 4}
  /\ 0 < Len(info.body) /\ 8 * Len(info.body) < 2 ^ 16
  /\ info.fragment_info = <<>> =>
       /\ info.body[1] = Id(9) => Len(info.body) = 18
       /\ info.body[1] = Id(0) => Len(info.body) = 9

ClientPacket ==
  [kind : {"ping", "open_ping"}, time : Word(8), guid : Word(8)]
    \cup [kind : {"request_one"}, version : Byte, mtu : MinMtu .. BlockSize]
    \cup [kind : {"request_two"}, mtu : Nat, guid : Word(8), address : [1 .. 6 -> Byte]]
    \cup [kind : {"nack"}]
    \cup [kind : {"frames"}, num : 0 .. 2 ^ 24 - 1,
          frames : Seq([rely : 0 .. 4, info : PeerInfo])]

InFull(p) ==
  /\ p \in ClientPacket
  /\ p.kind = "frames" =>
       \A k \in DOMAIN p.frames : WholeFrame(p.frames[k].rely, p.frames[k].info)
  /\ Len(PeerPacket(p)) <= BlockSize

ASSUME PacketsAssumption == \A p \in ClientPackets : InFull(p)

(***************************************************************************)
(* The server.                                                             *)
(***************************************************************************)
Nothing == <<>>
NoRequest == [kind |-> "none"]

Init ==
  /\ pc = "receive"
  /\ memory = <<>>
  /\ size = 0
  /\ index = 0
  /\ next_expected_seq = 0
  /\ request = NoRequest
  /\ understood = Nothing
  /\ reply = <<>>

(* recv_value into a buffer of which only the datagram is known, and the   *)
(* choice between handle_packet and route.                                 *)
is_trivial_packet(id) == id \in {Id(1), Id(2), Id(5), Id(7)}

Receive ==
  /\ pc = "receive"
  /\ \E p \in ClientPackets :
        LET bytes == PeerPacket(p) IN
        /\ request' = p
        /\ memory' = bytes
        /\ size' = Len(bytes)
        /\ pc' = IF is_trivial_packet(bytes[1]) THEN "handle" ELSE "route"
        /\ next_expected_seq' = IF p.kind = "frames" THEN p.num ELSE 0
  /\ UNCHANGED <<index, understood, reply>>

(* out_of_range leaves handle_packet or route: the process ends.           *)
Throw ==
  /\ pc' = "down"
  /\ UNCHANGED <<memory, size, index, understood, reply>>

(* clear(), the write, and send_to of the consumed slice.                  *)
Answer(read, bytes) ==
  IF clear(read) + Len(bytes) > clearedSize
  THEN Throw
  ELSE /\ memory' = Overwrite(clear(read), bytes)
       /\ index' = clear(read) + Len(bytes)
       /\ size' = clearedSize
       /\ reply' = SubSeq(memory', 1, index')
       /\ pc' = "done"

UnconnectedPing ==
  /\ pc = "handle" /\ memory[1] = Id(1)
  /\ IF bounds_check(1, 16 + 16)
     THEN \E time \in Clocks : Answer(33, UnconnectedPong(time)) /\ UNCHANGED understood
     ELSE Throw
  /\ UNCHANGED <<next_expected_seq, request>>

(* Announced as 100 bytes.  The MTU is the size of the datagram.           *)
OpenConnectionRequest1 ==
  /\ pc = "handle" /\ memory[1] = Id(5)
  /\ IF bounds_check(1, 100)
     THEN LET version == memory[18] IN
          /\ understood' = <<version, Number(2, size)>>
          /\ Answer(size, IF version # protocol_version
                          THEN IncompatibleProtocol(version)
                          ELSE OpenConnectionReply1(Number(2, size)))
     ELSE Throw
  /\ UNCHANGED <<next_expected_seq, request>>

(* RakAddress::read looks at the address in a buffer of its own, and the   *)
(* position of this one stays in front of it.                              *)
AfterAddress == 17

OpenConnectionRequest2 ==
  /\ pc = "handle" /\ memory[1] = Id(7)
  /\ IF bounds_check(1, 33)
     THEN LET mtu == ReadIntegral(2, Slice(AfterAddress, 2), 32) IN
          /\ \E m \in ShiftModuli :
               understood' = <<mtu, ReadIntegral(8, Slice(AfterAddress + 2, 8), m)>>
          /\ \/ Answer(AfterAddress + 10, OpenConnectionReply2(mtu))
             \/ /\ pc' = "done"     \* the address has not sent a request 1
                /\ index' = AfterAddress + 10
                /\ UNCHANGED <<memory, size, reply>>
     ELSE Throw
  /\ UNCHANGED <<next_expected_seq, request>>

(* Neither the second kind of ping nor a NACK is handled.                  *)
OtherPacket ==
  /\ \/ pc = "handle" /\ memory[1] = Id(2)
     \/ pc = "route" /\ NumberOf(memory[1]) > 141
  /\ pc' = "done"
  /\ UNCHANGED <<memory, size, index, next_expected_seq, request, understood, reply>>

(* Mutant: ++ without the mask.                                            *)
NextNumberUnmasked(n) == n + 1

NextNumber(n) == (n + 1) % 2 ^ 24

sequence_number == NumberOf(ReadUint24(Slice(1, 3)))

(* The header of a frame set with the expected number.                     *)
FrameHeader ==
  /\ pc = "route"
  /\ 7 \in memory[1] /\ NumberOf(memory[1]) <= 141
  /\ next_expected_seq' = NextNumber(sequence_number)
  /\ index' = 4
  /\ pc' = "frames"
  /\ UNCHANGED <<memory, size, request, understood, reply>>

(* What process_data sends for a payload, for one way to shift and one     *)
(* reading of the clock.                                                   *)
U64In(body, at, m) == ReadIntegral(8, SubSeq(body, at + 1, at + 8), m)

ResponseTo(body, m, up) ==
  CASE body[1] = Id(9) /\ ~ReadBool(body[18]) ->
         ready_buffer(2, ConnectionRequestAccepted(U64In(body, 9, m), up))
    [] body[1] = Id(0) /\ Len(body) = 9 ->
         ready_buffer(0, ConnectedPong(U64In(body, 1, m), up))
    [] OTHER -> <<>>

(* `remaining() > 4'; remaining() is unsigned.                             *)
MoreFrames == size - index > 4 \/ index > size

FrameEnd(at) == at + InfoLength(RelyAt(at), SplitAt(at)) + BodyLength(at)

(* A turn of the loop.  An index that is not there throws; a payload that  *)
(* is longer than the rest of the buffer is undefined.                     *)
process_frame ==
  /\ pc = "frames"
  /\ MoreFrames
  /\ IF index + 3 <= size /\ FrameEnd(index) <= size
     THEN LET info == FrameAt(index) IN
          /\ understood' = Append(understood, info)
          /\ index' = FrameEnd(index)
          /\ \E m \in ShiftModuli, up \in Clocks :
                reply' = IF info.fragment_info # <<>> THEN <<>>
                         ELSE ResponseTo(info.body, m, up)
          /\ UNCHANGED <<pc, memory, size>>
     ELSE Throw
  /\ UNCHANGED <<next_expected_seq, request>>

EndOfFrames ==
  /\ pc = "frames"
  /\ ~MoreFrames
  /\ pc' = "done"
  /\ UNCHANGED <<memory, size, index, next_expected_seq, request, understood, reply>>

(* The buffer is given back, and the next one is another or unknown.       *)
NextIteration ==
  /\ pc = "done"
  /\ pc' = "receive"
  /\ memory' = <<>>
  /\ size' = 0
  /\ index' = 0
  /\ next_expected_seq' = 0
  /\ request' = NoRequest
  /\ understood' = Nothing
  /\ reply' = <<>>

Next ==
  \/ Receive \/ NextIteration
  \/ UnconnectedPing \/ OpenConnectionRequest1 \/ OpenConnectionRequest2
  \/ OtherPacket \/ FrameHeader \/ process_frame \/ EndOfFrames

Spec == Init /\ [][Next]_vars

-----------------------------------------------------------------------------
(***************************************************************************)
(* Properties.                                                             *)
(***************************************************************************)
TypeOK ==
  /\ pc \in {"receive", "handle", "route", "frames", "done", "down"}
  /\ memory \in Seq(Byte)
  /\ size \in 0 .. BlockSize
  /\ index \in Nat
  /\ next_expected_seq \in 0 .. 2 ^ 24 - 1
  /\ request.kind \in {"none", "ping", "request_one", "request_two",
                       "open_ping", "nack", "frames"}
  /\ reply \in Seq(Byte)

(* Whatever the packets announce as their sizes, a client that writes      *)
(* them in full is never out of range, and no length, flag or shift of the *)
(* reader carries the position past the end of the datagram.               *)
NothingThrows == pc # "down" /\ index <= size

Reversed(octets) == [i \in DOMAIN octets |-> octets[Len(octets) + 1 - i]]

\* What a client takes for its own address: the octets come in reverse and
\* without RakNet's complement, the port in reverse.
IpAsRead == Complement(Reversed(client_ip))
PortAsRead == Reversed(client_port)

(* A client reads in an offline reply what the server has to say about     *)
(* just that request: its version or its MTU, the server's id and guid, in *)
(* the right byte order, whole, and nothing that was in the buffer before. *)
(* Two things are not as a client expects: the MTU of reply 2 (see         *)
(* MTUAsRequested), and its own address, which it reads as IpAsRead and    *)
(* PortAsRead.                                                             *)
OfflineRepliesReadable ==
  reply # <<>> =>
    CASE request.kind = "ping" -> \E time \in Clocks : reply = PeerPong(time)
      [] request.kind = "request_one" ->
           reply = IF request.version # protocol_version
                   THEN PeerIncompatible(request.version)
                   ELSE PeerReplyOne(request.mtu)
      [] request.kind = "request_two" ->
           reply = PeerReplyTwo(understood[1], IpAsRead, PortAsRead)
      [] OTHER -> TRUE

(* The loop of process_packet finds the frames the client put into the     *)
(* datagram, their indices, channels, fragments and payloads, and no       *)
(* others, all but a last one of four bytes.  (What ClientSession takes    *)
(* for granted.)                                                           *)
FramesSplit ==
  request.kind = "frames" =>
    /\ Len(understood) <= Len(request.frames)
    /\ \A k \in DOMAIN understood : understood[k] = request.frames[k].info
    /\ pc = "done" =>
          \A k \in DOMAIN request.frames :
             k > Len(understood) <=>
               /\ k = Len(request.frames)
               /\ Len(PeerFrame(request.frames[k].rely, request.frames[k].info)) <= 4

(* Of the flags of the first frame a peer looks at the upper four bits.    *)
SeenByPeer(bytes) == [bytes EXCEPT ![5] = @ \ 0 .. 3]

(* A client that takes the server's frame set apart finds one unreliable   *)
(* frame with the reply to the payload at hand: whatever reliability was   *)
(* meant, it is written into bits that nobody reads, and so are the        *)
(* indices that it would need.  The datagram has the number the server     *)
(* expects next, without its lowest byte; a pong comes without its id; the *)
(* address is as wrong as above; and of the client's time the half that    *)
(* the shifts of U64In lose may be gone.                                   *)
FramedRepliesReadable ==
  request.kind = "frames" /\ reply # <<>> =>
    \E m \in ShiftModuli, up \in Clocks :
       LET payload == Last(understood).body
           body == IF payload[1] = Id(0)
                   THEN Tail(PeerConnectedPong(U64In(payload, 1, m), up))
                   ELSE PeerAccepted(IpAsRead, PortAsRead, U64In(payload, 9, m), up)
       IN  SeenByPeer(reply) = PeerFrameSet(
                     128, Number(3, next_expected_seq \div 256),
                     <<[rely |-> 0,
                        info |-> [reliability_index |-> <<>>, sequence_frame_index |-> <<>>,
                                  order_info |-> <<>>, fragment_info |-> <<>>,
                                  body |-> body]]>>)

-----------------------------------------------------------------------------
(* open_connection_request_two.hpp:26 calls what it reads after the        *)
(* address "MTU", and it is what the server puts into its reply: it should *)
(* be the one the client asked for.                                        *)
MTUAsRequested ==
  request.kind = "request_two" /\ reply # <<>> =>
    reply = PeerReplyTwo(Number(2, request.mtu), IpAsRead, PortAsRead)
=============================================================================
