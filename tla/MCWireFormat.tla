---------------------------- MODULE MCWireFormat ----------------------------
(* What the clients of WireFormat send, and who the server is.             *)
EXTENDS WireFormat

CONSTANTS
  Mtus,          \* sizes of requests and MTUs asked for
  SeqNumbers,    \* datagram numbers
  Reliabilities  \* of the frames that are combined into datagrams

MCVersion == Id(6)
MCGuid == Number(3, 1234567) \cup {40, 63}
MCServerId == <<Id(77), Id(67), Id(200)>>
MCClocks == {{3, 17, 34, 40}}
MCIp == <<Id(192), Id(168), Id(1), Id(200)>>
MCPort == <<Id(74), Id(188)>>

(* Times with the sign of an int in them, and without; of today's clock    *)
(* only the lower six bytes are used.                                      *)
MCTimes == {{}, {2, 9, 35, 39}, {5, 32, 40}}

Offline ==
  [kind : {"ping", "open_ping"}, time : MCTimes, guid : {MCGuid}]
    \cup [kind : {"request_one"}, version : {Id(6), Id(11)}, mtu : Mtus]
    \cup [kind : {"request_two"}, mtu : Mtus, guid : MCTimes,
          address : {<<Id(127), {}, {}, Id(1)>> \o BigEndian(2, Number(2, 19132))}]
    \cup [kind : {"nack"}]

(* Payloads: the smallest, one of an application, and those the server     *)
(* answers or not.                                                         *)
Bodies ==
  {<<Id(19)>>, <<Id(254), Id(1), Id(255)>>}
    \cup {<<Id(0)>> \o BigEndian(8, t) : t \in MCTimes}
    \cup {<<Id(9)>> \o BigEndian(8, MCGuid) \o BigEndian(8, t) \o <<WriteBool(b)>> :
            t \in MCTimes, b \in BOOLEAN}

(* The indices that RakNet's frames have by their reliability.             *)
Info(rely, split, body) ==
  [reliability_index |-> IF rely \in {2, 3, 4} THEN <<Number(3, 65793)>> ELSE <<>>,
   sequence_frame_index |-> IF rely \in {1, 4} THEN <<Number(3, 300)>> ELSE <<>>,
   order_info |-> IF rely \in {1, 3, 4} THEN <<Bits(3), Id(31)>> ELSE <<>>,
   fragment_info |-> IF split THEN <<Id(2), Number(2, 513), Id(1)>> ELSE <<>>,
   body |-> body]

Frames ==
  {[rely |-> r, info |-> Info(r, s, b)] :
     r \in Reliabilities, s \in BOOLEAN, b \in Bodies}

Smallest == <<Id(19)>>

(* One frame alone, or before or after one of the smallest.                *)
FrameLists ==
  {<<f>> : f \in Frames}
    \cup {<<f, [rely |-> r, info |-> Info(r, FALSE, Smallest)]>> :
            f \in Frames, r \in {0, 3}}
    \cup {<<[rely |-> 0, info |-> Info(0, FALSE, Smallest)], f>> : f \in Frames}

MCClientPackets ==
  Offline \cup [kind : {"frames"}, num : SeqNumbers, frames : FrameLists]
=============================================================================
