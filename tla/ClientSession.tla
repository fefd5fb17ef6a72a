---------------------------- MODULE ClientSession ----------------------------
(***************************************************************************)
(* How a RakroServerClient receives (rakro/server/server_client.{hpp,cpp}: *)
(* process_packet, process_frame and the delivery half of process_data).   *)
(*                                                                         *)
(* The one listener thread of the server runs process_packet to its end    *)
(* before it receives again.  Here that is a step for the datagram header  *)
(* and one for each turn of the loop over its frames; no datagram is       *)
(* received in between.                                                    *)
(*                                                                         *)
(* A payload is named by the frame that carries it, and processing it is   *)
(* to append it to `processed'.  What process_data sends in reply is left  *)
(* out.  A session that terminated the process is "down".                  *)
(***************************************************************************)
EXTENDS Integers, Sequences, FiniteSets

CONSTANTS
  Channels,          \* the order channels in use
  NumberMod,         \* 2^24: datagram numbers are uint24_t
  IndexMod,          \* 2^24: so are the order and sequence indices on the wire
  KeyBase,           \* 2^27: construct_order_key shifts the channel by 27 bits
  AssertAborts,      \* what rakro_assert does in the build at hand: {TRUE} with
                     \*   _DEBUG, {FALSE} if NDEBUG takes the assert out again
  DebuggerRethrows,  \* the answers of unexpected_exist_of_data_in_oof_buffer,
                     \*   which a debugger may override; {TRUE} without one
  Garbage            \* bytes that are not what some frame carried

(* The channel of a frame is a byte that nobody checks.  RakNet has no     *)
(* channel above 31, and the arrays of a session end there: what a higher  *)
(* one does is undefined, and no client here uses it.                      *)
MAX_ORDER_CHANNELS == 32

ASSUME ChannelsAssumption ==
  Channels # {} /\ Channels \subseteq 0 .. MAX_ORDER_CHANNELS - 1
ASSUME WidthsAssumption ==
  /\ NumberMod \in Nat \ {0}
  /\ IndexMod \in Nat \ {0}
  /\ KeyBase \in Nat
  /\ IndexMod <= KeyBase
ASSUME BuildAssumption ==
  /\ AssertAborts \subseteq BOOLEAN /\ AssertAborts # {}
  /\ DebuggerRethrows \subseteq BOOLEAN /\ DebuggerRethrows # {}

(***************************************************************************)
(* A frame as FrameInfo describes it.  "tiny" is an unreliable frame with  *)
(* a payload of one byte, four bytes in all; every other payload has the   *)
(* same, greater length.  idx is the order index of a frame on a channel;  *)
(* a frame without order is told from the others by it, and then it is any *)
(* number.  sqx is the sequence index; split says that the frame has a     *)
(* fragment_info.                                                          *)
(***************************************************************************)
FrameKinds == {"plain", "tiny", "ordered", "sequenced"}

WithoutOrder == {"plain", "tiny"}

Frame ==
  [kind : FrameKinds \ WithoutOrder, ch : Channels, idx : 0 .. IndexMod - 1,
   sqx : 0 .. IndexMod - 1, split : BOOLEAN]
  \cup
  [kind : WithoutOrder, ch : Channels, idx : Nat, sqx : {0}, split : BOOLEAN]

ASSUME GarbageAssumption == Garbage \notin Frame

(* The lengths of the header and of the payload, which place the next      *)
(* frame of the datagram.                                                  *)
Layout(f) == <<f.kind, f.split>>

(* Mutant: a shift by 28, which keeps four bits of the channel.            *)
key_shifted_too_far(c, i) == (c % 16) * (2 * KeyBase) + i

(* channel << 27 | index in 32 bits: the shift keeps five bits of the      *)
(* channel, and the index is below the lowest of them.                     *)
construct_order_key(c, i) == (c % MAX_ORDER_CHANNELS) * KeyBase + i
KeyOf(f) == construct_order_key(f.ch, f.idx)

VARIABLES
  next_expected_seq,
  missing_packets,
  ordered_next,      \* ordered_buffer_next_packets
  sequenced_next,    \* sequenced_packets_next_packet
  oof,               \* out_of_order_packet_buffer, a function of its keys
  memory,            \* the frames in the pool's buffer datagrams are received in
  frames,            \* the frames of the datagram in process that the loop reaches
  pos,               \* the next of them, 0 between datagrams
  processed,         \* the payloads process_data was called with, in order
  accepted,          \* the numbers of the datagrams that passed the number check
  status             \* "up", or "down" once the process has terminated

sessionVars ==
  <<next_expected_seq, missing_packets, ordered_next, sequenced_next, oof,
    memory, frames, pos, processed, accepted, status>>

numberVars == <<next_expected_seq, missing_packets, memory, accepted>>

SessionInit ==
  /\ next_expected_seq = 0
  /\ missing_packets = {}
  /\ ordered_next = [c \in Channels |-> 0]
  /\ sequenced_next = [c \in Channels |-> 0]
  /\ oof = <<>>
  /\ memory = <<>>
  /\ frames = <<>>
  /\ pos = 0
  /\ processed = <<>>
  /\ accepted = <<>>
  /\ status = "up"

-----------------------------------------------------------------------------
(***************************************************************************)
(* The receive buffer.  It goes back to the pool when a datagram has been  *)
(* processed and, as the pool's free list is a stack, is the one the next  *)
(* datagram is received in.  What the datagram does not cover stays.       *)
(***************************************************************************)
SameLayout(s, t) ==
  /\ Len(s) = Len(t)
  /\ \A i \in 1 .. Len(s) : Layout(s[i]) = Layout(t[i])

Received(new) ==
  LET n == Len(new) IN
  IF Len(memory) > n /\ SameLayout(new, SubSeq(memory, 1, n))
  THEN new \o SubSeq(memory, n + 1, Len(memory))
  ELSE new

(* What a BinaryBuffer kept from an earlier datagram shows now: `upto' are *)
(* the frames of that datagram up to the one it points into.               *)
Stored(upto) ==
  LET n == Len(upto) IN
  IF Len(memory) >= n /\ SameLayout(upto, SubSeq(memory, 1, n))
  THEN memory[n]
  ELSE Garbage

(* Mutant: the loop ends one frame early.                                  *)
ReachedOneShort(fs) == SubSeq(fs, 1, Len(fs) - 1)

(* `while (packet_data.remaining() > 4)': a tiny frame at the end is not   *)
(* reached.                                                                *)
Reached(fs) ==
  IF fs[Len(fs)].kind = "tiny" /\ ~fs[Len(fs)].split
  THEN SubSeq(fs, 1, Len(fs) - 1)
  ELSE fs

(* Mutant: no check for late datagrams.                                    *)
NeverLate(num) == FALSE

(* What the number of a datagram tells: whether it was there before, and   *)
(* which numbers between the expected one and it are missing.              *)
IsLate(num) == num < next_expected_seq

(* Mutant: every number below is recorded as missing.                      *)
MissedFromTheStart(num) == 1 .. num - 1

(* Mutant: the expected number and the one at hand are, too.               *)
MissedInclusive(num) == next_expected_seq .. num

Missed(num) == next_expected_seq + 1 .. num - 1

(* process_packet up to the loop, for a frame set with number num.         *)
process_packet(num, fs) ==
  /\ status = "up"
  /\ pos = 0
  /\ memory' = Received(fs)
  /\ \/ /\ IsLate(num)
        /\ UNCHANGED <<next_expected_seq, missing_packets, accepted, frames, pos>>
     \/ /\ ~IsLate(num)
        /\ missing_packets' = missing_packets \cup Missed(num)
        /\ next_expected_seq' = (next_expected_seq + 1) % NumberMod
        /\ accepted' = Append(accepted, num)
        /\ frames' = Reached(fs)
        /\ pos' = IF Reached(fs) = <<>> THEN 0 ELSE 1
  /\ UNCHANGED <<ordered_next, sequenced_next, oof, processed, status>>

(* The listener receives something for another address, or a ping, in the  *)
(* same buffer.                                                            *)
ReceiveElsewhere ==
  /\ status = "up"
  /\ pos = 0
  /\ memory' = <<>>
  /\ UNCHANGED <<next_expected_seq, missing_packets, ordered_next, sequenced_next,
                 oof, frames, pos, processed, accepted, status>>

-----------------------------------------------------------------------------
(***************************************************************************)
(* One turn of the loop, for frame f: process_frame and what it calls.     *)
(***************************************************************************)

(* Mutant: the loop does not end.                                          *)
NextFrameWithoutEnd == pos' = pos + 1 /\ UNCHANGED frames

NextFrame ==
  IF pos = Len(frames)
  THEN pos' = 0 /\ frames' = <<>>
  ELSE pos' = pos + 1 /\ UNCHANGED frames

process_data(payloads) == processed' = processed \o payloads

Terminate == status' = "down"

Unhandled(f) ==
  /\ f.split
  /\ NextFrame
  /\ UNCHANGED <<ordered_next, sequenced_next, oof, processed, status>>

(* Mutant: a frame without order is handled twice.                         *)
PlainFrameTwice(f) ==
  /\ ~f.split
  /\ f.kind \in WithoutOrder
  /\ process_data(<<f, f>>)
  /\ NextFrame
  /\ UNCHANGED <<ordered_next, sequenced_next, oof, status>>

PlainFrame(f) ==
  /\ ~f.split
  /\ f.kind \in WithoutOrder
  /\ process_data(<<f>>)
  /\ NextFrame
  /\ UNCHANGED <<ordered_next, sequenced_next, oof, status>>

SequencedAborts(f) ==
  /\ ~f.split
  /\ f.kind = "sequenced"
  /\ TRUE \in AssertAborts
  /\ Terminate
  /\ UNCHANGED <<ordered_next, sequenced_next, oof, processed, frames, pos>>

SequencedFrame(f) ==
  /\ ~f.split
  /\ f.kind = "sequenced"
  /\ FALSE \in AssertAborts
  /\ \/ /\ sequenced_next[f.ch] <= f.sqx
        /\ ordered_next[f.ch] <= f.idx
        /\ sequenced_next' = [sequenced_next EXCEPT ![f.ch] = f.sqx + 1]
        /\ process_data(<<f>>)
     \/ /\ \/ sequenced_next[f.ch] > f.sqx
           \/ ordered_next[f.ch] > f.idx
        /\ UNCHANGED <<sequenced_next, processed>>
  /\ NextFrame
  /\ UNCHANGED <<ordered_next, oof, status>>

(* The frame that was wanted next.  The drain loop looks for the key of    *)
(* this very frame, not of the one after it, and so turns at most once.    *)
(* There is no return: the process_data at the end of the function gets    *)
(* the payload again.                                                      *)
OrderedInTurn(f) ==
  /\ ~f.split
  /\ f.kind = "ordered"
  /\ ordered_next[f.ch] = f.idx
  /\ LET key == KeyOf(f)
         drained == IF key \in DOMAIN oof THEN <<Stored(oof[key])>> ELSE <<>>
     IN  /\ ordered_next' = [ordered_next EXCEPT ![f.ch] = @ + 1 + Len(drained)]
         /\ oof' = [k \in DOMAIN oof \ {key} |-> oof[k]]
         /\ process_data(<<f>> \o drained \o <<f>>)
  /\ NextFrame
  /\ UNCHANGED <<sequenced_next, status>>

(* Mutant: >= for >, which may drop the frame wanted next.                 *)
OrderedLateOrWanted(f) ==
  /\ ~f.split
  /\ f.kind = "ordered"
  /\ ordered_next[f.ch] >= f.idx
  /\ NextFrame
  /\ UNCHANGED <<ordered_next, sequenced_next, oof, processed, status>>

(* Mutant: a late frame falls through to process_data.                     *)
OrderedLateProcessed(f) ==
  /\ ~f.split
  /\ f.kind = "ordered"
  /\ ordered_next[f.ch] > f.idx
  /\ process_data(<<f>>)
  /\ NextFrame
  /\ UNCHANGED <<ordered_next, sequenced_next, oof, status>>

OrderedLate(f) ==
  /\ ~f.split
  /\ f.kind = "ordered"
  /\ ordered_next[f.ch] > f.idx
  /\ NextFrame
  /\ UNCHANGED <<ordered_next, sequenced_next, oof, processed, status>>

(* A frame ahead of its turn is put into the buffer, as a view of the      *)
(* receive buffer, and processed by the end of the function all the same.  *)
OrderedEarly(f) ==
  /\ ~f.split
  /\ f.kind = "ordered"
  /\ ordered_next[f.ch] < f.idx
  /\ KeyOf(f) \notin DOMAIN oof
  /\ sequenced_next' = [sequenced_next EXCEPT ![f.ch] = 0]
  /\ oof' = [k \in DOMAIN oof \cup {KeyOf(f)} |->
               IF k = KeyOf(f) THEN SubSeq(frames, 1, pos) ELSE oof[k]]
  /\ process_data(<<f>>)
  /\ NextFrame
  /\ UNCHANGED <<ordered_next, status>>

(* The frame is in the buffer already: the frame is dropped if a debugger  *)
(* says so, and otherwise a logic_error leaves ClientRouter::route, which  *)
(* is noexcept.                                                            *)
OrderedClash(f) ==
  /\ ~f.split
  /\ f.kind = "ordered"
  /\ ordered_next[f.ch] < f.idx
  /\ KeyOf(f) \in DOMAIN oof
  /\ sequenced_next' = [sequenced_next EXCEPT ![f.ch] = 0]
  /\ \/ TRUE \in DebuggerRethrows /\ Terminate /\ UNCHANGED <<frames, pos>>
     \/ FALSE \in DebuggerRethrows /\ NextFrame /\ UNCHANGED status
  /\ UNCHANGED <<ordered_next, oof, processed>>

process_frame ==
  /\ status = "up"
  /\ pos # 0
  /\ LET f == frames[pos] IN
        \/ Unhandled(f) \/ PlainFrame(f) \/ SequencedAborts(f) \/ SequencedFrame(f)
        \/ OrderedInTurn(f) \/ OrderedLate(f) \/ OrderedEarly(f) \/ OrderedClash(f)
  /\ UNCHANGED numberVars
=============================================================================
