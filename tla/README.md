# rakro in TLA+

Models of rakro, a RakNet server in C++ (`src/rakro/rakro`), model-checked with
TLC on small instances and, where marked, proved with TLAPS for every value of
the constants. Line numbers are those of the files under `src/rakro/rakro`.

## 1. The system

One `RakServer` owns a UDP socket, a pool of buffers and the router of its
clients. `start()` starts the only thread the server has, the listener:

    rent a buffer -> recvfrom -> ping or open-connection request?
        yes: handle_packet answers in the same buffer
        no:  ClientRouter::route -> RakroServerClient::process_packet
                 -> process_frame for each frame -> process_data -> reply

Nothing runs on another thread but what the application does, and the pool is
the one part that is written to be shared ("TODO: Make this run on multiple
threads", `server_client.hpp:31`). An exception that reaches `route`, which is
`noexcept`, or leaves the listener's function ends the process.

| Component | State | Operations | What is hard | What makes it correct |
|---|---|---|---|---|
| Buffer pool (`internal/buffer_company.*`) | blocks, each with a stack of free buffers, a counter, a mutex, a condition variable; `is_making_block` | `rent`, `try_rent`, `init_block`, `~RentedBuffer`/`owner_free`, `add_free` | unlocked reads, waiting, growth by several threads, moved-from objects | no buffer lost or lent twice; the counter agrees with the stack; no lost wakeup; `rent` returns |
| Client session, receiving (`server/server_client.*`, `packet/frame_set.hpp`) | `next_expected_seq`, `missing_packets`, per channel the next order and sequence index, `out_of_order_packet_buffer` | `process_packet`, `process_frame` | loss, repetition, reordering; views of a buffer that is reused; wrap of 24-bit numbers | each ordered frame once, in order; channels independent; late and repeated datagrams harmless |
| Client session, answering (same files) | `ack_buffer`, `sending_rely_frame_index` | `process_data`'s replies, `ready_buffer`, `send_to`, `process_ack` | the pool at its limit, ACKs that name other numbers | every reliable frame kept until acknowledged, and no longer |
| Server and router (`server/server.*`, `server_client.hpp`) | `mid_connection_clients`, `connected_clients` (session, `last_packet`) | `handle_packet`, `connect_client`, `route` | late, lost and repeated requests, restarts of clients, timeouts on a clock that can be set | whoever is told that it is connected has a session; sessions end by silence only; clients that ask get in |
| Encodings (`packet/*`, `internal/binary_buffer.hpp`, `int24_t.hpp`) | the position and the limit of a buffer | `read`, `write`, `size` of each packet, `clear` | byte order, bounds, flags, 24 bits, shifts wider than an `int`; a reply written over its request | the server reads what the client meant, a client reads what the server means, nothing throws |
| UDP socket (`internal/net.*`) | a handle | `recv_value`, `send` | which error codes end the thread | every buffer is accounted for up to that point |
| Debug instrument, assertions, hashes, `mutex.hpp`, playground | - | - | one callback decides whether an exception is thrown; `rakro_assert` ends in `assert(false)` | - |

The components share state by calls on one thread (router -> session -> pool),
by the condition variable of the pool, and by memory: the frames of a datagram
are views of the receive buffer, and the buffer goes back to the pool while
views of it may still be in `out_of_order_packet_buffer`. Replies that wait for an
ACK keep buffers of the same pool.

`PROJECT.json` lists all components with what is left out of each, and the
hazards: the places where this code can go wrong in a way a test would hardly
reach, each with the properties aimed at it.

## 2. Modules

| Module | Models | Composed with |
|---|---|---|
| `LendingPool` | what a pool promises: a buffer is in stock or with one borrower | abstract specification of `BufferPool` |
| `BufferPool` | `buffer_company.*` with any number of threads | instance of `LendingPool` |
| `MCBufferPool`, `MCBufferPoolLive` | symmetry; a bound on rents and the fairness | extend `BufferPool` |
| `BufferPoolProofs` | theorems | extends `BufferPool` |
| `ClientSession` | the receiving half of `RakroServerClient` | - |
| `SessionNetwork` | a client and an unreliable network around it | extends `ClientSession` |
| `MCSession` | for TLC | extends `SessionNetwork` |
| `SessionProofs` | theorems | extends `SessionNetwork` |
| `FirstCopiesProofs` | the theorem about networks that repeat nothing | extends `SessionProofs` |
| `InOrderProofs` | the theorems about networks that keep the order | extends `FirstCopiesProofs` |
| `RakServer` | `handle_packet`, `connect_client`, `route` | - |
| `Handshake` | clients, network and clock around it | extends `RakServer` |
| `MCHandshake` | the clients of the runs | extends `Handshake` |
| `HandshakeProofs` | theorems | extends `Handshake` |
| `ReliableReplies` | what a client is promised: a reliable reply is kept, as it was sent, until it is acknowledged or the session ends | abstract specification of `SendPath` |
| `SendPath` | the listener's loop, `process_data`, `ready_buffer`, `send_to`, `process_ack`, and the pool they all rent from | instance of `ReliableReplies` |
| `MCSendPath` | symmetry | extends `SendPath` |
| `SendPathProofs` | theorems | extends `SendPath` |
| `Codec` | how integers become bytes and bytes integers | - |
| `CodecProofs` | theorems | extends `Codec` |
| `WireFormat` | one datagram after the other, byte for byte, in a `BinaryBuffer`, and what RakNet peers write and read | extends `Codec` |
| `MCWireFormat` | the clients' datagrams | extends `WireFormat` |
| `WireFormatProofs` | theorems | extends `WireFormat`, `CodecProofs` |

Operators whose comment begins with "Mutant" are not part of a model. Each is a
plausible bug in the definition that follows it, kept to show that a property
notices it (`PROJECT.json`, "mutants").

### BufferPool

A step is what a thread does between two points where another thread can see or
disturb it; `pc` names the point. `CheckCount` is the unlocked read of
`free_buffer_count` (84), `LockToTake`, `Take` and `Pop` the locked part of
`try_rent` (88-93) with the decrement and the pop apart, `ReadSize` the unlocked
`blocks.size()` (62), `InitBlock` the call of that name, which needs that no
`try_all` is under way, as `blocks_mutex` is a `shared_mutex`; `LockToWait`,
`WaitCheck` and `SpuriousWakeup` are `waiter.wait` (78-79); `Release` to
`NotifyOne` are `owner_free` and `add_free` (7-16, 36-41). `mode` tells the
three searches of `rent` apart. Blocks are numbered by age: `emplace_front` makes
a walk of the list go from the youngest to block 1, and `back()` is block 1.
Left out: what is in a buffer, and which free buffer of a block is popped.

### ClientSession

`process_packet` is a step for the header of a datagram, and one for each turn
of the loop over its frames (`process_frame`), in the order of the code. The
datagram is already split into frames; `Reached` are those the loop gets to. A
payload is named by the frame that carried it: process_data appends it to
`processed`. `memory` is the pool's buffer the listener receives in. The free
list is a stack and the listener is alone, so it is the same buffer each time,
and a buffered frame (`oof`) is kept as the place it points to; `Stored` is
what is found there later, `Garbage` if the bytes do not line up with the frame.
Two constants stand for what the build and the application decide: whether
`assert(false)` in `rakro_assert` aborts (it does under `_DEBUG` unless `NDEBUG`
is set too), and what a debugger answers when a buffered frame comes again. The
key of a buffered frame is its index under its channel, which
`construct_order_key` clips to five bits. The channel of a frame is one of the 32
that RakNet has (`ChannelsAssumption`); section 6 says what higher ones would do.

### RakServer and Handshake

The two requests, `connect_client` and `route` are operators on an address, each
with all its early returns; `Handshake` gives them their datagrams. Sessions are
kept as the set of connected addresses and the fields that matter here:
`last_packet`, and `expected`, the `next_expected_seq` of the session,
with the acceptance rule of `process_packet` (254, 262) and the width of its
numbers, `NumberMod`, at which the counter starts again. Time is the system
clock, read as an unsigned number: `Elapsed` wraps. `silent`, `unsteady` and
`forgotten` are history variables that only the properties read.

### SendPath

The listener is the only thread, so a step is what it does between two calls of
`rent()`, where it may have to wait, and between the writing of a frame and its
sending, where what it sends may have left its hands. `pc` is `receive` or
`route` in the loop of `process_packets`, `payload`, `reply`, `frame` and `send`
in `process_data`, `down` after an exception and `spinning` in a loop that does
not end. Of the pool, only the promise of `LendingPool` is used: a free buffer
can be had, with none left `rent()` waits. What a datagram's frames mean is
`ClientSession`'s subject: here a datagram is the payloads `process_data` gets,
any sequence of them, as a payload may be handled twice. `contents` names the
reliable frame a buffer was last written with. `process_ack` is what `Ack::read`
makes of ACKs as clients write them: too short for the number of ranges it reads
(1 to 255 records), nothing (0 records), or ranges of any numbers (from 256 on,
when the swapped count is small enough), one of which may be a range that ends
at 2^24 - 1, whose loop never ends. `SocketError` is what `recv_value` may
return besides the two errors that are ignored: the exception ends the thread.
`ReliableReplies` has neither buffers nor a listener: a session is a counter and a
map from numbers to replies. The refinement mapping reads each entry's buffer
(`Unacked`), so that a buffer which is written to while a session has a view of it, or
given to two, shows as a reply that changes. Left out: the bytes of replies, which
are in `WireFormat`, and payloads shorter than their packet.

### Codec and WireFormat

In `Codec` an integer is the set of the positions of its one bits: `|` is union,
a cast an intersection, a shift moves positions, `std::byteswap` mirrors bytes.
It covers the integral and the `uint24_t` specialisations of
`BinaryDataInterface` and `bool`. Reading shifts each byte as an `int`: a shift
by 32 or more is undefined in C++, and `ReadIntegral` takes the modulus by which
the build reduces it (`ShiftModuli`: 32, as an x86 does, or 64, where nothing is
left of the byte, as an unrolled loop may do).

`WireFormat` handles one datagram at a time: `memory` is the known part of the
pool's block, `size` and `index` are the fields of the `BinaryBuffer`, and a reply
is written where the request was (`clear` first, `server.cpp:88`) and sent as the
consumed slice. `UnconnectedPing`, `OpenConnectionRequest1`,
`OpenConnectionRequest2` and `OtherPacket` are the branches of `handle_packet`,
`FrameHeader`, `process_frame` and `EndOfFrames` the loop of `process_packet`.
Each bounds check is the one the packet announces, where it announces it. The
definitions that begin with `Peer` are not this repository: they are what
RakNet clients write and expect, as the comments and tables of `packet/*.hpp`
describe it, and marked external in the map. (`PeerIncompatible` takes the
layout of `incompatible_protocol.hpp` for RakNet's.) What clients may send is
`InFull`: packets with all their bytes, whose lengths fit the fields that carry
them and a buffer of the pool; packets and payloads cut short are left out. All
frames are processed once here, with the number the server expects: sessions,
lateness and repeats are the subject of `RakServer` and `ClientSession`.

## 3. Runs

| Run | Bounds | Shows |
|---|---|---|
| `pool_safety` | 3 threads, 3 blocks of 1 buffer, 2 buffers per thread; symmetric threads | `Conserved`, `CountAgrees`, `StuckFlagOnlyAtLimit`, `NoLostWakeup`, and that the pool implements `LendingPool` |
| `pool_live` | 2 blocks of 1, each thread rents a bounded number of times | `EveryRentReturns` |
| `pool_abort` | 3 threads | violation: `rent` throws |
| `session_lossy` | channels 0 and 16, 4 datagrams, 2 retransmissions, 2 in flight, 1 duplicate; reordering and loss; ordered and sequenced frames, fragments | what the number check and the reorder buffer do guarantee |
| `session_in_order` | channels 0 and 16, 3 datagrams of up to 2 frames, 1 retransmission, datagram numbers modulo 2, order indices modulo 3 | in-order processing, complete until the indices wrap, and undisturbed, on a good network |
| `session_ordered`, `session_nothing_skipped` | 1 channel | violations: see section 5 |
| `handshake` | 1 client of the server's version, 1 of another; timeout 1, clock to 2, set once by -1 or +2; 1 restart, 2 frame sets of each client with numbers modulo 2, 1 loss, 2 requests in flight, any number of repetitions | who has a session, what ends it, and that a client that asks gets in |
| `wire` | every kind of packet; 5 reliabilities, with and without fragments, 11 payloads, alone and with a frame of the smallest payload before or after it; 3 datagram numbers, 3 times, both shift moduli | that both sides read what the other means |
| `wire_request` | the same | violation: the MTU of the reply is not the one that was asked for |
| `send_path` | 2 clients (symmetric), 4 buffers, 2 indices, up to 2 payloads of 6 kinds in a datagram, ACKs of 0, 1 and 256 records | where each buffer is, what is kept for whom, what makes the listener wait, and that the sessions implement `ReliableReplies` |
| `send_stuck` | 1 client, 4 buffers, 8 indices | violation: the listener waits for itself |

Why these bounds. Three threads are the fewest that show every hazard of the
pool: one waits, one gives back, one takes the buffer away in between; two
blocks of one buffer make growth, the limit and the wait on block 1 happen within
a few steps, and the third block of `pool_safety` adds a growth that stops short
of the limit. A reorder anomaly on a channel takes three frames, one early, one
late and one after them; with four datagrams there is one left to repeat or to
put on the other channel. Channels 0 and 16 have keys that differ in the highest
of the five bits only, which is the first to go if they are shifted too far.
Numbers modulo 2 and indices modulo 3 make both counters wrap within three datagrams of two frames (`session_in_order` only: on
an unreliable network a modulus that small would show the model's bound and not
the code's). In the handshake,
repetition is unlimited because the network is a set that may keep what it
delivered; a timeout of 1 and a clock that reaches 2 let a session time out and
be made again, as a clock that is set gives a third reading; two frame sets with
numbers modulo 2 take a session's counter past its wrap. With four buffers
one client fills the pool with two replies that are not acknowledged, so that the
listener waits at each of its three calls of `rent()`; two indices make them wrap
into entries that are still in use; the numbers of records are the three
kinds of ACKs. In `wire` there is nothing to interleave: a state is a datagram
and how far it is read, and a datagram of two frames has every boundary a longer
one has. The times have bits in each half and in the sign of an `int`, the
numbers 0, 255 and 2^24 - 1 are those at which `uint24_t` carries or wraps, and a
payload of one byte with no index makes the smallest frame. Deadlock is not
checked where the bounds or the end of the process stop the model; nobody is
obliged to send, so no run of the server can be stuck for another reason, and
stuck threads of the pool are what `pool_live` looks for with deadlock checking
on.

### Properties that deserve a word

- `CountAgrees` allows the counter to be behind the stack while the mutex is
  taken: that is when `try_rent` reads it.
- `NoLostWakeup` counts: while somebody sleeps on a block, there are no more
  free buffers than threads that are awake for it or about to notify.
- `DuplicateOnlyAboveGap` and `MissingAboveGap` say what is left of "a datagram
  is taken once" and "a missing datagram is recorded". They hold until the
  numbers wrap (`Len(log) < NumberMod`): the first repetition after a wrap is
  accepted again on a stream without holes.
- `FirstCopiesAreProcessed`: without repetitions no ordered frame of a datagram
  that is accepted is dropped as late, in any order of arrival. It holds because
  early frames are processed at once (a bug) and do not move the counter. It says
  nothing of a datagram that comes late: that is dropped as a whole, with the
  frames in it, even if its number was recorded as missing. From the wrap of
  numbers or indices on nothing is claimed.
- `ChannelIsolation`: a frame touches the counters and the buffered frames of its
  own channel only. All channels share one map, so this rests on the keys, whose
  channel part is five bits wide.
- `DownOnlyOnRepeat`: the process ends by an ordered frame on one of these
  channels only if that very frame was processed before.
- `Undisturbed` and `EverySentIsProcessed` include the wrap of the datagram
  numbers. The order counters of the code are 32 bits wide and the indices 24:
  the latter is stated up to the wrap of the indices, and `OrderedInOrder` shows
  that nothing of the channel is processed from there on.
- `OnlyTinyTailsAreLost`: the loop over a datagram stops while four bytes are
  left, so that a frame of four bytes at the end is not processed, and no other.
  `FramesSplit` says the same of the bytes.
- `NothingThrows`: the sizes packets announce to the bounds check are guesses
  (100, 33 and 10 bytes); a client that writes a packet in full passes all of them.
- `OfflineRepliesReadable` and `FramedRepliesReadable` compare what the server
  writes with what a RakNet client would have to find, and state the differences
  exactly: octets and port of the client's address in reverse and without
  RakNet's complement (`IpAsRead`, `PortAsRead`), the datagram number without its
  lowest byte, frames that a peer takes for unreliable, 64-bit times of which half
  is lost (`ReadIntegral`), a pong without its id.
- `BuffersPartitioned` is what the moves of `BinaryBuffer`s, the `erase` of
  sessions and entries, and an `insert` that does nothing have to add up to.
- `UnackedIntact`: the buffer under an index holds the frame sent with it, also
  when indices wrap and other frames are written to buffers that were given back
  before they were sent.
- `OnlyUnackedFillThePool` is the other side of the violated `RentReturns`: it
  names the one cause for which the listener waits.
- `ForgottenOnlyWhenSilent` is about real silence, not about `last_packet`.
- `SessionOutlivesHandshakes`: while a session lasts, the number it expects moves
  by one only, modulo the width of the numbers, and only for a frame set of its
  own client that is not late. It does not say that a number is taken once: after
  a gap or a wrap it is not (`DuplicateOnlyAboveGap`).

### Fairness

- Pool (`LiveSpec`): each thread that can step does, and gives back what it
  holds; nobody has to rent. A `std::mutex` is not fair, so rents are bounded:
  with endless competition a thread may starve, and the code promises nothing
  else. Spurious wakeups are left out of this run for the same reason.
- Session (`FairSpec`): weak fairness of delivery and of the listener's loop.
  The listener is one thread that does nothing else. In this run the network
  loses nothing.
- Handshake (`FairSpec`, the specification of `handshake`): a client repeats its
  request until it is answered, what is not lost arrives and is not repeated for
  ever, and the listener handles what arrives. Losses are bounded: a network
  that loses everything defeats any handshake.
- Answers (`FairSpec` of `SendPath`): weak fairness of the listener's own steps,
  as it does nothing else; nobody has to send, and no ACK has to come.

## 4. Proofs

`BufferPoolProofs` proves, for any set of threads, finite or infinite, any number
and size of blocks and any bound on what a thread holds:

- `BuffersConserved`, `CountsAgree`, `TypesCorrect`, `FlagOnlyAtLimit`: the
  invariants of `pool_safety` but `NoLostWakeup`, for which see below;
- `ImplementsLendingPool`: the refinement;
- `SingleRenterNeverAborts`: with one thread `rent` never throws.

They rest on one inductive invariant, `PoolInv`. `CountAgrees` is not inductive:
between `free_buffer_count--` and `pop` the counter is one behind the stack, and
between `push` and `++` as well. `CountInv` says exactly when, by the `pc` of
the thread that holds the mutex, for which `LockInv` is needed (a thread is in
a locked step on block b iff it is the holder of b's mutex), and `PlaceInv`
(what a thread that is giving back still holds, and that a thread in `pop`
finds a buffer). `SingleRenterNeverAborts` adds `AloneInv`: a second search
follows a growth that nobody else can have used up. Assumptions: the thread set
is not empty and does not contain the three marker values, sizes are positive.

`NoWakeupIsLost` proves `NoLostWakeup` for any finite set of threads. The counted
form is inductive once `WaitersAreLast` is known (a thread that sleeps is in the
third search of `rent`, on the block it sleeps on), and its steps are of four
kinds: a buffer less and at most one thread less that is awake (`EnoughPopped`), a
buffer and a thread more (`EnoughPushed`), one thread in the place of another
(`EnoughNotified`), and steps that leave both alone. That threads are finitely
many is the hypothesis of the theorem: without it there is nothing to count.

`HandshakeProofs` proves the five safety properties of `handshake` for any
addresses, versions, timeout and widths of the clock and of the datagram numbers
(`ModuloRange`: what is counted modulo a width stays in it). `HandshakeInv` adds to them
`RefusedInv` (nothing a client of another version sent or was sent gets it past
its first request; without the parts on datagrams under way the invariant is
not inductive) and `SilenceInv` (while nobody sets the clock, a session's age is
the silence of its client). `SilenceForgets` needs that `x % n <= x`.

`SendPathProofs` proves `TypeOK`, `BuffersPartitioned` and `UnackedIntact` for any
clients, buffers, payloads and number of indices. `SendInv` adds `HandsInv` to
them: what the listener holds at each `pc`, without which `send_to` could give back
`NoBuffer`, and that the client it answers has a session, without which an entry
could belong to nobody. `UnackedIntact` follows from the partition, as only buffers that are
free, or have just been, are written to. The lemmas are about the ways to
change the pool: `RentStep`, `GiveBack`, `EntriesStep`, the two `Ready` steps.
Assumed are the constants' sorts and that the record counts are 16 bits wide.
`OnlyUnackedFill` counts: the listener has at most two buffers in its hands where
it waits, none is free, and each of the others is the buffer of an entry of its own; so
there are at least as many entries as buffers but two. It assumes that the pool
is finite (`PoolAssumption`). `ImplementsReliableReplies` is the refinement: opening
and erasing a session, keeping a reply and an ACK are the steps of `ReliableReplies`
(`ConnectOpens`, `ForgetCloses`, `ReadyReplies`, `EraseAcknowledges`), and all others
write to free buffers only, which no entry is a view of (`RepliesKept`), so nothing
changes. `FewRecordsAreTooShort` is arithmetic: the swapped count of 1 to 255 records
asks for more bytes than any such ACK has, so `AckTerminates` is all that can happen.

`SessionProofs` is about `SessionNetwork` for any of RakNet's 32 channels, any
widths, frames and numbers of losses, repeats and retransmissions. `SessionInv` adds to the types
what the reorder buffer is relied on for: a view is of a whole ordered frame, stands
under the key of that frame (`KeyChannel`, `KeyInjective`: of a channel
below 32 nothing is clipped, and IndexMod <= KeyBase keeps the index out of its
bits), and the frame was processed when it was stored. From it follow `ChannelsIsolated`, as a key touched for a frame belongs to its channel,
and `OnlyRepeatsTerminate`. `NumbersInv` relates `next_expected_seq` to the
accepted numbers, and gives `TakenTwiceOnlyAboveGap` and `MissingOnlyAboveGap`
by counting: a counter that has passed m while fewer than m + 1 numbers came leaves
a hole (`TooFew`).

`FirstCopiesProofs` proves `FirstCopiesAreProcessed`. As long as nothing is
repeated, each whole ordered frame exists once: in the network, ahead of the loop
or processed (`EachOnce`). So the reorder buffer, whose frames were processed,
never holds the frame at hand, the drain loop never runs, a counter moves by one
at most, and every index it has passed was processed (`PassedAreProcessed`).
`AllCounted` (frames under way have indices the client has given out) makes the
frames of a new datagram different from all before.

`InOrderProofs` proves the four invariants of `session_in_order`, for a client
that may send ordered frames again, and for numbers and indices that wrap
any number of times. The hypothesis is `GoodNetwork`: no reordering,
loss or repetition by the network, no sequenced frames and no fragments, as in
the run. The invariant reads the log of the datagrams sent as one long list: what was
taken is its beginning, the network the rest (`Queue`), and what the loop has not
reached waits (`Waiting`). `Ladder` says that whatever an ordered frame needs before
it was passed or waits at an earlier place; so the frame at hand
needs nothing that is still to come and is never early (`FrameAtHand`), which gives
`Undisturbed` and, frame by frame, the order (`Outcome`). For new frames `Ladder` needs that the
client counts through every index (`NextRung`, `BeforeReaches`; the least
element comes from `WFMin`). A frame without order has its place as its number
(`SentInv`), and those processed have smaller ones (`PlainPast`), hence `PlainOnce`.
Assumed is that garbage is not a frame (`GarbageAssumption`).

`CodecProofs` is about integers of every width: they are written with the
highest byte first (`WrittenBigEndian`) and read back whole up to four bytes
(`NarrowReadBack`); of eight bytes the lower half is lost, whatever the build
(`WideReadLosesLowHalf`); a `uint24_t` loses its lowest byte when it is written
(`Uint24LosesLowByte`), and nothing when it is read (`Uint24ReadFromPeer`). For the
numbers that lengths and indices are, `NumberReadBack` says that the octets of a
number of two or of three bytes make that number again, and `NumberLosesLowByte`
that a peer sees the server's sequence numbers divided by 256. The module also has what the next one
needs of sequences: `Carries(s, at, t)`, that t stands in s from a position on,
and what concatenation, slices and `FlattenSeq` make of it.

`WireFormatProofs` proves the five invariants of `wire`, for any name, guid,
clock, block size and address of the server, and any packets clients may send:
frame sets of any number of frames, each of any reliability, indices, fragment
and payload. The assumptions are `ServerAssumption`, with a block no smaller than
the longest offline reply, and `PacketsAssumption`, that clients send packets in
full; both are evaluated on every run.

- `WireNothingThrows`: no bounds check fails. `PacketSorted` and the lemmas on
  the bytes of each packet (`PacketBytes`) say what stands where the server looks.
- `WireOfflineRepliesReadable`: every reply is compared with RakNet's layout of
  what the server read, octet for octet (the `...Written` lemmas), the client's
  address as it is (`ClientAddressReversed`, `ComplementTwice`), and `ReplySent` shows that nothing of
  the request under it is sent.
- `WireFramesSplit`: `FrameRead` shows that `FrameInfo::read` undoes what a peer
  wrote, with either optional part there or not, and stops where the frame does.
- `WireFramedRepliesReadable`: `ReplyFramed`, the same for `ready_buffer`, with
  the differences that `FramedRepliesReadable` lists.

The invariant, `WireInv`, needs more than the five: that the buffer still is the
datagram, untouched (`Whole`, `Untouched`), and where the loop is in it (`AtFrame`).
A `Layout` is a function of the number of frames read that gives the
position reached: the loop is at one of its values, and the rest of the memory carries the
rest of the frames. That every datagram has a layout is shown without induction
over its frames, from the prefix sums that `FlattenSeq` is made of and the least
place where they could fail (`LeastElement`). `AtFrame` also says that when all
frames were understood the last one was longer than four bytes. Without it the
invariant is not inductive: a loop that stopped at four bytes and one that read on
would look the same to `FramesSplit`.

Every invariant and every action property of the passing runs is thus proved, and
only the liveness properties are left to TLC alone (`EveryRentReturns`,
`EverySentIsProcessed`, `EveryClientGetsIn`): the prover has no support for
liveness under fairness and for `ENABLED`. Induction over data is out of its reach
as well; where the list of frames or bytes is of any length the proofs use
positions and least elements instead. No module here uses RECURSIVE operators.

## 5. Where the code and its comments disagree

| Run | Line | |
|---|---|---|
| `pool_abort` | `buffer_company.cpp:68` | `try_all().value()` throws inside `rent() noexcept` when other threads emptied the new block, or there was none. Needs several threads. |
| `session_ordered` | `server_client.cpp:115` | The ordered branch has no return: a frame in its turn is processed twice, an early one is buffered (line 111) and processed at once, where `frame_set.hpp:19` wants it to wait. |
| `session_nothing_skipped` | `server_client.cpp:66-77` | The drain loop uses the key of the frame at hand. A frame that was buffered and comes again in its turn moves the counter by two, and the next frame is dropped. |
| `wire_request` | `packet/rak_address.hpp:60` | `RakAddress::read` parses in a buffer of its own, the position stays in front of the address, and `OpenConnectionRequest2` takes its next fields, "MTU" and client id, from it. The reply has the wrong MTU. |
| `send_stuck` | `server_client.cpp:205` | Reliable replies keep their buffers until they are acknowledged; when they fill the pool the only thread waits in `rent()`, which "will always return a valid buffer" (`buffer_company.hpp:64`). |

Two more disagreements need no run of their own. "4 Is the minimum packet
viable" (`server_client.cpp:264`), but the loop ends when four bytes are left:
`FramesSplit` and `OnlyTinyTailsAreLost` state what is lost. And the reading of
integers is "bugged, but in a way which fixes it" (`binary_buffer.hpp:151`): up
to four bytes it is (`NarrowReadBack`), for eight it is not
(`WideReadLosesLowHalf`).

## 6. Not modelled

- `start`, opening the socket, shutdown and destructors: what happens once before
  there is any state, and `running` is never set to false.
- The guid, the MTU and `connection_time` of a session: stored, never read.
- `missing_packets` as a list of requests: no NACK or ACK is ever sent. (The set
  itself is modelled: a single lost datagram never gets into it, as the loop at
  `server_client.cpp:256` starts one too high, and nothing ever leaves it.) `Nack`
  and the writing of `Ack` have no caller.
- Order channels of 32 and more. The byte is read unchecked (`frame_set.hpp:176`);
  such a channel has the key of channel c mod 32 in `out_of_order_packet_buffer`,
  and indexes the arrays of 32 counters out of bounds (`server_client.cpp:38`, 58,
  62, 88), which is undefined. `ChannelsAssumption` excludes them, and what is said of
  channels holds for clients that keep to RakNet's 32.
- The numbers `Ack::read` takes from the wrong bytes: the model lets an ACK of
  a readable size name any.
- The reading of strings, and the arithmetic of `uint24_t` but `++` and the
  comparisons: without a caller. Packets' halves that throw "unimplemented" too.
- Buffered frames whose bytes are read after the block was used for an offline
  reply: `Garbage` stands for all of it.
- The playground, the build files, `mutex.hpp` (used by nothing), the printing
  callbacks of the debug instrument.

## 7. Plan

Done: pool, receiving session, server and router, answering session, encodings,
in this order, because the pool is the only concurrent code, the session the
longest, the answers join the two, and the bytes are what all of them rest on.

What is left:

1. `SendPath` composed with `BufferPool`: now the listener is the only user of its
   pool, and the threads of `BufferPool` rent for no purpose. (`SendPath` is no refinement of `LendingPool`,
   as the end of a session gives back many buffers in one step.)
2. `ClientSession` composed with `RakServer`: a restarted client on an old
   session, of which `Handshake` has the numbers but not the frames.
