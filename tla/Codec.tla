-------------------------------- MODULE Codec --------------------------------
(***************************************************************************)
(* How integers become bytes and bytes become integers                     *)
(* (rakro/internal/binary_buffer.hpp), on a little-endian machine.         *)
(*                                                                         *)
(* An integer of w bytes is the set of the positions of its one bits, 0    *)
(* the lowest: | is union, a cast is an intersection, a shift adds to      *)
(* every position.  A byte is an integer of one byte, and what is on the   *)
(* wire a sequence of bytes.                                               *)
(***************************************************************************)
EXTENDS Integers, Sequences

Bits(w) == 0 .. 8 * w - 1

Word(w) == SUBSET Bits(w)

Byte == Word(1)

(* A literal.                                                              *)
Number(w, n) == {i \in Bits(w) : (n \div 2 ^ i) % 2 = 1}

Octet(v, k) == {i \in Bits(1) : 8 * k + i \in v}

(* And back, for an integer of up to three bytes.                          *)
OctetValue(byte) ==
  LET bit(i) == IF i \in byte THEN 2 ^ i ELSE 0
  IN  bit(0) + bit(1) + bit(2) + bit(3) + bit(4) + bit(5) + bit(6) + bit(7)

NumberOf(v) ==
  OctetValue(Octet(v, 0)) + 2 ^ 8 * OctetValue(Octet(v, 1)) + 2 ^ 16 * OctetValue(Octet(v, 2))

(* std::bit_cast to an array of bytes: the lowest byte first.              *)
InMemory(w, v) == [k \in 1 .. w |-> Octet(v, k - 1)]

(* And back: w bytes of memory as an integer.                              *)
FromMemory(w, bytes) == UNION {{i + 8 * (x - 1) : i \in bytes[x]} : x \in 1 .. w}

byteswap(w, v) == {8 * (w - 1 - i \div 8) + (i % 8) : i \in v}

(* BinaryDataInterface<T>::write.                                          *)
WriteIntegral(w, v) == InMemory(w, byteswap(w, v))

(***************************************************************************)
(* BinaryDataInterface<T>::read.  next_byte() << x * 8 is computed as an   *)
(* int of 32 bits, whose highest bit is its sign.  For the bytes of a      *)
(* 64-bit integer from the fifth on the shift is by 32 or more, which is   *)
(* undefined: an x86 takes the count modulo 32, an unrolled loop may leave *)
(* nothing, as if it were taken modulo 64 or more.  The last parameter is  *)
(* that modulus.                                                           *)
(***************************************************************************)
IntBits == 0 .. 31

ShiftedByte(byte, count, modulus) == {i + (count % modulus) : i \in byte} \cap IntBits

Cast(w, int) == Bits(w) \cap (int \cup IF 31 \in int THEN Bits(w) \ IntBits ELSE {})

ReadIntegral(w, bytes, modulus) ==
  byteswap(w, UNION {Cast(w, ShiftedByte(bytes[x + 1], 8 * x, modulus)) : x \in 0 .. w - 1})

ReadBool(byte) == byte # {}

WriteBool(b) == IF b THEN Number(1, 1) ELSE {}

(* A uint24_t is held in four bytes.  It is written from the upper three   *)
(* of them, and read into the lower three.                                 *)
WriteUint24(v) == [x \in 1 .. 3 |-> Octet(v, x)]

ReadUint24(bytes) == FromMemory(3, bytes)

(***************************************************************************)
(* What RakNet peers send, who are not part of the repository: integers    *)
(* with the highest byte first, and those of 24 bits with the lowest.      *)
(***************************************************************************)
BigEndian(w, v) == [k \in 1 .. w |-> Octet(v, w - k)]

LittleEndian(w, v) == [k \in 1 .. w |-> Octet(v, k - 1)]
=============================================================================
