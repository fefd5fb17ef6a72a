----------------------------- MODULE CodecProofs -----------------------------
(***************************************************************************)
(* Theorems about Codec, for integers of every value, and of every width   *)
(* where the code allows it: what reading makes of what was written.       *)
(*                                                                         *)
(* As integers are sets of bit positions, each of them says where every    *)
(* bit goes.  That the low byte comes first in the memory of the machine   *)
(* is part of InMemory.                                                    *)
(*                                                                         *)
(* The last part is about sequences: what stands where in a datagram that  *)
(* was put together from parts.                                            *)
(***************************************************************************)
EXTENDS Codec, SequencesExt, SequenceTheorems, WellFoundedInduction, TLAPS

(* Where a bit goes when the bytes change their order.                     *)
Mirror(w, i) == 8 * (w - 1 - i \div 8) + (i % 8)

(* Twice gives the bit back, by the way of a byte and a bit in it.         *)
LEMMA MirrorIsBit ==
  ASSUME NEW w \in Nat \ {0}, NEW i \in Bits(w)
  PROVE  /\ Mirror(w, i) \in Bits(w)
         /\ Mirror(w, Mirror(w, i)) = i
         /\ i \div 8 \in 0 .. w - 1
         /\ i % 8 \in Bits(1)
         /\ i = 8 * (i \div 8) + (i % 8)
BY DEF Mirror, Bits

(* Swapping the bytes twice changes nothing.                               *)
LEMMA ByteswapTwice ==
  ASSUME NEW w \in Nat \ {0}, NEW v \in Word(w)
  PROVE  byteswap(w, v) \in Word(w) /\ byteswap(w, byteswap(w, v)) = v
<1>1. \A i \in v : i \in Bits(w)
  BY DEF Word
<1>2. byteswap(w, v) = {Mirror(w, i) : i \in v}
  BY DEF byteswap, Mirror
<1>3. byteswap(w, v) \in Word(w)
  BY <1>1, <1>2, MirrorIsBit DEF Word
<1>4. byteswap(w, byteswap(w, v)) = {Mirror(w, j) : j \in {Mirror(w, i) : i \in v}}
  BY <1>2 DEF byteswap, Mirror
<1>5. \A i \in v : Mirror(w, Mirror(w, i)) = i
  BY <1>1, MirrorIsBit
<1>. QED  BY <1>3, <1>4, <1>5

(* BinaryDataInterface<T>::write puts the highest byte first, as RakNet    *)
(* wants it, whatever the width of T.                                      *)
THEOREM WrittenBigEndian ==
  ASSUME NEW w \in Nat \ {0}, NEW v \in Word(w)
  PROVE  WriteIntegral(w, v) = BigEndian(w, v)
<1>1. ASSUME NEW k \in 1 .. w, NEW i \in Bits(1)
      PROVE  8 * (k - 1) + i \in byteswap(w, v) <=> 8 * (w - k) + i \in v
  <2>1. 8 * (k - 1) + i \in Bits(w) /\ 8 * (w - k) + i \in Bits(w)
    BY DEF Bits
  <2>2. Mirror(w, 8 * (w - k) + i) = 8 * (k - 1) + i
    BY DEF Mirror, Bits
  <2>3. Mirror(w, 8 * (k - 1) + i) = 8 * (w - k) + i
    BY DEF Mirror, Bits
  <2>4. byteswap(w, v) = {Mirror(w, j) : j \in v}
    BY DEF byteswap, Mirror
  <2>5. ASSUME NEW j \in v, 8 * (k - 1) + i = Mirror(w, j)
        PROVE  j = 8 * (w - k) + i
    BY <2>3, <2>5, MirrorIsBit DEF Word
  <2>. QED  BY <2>2, <2>4, <2>5
<1>. QED  BY <1>1 DEF WriteIntegral, BigEndian, InMemory, Octet

(* One of the first four bytes, shifted by the loop of read, is that byte  *)
(* of the integer.                                                         *)
LEMMA OctetShifted ==
  ASSUME NEW w \in 1 .. 8, NEW v \in Word(w), NEW x \in 0 .. w - 1, x < 4,
         NEW m \in Nat, m >= 32
  PROVE  ShiftedByte(InMemory(w, v)[x + 1], 8 * x, m) = {i \in v : i \div 8 = x}
<1>1. (8 * x) % m = 8 * x
  OBVIOUS
<1>2. InMemory(w, v)[x + 1] = Octet(v, x)
  BY DEF InMemory
<1>3. ASSUME NEW i \in v, i \div 8 = x
      PROVE  /\ i % 8 \in Octet(v, x)
             /\ i = (i % 8) + 8 * x
             /\ i \in IntBits
  <2>1. i \in Bits(w) /\ i % 8 \in Bits(1) /\ i = 8 * x + (i % 8)
    BY <1>3, MirrorIsBit DEF Word
  <2>. QED  BY <2>1 DEF Octet, Bits, IntBits
<1>4. ASSUME NEW i \in Octet(v, x)
      PROVE  i + 8 * x \in v /\ (i + 8 * x) \div 8 = x
  BY DEF Octet, Bits
<1>. QED  BY <1>1, <1>2, <1>3, <1>4 DEF ShiftedByte

(* The cast of the loop keeps it, if the integer has no more than 32 bits. *)
LEMMA NarrowCast ==
  ASSUME NEW w \in 1 .. 4, NEW v \in Word(w), NEW x \in 0 .. w - 1
  PROVE  Cast(w, {i \in v : i \div 8 = x}) = {i \in v : i \div 8 = x}
<1>1. v \subseteq Bits(w)
  BY DEF Word
<1>2. Bits(w) \ IntBits = {}
  BY DEF Bits, IntBits
<1>. QED  BY <1>1, <1>2 DEF Cast

(* Integers of up to four bytes are read as they were written (write and   *)
(* read of BinaryDataInterface), however the build shifts.                 *)
THEOREM NarrowReadBack ==
  ASSUME NEW w \in 1 .. 4, NEW v \in Word(w), NEW m \in Nat, m >= 32
  PROVE  ReadIntegral(w, WriteIntegral(w, v), m) = v
<1>. DEFINE u == byteswap(w, v)
<1>1. u \in Word(w) /\ byteswap(w, u) = v
  BY ByteswapTwice
<1>2. \A x \in 0 .. w - 1 :
        Cast(w, ShiftedByte(InMemory(w, u)[x + 1], 8 * x, m)) = {i \in u : i \div 8 = x}
  <2>. HIDE DEF u
  <2>. TAKE x \in 0 .. w - 1
  <2>. QED  BY <1>1, OctetShifted, NarrowCast
<1>3. UNION {{i \in u : i \div 8 = x} : x \in 0 .. w - 1} = u
  <2>1. \A i \in u : i \div 8 \in 0 .. w - 1
    BY <1>1, MirrorIsBit DEF Word
  <2>. HIDE DEF u
  <2>. QED  BY <2>1
<1>4. UNION {Cast(w, ShiftedByte(InMemory(w, u)[x + 1], 8 * x, m)) : x \in 0 .. w - 1} = u
  <2>. HIDE DEF u
  <2>. QED  BY <1>2, <1>3
<1>. QED  BY <1>1, <1>4 DEF ReadIntegral, WriteIntegral

(* The upper half of an int cast to 64 bits is nothing but its sign.       *)
LEMMA CastOfInt ==
  ASSUME NEW int, int \subseteq IntBits
  PROVE  Cast(8, int) \ IntBits \in {{}, Bits(8) \ IntBits}
BY DEF Cast, Bits, IntBits

(* No 64-bit integer is read whole: the lower half of the result is 0, or  *)
(* all ones if the sign of an int was extended into it, whatever the bytes *)
(* are.                                                                    *)
THEOREM WideReadLosesLowHalf ==
  ASSUME NEW bytes, NEW m
  PROVE  ReadIntegral(8, bytes, m) \cap IntBits \in {{}, IntBits}
<1>. DEFINE part(x) == Cast(8, ShiftedByte(bytes[x + 1], 8 * x, m))
            u == UNION {part(x) : x \in 0 .. 8 - 1}
            upper == Bits(8) \ IntBits
<1>1. \A x \in 0 .. 8 - 1 : part(x) \subseteq Bits(8) /\ part(x) \ IntBits \in {{}, upper}
  <2>1. ASSUME NEW x \in 0 .. 8 - 1
        PROVE  part(x) \ IntBits \in {{}, upper}
    BY CastOfInt DEF ShiftedByte
  <2>. QED  BY <2>1 DEF Cast
<1>2. u \subseteq Bits(8) /\ u \ IntBits \in {{}, upper}
  <2>. HIDE DEF part, upper
  <2>. QED  BY <1>1
<1>3. ASSUME NEW i \in Bits(8)
      PROVE  Mirror(8, i) \in IntBits <=> i \in upper
  BY DEF Mirror, Bits, IntBits
<1>4. ASSUME NEW i \in IntBits
      PROVE  \E j \in upper : Mirror(8, j) = i
  <2>1. Mirror(8, i) \in upper /\ Mirror(8, Mirror(8, i)) = i
    BY DEF Mirror, Bits, IntBits
  <2>. QED  BY <2>1
<1>5. ReadIntegral(8, bytes, m) = {Mirror(8, i) : i \in u}
  BY DEF ReadIntegral, byteswap, Mirror
<1>. HIDE DEF u, upper
<1>6. CASE u \ IntBits = {}
  BY <1>2, <1>3, <1>5, <1>6 DEF upper
<1>7. CASE u \ IntBits = upper
  <2>1. upper \subseteq u
    BY <1>7
  <2>2. IntBits \subseteq {Mirror(8, i) : i \in u}
    BY <1>4, <2>1
  <2>. QED  BY <1>5, <2>2
<1>. QED  BY <1>2, <1>6, <1>7

(* A uint24_t written and read by BinaryDataInterface<uint24_t> comes back *)
(* without its lowest byte.                                                *)
THEOREM Uint24LosesLowByte ==
  ASSUME NEW v \in Word(4)
  PROVE  ReadUint24(WriteUint24(v)) = {i - 8 : i \in v \ Bits(1)}
<1>1. v \subseteq 0 .. 31
  BY DEF Word, Bits
<1>2. \A x \in 1 .. 3 : WriteUint24(v)[x] = {i \in 0 .. 7 : 8 * x + i \in v}
  BY DEF WriteUint24, Octet, Bits
<1>3. ASSUME NEW x \in 1 .. 3, NEW i \in WriteUint24(v)[x]
      PROVE  /\ 8 * x + i \in v \ Bits(1)
             /\ i + 8 * (x - 1) = (8 * x + i) - 8
  BY <1>2 DEF Bits
<1>4. ASSUME NEW j \in v \ Bits(1)
      PROVE  \E x \in 1 .. 3 : \E i \in WriteUint24(v)[x] : i + 8 * (x - 1) = j - 8
  <2>1. j \div 8 \in 1 .. 3 /\ j % 8 \in 0 .. 7 /\ j = 8 * (j \div 8) + (j % 8)
    BY <1>1 DEF Bits
  <2>2. j % 8 \in WriteUint24(v)[j \div 8]
    BY <1>2, <2>1
  <2>3. (j % 8) + 8 * (j \div 8 - 1) = j - 8
    BY <2>1
  <2>. QED  BY <2>1, <2>2, <2>3
<1>. QED  BY <1>3, <1>4 DEF ReadUint24, FromMemory

(* RakNet peers write a number of 24 bits with the lowest byte first: of   *)
(* that, BinaryDataInterface<uint24_t>::read loses nothing.                *)
THEOREM Uint24ReadFromPeer ==
  ASSUME NEW v \in Word(3)
  PROVE  ReadUint24(LittleEndian(3, v)) = v
<1>1. v \subseteq 0 .. 23
  BY DEF Word, Bits
<1>2. \A x \in 1 .. 3 : LittleEndian(3, v)[x] = {i \in 0 .. 7 : 8 * (x - 1) + i \in v}
  BY DEF LittleEndian, Octet, Bits
<1>3. ASSUME NEW j \in v
      PROVE  \E x \in 1 .. 3 : \E i \in LittleEndian(3, v)[x] : i + 8 * (x - 1) = j
  <2>1. j \div 8 \in 0 .. 2 /\ j % 8 \in 0 .. 7 /\ j = 8 * (j \div 8) + (j % 8)
    BY <1>1
  <2>2. j \div 8 + 1 \in 1 .. 3 /\ (j \div 8 + 1) - 1 = j \div 8
    BY <2>1
  <2>3. j % 8 \in LittleEndian(3, v)[j \div 8 + 1]
    BY <1>2, <2>1, <2>2
  <2>4. (j % 8) + 8 * ((j \div 8 + 1) - 1) = j
    BY <2>1
  <2>. QED  BY <2>2, <2>3, <2>4
<1>4. ASSUME NEW x \in 1 .. 3, NEW i \in LittleEndian(3, v)[x]
      PROVE  i + 8 * (x - 1) \in v
  BY <1>2
<1>. QED  BY <1>3, <1>4 DEF ReadUint24, FromMemory
(***************************************************************************)
(* Literals.  A power of two is known to the provers only where its        *)
(* exponent is, which is why bits are taken one by one.                    *)
(***************************************************************************)

(* Zero has no bits.                                                       *)
LEMMA NumberZero == Number(1, 0) = {}
<1>1. ASSUME NEW i \in 0 .. 7
      PROVE  (0 \div 2 ^ i) % 2 # 1
  <2>1. CASE i = 0
      BY <2>1
  <2>2. CASE i = 1
      BY <2>2
  <2>3. CASE i = 2
      BY <2>3
  <2>4. CASE i = 3
      BY <2>4
  <2>5. CASE i = 4
      BY <2>5
  <2>6. CASE i = 5
      BY <2>6
  <2>7. CASE i = 6
      BY <2>7
  <2>8. CASE i = 7
      BY <2>8
  <2>. QED  BY <2>1, <2>2, <2>3, <2>4, <2>5, <2>6, <2>7, <2>8
<1>2. Bits(1) = 0 .. 7
  BY DEF Bits
<1>3. \A i \in Bits(1) : (0 \div 2 ^ i) % 2 # 1
  BY <1>1, <1>2
<1>. QED  BY <1>3 DEF Number

(* An octet of a literal is the literal of the quotient.                   *)
LEMMA OctetsOfNumber ==
  ASSUME NEW w \in 1 .. 4, NEW n \in Nat
  PROVE  /\ Octet(Number(w, n), 0) = Number(1, n)
         /\ w > 1 => Octet(Number(w, n), 1) = Number(1, n \div 256)
         /\ w > 2 => Octet(Number(w, n), 2) = Number(1, n \div 65536)
<1>1. Bits(1) = 0 .. 7 /\ \A k : Octet(Number(w, n), k) \subseteq 0 .. 7
  BY DEF Bits, Octet
<1>2. \A m : Number(1, m) \subseteq 0 .. 7
  BY <1>1 DEF Number
<1>3. \A i \in 0 .. 7 : i \in Octet(Number(w, n), 0) <=> i \in Number(1, n)
  <2>1. \A i \in 0 .. 7 : i \in Bits(w) /\ 8 * 0 + i = i
    BY DEF Bits
  <2>. QED  BY <1>1, <2>1 DEF Octet, Number
<1>4. ASSUME w > 1, NEW i \in 0 .. 7
      PROVE  i \in Octet(Number(w, n), 1) <=> i \in Number(1, n \div 256)
  <2>1. CASE i = 0
      BY <1>4, <2>1 DEF Octet, Number, Bits
  <2>2. CASE i = 1
      BY <1>4, <2>2 DEF Octet, Number, Bits
  <2>3. CASE i = 2
      BY <1>4, <2>3 DEF Octet, Number, Bits
  <2>4. CASE i = 3
      BY <1>4, <2>4 DEF Octet, Number, Bits
  <2>5. CASE i = 4
      BY <1>4, <2>5 DEF Octet, Number, Bits
  <2>6. CASE i = 5
      BY <1>4, <2>6 DEF Octet, Number, Bits
  <2>7. CASE i = 6
      BY <1>4, <2>7 DEF Octet, Number, Bits
  <2>8. CASE i = 7
      BY <1>4, <2>8 DEF Octet, Number, Bits
  <2>. QED  BY <2>1, <2>2, <2>3, <2>4, <2>5, <2>6, <2>7, <2>8
<1>5. ASSUME w > 2, NEW i \in 0 .. 7
      PROVE  i \in Octet(Number(w, n), 2) <=> i \in Number(1, n \div 65536)
  <2>1. CASE i = 0
      BY <1>5, <2>1 DEF Octet, Number, Bits
  <2>2. CASE i = 1
      BY <1>5, <2>2 DEF Octet, Number, Bits
  <2>3. CASE i = 2
      BY <1>5, <2>3 DEF Octet, Number, Bits
  <2>4. CASE i = 3
      BY <1>5, <2>4 DEF Octet, Number, Bits
  <2>5. CASE i = 4
      BY <1>5, <2>5 DEF Octet, Number, Bits
  <2>6. CASE i = 5
      BY <1>5, <2>6 DEF Octet, Number, Bits
  <2>7. CASE i = 6
      BY <1>5, <2>7 DEF Octet, Number, Bits
  <2>8. CASE i = 7
      BY <1>5, <2>8 DEF Octet, Number, Bits
  <2>. QED  BY <2>1, <2>2, <2>3, <2>4, <2>5, <2>6, <2>7, <2>8
<1>6. Octet(Number(w, n), 0) = Number(1, n)
  BY <1>1, <1>2, <1>3
<1>7. w > 1 => Octet(Number(w, n), 1) = Number(1, n \div 256)
  BY <1>1, <1>2, <1>4
<1>8. w > 2 => Octet(Number(w, n), 2) = Number(1, n \div 65536)
  BY <1>1, <1>2, <1>5
<1>. QED  BY <1>6, <1>7, <1>8

(* A literal of one byte has the value of its lower eight bits.            *)
LEMMA ByteValue ==
  ASSUME NEW n \in Nat
  PROVE  OctetValue(Number(1, n)) = n % 256
<1>. DEFINE bit(i) == IF i \in Number(1, n) THEN 2 ^ i ELSE 0
<1>1. ASSUME NEW i \in 0 .. 7
      PROVE  bit(i) = 2 ^ i * ((n \div 2 ^ i) % 2)
  <2>1. CASE i = 0
      BY <2>1 DEF Number, Bits
  <2>2. CASE i = 1
      BY <2>2 DEF Number, Bits
  <2>3. CASE i = 2
      BY <2>3 DEF Number, Bits
  <2>4. CASE i = 3
      BY <2>4 DEF Number, Bits
  <2>5. CASE i = 4
      BY <2>5 DEF Number, Bits
  <2>6. CASE i = 5
      BY <2>6 DEF Number, Bits
  <2>7. CASE i = 6
      BY <2>7 DEF Number, Bits
  <2>8. CASE i = 7
      BY <2>8 DEF Number, Bits
  <2>. QED  BY <2>1, <2>2, <2>3, <2>4, <2>5, <2>6, <2>7, <2>8
<1>2. OctetValue(Number(1, n)) =
        bit(0) + bit(1) + bit(2) + bit(3) + bit(4) + bit(5) + bit(6) + bit(7)
  BY DEF OctetValue
<1>. HIDE DEF bit
<1>3. /\ bit(0) = n % 2 /\ bit(1) = 2 * ((n \div 2) % 2)
      /\ bit(2) = 4 * ((n \div 4) % 2) /\ bit(3) = 8 * ((n \div 8) % 2)
      /\ bit(4) = 16 * ((n \div 16) % 2) /\ bit(5) = 32 * ((n \div 32) % 2)
      /\ bit(6) = 64 * ((n \div 64) % 2) /\ bit(7) = 128 * ((n \div 128) % 2)
  BY <1>1
<1>4. /\ n = (n % 2) + 2 * (n \div 2)
      /\ n \div 2 = ((n \div 2) % 2) + 2 * (n \div 4)
      /\ n \div 4 = ((n \div 4) % 2) + 2 * (n \div 8)
      /\ n \div 8 = ((n \div 8) % 2) + 2 * (n \div 16)
  OBVIOUS
<1>5. /\ n \div 16 = ((n \div 16) % 2) + 2 * (n \div 32)
      /\ n \div 32 = ((n \div 32) % 2) + 2 * (n \div 64)
      /\ n \div 64 = ((n \div 64) % 2) + 2 * (n \div 128)
      /\ n \div 128 = ((n \div 128) % 2) + 2 * (n \div 256)
      /\ n = (n % 256) + 256 * (n \div 256)
  OBVIOUS
<1>6. n % 256 = (n % 2) + 2 * ((n \div 2) % 2) + 4 * ((n \div 4) % 2)
                  + 8 * ((n \div 8) % 2) + 16 * ((n \div 16) % 2)
                  + 32 * ((n \div 32) % 2) + 64 * ((n \div 64) % 2)
                  + 128 * ((n \div 128) % 2)
  BY <1>4, <1>5
<1>. QED  BY <1>2, <1>3, <1>6

(* What a literal of two bytes stands for is the number it was made of.    *)
LEMMA TwoByteNumber ==
  ASSUME NEW n \in Nat, n < 2 ^ 16
  PROVE  NumberOf(Number(2, n)) = n
<1>1. OctetValue(Octet(Number(2, n), 0)) = n % 256
  BY OctetsOfNumber, ByteValue
<1>2. OctetValue(Octet(Number(2, n), 1)) = (n \div 256) % 256
  <2>1. n \div 256 \in Nat
    OBVIOUS
  <2>2. Octet(Number(2, n), 1) = Number(1, n \div 256)
    BY OctetsOfNumber
  <2>. QED  BY <2>1, <2>2, ByteValue
<1>3. OctetValue(Octet(Number(2, n), 2)) = 0
  <2>1. \A i \in Bits(1) : 8 * 2 + i \notin Bits(2)
    BY DEF Bits
  <2>2. Octet(Number(2, n), 2) = {}
    BY <2>1 DEF Octet, Number
  <2>. QED  BY <2>2 DEF OctetValue
<1>4. NumberOf(Number(2, n)) = (n % 256) + 2 ^ 8 * ((n \div 256) % 256) + 2 ^ 16 * 0
  BY <1>1, <1>2, <1>3, Zenon DEF NumberOf
<1>5. (n \div 256) % 256 = n \div 256 /\ n = (n % 256) + 256 * (n \div 256)
  OBVIOUS
<1>. QED  BY <1>4, <1>5

(* The same of two bytes, in which lengths are, and of three, in which     *)
(* datagram numbers and indices are: the octets make the number again.     *)
THEOREM NumberReadBack ==
  ASSUME NEW n \in Nat
  PROVE  /\ n < 2 ^ 16 => NumberOf(Number(2, n)) = n
         /\ n < 2 ^ 24 => NumberOf(Number(3, n)) = n
<1>. SUFFICES ASSUME n < 2 ^ 24
              PROVE  NumberOf(Number(3, n)) = n
  BY TwoByteNumber
<1>1. OctetValue(Octet(Number(3, n), 0)) = n % 256
  BY OctetsOfNumber, ByteValue
<1>2. OctetValue(Octet(Number(3, n), 1)) = (n \div 256) % 256
  <2>1. n \div 256 \in Nat
    OBVIOUS
  <2>2. Octet(Number(3, n), 1) = Number(1, n \div 256)
    BY OctetsOfNumber
  <2>. QED  BY <2>1, <2>2, ByteValue
<1>3. OctetValue(Octet(Number(3, n), 2)) = (n \div 65536) % 256
  <2>1. n \div 65536 \in Nat
    OBVIOUS
  <2>2. Octet(Number(3, n), 2) = Number(1, n \div 65536)
    BY OctetsOfNumber
  <2>. QED  BY <2>1, <2>2, ByteValue
<1>4. NumberOf(Number(3, n))
        = (n % 256) + 2 ^ 8 * ((n \div 256) % 256) + 2 ^ 16 * ((n \div 65536) % 256)
  <2>. DEFINE low == n % 256   middle == (n \div 256) % 256   high == (n \div 65536) % 256
  <2>1. /\ OctetValue(Octet(Number(3, n), 0)) = low
        /\ OctetValue(Octet(Number(3, n), 1)) = middle
        /\ OctetValue(Octet(Number(3, n), 2)) = high
    BY <1>1, <1>2, <1>3
  <2>. HIDE DEF low, middle, high
  <2>2. NumberOf(Number(3, n)) = low + 2 ^ 8 * middle + 2 ^ 16 * high
    BY <2>1, Zenon DEF NumberOf
  <2>. QED  BY <2>2 DEF low, middle, high
<1>5. (n \div 65536) % 256 = n \div 65536
  <2>1. n \div 65536 \in Nat /\ n \div 65536 < 256
    OBVIOUS
  <2>. QED  BY <2>1
<1>6. n = (n % 256) + 256 * (n \div 256)
  OBVIOUS
<1>7. n \div 256 = ((n \div 256) % 256) + 256 * (n \div 65536)
  OBVIOUS
<1>8. NumberOf(Number(3, n))
        = (n % 256) + 256 * ((n \div 256) % 256) + 65536 * (n \div 65536)
  BY <1>4, <1>5
<1>. QED  BY <1>6, <1>7, <1>8

(* A literal below 256 is the same in one byte and in two.                 *)
LEMMA NarrowNumber ==
  ASSUME NEW n \in 0 .. 255
  PROVE  Number(1, n) = Number(2, n) /\ NumberOf(Number(1, n)) = n
<1>1. n \in Nat /\ n \div 256 = 0 /\ n < 2 ^ 16
  OBVIOUS
<1>2. Octet(Number(2, n), 0) = Number(1, n) /\ Octet(Number(2, n), 1) = {}
  BY <1>1, OctetsOfNumber, NumberZero
<1>3. Bits(1) = 0 .. 7 /\ Bits(2) = 0 .. 15
  BY DEF Bits
<1>4. ASSUME NEW i \in 0 .. 15
      PROVE  i \in Number(2, n) <=> i \in Number(1, n)
  <2>1. CASE i \in 0 .. 7
    BY <1>3, <2>1 DEF Number
  <2>2. CASE i \notin 0 .. 7
    <3>1. i - 8 \in 0 .. 7 /\ i = 8 * 1 + (i - 8)
      BY <2>2
    <3>2. i - 8 \notin Octet(Number(2, n), 1)
      BY <1>2
    <3>3. i \notin Number(2, n)
      BY <1>3, <3>1, <3>2 DEF Octet
    <3>. QED  BY <1>3, <2>2, <3>3 DEF Number
  <2>. QED  BY <2>1, <2>2
<1>5. Number(1, n) \subseteq 0 .. 15 /\ Number(2, n) \subseteq 0 .. 15
  BY <1>3 DEF Number
<1>6. Number(1, n) = Number(2, n)
  BY <1>4, <1>5
<1>. QED  BY <1>1, <1>6, TwoByteNumber

(* FrameInfo is written with a length in bits: << 3 and >> 3 of 16 bits    *)
(* are times and by eight as long as the result has 16 bits.               *)
LEMMA EightTimes ==
  ASSUME NEW n \in Nat
  PROVE  /\ {i + 3 : i \in Number(2, n)} \cap Bits(2) = Number(2, 8 * n)
         /\ 8 * n < 2 ^ 16 => {i \in Bits(2) : i + 3 \in Number(2, 8 * n)} = Number(2, n)
<1>1. Bits(2) = 0 .. 15
  BY DEF Bits
<1>2. ASSUME NEW i \in 0 .. 2
      PROVE  ((8 * n) \div 2 ^ i) % 2 = 0
  <2>1. CASE i = 0
      BY <2>1
  <2>2. CASE i = 1
      BY <2>2
  <2>3. CASE i = 2
      BY <2>3
  <2>. QED  BY <2>1, <2>2, <2>3
<1>3. ASSUME NEW i \in 0 .. 12
      PROVE  (8 * n) \div 2 ^ (i + 3) = n \div 2 ^ i
  <2>1. CASE i = 0
      BY <2>1
  <2>2. CASE i = 1
      BY <2>2
  <2>3. CASE i = 2
      BY <2>3
  <2>4. CASE i = 3
      BY <2>4
  <2>5. CASE i = 4
      BY <2>5
  <2>6. CASE i = 5
      BY <2>6
  <2>7. CASE i = 6
      BY <2>7
  <2>8. CASE i = 7
      BY <2>8
  <2>9. CASE i = 8
      BY <2>9
  <2>10. CASE i = 9
      BY <2>10
  <2>11. CASE i = 10
      BY <2>11
  <2>12. CASE i = 11
      BY <2>12
  <2>13. CASE i = 12
      BY <2>13
  <2>. QED  BY <2>1, <2>2, <2>3, <2>4, <2>5, <2>6, <2>7, <2>8, <2>9, <2>10,
               <2>11, <2>12, <2>13
<1>4. ASSUME 8 * n < 2 ^ 16, NEW i \in 13 .. 15
      PROVE  n \div 2 ^ i = 0
  <2>1. CASE i = 13
      BY <1>4, <2>1
  <2>2. CASE i = 14
      BY <1>4, <2>2
  <2>3. CASE i = 15
      BY <1>4, <2>3
  <2>. QED  BY <2>1, <2>2, <2>3
<1>5. ASSUME NEW i \in 0 .. 12
      PROVE  i + 3 \in Number(2, 8 * n) <=> i \in Number(2, n)
  <2>1. i \in 0 .. 15 /\ i + 3 \in 0 .. 15
    OBVIOUS
  <2>. QED  BY <1>1, <1>3, <2>1 DEF Number
<1>6. ASSUME NEW j \in 0 .. 15
      PROVE  j \in {i + 3 : i \in Number(2, n)} <=> j \in Number(2, 8 * n)
  <2>1. CASE j \in 0 .. 2
    <3>1. j \notin Number(2, 8 * n)
      <4>1. ((8 * n) \div 2 ^ j) % 2 = 0
        BY <1>2, <2>1
      <4>. QED  BY <4>1 DEF Number
    <3>2. \A i \in Number(2, n) : i + 3 # j
      BY <1>1, <2>1 DEF Number
    <3>. QED  BY <3>1, <3>2
  <2>2. CASE j \notin 0 .. 2
    <3>1. j - 3 \in 0 .. 12 /\ (j - 3) + 3 = j
      BY <2>2
    <3>2. j \in Number(2, 8 * n) <=> j - 3 \in Number(2, n)
      BY <1>5, <3>1
    <3>3. \A i \in Number(2, n) : i + 3 = j => i = j - 3
      BY <1>1 DEF Number
    <3>. QED  BY <3>1, <3>2, <3>3
  <2>. QED  BY <2>1, <2>2
<1>7. ASSUME 8 * n < 2 ^ 16, NEW i \in 0 .. 15
      PROVE  i + 3 \in Number(2, 8 * n) <=> i \in Number(2, n)
  <2>1. CASE i \in 0 .. 12
    BY <1>5, <2>1
  <2>2. CASE i \in 13 .. 15
    <3>1. i + 3 \notin Bits(2)
      BY <1>1, <2>2
    <3>2. (n \div 2 ^ i) % 2 # 1
      <4>1. n \div 2 ^ i = 0
        BY <1>4, <1>7, <2>2
      <4>2. 0 % 2 # 1
        OBVIOUS
      <4>. QED  BY <4>1, <4>2
    <3>. QED  BY <3>1, <3>2 DEF Number
  <2>. QED  BY <2>1, <2>2
<1>8. Number(2, n) \subseteq 0 .. 15 /\ Number(2, 8 * n) \subseteq 0 .. 15
  BY <1>1 DEF Number
<1>. QED  BY <1>1, <1>6, <1>7, <1>8

(* The datagram number as it is written: a peer reads it divided by 256.   *)
THEOREM NumberLosesLowByte ==
  ASSUME NEW n \in Nat, n < 2 ^ 24
  PROVE  WriteUint24(Number(3, n)) = LittleEndian(3, Number(3, n \div 256))
<1>. DEFINE m == n \div 256
<1>1. /\ m \in Nat /\ m \div 256 = n \div 65536 /\ m \div 65536 = 0
  OBVIOUS
<1>2. Octet(Number(3, n), 1) = Octet(Number(3, m), 0)
  BY <1>1, OctetsOfNumber
<1>3. Octet(Number(3, n), 2) = Octet(Number(3, m), 1)
  <2>1. Octet(Number(3, n), 2) = Number(1, n \div 65536)
    BY OctetsOfNumber
  <2>2. Octet(Number(3, m), 1) = Number(1, m \div 256)
    BY <1>1, OctetsOfNumber
  <2>. QED  BY <1>1, <2>1, <2>2
<1>4. Octet(Number(3, n), 3) = Octet(Number(3, m), 2)
  <2>1. \A i \in Bits(1) : 8 * 3 + i \notin Bits(3)
    BY DEF Bits
  <2>2. Octet(Number(3, n), 3) = {}
    BY <2>1 DEF Octet, Number
  <2>3. Octet(Number(3, m), 2) = Number(1, m \div 65536)
    BY <1>1, OctetsOfNumber
  <2>. QED  BY <1>1, <2>2, <2>3, NumberZero
<1>. HIDE DEF m
<1>5. ASSUME NEW x \in 1 .. 3
      PROVE  Octet(Number(3, n), x) = Octet(Number(3, m), x - 1)
  <2>1. CASE x = 1
    BY <1>2, <2>1
  <2>2. CASE x = 2
    BY <1>3, <2>2
  <2>3. CASE x = 3
    BY <1>4, <2>3
  <2>. QED  BY <2>1, <2>2, <2>3
<1>6. WriteUint24(Number(3, n)) = LittleEndian(3, Number(3, m))
  BY <1>5 DEF WriteUint24, LittleEndian
<1>. QED  BY <1>6 DEF m
-----------------------------------------------------------------------------
(* A function on 1 .. n is a sequence.                                     *)
LEMMA FunctionIsSeq ==
  ASSUME NEW S, NEW n \in Nat, NEW f \in [1 .. n -> S]
  PROVE  f \in Seq(S) /\ Len(f) = n
<1>1. f \in Seq(S)
  BY SeqDef
<1>2. Len(f) \in Nat /\ DOMAIN f = 1 .. Len(f)
  BY <1>1, LenProperties
<1>. QED  BY <1>1, <1>2

(* A set of numbers has a least one. What holds for 0, and for every       *)
(* number after one for which it holds, is proved with it below: the least *)
(* number for which it does not hold cannot exist.                         *)
LEMMA LeastElement ==
  ASSUME NEW S, S \subseteq Nat, S # {}
  PROVE  \E x \in S : \A y \in S : x <= y
<1>1. IsWellFoundedOn(OpToRel(<, Nat), Nat)
  BY NatLessThanWellFounded
<1>2. PICK x \in S : \A y \in S : <<y, x>> \notin OpToRel(<, Nat)
  BY <1>1, WFMin
<1>3. ASSUME NEW y \in S PROVE x <= y
  <2>1. <<y, x>> \notin OpToRel(<, Nat)
    BY <1>2
  <2>2. ~(y < x)
    BY <2>1 DEF OpToRel
  <2>. QED  BY <2>2
<1>. QED  BY <1>3

(* How flatten of FlattenSeq is computed *)
Flattening(fs, n, g) ==
  g = [i \in 1 .. n |-> IF i = 1 THEN fs[i] ELSE g[i - 1] \o fs[i]]

(* There is such a function, for every sequence.                           *)
LEMMA FlattenExists ==
  ASSUME NEW fs, NEW n \in Nat
  PROVE  \E g : Flattening(fs, n, g)
<1>. DEFINE Bad == {m \in Nat : ~ \E g : Flattening(fs, m, g)}
<1>. SUFFICES ASSUME Bad # {} PROVE FALSE
  OBVIOUS
<1>1. PICK m \in Bad : \A k \in Bad : m <= k
  BY LeastElement
<1>2. CASE m = 0
  <2>. DEFINE g == [i \in 1 .. 0 |-> fs[1]]
  <2>1. Flattening(fs, m, g)
    BY <1>2 DEF Flattening
  <2>. QED  BY <2>1
<1>3. CASE m # 0
  <2>1. m - 1 \in Nat /\ m - 1 \notin Bad
    BY <1>1, <1>3
  <2>2. PICK g : Flattening(fs, m - 1, g)
    BY <2>1
  <2>. DEFINE h == [i \in 1 .. m |-> IF i = m THEN (IF i = 1 THEN fs[i] ELSE g[i - 1] \o fs[i])
                                     ELSE g[i]]
  <2>3. \A i \in 1 .. m - 1 : g[i] = IF i = 1 THEN fs[i] ELSE g[i - 1] \o fs[i]
    BY <2>2 DEF Flattening
  <2>4. ASSUME NEW i \in 1 .. m
        PROVE  h[i] = IF i = 1 THEN fs[i] ELSE h[i - 1] \o fs[i]
    <3>1. CASE i = 1
      BY <2>3, <3>1
    <3>2. CASE i # 1
      <4>1. i - 1 \in 1 .. m /\ i - 1 # m
        BY <3>2
      <4>2. h[i - 1] = g[i - 1]
        BY <4>1
      <4>3. CASE i = m
        BY <3>2, <4>2, <4>3
      <4>4. CASE i # m
        <5>1. i \in 1 .. m - 1 /\ h[i] = g[i]
          BY <4>4
        <5>. QED  BY <2>3, <3>2, <4>2, <5>1
      <4>. QED  BY <4>3, <4>4
    <3>. QED  BY <3>1, <3>2
  <2>5. Flattening(fs, m, h)
    <3>. HIDE DEF h
    <3>1. h = [i \in 1 .. m |-> h[i]]
      BY DEF h
    <3>. QED  BY <2>4, <3>1 DEF Flattening
  <2>. QED  BY <2>5
<1>. QED  BY <1>2, <1>3

(* And what FlattenSeq returns is its last value.                          *)
LEMMA FlattenIs ==
  ASSUME NEW fs, Len(fs) \in Nat, Len(fs) # 0
  PROVE  \E g : Flattening(fs, Len(fs), g) /\ FlattenSeq(fs) = g[Len(fs)]
<1>. DEFINE g == CHOOSE g : Flattening(fs, Len(fs), g)
<1>1. Flattening(fs, Len(fs), g)
  BY FlattenExists
<1>2. FlattenSeq(fs) = g[Len(fs)]
  BY DEF FlattenSeq, Flattening
<1>. QED  BY <1>1, <1>2

(***************************************************************************)
(* A sequence stands in another one after a position.                      *)
(***************************************************************************)
Carries(m, at, part) ==
  /\ at \in Nat /\ at + Len(part) <= Len(m)
  /\ \A j \in 1 .. Len(part) : m[at + j] = part[j]

(* A sequence stands in itself, at the beginning.                          *)
LEMMA CarriesItself ==
  ASSUME NEW S, NEW m \in Seq(S)
  PROVE  Carries(m, 0, m)
BY LenProperties DEF Carries

(* What begins with a sequence, and what follows it.                       *)
LEMMA CarriesConcat ==
  ASSUME NEW S, NEW m, NEW at, NEW a \in Seq(S), NEW b \in Seq(S), Carries(m, at, a \o b)
  PROVE  Carries(m, at, a) /\ Carries(m, at + Len(a), b)
<1>1. Len(a) \in Nat /\ Len(b) \in Nat /\ at \in Nat
  BY LenProperties DEF Carries
<1>2. /\ Len(a \o b) = Len(a) + Len(b)
      /\ \A i \in 1 .. Len(a) + Len(b) :
            (a \o b)[i] = IF i <= Len(a) THEN a[i] ELSE b[i - Len(a)]
  BY ConcatProperties
<1>3. ASSUME NEW j \in 1 .. Len(a)
      PROVE  m[at + j] = a[j]
  <2>1. j \in 1 .. Len(a) + Len(b) /\ j <= Len(a)
    BY <1>1
  <2>. QED  BY <1>2, <2>1 DEF Carries
<1>4. ASSUME NEW j \in 1 .. Len(b)
      PROVE  m[(at + Len(a)) + j] = b[j]
  <2>1. /\ Len(a) + j \in 1 .. Len(a) + Len(b) /\ ~(Len(a) + j <= Len(a))
        /\ (Len(a) + j) - Len(a) = j
        /\ (at + Len(a)) + j = at + (Len(a) + j)
    BY <1>1
  <2>2. m[at + (Len(a) + j)] = (a \o b)[Len(a) + j]
    BY <1>2, <2>1 DEF Carries
  <2>. QED  BY <1>2, <2>1, <2>2
<1>. QED  BY <1>1, <1>2, <1>3, <1>4 DEF Carries

(* What a part of a sequence carries, the sequence carries.                *)
LEMMA CarriesPart ==
  ASSUME NEW S, NEW m \in Seq(S), NEW a \in Seq(S), NEW at, NEW b,
         Carries(a, at, b), Len(b) \in Nat
  PROVE  Carries(a \o m, at, b)
<1>1. Len(a) \in Nat /\ Len(m) \in Nat /\ at \in Nat
  BY LenProperties DEF Carries
<1>2. /\ Len(a \o m) = Len(a) + Len(m)
      /\ \A i \in 1 .. Len(a) + Len(m) :
            (a \o m)[i] = IF i <= Len(a) THEN a[i] ELSE m[i - Len(a)]
  BY ConcatProperties
<1>3. ASSUME NEW j \in 1 .. Len(b)
      PROVE  (a \o m)[at + j] = b[j]
  <2>1. at + j \in 1 .. Len(a) + Len(m) /\ at + j <= Len(a)
    BY <1>1 DEF Carries
  <2>. QED  BY <1>2, <2>1 DEF Carries
<1>. QED  BY <1>1, <1>2, <1>3 DEF Carries

(* And, further on, whatever the sequence is put behind.                   *)
LEMMA CarriesShifted ==
  ASSUME NEW S, NEW m \in Seq(S), NEW a \in Seq(S), NEW at, NEW b,
         Carries(m, at, b), Len(b) \in Nat
  PROVE  Carries(a \o m, Len(a) + at, b)
<1>1. Len(a) \in Nat /\ Len(m) \in Nat /\ at \in Nat
  BY LenProperties DEF Carries
<1>2. /\ Len(a \o m) = Len(a) + Len(m)
      /\ \A i \in 1 .. Len(a) + Len(m) :
            (a \o m)[i] = IF i <= Len(a) THEN a[i] ELSE m[i - Len(a)]
  BY ConcatProperties
<1>3. ASSUME NEW j \in 1 .. Len(b)
      PROVE  (a \o m)[(Len(a) + at) + j] = b[j]
  <2>1. /\ (Len(a) + at) + j \in 1 .. Len(a) + Len(m)
        /\ ~((Len(a) + at) + j <= Len(a))
        /\ ((Len(a) + at) + j) - Len(a) = at + j
    BY <1>1 DEF Carries
  <2>. QED  BY <1>2, <2>1 DEF Carries
<1>. QED  BY <1>1, <1>2, <1>3 DEF Carries

(* The part that stands there.                                             *)
LEMMA CarriesSubSeq ==
  ASSUME NEW S, NEW m, NEW at, NEW b \in Seq(S), Carries(m, at, b)
  PROVE  SubSeq(m, at + 1, at + Len(b)) = b
<1>1. Len(b) \in Nat /\ at \in Nat
  BY LenProperties DEF Carries
<1>2. \A i \in at + 1 .. at + Len(b) : m[i] \in S
  <2>. TAKE i \in at + 1 .. at + Len(b)
  <2>1. i - at \in 1 .. Len(b) /\ at + (i - at) = i
    BY <1>1
  <2>. QED  BY <2>1, ElementOfSeq DEF Carries
<1>. DEFINE s == SubSeq(m, at + 1, at + Len(b))
<1>3. /\ s \in Seq(S)
      /\ Len(s) = IF at + 1 <= at + Len(b) THEN (at + Len(b)) - (at + 1) + 1 ELSE 0
      /\ \A i \in 1 .. (at + Len(b)) - (at + 1) + 1 : s[i] = m[(at + 1) + i - 1]
  <2>1. at + 1 \in Int /\ at + Len(b) \in Int
    BY <1>1
  <2>. QED  BY <1>2, <2>1, SubSeqProperties
<1>. HIDE DEF s
<1>4. Len(s) = Len(b)
  BY <1>1, <1>3
<1>5. ASSUME NEW i \in 1 .. Len(s)
      PROVE  s[i] = b[i]
  <2>1. i \in 1 .. (at + Len(b)) - (at + 1) + 1 /\ (at + 1) + i - 1 = at + i
    BY <1>1, <1>4
  <2>. QED  BY <1>3, <1>4, <2>1 DEF Carries
<1>6. s = b
  BY <1>3, <1>4, <1>5, SeqEqual
<1>. QED  BY <1>6 DEF s

(* The beginnings of a flattened sequence.                                 *)
LEMMA FlattenBeginnings ==
  ASSUME NEW S, NEW fs \in Seq(Seq(S))
  PROVE  \E c \in [0 .. Len(fs) -> Seq(S)] :
           /\ c[0] = <<>> /\ c[Len(fs)] = FlattenSeq(fs)
           /\ \A k \in 1 .. Len(fs) : c[k] = c[k - 1] \o fs[k]
<1>. DEFINE n == Len(fs)
<1>0. n \in Nat /\ \A k \in 1 .. n : fs[k] \in Seq(S)
  BY LenProperties, ElementOfSeq
<1>1. CASE n = 0
  <2>1. fs = <<>> /\ FlattenSeq(fs) = <<>>
    BY <1>1, EmptySeq DEF FlattenSeq
  <2>. DEFINE c == [k \in 0 .. n |-> <<>>]
  <2>2. /\ c \in [0 .. n -> Seq(S)]
        /\ c[0] = <<>> /\ c[n] = FlattenSeq(fs)
        /\ \A k \in 1 .. n : c[k] = c[k - 1] \o fs[k]
    BY <1>1, <2>1, EmptySeq
  <2>. QED  BY <2>2
<1>2. CASE n # 0
  <2>1. PICK g : Flattening(fs, n, g) /\ FlattenSeq(fs) = g[n]
    BY <1>0, <1>2, FlattenIs
  <2>. DEFINE c == [k \in 0 .. n |-> IF k = 0 THEN <<>> ELSE g[k]]
              Bad == {k \in 0 .. n : c[k] \notin Seq(S)}
  <2>2. \A k \in 1 .. n : c[k] = IF k = 1 THEN fs[k] ELSE c[k - 1] \o fs[k]
    <3>. TAKE k \in 1 .. n
    <3>1. g[k] = IF k = 1 THEN fs[k] ELSE g[k - 1] \o fs[k]
      BY <2>1, <1>0 DEF Flattening
    <3>2. k - 1 \in 0 .. n /\ k \in 0 .. n /\ k # 0 /\ (k # 1 => k - 1 # 0)
      BY <1>0
    <3>. QED  BY <3>1, <3>2
  <2>3. c[0] = <<>> /\ c[n] = FlattenSeq(fs)
    BY <1>0, <1>2, <2>1
  <2>4. c = [k \in 0 .. n |-> c[k]]
    OBVIOUS
  <2>. HIDE DEF c
  <2>5. Bad = {}
    <3>. SUFFICES ASSUME Bad # {} PROVE FALSE
      OBVIOUS
    <3>1. Bad \subseteq Nat
      BY <1>0
    <3>2. PICK k \in Bad : \A j \in Bad : k <= j
      BY <3>1, LeastElement
    <3>3. CASE k = 0
      BY <2>3, <3>2, <3>3, EmptySeq
    <3>4. CASE k = 1
      <4>1. 1 \in 1 .. n
        BY <1>0, <1>2
      <4>2. c[k] = fs[1] /\ fs[1] \in Seq(S)
        BY <1>0, <2>2, <3>4, <4>1
      <4>. QED  BY <3>2, <4>2
    <3>5. CASE k # 0 /\ k # 1
      <4>1. k \in 1 .. n /\ k - 1 \in 0 .. n /\ k - 1 \notin Bad
        BY <1>0, <3>2, <3>5
      <4>2. c[k - 1] \in Seq(S) /\ fs[k] \in Seq(S) /\ c[k] = c[k - 1] \o fs[k]
        BY <1>0, <2>2, <3>5, <4>1
      <4>3. c[k] \in Seq(S)
        BY <4>2, ConcatProperties
      <4>. QED  BY <3>2, <4>3
    <3>. QED  BY <3>3, <3>4, <3>5
  <2>6. c \in [0 .. n -> Seq(S)]
    BY <2>4, <2>5
  <2>7. ASSUME NEW k \in 1 .. n
        PROVE  c[k] = c[k - 1] \o fs[k]
    <3>1. CASE k = 1
      <4>1. c[k - 1] = <<>> /\ c[k] = fs[k] /\ fs[k] \in Seq(S)
        BY <1>0, <2>2, <2>3, <3>1
      <4>. QED  BY <4>1, ConcatEmptySeq
    <3>2. CASE k # 1
      BY <2>2, <3>2
    <3>. QED  BY <3>1, <3>2
  <2>. QED  BY <2>3, <2>6, <2>7
<1>. QED  BY <1>1, <1>2

(* Each part of a flattened sequence stands where those before it end.     *)
LEMMA FlattenParts ==
  ASSUME NEW S, NEW fs \in Seq(Seq(S))
  PROVE  /\ FlattenSeq(fs) \in Seq(S)
         /\ \E f \in [0 .. Len(fs) -> Nat] :
              /\ f[0] = 0 /\ f[Len(fs)] = Len(FlattenSeq(fs))
              /\ \A k \in 1 .. Len(fs) : /\ f[k] = f[k - 1] + Len(fs[k])
                                         /\ Carries(FlattenSeq(fs), f[k - 1], fs[k])
<1>. DEFINE n == Len(fs)
<1>0. n \in Nat /\ \A k \in 1 .. n : fs[k] \in Seq(S) /\ Len(fs[k]) \in Nat
  BY LenProperties, ElementOfSeq
<1>1. PICK c \in [0 .. n -> Seq(S)] :
           /\ c[0] = <<>> /\ c[n] = FlattenSeq(fs)
           /\ \A k \in 1 .. n : c[k] = c[k - 1] \o fs[k]
  BY FlattenBeginnings
<1>. DEFINE f == [k \in 0 .. n |-> Len(c[k])]
<1>2. FlattenSeq(fs) \in Seq(S)
  BY <1>0, <1>1
<1>3. f \in [0 .. n -> Nat] /\ f[0] = 0 /\ f[n] = Len(FlattenSeq(fs))
  BY <1>0, <1>1, LenProperties, EmptySeq
<1>4. ASSUME NEW k \in 1 .. n
      PROVE  f[k] = f[k - 1] + Len(fs[k]) /\ Carries(FlattenSeq(fs), f[k - 1], fs[k])
  <2>0. k - 1 \in 0 .. n /\ k \in 0 .. n
    BY <1>0
  <2>1. c[k] = c[k - 1] \o fs[k] /\ c[k - 1] \in Seq(S) /\ fs[k] \in Seq(S)
    BY <1>0, <1>1, <2>0
  <2>2. f[k] = f[k - 1] + Len(fs[k])
    <3>1. Len(c[k]) = Len(c[k - 1]) + Len(fs[k])
      BY <2>1, ConcatProperties
    <3>. QED  BY <2>0, <3>1
  <2>3. c[k] \in Seq(S) /\ Carries(c[k], f[k - 1], fs[k])
    <3>1. c[k] \in Seq(S) /\ Carries(c[k], 0, c[k])
      BY <2>0, CarriesItself
    <3>2. Carries(c[k], 0 + Len(c[k - 1]), fs[k])
      BY <2>1, <3>1, CarriesConcat
    <3>3. 0 + Len(c[k - 1]) = f[k - 1]
      BY <2>0, <2>1, LenProperties
    <3>. QED  BY <3>1, <3>2, <3>3
  <2>. DEFINE Bad == {j \in k .. n : ~ Carries(c[j], f[k - 1], fs[k])}
  <2>. HIDE DEF f
  <2>4. Bad = {}
    <3>. SUFFICES ASSUME Bad # {} PROVE FALSE
      OBVIOUS
    <3>1. Bad \subseteq Nat
      BY <1>0
    <3>2. PICK j \in Bad : \A i \in Bad : j <= i
      BY <3>1, LeastElement
    <3>3. j # k /\ j \in k .. n
      BY <2>3, <3>2
    <3>4. j \in 1 .. n /\ j - 1 \in 0 .. n /\ j - 1 \in k .. n /\ ~(j <= j - 1)
      BY <1>0, <3>3
    <3>5. /\ c[j] = c[j - 1] \o fs[j] /\ c[j - 1] \in Seq(S) /\ fs[j] \in Seq(S)
          /\ Carries(c[j - 1], f[k - 1], fs[k])
      BY <1>0, <1>1, <3>2, <3>4
    <3>6. Carries(c[j], f[k - 1], fs[k])
      BY <1>0, <3>5, CarriesPart
    <3>. QED  BY <3>2, <3>6
  <2>5. n \in k .. n
    BY <1>0
  <2>. QED  BY <1>1, <2>2, <2>4, <2>5
<1>. QED  BY <1>2, <1>3, <1>4
=============================================================================
