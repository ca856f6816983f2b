--------------------------- MODULE BigNumberBytes ---------------------------
(***************************************************************************)
(* BigNumber as bytes.  A number is the sequence of its bytes as OpenSSL    *)
(* writes it (BN_bn2bin): the most significant byte first and never zero,   *)
(* so that 0 is the empty sequence.                                         *)
(***************************************************************************)
EXTENDS Naturals, Sequences, SequencesExt

CONSTANT Base   \* how many values a byte has

ASSUME BaseAssumption == Base \in Nat \ {0, 1}

Byte == 0 .. Base - 1
Number == {n \in Seq(Byte) : n # <<>> => n[1] # 0}

GetNumBytes(n) == Len(n)

\* memset(.., 0, k)
Zeros(k) == [i \in 1 .. k |-> 0]

\* How many zeros the bytes start with.
LeadingZeros(bytes) ==
  CHOOSE k \in 0 .. Len(bytes) :
    /\ \A i \in 1 .. k : bytes[i] = 0
    /\ k < Len(bytes) => bytes[k + 1] # 0

\* BN_bin2bn, and BN_hex2bn of the bytes a hexadecimal string stands for.
SetHexStr(bytes) == SubSeq(bytes, LeadingZeros(bytes) + 1, Len(bytes))

\* The number of little endian bytes.
SetBinary(bytes) == SetHexStr(Reverse(bytes))

\* Mutant: the most significant byte may be zero (top = -1 for BN_rand).
OddBytes(k) ==
  {SetHexStr(n) : n \in {m \in [1 .. k -> Byte] : m[k] % 2 = 1}}

\* What SetRand(8 * k) draws: BN_rand sets the highest and the lowest bit.
SetRand(k) == {n \in [1 .. k -> Byte] : n[1] * 2 >= Base /\ n[k] % 2 = 1}

Missing(n, minSize) == IF minSize > Len(n) THEN minSize - Len(n) ELSE 0

\* Mutant: the most significant byte stays first.
BigEndianArray(n, minSize) == n \o Zeros(Missing(n, minSize))

\* The bytes go to the start of the array, the whole array is turned round.
AsByteArray(n, minSize) == Reverse(n \o Zeros(Missing(n, minSize)))

\* ByteBuffer::append, at the end of what was written.
AppendBytes(buffer, src, cnt) == buffer \o SubSeq(src, 1, cnt)

\* Reference: the little endian bytes of a number in a field of w bytes.
LittleEndian(n, w) == Reverse(n) \o Zeros(w - Len(n))
=============================================================================
