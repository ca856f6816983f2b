-------------------------- MODULE LogonBytesProofs --------------------------
(***************************************************************************)
(* Theorems about BigNumberBytes and LogonBytes, for any base, any widths   *)
(* and any group.                                                           *)
(***************************************************************************)
EXTENDS LogonBytes, SequenceTheorems, WellFoundedInduction, TLAPS

(***************************************************************************)
(* Sequences of bytes.                                                     *)
(***************************************************************************)

\* Zero is a byte, and bytes are numbers.
LEMMA ByteFacts == 0 \in Byte /\ Byte \subseteq Nat
BY BaseAssumption DEF Byte

\* memset gives a sequence of as many zeros as asked for.
LEMMA ZerosProperties ==
  ASSUME NEW k \in Nat
  PROVE  /\ Zeros(k) \in Seq(Byte) /\ Len(Zeros(k)) = k
         /\ \A i \in 1 .. k : Zeros(k)[i] = 0
BY ByteFacts DEF Zeros

\* What std::reverse does.
LEMMA ReverseProperties ==
  ASSUME NEW D, NEW t \in Seq(D)
  PROVE  /\ Reverse(t) \in Seq(D) /\ Len(Reverse(t)) = Len(t)
         /\ \A i \in 1 .. Len(t) : Reverse(t)[i] = t[Len(t) - i + 1]
<1>1. Len(t) \in Nat /\ t \in [1 .. Len(t) -> D]  BY LenProperties
<1>2. \A i \in 1 .. Len(t) : Len(t) - i + 1 \in 1 .. Len(t)  BY <1>1
<1>3. Reverse(t) \in [1 .. Len(t) -> D]  BY <1>1, <1>2 DEF Reverse
<1>4. Reverse(t) \in Seq(D) /\ Len(Reverse(t)) = Len(t)  BY <1>1, <1>3
<1>5. QED  BY <1>1, <1>2, <1>4 DEF Reverse

\* Reversing twice is nothing.
LEMMA ReverseTwice ==
  ASSUME NEW D, NEW t \in Seq(D)
  PROVE  Reverse(Reverse(t)) = t
<1> DEFINE r == Reverse(t)
           rr == Reverse(r)
<1>1. r \in Seq(D) /\ Len(r) = Len(t)  BY ReverseProperties
<1>2. rr \in Seq(D) /\ Len(rr) = Len(t)  BY <1>1, ReverseProperties
<1>3. ASSUME NEW i \in 1 .. Len(t)  PROVE rr[i] = t[i]
  <2>1. Len(t) \in Nat /\ Len(t) - i + 1 \in 1 .. Len(t)  BY LenProperties
  <2>2. rr[i] = r[Len(t) - i + 1]
    <3> HIDE DEF r
    <3> QED  BY <1>1, ReverseProperties
  <2>3. r[Len(t) - i + 1] = t[Len(t) - (Len(t) - i + 1) + 1]
    BY <2>1, ReverseProperties
  <2>4. QED  BY <2>1, <2>2, <2>3
<1> HIDE DEF rr
<1>4. rr = t  BY <1>2, <1>3, SeqEqual
<1>5. QED  BY <1>4 DEF rr

\* The reverse of a concatenation.
LEMMA ReverseConcat ==
  ASSUME NEW D, NEW t \in Seq(D), NEW u \in Seq(D)
  PROVE  Reverse(t \o u) = Reverse(u) \o Reverse(t)
<1> DEFINE c == t \o u
           lhs == Reverse(c)
           rt == Reverse(t)
           ru == Reverse(u)
           rhs == ru \o rt
<1>1. Len(t) \in Nat /\ Len(u) \in Nat  BY LenProperties
<1>2. c \in Seq(D) /\ Len(c) = Len(t) + Len(u)  BY ConcatProperties
<1>3. \A i \in 1 .. Len(t) + Len(u) :
        c[i] = IF i <= Len(t) THEN t[i] ELSE u[i - Len(t)]
  BY ConcatProperties
<1>4. /\ rt \in Seq(D) /\ Len(rt) = Len(t) /\ ru \in Seq(D) /\ Len(ru) = Len(u)
      /\ \A i \in 1 .. Len(t) : rt[i] = t[Len(t) - i + 1]
      /\ \A i \in 1 .. Len(u) : ru[i] = u[Len(u) - i + 1]
  BY ReverseProperties
<1> HIDE DEF c, rt, ru
<1>5. /\ lhs \in Seq(D) /\ Len(lhs) = Len(t) + Len(u)
      /\ \A i \in 1 .. Len(t) + Len(u) : lhs[i] = c[Len(t) + Len(u) - i + 1]
  <2>1. /\ lhs \in Seq(D) /\ Len(lhs) = Len(c)
        /\ \A i \in 1 .. Len(c) : lhs[i] = c[Len(c) - i + 1]
    BY <1>2, ReverseProperties
  <2>2. QED  BY <1>2, <2>1
<1>6. /\ rhs \in Seq(D) /\ Len(rhs) = Len(u) + Len(t)
      /\ \A i \in 1 .. Len(u) + Len(t) :
           rhs[i] = IF i <= Len(u) THEN ru[i] ELSE rt[i - Len(u)]
  <2>1. /\ rhs \in Seq(D) /\ Len(rhs) = Len(ru) + Len(rt)
        /\ \A i \in 1 .. Len(ru) + Len(rt) :
             rhs[i] = IF i <= Len(ru) THEN ru[i] ELSE rt[i - Len(ru)]
    <3>1. ru \in Seq(D) /\ rt \in Seq(D)  BY <1>4
    <3>2. QED  BY ONLY <3>1, ConcatProperties, Zenon
  <2>2. QED  BY <1>4, <2>1
<1> HIDE DEF lhs, rhs
<1>7. ASSUME NEW i \in 1 .. Len(t) + Len(u)  PROVE lhs[i] = rhs[i]
  <2>1. lhs[i] = c[Len(t) + Len(u) - i + 1]  BY <1>5
  <2>2. CASE i <= Len(u)
    <3>1. rhs[i] = u[Len(u) - i + 1]
      <4>1. i \in 1 .. Len(u) /\ i \in 1 .. Len(u) + Len(t)  BY <1>1, <2>2
      <4>2. rhs[i] = ru[i]  BY <1>6, <2>2, <4>1
      <4>3. QED  BY <1>4, <4>1, <4>2
    <3>2. c[Len(t) + Len(u) - i + 1] = u[Len(t) + Len(u) - i + 1 - Len(t)]
      BY <1>1, <1>3, <2>2
    <3>3. Len(t) + Len(u) - i + 1 - Len(t) = Len(u) - i + 1  BY <1>1
    <3>4. QED  BY <2>1, <3>1, <3>2, <3>3
  <2>3. CASE ~(i <= Len(u))
    <3>1. rhs[i] = t[Len(t) - (i - Len(u)) + 1]
      <4>1. i - Len(u) \in 1 .. Len(t) /\ i \in 1 .. Len(u) + Len(t)
        BY <1>1, <2>3
      <4>2. rhs[i] = rt[i - Len(u)]  BY <1>6, <2>3, <4>1
      <4>3. QED  BY <1>4, <4>1, <4>2
    <3>2. c[Len(t) + Len(u) - i + 1] = t[Len(t) + Len(u) - i + 1]
      BY <1>1, <1>3, <2>3
    <3>3. Len(t) + Len(u) - i + 1 = Len(t) - (i - Len(u)) + 1  BY <1>1
    <3>4. QED  BY <2>1, <3>1, <3>2, <3>3
  <2>4. QED  BY <2>2, <2>3
<1>8. lhs = rhs
  BY <1>1, <1>5, <1>6, <1>7, SeqEqual
<1>9. QED  BY <1>8 DEF lhs, rhs, c, rt, ru

\* Zeros are zeros from either end.
LEMMA ReverseZeros ==
  ASSUME NEW k \in Nat
  PROVE  Reverse(Zeros(k)) = Zeros(k)
<1> DEFINE z == Zeros(k)
<1>1. z \in Seq(Byte) /\ Len(z) = k /\ \A i \in 1 .. k : z[i] = 0
  BY ZerosProperties
<1> HIDE DEF z
<1>2. /\ Reverse(z) \in Seq(Byte) /\ Len(Reverse(z)) = k
      /\ \A i \in 1 .. k : Reverse(z)[i] = z[k - i + 1]
  BY <1>1, ReverseProperties
<1>3. \A i \in 1 .. k : Reverse(z)[i] = z[i]  BY <1>1, <1>2
<1>4. Reverse(z) = z  BY <1>1, <1>2, <1>3, SeqEqual
<1>5. QED  BY <1>4 DEF z

\* No zeros are the empty sequence.
LEMMA NoZeros ==
  ASSUME NEW D, NEW t \in Seq(D)
  PROVE  Zeros(0) = <<>> /\ t \o Zeros(0) = t /\ Zeros(0) \o t = t
<1>1. Zeros(0) \in Seq(Byte) /\ Len(Zeros(0)) = 0  BY ZerosProperties
<1>2. Zeros(0) = <<>>  BY <1>1, EmptySeq
<1>3. QED  BY <1>2, ConcatEmptySeq

-----------------------------------------------------------------------------
(***************************************************************************)
(* Numbers and bytes.                                                      *)
(***************************************************************************)

\* A set of naturals that is not empty has a least element.
LEMMA LeastElement ==
  ASSUME NEW T \in SUBSET Nat, T # {}
  PROVE  \E x \in T : \A y \in T : x <= y
<1>1. PICK x \in T : \A y \in T : ~ (<<y, x>> \in OpToRel(<, Nat))
  BY NatLessThanWellFounded, WFMin
<1>2. \A y \in T : ~ (y < x)  BY <1>1 DEF OpToRel
<1>3. QED  BY <1>2

\* LeadingZeros is what its name says.
LEMMA LeadingZerosProperties ==
  ASSUME NEW t \in Seq(Byte)
  PROVE  /\ LeadingZeros(t) \in 0 .. Len(t)
         /\ \A i \in 1 .. LeadingZeros(t) : t[i] = 0
         /\ LeadingZeros(t) < Len(t) => t[LeadingZeros(t) + 1] # 0
<1> DEFINE L == Len(t)
           Right(k) == /\ \A i \in 1 .. k : t[i] = 0
                       /\ k < L => t[k + 1] # 0
<1>1. L \in Nat  BY LenProperties
<1>2. \E k \in 0 .. L : Right(k)
  <2> DEFINE T == {i \in 1 .. L : t[i] # 0}
  <2>1. CASE T = {}
    <3>1. \A i \in 1 .. L : t[i] = 0  BY <2>1
    <3>2. L \in 0 .. L /\ Right(L)  BY <1>1, <3>1
    <3>3. QED  BY <3>2
  <2>2. CASE T # {}
    <3>1. T \in SUBSET Nat  BY <1>1
    <3>2. PICK x \in T : \A y \in T : x <= y  BY <2>2, <3>1, LeastElement
    <3>3. x \in 1 .. L /\ t[x] # 0 /\ x - 1 \in 0 .. L /\ (x - 1) + 1 = x
      BY <1>1, <3>2
    <3>4. \A i \in 1 .. x - 1 : t[i] = 0  BY <1>1, <3>2, <3>3
    <3>5. Right(x - 1)  BY <3>3, <3>4
    <3>6. QED  BY <3>3, <3>5
  <2>3. QED  BY <2>1, <2>2
<1>3. LeadingZeros(t) = CHOOSE k \in 0 .. L : Right(k)  BY DEF LeadingZeros
<1> HIDE DEF Right
<1>4. LeadingZeros(t) \in 0 .. L /\ Right(LeadingZeros(t))  BY <1>2, <1>3
<1>5. QED  BY <1>4 DEF Right

\* BN_bin2bn drops the leading zeros and nothing else.
LEMMA HexProperties ==
  ASSUME NEW t \in Seq(Byte)
  PROVE  /\ SetHexStr(t) \in Number /\ Len(SetHexStr(t)) <= Len(t)
         /\ t = Zeros(Len(t) - Len(SetHexStr(t))) \o SetHexStr(t)
<1> DEFINE k == LeadingZeros(t)
           L == Len(t)
           n == SetHexStr(t)
           z == Zeros(k)
           c == z \o n
<1>1. /\ L \in Nat /\ k \in 0 .. L /\ k \in Nat
      /\ \A i \in 1 .. k : t[i] = 0
      /\ k < L => t[k + 1] # 0
  BY LenProperties, LeadingZerosProperties
<1>2. n = SubSeq(t, k + 1, L)  BY DEF SetHexStr
<1> HIDE DEF k, n
<1>3. \A i \in k + 1 .. L : t[i] \in Byte  BY <1>1, ElementOfSeq
<1>4. /\ n \in Seq(Byte)
      /\ Len(n) = IF k + 1 <= L THEN L - (k + 1) + 1 ELSE 0
      /\ \A i \in 1 .. L - (k + 1) + 1 : n[i] = t[(k + 1) + i - 1]
  <2>1. k + 1 \in Int /\ L \in Int  BY <1>1
  <2> HIDE DEF L
  <2>2. QED  BY <1>2, <1>3, <2>1, SubSeqProperties
<1>5. Len(n) = L - k /\ \A i \in 1 .. L - k : n[i] = t[k + i]  BY <1>1, <1>4
<1>6. n \in Number
  <2>1. CASE n = <<>>  BY <1>4, <2>1 DEF Number
  <2>2. CASE n # <<>>
    <3>1. Len(n) \in Nat \ {0}  BY <1>4, <2>2, EmptySeq
    <3>2. k < L /\ 1 \in 1 .. L - k  BY <1>1, <1>5, <3>1
    <3>3. n[1] # 0  BY <1>1, <1>5, <3>2
    <3>4. QED  BY <1>4, <3>3 DEF Number
  <2>3. QED  BY <2>1, <2>2
<1>7. z \in Seq(Byte) /\ Len(z) = k /\ \A i \in 1 .. k : z[i] = 0
  BY <1>1, ZerosProperties
<1> HIDE DEF z
<1>8. /\ c \in Seq(Byte) /\ Len(c) = Len(z) + Len(n)
      /\ \A i \in 1 .. Len(z) + Len(n) :
           c[i] = IF i <= Len(z) THEN z[i] ELSE n[i - Len(z)]
  <2>1. z \in Seq(Byte) /\ n \in Seq(Byte)  BY <1>4, <1>7
  <2>2. QED  BY ONLY <2>1, ConcatProperties, Zenon
<1> HIDE DEF c
<1>9. Len(c) = L  BY <1>1, <1>5, <1>7, <1>8
<1>10. ASSUME NEW i \in 1 .. L  PROVE t[i] = c[i]
  <2>1. CASE i <= k
    <3>1. i \in 1 .. k /\ i \in 1 .. Len(z) + Len(n)  BY <1>1, <1>5, <1>7, <2>1
    <3>2. c[i] = z[i]  BY <1>7, <1>8, <2>1, <3>1
    <3>3. QED  BY <1>1, <1>7, <3>1, <3>2
  <2>2. CASE ~(i <= k)
    <3>1. /\ i - k \in 1 .. L - k /\ i \in 1 .. Len(z) + Len(n)
          /\ k + (i - k) = i
      BY <1>1, <1>5, <1>7, <2>2
    <3>2. c[i] = n[i - k]  BY <1>7, <1>8, <2>2, <3>1
    <3>3. QED  BY <1>5, <3>1, <3>2
  <2>3. QED  BY <2>1, <2>2
<1>11. t = c  BY <1>8, <1>9, <1>10, SeqEqual
<1>12. L - Len(n) = k /\ Len(n) <= L  BY <1>1, <1>5
<1>13. QED  BY <1>6, <1>11, <1>12 DEF c, z, n

\* Zeros in front of a number are dropped when it is read.
LEMMA HexOfPadded ==
  ASSUME NEW n \in Number, NEW k \in Nat
  PROVE  SetHexStr(Zeros(k) \o n) = n
<1> DEFINE z == Zeros(k)
           c == z \o n
           j == LeadingZeros(c)
           r == SetHexStr(c)
<1>1. n \in Seq(Byte) /\ (n # <<>> => n[1] # 0) /\ Len(n) \in Nat
  BY LenProperties DEF Number
<1>2. z \in Seq(Byte) /\ Len(z) = k /\ \A i \in 1 .. k : z[i] = 0
  BY ZerosProperties
<1> HIDE DEF z
<1>3. /\ c \in Seq(Byte) /\ Len(c) = Len(z) + Len(n)
      /\ \A i \in 1 .. Len(z) + Len(n) :
           c[i] = IF i <= Len(z) THEN z[i] ELSE n[i - Len(z)]
  <2>1. z \in Seq(Byte) /\ n \in Seq(Byte)  BY <1>1, <1>2
  <2>2. QED  BY ONLY <2>1, ConcatProperties, Zenon
<1> HIDE DEF c
<1>4. /\ j \in 0 .. Len(c) /\ \A i \in 1 .. j : c[i] = 0
      /\ j < Len(c) => c[j + 1] # 0
  BY <1>3, LeadingZerosProperties
<1>5. r = SubSeq(c, j + 1, Len(c))  BY DEF SetHexStr
<1> HIDE DEF j, r
<1>6. Len(c) = k + Len(n)  BY <1>2, <1>3
<1>7. k <= j
  <2>1. SUFFICES ASSUME j < k  PROVE FALSE  BY <1>1, <1>4, <1>6
  <2>2. j + 1 \in 1 .. k /\ j < Len(c)  BY <1>1, <1>4, <1>6, <2>1
  <2>3. c[j + 1] = z[j + 1]  BY <1>1, <1>2, <1>3, <2>2
  <2>4. QED  BY <1>2, <1>4, <2>2, <2>3
<1>8. n # <<>> => j = k
  <2>1. SUFFICES ASSUME n # <<>>, j # k  PROVE FALSE  OBVIOUS
  <2>2. Len(n) \in Nat \ {0}  BY <1>1, <2>1, EmptySeq
  <2>3. k + 1 \in 1 .. j /\ k + 1 \in 1 .. Len(c)
    BY <1>1, <1>4, <1>6, <1>7, <2>1, <2>2
  <2>4. c[k + 1] = n[k + 1 - k]  BY <1>1, <1>2, <1>3, <2>3
  <2>5. k + 1 - k = 1  OBVIOUS
  <2>6. QED  BY <1>1, <1>4, <2>1, <2>3, <2>4, <2>5
<1>9. CASE n = <<>>
  <2>1. Len(n) = 0  BY <1>9
  <2>2. Len(c) < j + 1 /\ j + 1 \in Int /\ Len(c) \in Int
    BY <1>4, <1>6, <1>7, <2>1
  <2>3. r = <<>>  BY <1>5, <2>2, SubSeqEmpty
  <2>4. QED  BY <1>9, <2>3 DEF r, c, z
<1>10. CASE n # <<>>
  <2>1. Len(n) \in Nat \ {0} /\ j = k  BY <1>1, <1>8, <1>10, EmptySeq
  <2>2. r = SubSeq(c, k + 1, k + Len(n))  BY <1>5, <1>6, <2>1
  <2>3. \A i \in k + 1 .. k + Len(n) : c[i] \in Byte
    <3>1. \A i \in 1 .. Len(c) : c[i] \in Byte  BY <1>3, ElementOfSeq
    <3>2. QED  BY <1>6, <2>1, <3>1
  <2>4. /\ r \in Seq(Byte)
        /\ Len(r) = IF k + 1 <= k + Len(n) THEN k + Len(n) - (k + 1) + 1 ELSE 0
        /\ \A i \in 1 .. k + Len(n) - (k + 1) + 1 : r[i] = c[(k + 1) + i - 1]
    <3>1. k + 1 \in Int /\ k + Len(n) \in Int  BY <2>1
    <3>2. QED  BY <2>2, <2>3, <3>1, SubSeqProperties
  <2>5. Len(r) = Len(n)  BY <2>1, <2>4
  <2>6. ASSUME NEW i \in 1 .. Len(n)  PROVE r[i] = n[i]
    <3>1. /\ i \in 1 .. k + Len(n) - (k + 1) + 1 /\ (k + 1) + i - 1 = k + i
          /\ k + i \in 1 .. Len(z) + Len(n) /\ ~(k + i <= Len(z))
          /\ k + i - Len(z) = i
      BY <1>2, <2>1
    <3>2. r[i] = c[k + i]  BY <2>4, <3>1
    <3>3. c[k + i] = n[k + i - Len(z)]
      <4> DEFINE m == k + i
      <4> HIDE DEF m
      <4>1. m \in 1 .. Len(z) + Len(n) /\ ~(m <= Len(z))  BY <3>1 DEF m
      <4>2. c[m] = n[m - Len(z)]  BY <1>3, <4>1
      <4>3. QED  BY <4>2 DEF m
    <3>4. QED  BY <3>1, <3>2, <3>3
  <2>7. r = n  BY <1>1, <2>4, <2>5, <2>6, SeqEqual
  <2>8. QED  BY <2>7 DEF r, c, z
<1>11. QED  BY <1>9, <1>10

\* Numbers are sequences of bytes.
LEMMA NumberBytes ==
  ASSUME NEW n \in Number
  PROVE  n \in Seq(Byte) /\ Len(n) \in Nat /\ (n # <<>> => n[1] # 0)
BY LenProperties DEF Number

\* Without padding the array is the number turned round.
LEMMA BareArray ==
  ASSUME NEW n \in Number
  PROVE  AsByteArray(n, 0) = Reverse(n)
<1>1. n \in Seq(Byte) /\ Len(n) \in Nat  BY NumberBytes
<1>2. Missing(n, 0) = 0  BY <1>1 DEF Missing
<1>3. QED  BY <1>1, <1>2, NoZeros DEF AsByteArray

\* The bytes and the length of a padded array.
LEMMA PaddedArray ==
  ASSUME NEW n \in Number, NEW w \in Nat, Len(n) <= w
  PROVE  /\ Missing(n, w) = w - Len(n) /\ w - Len(n) \in Nat
         /\ AsByteArray(n, w) = Zeros(w - Len(n)) \o Reverse(n)
         /\ AsByteArray(n, w) \in Seq(Byte) /\ Len(AsByteArray(n, w)) = w
         /\ LittleEndian(n, w) \in Seq(Byte) /\ Len(LittleEndian(n, w)) = w
<1> DEFINE k == w - Len(n)
<1>1. n \in Seq(Byte) /\ Len(n) \in Nat  BY NumberBytes
<1>2. k \in Nat /\ Missing(n, w) = k  BY <1>1 DEF Missing
<1> HIDE DEF k
<1>3. Zeros(k) \in Seq(Byte) /\ Len(Zeros(k)) = k  BY <1>2, ZerosProperties
<1>4. AsByteArray(n, w) = Reverse(n \o Zeros(k))  BY <1>2 DEF AsByteArray
<1>5. Reverse(n \o Zeros(k)) = Reverse(Zeros(k)) \o Reverse(n)
  BY <1>1, <1>3, ReverseConcat
<1>6. AsByteArray(n, w) = Zeros(k) \o Reverse(n)
  BY <1>2, <1>4, <1>5, ReverseZeros
<1>7. Reverse(n) \in Seq(Byte) /\ Len(Reverse(n)) = Len(n)
  BY <1>1, ReverseProperties
<1>8. /\ Zeros(k) \o Reverse(n) \in Seq(Byte)
      /\ Len(Zeros(k) \o Reverse(n)) = k + Len(n)
      /\ Reverse(n) \o Zeros(k) \in Seq(Byte)
      /\ Len(Reverse(n) \o Zeros(k)) = Len(n) + k
  <2> DEFINE z == Zeros(k)
             r == Reverse(n)
  <2>1. z \in Seq(Byte) /\ r \in Seq(Byte)  BY <1>3, <1>7
  <2> HIDE DEF z, r
  <2>2. /\ z \o r \in Seq(Byte) /\ Len(z \o r) = Len(z) + Len(r)
        /\ r \o z \in Seq(Byte) /\ Len(r \o z) = Len(r) + Len(z)
    BY ONLY <2>1, ConcatProperties, Zenon
  <2>3. QED  BY <1>3, <1>7, <2>2 DEF z, r
<1>9. k + Len(n) = w /\ Len(n) + k = w  BY <1>1 DEF k
<1>10. LittleEndian(n, w) = Reverse(n) \o Zeros(k)  BY DEF LittleEndian, k
<1>11. QED  BY <1>2, <1>6, <1>8, <1>9, <1>10 DEF k

\* AsByteArray(w) gives the little endian bytes of a number in a field of w
\* bytes just when there is nothing to pad, or nothing to move
\* (BigNumber.cpp:175-178).
THEOREM PaddingRight ==
  ASSUME NEW n \in Number, NEW w \in Nat, Len(n) <= w
  PROVE  AsByteArray(n, w) = LittleEndian(n, w) <=> Len(n) \in {0, w}
<1> DEFINE k == w - Len(n)
           z == Zeros(k)
           r == Reverse(n)
           lhs == z \o r
           rhs == r \o z
<1>1. /\ n \in Seq(Byte) /\ Len(n) \in Nat /\ (n # <<>> => n[1] # 0)
  BY NumberBytes
<1>2. k \in Nat /\ AsByteArray(n, w) = lhs /\ LittleEndian(n, w) = rhs
  BY PaddedArray DEF LittleEndian
<1>3. /\ r \in Seq(Byte) /\ Len(r) = Len(n)
      /\ \A i \in 1 .. Len(n) : r[i] = n[Len(n) - i + 1]
  BY <1>1, ReverseProperties
<1>4. z \in Seq(Byte) /\ Len(z) = k /\ \A i \in 1 .. k : z[i] = 0
  BY <1>2, ZerosProperties
<1>5. CASE Len(n) = w
  <2>1. k = 0  BY <1>1, <1>5
  <2>2. lhs = r /\ rhs = r  BY <1>3, <2>1, NoZeros
  <2>3. QED  BY <1>2, <1>5, <2>2
<1>6. CASE Len(n) = 0
  <2>1. r = <<>>  BY <1>3, <1>6, EmptySeq
  <2>2. lhs = z /\ rhs = z  BY <1>4, <2>1, ConcatEmptySeq
  <2>3. QED  BY <1>2, <1>6, <2>2
<1>7. CASE Len(n) # 0 /\ Len(n) # w
  <2>1. /\ k \in Nat \ {0} /\ w = k + Len(n) /\ w = Len(n) + k
        /\ Len(n) \in Nat \ {0}
    BY <1>1, <1>2, <1>7
  <2> HIDE DEF k, z, r
  <2>2. \A i \in 1 .. Len(z) + Len(r) :
          lhs[i] = IF i <= Len(z) THEN z[i] ELSE r[i - Len(z)]
    <3>1. z \in Seq(Byte) /\ r \in Seq(Byte)  BY <1>3, <1>4
    <3>2. QED  BY ONLY <3>1, ConcatProperties, Zenon
  <2>3. \A i \in 1 .. Len(r) + Len(z) :
          rhs[i] = IF i <= Len(r) THEN r[i] ELSE z[i - Len(r)]
    <3>1. z \in Seq(Byte) /\ r \in Seq(Byte)  BY <1>3, <1>4
    <3>2. QED  BY ONLY <3>1, ConcatProperties, Zenon
  <2> HIDE DEF lhs, rhs
  <2>4. lhs[w] = r[w - Len(z)]
    <3>1. w \in 1 .. Len(z) + Len(r) /\ ~(w <= Len(z))  BY <1>3, <1>4, <2>1
    <3>2. QED  BY <2>2, <3>1
  <2>5. rhs[w] = z[w - Len(r)]
    <3>1. w \in 1 .. Len(r) + Len(z) /\ ~(w <= Len(r))  BY <1>3, <1>4, <2>1
    <3>2. QED  BY <2>3, <3>1
  <2>6. w - Len(z) = Len(n) /\ w - Len(r) = k  BY <1>3, <1>4, <2>1
  <2>7. r[Len(n)] = n[1]
    <3>1. Len(n) \in 1 .. Len(n) /\ Len(n) - Len(n) + 1 = 1  BY <2>1
    <3>2. QED  BY <1>3, <3>1
  <2>8. z[k] = 0  BY <1>4, <2>1
  <2>9. n # <<>>  BY <1>7
  <2>10. lhs # rhs  BY <1>1, <2>4, <2>5, <2>6, <2>7, <2>8, <2>9
  <2>11. QED  BY <1>2, <1>7, <2>10
<1>8. QED  BY <1>5, <1>6, <1>7

\* What is written in a field of any width is what is read from it
\* (SetBinary, BigNumber.cpp:55).
THEOREM ReadBack ==
  ASSUME NEW n \in Number, NEW w \in Nat, Len(n) <= w
  PROVE  SetBinary(LittleEndian(n, w)) = n
<1> DEFINE k == w - Len(n)
<1>1. n \in Seq(Byte) /\ k \in Nat  BY NumberBytes, PaddedArray
<1> HIDE DEF k
<1>2. Reverse(n) \in Seq(Byte) /\ Zeros(k) \in Seq(Byte)
  BY <1>1, ReverseProperties, ZerosProperties
<1>3. Reverse(Reverse(n) \o Zeros(k)) = Reverse(Zeros(k)) \o Reverse(Reverse(n))
  BY <1>2, ReverseConcat
<1>4. Reverse(Reverse(n) \o Zeros(k)) = Zeros(k) \o n
  BY <1>1, <1>3, ReverseTwice, ReverseZeros
<1>5. SetHexStr(Zeros(k) \o n) = n  BY <1>1, HexOfPadded
<1>6. LittleEndian(n, w) = Reverse(n) \o Zeros(k)  BY DEF LittleEndian, k
<1>7. QED  BY <1>4, <1>5, <1>6 DEF SetBinary

\* What SetBinary makes of a digest, and when it is the digest again.
LEMMA BinaryProperties ==
  ASSUME NEW t \in Seq(Byte)
  PROVE  /\ SetBinary(t) \in Number /\ Len(SetBinary(t)) <= Len(t)
         /\ Len(SetBinary(t)) = Len(t) => Reverse(SetBinary(t)) = t
<1> DEFINE r == Reverse(t)
           n == SetHexStr(r)
<1>1. r \in Seq(Byte) /\ Len(r) = Len(t) /\ Reverse(r) = t
  BY ReverseProperties, ReverseTwice
<1> HIDE DEF r
<1>2. n \in Number /\ Len(n) <= Len(r) /\ r = Zeros(Len(r) - Len(n)) \o n
  BY <1>1, HexProperties
<1>3. SetBinary(t) = n  BY DEF SetBinary, r
<1> HIDE DEF n
<1>4. ASSUME Len(n) = Len(t)  PROVE Reverse(n) = t
  <2>1. Len(n) \in Nat /\ n \in Seq(Byte)  BY <1>2, NumberBytes
  <2>2. Len(r) - Len(n) = 0  BY <1>1, <1>4, <2>1
  <2>3. r = n  BY <1>2, <2>1, <2>2, NoZeros
  <2>4. QED  BY <1>1, <2>3
<1>5. QED  BY <1>1, <1>2, <1>3, <1>4

\* _SetVSFields hashes all bytes of the stored hash, with their leading zeros
\* (AuthServer.cpp:178-185).
THEOREM DigestRestored ==
  ASSUME NEW hash \in [1 .. H -> Byte]
  PROVE  RestoredDigest(hash) = hash
<1> DEFINE n == SetHexStr(hash)
           k == H - Len(n)
<1>1. H \in Nat  BY SizesAssumption
<1>2. hash \in Seq(Byte) /\ Len(hash) = H  BY <1>1
<1>3. n \in Number /\ Len(n) <= H /\ hash = Zeros(k) \o n
  BY <1>2, HexProperties
<1> HIDE DEF n
<1>4. n \in Seq(Byte) /\ Len(n) \in Nat  BY <1>3, NumberBytes
<1>5. k \in Nat  BY <1>1, <1>3, <1>4
<1>6. RestoredDigest(hash) = Reverse(Reverse(n) \o Zeros(k))
  BY <1>3, BareArray DEF RestoredDigest, GetNumBytes, n
<1> HIDE DEF k
<1>7. Reverse(n) \in Seq(Byte) /\ Zeros(k) \in Seq(Byte)
  BY <1>4, <1>5, ReverseProperties, ZerosProperties
<1>8. Reverse(Reverse(n) \o Zeros(k)) = Reverse(Zeros(k)) \o Reverse(Reverse(n))
  BY <1>7, ReverseConcat
<1>9. QED  BY <1>3, <1>4, <1>5, <1>6, <1>8, ReverseTwice, ReverseZeros

-----------------------------------------------------------------------------
(***************************************************************************)
(* The challenge.                                                          *)
(***************************************************************************)

\* The widths are naturals, and the group's numbers have their lengths.
LEMMA WidthFacts ==
  /\ W \in Nat \ {0} /\ H \in Nat \ {0} /\ U \in Nat \ {0}
  /\ Modulus \in Number /\ Len(Modulus) = W
  /\ Generator \in Number /\ Len(Generator) = 1
BY SizesAssumption, GroupAssumption

\* Residues are numbers no longer than the modulus.
LEMMA ResidueProperties ==
  ASSUME NEW n \in Residues
  PROVE  n \in Number /\ Len(n) <= W
<1>1. PICK k \in 0 .. W : n \in [1 .. k -> Byte]  BY DEF Residues
<1>2. n \in Seq(Byte) /\ Len(n) = k  BY <1>1, WidthFacts
<1>3. n # <<>> => n[1] # 0  BY DEF Residues
<1>4. QED  BY <1>1, <1>2, <1>3, WidthFacts DEF Number

\* A random number of k bytes has k bytes.
LEMMA RandProperties ==
  ASSUME NEW k \in Nat \ {0}, NEW n \in SetRand(k)
  PROVE  n \in Number /\ Len(n) = k
<1>1. n \in [1 .. k -> Byte] /\ n[1] * 2 >= Base  BY DEF SetRand
<1>2. n \in Seq(Byte) /\ Len(n) = k  BY <1>1
<1>3. n[1] # 0  BY <1>1, BaseAssumption
<1>4. QED  BY <1>2, <1>3 DEF Number

\* A random number is read back from its hexadecimal digits.
LEMMA RandHex ==
  ASSUME NEW k \in Nat \ {0}, NEW n \in SetRand(k)
  PROVE  SetHexStr(n) = n
<1>1. n \in Seq(Byte) /\ Len(n) = k /\ n[1] # 0
  BY RandProperties DEF Number, SetRand
<1>2. LeadingZeros(n) = 0
  <2>1. LeadingZeros(n) \in 0 .. k /\ \A i \in 1 .. LeadingZeros(n) : n[i] = 0
    BY <1>1, LeadingZerosProperties
  <2>2. QED  BY <1>1, <2>1
<1>3. SubSeq(n, 1, Len(n)) = n
  <2>1. \A i \in 1 .. Len(n) : n[i] \in Byte  BY <1>1, ElementOfSeq
  <2>2. Len(n) \in Nat \ {0}  BY <1>1
  <2>3. /\ SubSeq(n, 1, Len(n)) \in Seq(Byte) /\ Len(SubSeq(n, 1, Len(n))) = Len(n)
        /\ \A i \in 1 .. Len(n) : SubSeq(n, 1, Len(n))[i] = n[i]
    BY <1>1
  <2>4. QED  BY <1>1, <2>3, SeqEqual
<1>4. QED  BY <1>2, <1>3 DEF SetHexStr

\* Appending all of an array.
LEMMA Appended ==
  ASSUME NEW buffer \in Seq(Nat), NEW src \in Seq(Nat)
  PROVE  LET c == AppendBytes(buffer, src, Len(src))
         IN  /\ c \in Seq(Nat) /\ Len(c) = Len(buffer) + Len(src)
             /\ \A i \in 1 .. Len(buffer) : c[i] = buffer[i]
             /\ \A i \in 1 .. Len(src) : c[Len(buffer) + i] = src[i]
<1> DEFINE c == AppendBytes(buffer, src, Len(src))
<1>1. Len(buffer) \in Nat /\ Len(src) \in Nat  BY LenProperties
<1>2. c = buffer \o src  BY SubSeqFull DEF AppendBytes
<1>3. /\ buffer \o src \in Seq(Nat)
      /\ Len(buffer \o src) = Len(buffer) + Len(src)
      /\ \A i \in 1 .. Len(buffer) + Len(src) : (buffer \o src)[i]
           = IF i <= Len(buffer) THEN buffer[i] ELSE src[i - Len(buffer)]
  BY ConcatProperties, Zenon
<1> HIDE DEF c
<1>4. /\ c \in Seq(Nat) /\ Len(c) = Len(buffer) + Len(src)
      /\ \A i \in 1 .. Len(buffer) + Len(src) :
           c[i] = IF i <= Len(buffer) THEN buffer[i] ELSE src[i - Len(buffer)]
  BY <1>2, <1>3, Zenon
<1>5. ASSUME NEW i \in 1 .. Len(buffer)  PROVE c[i] = buffer[i]
  <2>1. i \in 1 .. Len(buffer) + Len(src) /\ i <= Len(buffer)  BY <1>1
  <2>2. QED  BY <1>4, <2>1
<1>6. ASSUME NEW i \in 1 .. Len(src)  PROVE c[Len(buffer) + i] = src[i]
  <2> DEFINE m == Len(buffer) + i
  <2>1. m \in 1 .. Len(buffer) + Len(src) /\ ~(m <= Len(buffer))
        /\ m - Len(buffer) = i
    BY <1>1
  <2> HIDE DEF m
  <2>2. c[m] = src[m - Len(buffer)]  BY <1>4, <2>1
  <2>3. QED  BY <2>1, <2>2 DEF m
<1>7. QED  BY <1>4, <1>5, <1>6, Zenon DEF c

\* Writing one byte.
LEMMA AppendedOne ==
  ASSUME NEW buffer \in Seq(Nat), NEW e \in Nat, NEW k, Len(buffer) = k
  PROVE  /\ Append(buffer, e) \in Seq(Nat) /\ Len(Append(buffer, e)) = k + 1
         /\ \A i \in 1 .. k : Append(buffer, e)[i] = buffer[i]
BY AppendProperties

\* Where the fields of a challenge are, whatever their numbers.
Layout(c, b, salt) ==
  /\ c \in Seq(Nat) /\ Len(c) = 3 * W + U + 7
  /\ \A i \in 1 .. W : c[3 + i] = AsByteArray(b, W)[i]
  /\ c[W + 5] = Generator[1]
  /\ \A i \in 1 .. W : c[W + 6 + i] = AsByteArray(Modulus, W)[i]
  /\ \A i \in 1 .. W : c[2 * W + 6 + i] = AsByteArray(salt, 0)[i]

LEMMA ChallengeLayout ==
  ASSUME NEW b \in Number, Len(b) <= W, NEW salt \in Number, Len(salt) = W,
         NEW unk3 \in Number, Len(unk3) = U
  PROVE  Layout(Challenge(b, salt, unk3), b, salt)
<1> DEFINE fB == AsByteArray(b, W)
           fG == AsByteArray(Generator, 0)
           fN == AsByteArray(Modulus, W)
           fS == AsByteArray(salt, 0)
           fU == AsByteArray(unk3, U)
           c0 == <<0, 0, 0>>
           c1 == AppendBytes(c0, fB, W)
           c2 == Append(c1, 1)
           c3 == AppendBytes(c2, fG, 1)
           c4 == Append(c3, W)
           c5 == AppendBytes(c4, fN, W)
           c6 == AppendBytes(c5, fS, GetNumBytes(salt))
           c7 == AppendBytes(c6, fU, U)
           c8 == Append(c7, 0)
<1>0. /\ Seq(Byte) \subseteq Seq(Nat) /\ W \in Nat \ {0} /\ U \in Nat \ {0}
      /\ Len(b) \in Nat
  BY ByteFacts, SeqMonotonic, WidthFacts, NumberBytes
<1>1. fB \in Seq(Nat) /\ Len(fB) = W  BY <1>0, PaddedArray
<1>2. fG \in Seq(Nat) /\ Len(fG) = 1 /\ fG[1] = Generator[1]
  <2>1. Generator \in Seq(Byte) /\ Len(Generator) = 1 /\ fG = Reverse(Generator)
    BY WidthFacts, NumberBytes, BareArray
  <2>2. /\ Reverse(Generator) \in Seq(Byte) /\ Len(Reverse(Generator)) = 1
        /\ Reverse(Generator)[1] = Generator[1 - 1 + 1]
    BY <2>1, ReverseProperties
  <2>3. QED  BY <1>0, <2>1, <2>2
<1>3. fN \in Seq(Nat) /\ Len(fN) = W  BY <1>0, PaddedArray, WidthFacts
<1>4. fS \in Seq(Nat) /\ Len(fS) = W
  BY <1>0, NumberBytes, BareArray, ReverseProperties
<1>5. fU \in Seq(Nat) /\ Len(fU) = U  BY <1>0, PaddedArray
<1>6. Challenge(b, salt, unk3) = c8  BY DEF Challenge
<1>7. c0 \in Seq(Nat) /\ Len(c0) = 3  OBVIOUS
<1> HIDE DEF fB, fG, fN, fS, fU, c0
<1>8. /\ c1 \in Seq(Nat) /\ Len(c1) = W + 3
      /\ \A i \in 1 .. W : c1[3 + i] = fB[i]
  <2>1. /\ c1 \in Seq(Nat) /\ Len(c1) = 3 + W
        /\ \A i \in 1 .. W : c1[3 + i] = fB[i]
    <3>1. /\ c0 \in Seq(Nat) /\ Len(c0) = 3
          /\ fB \in Seq(Nat) /\ Len(fB) = W
      BY <1>1, <1>7
    <3>2. c1 = AppendBytes(c0, fB, Len(fB))  BY <3>1
    <3> HIDE DEF c1
    <3>3. /\ c1 \in Seq(Nat) /\ Len(c1) = Len(c0) + Len(fB)
          /\ \A i \in 1 .. Len(c0) : c1[i] = c0[i]
          /\ \A i \in 1 .. Len(fB) : c1[Len(c0) + i] = fB[i]
      BY ONLY <3>1, <3>2, Appended
    <3>4. QED  BY ONLY <3>1, <3>3
  <2>2. QED  BY <1>0, <2>1
<1> HIDE DEF c1
<1>9. /\ c2 \in Seq(Nat) /\ Len(c2) = W + 4
      /\ \A i \in 1 .. W : c2[3 + i] = fB[i]
  <2>1. /\ c2 \in Seq(Nat) /\ Len(c2) = W + 3 + 1
        /\ \A i \in 1 .. W + 3 : c2[i] = c1[i]
    <3>1. 1 \in Nat  OBVIOUS
    <3>2. QED  BY ONLY <3>1, <1>8, AppendedOne
  <2>2. QED  BY <1>0, <1>8, <2>1
<1> HIDE DEF c2
<1>10. /\ c3 \in Seq(Nat) /\ Len(c3) = W + 5
       /\ \A i \in 1 .. W : c3[3 + i] = fB[i]
       /\ c3[W + 5] = Generator[1]
  <2>1. /\ c3 \in Seq(Nat) /\ Len(c3) = W + 4 + 1
        /\ \A i \in 1 .. W + 4 : c3[i] = c2[i]
        /\ \A i \in 1 .. 1 : c3[W + 4 + i] = fG[i]
    <3>1. /\ c2 \in Seq(Nat) /\ Len(c2) = W + 4
          /\ fG \in Seq(Nat) /\ Len(fG) = 1
      BY <1>2, <1>9
    <3>2. c3 = AppendBytes(c2, fG, Len(fG))  BY <3>1
    <3> HIDE DEF c3
    <3>3. /\ c3 \in Seq(Nat) /\ Len(c3) = Len(c2) + Len(fG)
          /\ \A i \in 1 .. Len(c2) : c3[i] = c2[i]
          /\ \A i \in 1 .. Len(fG) : c3[Len(c2) + i] = fG[i]
      BY ONLY <3>1, <3>2, Appended
    <3>4. QED  BY ONLY <3>1, <3>3
  <2>2. \A i \in 1 .. W : 3 + i \in 1 .. W + 4  BY <1>0
  <2>3. \A i \in 1 .. W : c3[3 + i] = fB[i]  BY <1>9, <2>1, <2>2
  <2>4. c3[W + 4 + 1] = fG[1] /\ W + 4 + 1 = W + 5  BY <1>0, <2>1
  <2>5. QED  BY <1>2, <2>1, <2>3, <2>4
<1> HIDE DEF c3
<1>11. /\ c4 \in Seq(Nat) /\ Len(c4) = W + 6
       /\ \A i \in 1 .. W + 5 : c4[i] = c3[i]
  <2>1. /\ c4 \in Seq(Nat) /\ Len(c4) = W + 5 + 1
        /\ \A i \in 1 .. W + 5 : c4[i] = c3[i]
    <3>1. W \in Nat  BY <1>0
    <3>2. QED  BY ONLY <3>1, <1>10, AppendedOne
  <2>2. QED  BY <1>0, <2>1
<1> HIDE DEF c4
<1>12. /\ c5 \in Seq(Nat) /\ Len(c5) = 2 * W + 6
       /\ \A i \in 1 .. W + 6 : c5[i] = c4[i]
       /\ \A i \in 1 .. W : c5[W + 6 + i] = fN[i]
  <2>1. /\ c5 \in Seq(Nat) /\ Len(c5) = W + 6 + W
        /\ \A i \in 1 .. W + 6 : c5[i] = c4[i]
        /\ \A i \in 1 .. W : c5[W + 6 + i] = fN[i]
    <3>1. /\ c4 \in Seq(Nat) /\ Len(c4) = W + 6
          /\ fN \in Seq(Nat) /\ Len(fN) = W
      BY <1>3, <1>11
    <3>2. c5 = AppendBytes(c4, fN, Len(fN))  BY <3>1
    <3> HIDE DEF c5
    <3>3. /\ c5 \in Seq(Nat) /\ Len(c5) = Len(c4) + Len(fN)
          /\ \A i \in 1 .. Len(c4) : c5[i] = c4[i]
          /\ \A i \in 1 .. Len(fN) : c5[Len(c4) + i] = fN[i]
      BY ONLY <3>1, <3>2, Appended
    <3>4. QED  BY ONLY <3>1, <3>3
  <2>2. QED  BY <1>0, <2>1
<1> HIDE DEF c5
<1>13. /\ c6 \in Seq(Nat) /\ Len(c6) = 3 * W + 6
       /\ \A i \in 1 .. 2 * W + 6 : c6[i] = c5[i]
       /\ \A i \in 1 .. W : c6[2 * W + 6 + i] = fS[i]
  <2>1. c6 = AppendBytes(c5, fS, W)  BY DEF GetNumBytes
  <2> HIDE DEF c6
  <2>2. /\ c6 \in Seq(Nat) /\ Len(c6) = 2 * W + 6 + W
        /\ \A i \in 1 .. 2 * W + 6 : c6[i] = c5[i]
        /\ \A i \in 1 .. W : c6[2 * W + 6 + i] = fS[i]
    <3>1. /\ c5 \in Seq(Nat) /\ Len(c5) = 2 * W + 6
          /\ fS \in Seq(Nat) /\ Len(fS) = W
      BY <1>4, <1>12
    <3>2. c6 = AppendBytes(c5, fS, Len(fS))  BY <3>1, <2>1
    <3> HIDE DEF c6
    <3>3. /\ c6 \in Seq(Nat) /\ Len(c6) = Len(c5) + Len(fS)
          /\ \A i \in 1 .. Len(c5) : c6[i] = c5[i]
          /\ \A i \in 1 .. Len(fS) : c6[Len(c5) + i] = fS[i]
      BY ONLY <3>1, <3>2, Appended
    <3>4. QED  BY ONLY <3>1, <3>3
  <2>3. 2 * W + 6 + W = 3 * W + 6  BY <1>0
  <2>4. QED  BY ONLY <2>2, <2>3
<1> HIDE DEF c6
<1>14. /\ c7 \in Seq(Nat) /\ Len(c7) = 3 * W + U + 6
       /\ \A i \in 1 .. 3 * W + 6 : c7[i] = c6[i]
  <2>1. /\ c7 \in Seq(Nat) /\ Len(c7) = 3 * W + 6 + U
        /\ \A i \in 1 .. 3 * W + 6 : c7[i] = c6[i]
    <3>1. /\ c6 \in Seq(Nat) /\ Len(c6) = 3 * W + 6
          /\ fU \in Seq(Nat) /\ Len(fU) = U
      BY <1>5, <1>13
    <3>2. c7 = AppendBytes(c6, fU, Len(fU))  BY <3>1
    <3> HIDE DEF c7
    <3>3. /\ c7 \in Seq(Nat) /\ Len(c7) = Len(c6) + Len(fU)
          /\ \A i \in 1 .. Len(c6) : c7[i] = c6[i]
          /\ \A i \in 1 .. Len(fU) : c7[Len(c6) + i] = fU[i]
      BY ONLY <3>1, <3>2, Appended
    <3>4. QED  BY ONLY <3>1, <3>3
  <2>2. QED  BY <1>0, <2>1
<1> HIDE DEF c7
<1>15. /\ c8 \in Seq(Nat) /\ Len(c8) = 3 * W + U + 7
       /\ \A i \in 1 .. 3 * W + 6 : c8[i] = c6[i]
  <2>1. /\ c8 \in Seq(Nat) /\ Len(c8) = 3 * W + U + 6 + 1
        /\ \A i \in 1 .. 3 * W + U + 6 : c8[i] = c7[i]
    <3>1. 0 \in Nat  OBVIOUS
    <3>2. QED  BY ONLY <3>1, <1>14, AppendedOne
  <2>2. \A i \in 1 .. 3 * W + 6 : i \in 1 .. 3 * W + U + 6  BY <1>0
  <2>3. \A i \in 1 .. 3 * W + 6 : c8[i] = c6[i]  BY <1>14, <2>1, <2>2
  <2>4. QED  BY <1>0, <2>1, <2>3
<1> HIDE DEF c8
<1>16. ASSUME NEW i \in 1 .. W + 5  PROVE c8[i] = c3[i]
  <2>1. i \in 1 .. W + 6 /\ i \in 1 .. 2 * W + 6 /\ i \in 1 .. 3 * W + 6
    BY <1>0
  <2>2. c8[i] = c6[i] /\ c6[i] = c5[i] /\ c5[i] = c4[i] /\ c4[i] = c3[i]
    BY <1>11, <1>12, <1>13, <1>15, <2>1
  <2>3. QED  BY <2>2
<1>17. \A i \in 1 .. W : c8[3 + i] = fB[i]
  <2>1. \A i \in 1 .. W : 3 + i \in 1 .. W + 5  BY <1>0
  <2>2. QED  BY <1>10, <1>16, <2>1
<1>18. c8[W + 5] = Generator[1]
  <2>1. W + 5 \in 1 .. W + 5  BY <1>0
  <2>2. QED  BY <1>10, <1>16, <2>1
<1>19. \A i \in 1 .. W : c8[W + 6 + i] = fN[i]
  <2>1. \A i \in 1 .. W : /\ W + 6 + i \in 1 .. 2 * W + 6
                          /\ W + 6 + i \in 1 .. 3 * W + 6
    BY <1>0
  <2>2. ASSUME NEW i \in 1 .. W  PROVE c8[W + 6 + i] = fN[i]
    <3> DEFINE m == W + 6 + i
    <3>1. m \in 1 .. 2 * W + 6 /\ m \in 1 .. 3 * W + 6 /\ c5[m] = fN[i]
      BY <1>12, <2>1
    <3> HIDE DEF m
    <3>2. c8[m] = c6[m] /\ c6[m] = c5[m]  BY ONLY <1>13, <1>15, <3>1
    <3>3. QED  BY <3>1, <3>2 DEF m
  <2>3. QED  BY <2>2
<1>20. \A i \in 1 .. W : c8[2 * W + 6 + i] = fS[i]
  <2>1. \A i \in 1 .. W : 2 * W + 6 + i \in 1 .. 3 * W + 6  BY <1>0
  <2>2. QED  BY <1>13, <1>15, <2>1
<1>21. Layout(c8, b, salt)
  BY <1>15, <1>17, <1>18, <1>19, <1>20 DEF Layout, fB, fN, fS
<1>22. QED  BY <1>6, <1>21

-----------------------------------------------------------------------------
(***************************************************************************)
(* The logon.                                                              *)
(***************************************************************************)

\* Every number of the exchange but M has its full length.
Full == Len(A) = W /\ Len(B) = W /\ Len(S) \in {0, W} /\ Len(K) = 2 * H

\* A number is never longer than its field.
WidthInv == Len(A) <= W /\ Len(B) <= W /\ Len(S) <= W

\* What the challenge holds, field by field.
WireInv ==
  /\ Len(s) = W /\ Len(package) = 3 * W + U + 7
  /\ FieldB = AsByteArray(B, W) /\ FieldG = Generator
  /\ FieldN = AsByteArray(Modulus, W) /\ FieldS = Reverse(s)

\* The server's verdict.
JudgedInv == (authed => Full) /\ (Full /\ Len(M) = H => authed)

\* The inductive invariant.
IInv ==
  /\ TypeOK /\ HashRestored /\ WidthInv
  /\ step # "connected" => WireInv
  /\ step \in {"judged", "done"} => JudgedInv
  /\ DecidedByLengths

\* A field of the challenge is the array that was put there.
LEMMA FieldIs ==
  ASSUME NEW c \in Seq(Nat), NEW at \in Nat, NEW arr \in Seq(Nat),
         at + Len(arr) <= Len(c),
         \A i \in 1 .. Len(arr) : c[at + i] = arr[i]
  PROVE  SubSeq(c, at + 1, at + Len(arr)) = arr
<1> DEFINE l == Len(arr)
           f == SubSeq(c, at + 1, at + l)
<1>1. l \in Nat /\ Len(c) \in Nat  BY LenProperties
<1>2. \A i \in at + 1 .. at + l : c[i] \in Nat
  <2>1. \A i \in at + 1 .. at + l : i \in 1 .. Len(c)  BY <1>1
  <2>2. QED  BY <2>1, ElementOfSeq
<1> DEFINE m == at + 1
           n == at + l
<1>3. /\ f \in Seq(Nat) /\ Len(f) = IF m <= n THEN n - m + 1 ELSE 0
      /\ \A i \in 1 .. n - m + 1 : f[i] = c[m + i - 1]
  <2>1. m \in Int /\ n \in Int /\ f = SubSeq(c, m, n)  BY <1>1
  <2>2. \A i \in m .. n : c[i] \in Nat  BY <1>2
  <2> HIDE DEF f, m, n
  <2>3. QED  BY <2>1, <2>2, SubSeqProperties
<1> HIDE DEF f, m, n
<1>4. n - m + 1 = l /\ (m <= n <=> l > 0) /\ m \in Int  BY <1>1 DEF m, n
<1>5. Len(f) = l
  <2>1. l > 0 \/ l = 0  BY <1>1
  <2>2. QED  BY <1>3, <1>4, <2>1
<1>6. ASSUME NEW i \in 1 .. l  PROVE f[i] = arr[i]
  <2>1. f[i] = c[m + i - 1]  BY <1>3, <1>4
  <2>2. m + i - 1 = at + i  BY <1>1 DEF m
  <2>3. QED  BY <2>1, <2>2
<1>7. f = arr  BY <1>3, <1>5, <1>6, SeqEqual
<1>8. QED  BY <1>7 DEF f, m, n

\* A concatenation is as long as its parts together.
LEMMA LengthOf2 ==
  ASSUME NEW t \in Seq(Byte), NEW u \in Seq(Byte)
  PROVE  t \o u \in Seq(Byte) /\ Len(t \o u) = Len(t) + Len(u)
BY ConcatProperties, Zenon

LEMMA LengthOf3 ==
  ASSUME NEW t \in Seq(Byte), NEW u \in Seq(Byte), NEW v \in Seq(Byte)
  PROVE  /\ t \o u \o v \in Seq(Byte)
         /\ Len(t \o u \o v) = Len(t) + Len(u) + Len(v)
<1> DEFINE c == t \o u
<1>1. c \in Seq(Byte) /\ Len(c) = Len(t) + Len(u)  BY LengthOf2
<1> HIDE DEF c
<1>2. c \o v \in Seq(Byte) /\ Len(c \o v) = Len(c) + Len(v)  BY <1>1, LengthOf2
<1>3. QED  BY <1>1, <1>2 DEF c

LEMMA LengthOf4 ==
  ASSUME NEW t \in Seq(Byte), NEW u \in Seq(Byte),
         NEW v \in Seq(Byte), NEW w \in Seq(Byte)
  PROVE  Len(t \o u \o v \o w) = Len(t) + Len(u) + Len(v) + Len(w)
<1> DEFINE c == t \o u \o v
<1>1. c \in Seq(Byte) /\ Len(c) = Len(t) + Len(u) + Len(v)  BY LengthOf3
<1> HIDE DEF c
<1>2. Len(c \o w) = Len(c) + Len(w)  BY <1>1, LengthOf2
<1>3. QED  BY <1>1, <1>2 DEF c

\* What the server reads and hashes of the numbers it has.
LEMMA ServerBytes ==
  ASSUME TypeOK, WidthInv
  PROVE  /\ LpA \in Seq(Byte) /\ Len(LpA) = W /\ ReadA = A
         /\ Len(A) \in Nat /\ Len(B) \in Nat /\ Len(S) \in Nat
         /\ Update(A) = Reverse(A) /\ Reverse(A) \in Seq(Byte)
         /\ Len(Reverse(A)) = Len(A)
         /\ Update(B) = Reverse(B) /\ Reverse(B) \in Seq(Byte)
         /\ Len(Reverse(B)) = Len(B)
         /\ Update(s) = Reverse(s) /\ Reverse(s) \in Seq(Byte)
         /\ Len(Reverse(s)) = Len(s)
         /\ Len(A) = W => LpA = Reverse(A)
<1>1. /\ A \in Number /\ B \in Number /\ S \in Number /\ s \in Number
      /\ W \in Nat
  BY WidthFacts DEF TypeOK
<1>2. /\ A \in Seq(Byte) /\ Len(A) \in Nat /\ B \in Seq(Byte) /\ Len(B) \in Nat
      /\ Len(S) \in Nat /\ s \in Seq(Byte)
  BY <1>1, NumberBytes
<1>3. LpA \in Seq(Byte) /\ Len(LpA) = W /\ ReadA = A
  BY <1>1, PaddedArray, ReadBack DEF WidthInv, LpA, ReadA
<1>4. /\ Reverse(A) \in Seq(Byte) /\ Len(Reverse(A)) = Len(A)
      /\ Reverse(B) \in Seq(Byte) /\ Len(Reverse(B)) = Len(B)
      /\ Reverse(s) \in Seq(Byte) /\ Len(Reverse(s)) = Len(s)
  BY <1>2, ReverseProperties
<1>5. Update(A) = Reverse(A) /\ Update(B) = Reverse(B) /\ Update(s) = Reverse(s)
  BY <1>1, BareArray DEF Update
<1>6. ASSUME Len(A) = W  PROVE LpA = Reverse(A)
  <2>1. W - Len(A) = 0  BY <1>2, <1>6
  <2>2. LpA = Reverse(A) \o Zeros(0)  BY <2>1 DEF LpA, LittleEndian
  <2>3. QED  BY <1>4, <2>2, NoZeros
<1>7. QED  BY <1>2, <1>3, <1>4, <1>5, <1>6

\* The digest of a hash or a key that the server makes a number of.
LEMMA DigestBytes ==
  ASSUME NEW k \in Nat, NEW t \in Digests(k)
  PROVE  /\ t \in Seq(Byte) /\ Len(t) = k
         /\ Update(SetBinary(t)) \in Seq(Byte)
         /\ Len(Update(SetBinary(t))) = Len(SetBinary(t))
         /\ Len(SetBinary(t)) \in Nat
         /\ Len(SetBinary(t)) = k => Update(SetBinary(t)) = t
<1>1. t \in Seq(Byte) /\ Len(t) = k  BY DEF Digests
<1>2. /\ SetBinary(t) \in Number
      /\ Len(SetBinary(t)) = k => Reverse(SetBinary(t)) = t
  BY <1>1, BinaryProperties
<1>3. Update(SetBinary(t)) = Reverse(SetBinary(t))
  BY <1>2, BareArray DEF Update
<1>4. SetBinary(t) \in Seq(Byte) /\ Len(SetBinary(t)) \in Nat
  BY <1>2, NumberBytes
<1>5. /\ Reverse(SetBinary(t)) \in Seq(Byte)
      /\ Len(Reverse(SetBinary(t))) = Len(SetBinary(t))
  BY <1>4, ReverseProperties
<1>6. QED  BY <1>1, <1>2, <1>3, <1>4, <1>5

\* Both sides find the same just when every number has its full length.
LEMMA ProofNeedsLengths ==
  ASSUME TypeOK, WidthInv, WireInv
  PROVE  SameProof <=> Full
<1>0. W \in Nat /\ H \in Nat /\ 2 * H \in Nat  BY WidthFacts
<1>1. /\ LpA \in Seq(Byte) /\ Len(LpA) = W /\ ReadA = A
      /\ Len(A) \in Nat /\ Len(B) \in Nat /\ Len(S) \in Nat
      /\ Update(A) = Reverse(A) /\ Reverse(A) \in Seq(Byte)
      /\ Len(Reverse(A)) = Len(A)
      /\ Update(B) = Reverse(B) /\ Reverse(B) \in Seq(Byte)
      /\ Len(Reverse(B)) = Len(B)
      /\ Update(s) = Reverse(s) /\ Reverse(s) \in Seq(Byte)
      /\ Len(Reverse(s)) = Len(s)
      /\ Len(A) = W => LpA = Reverse(A)
  BY ServerBytes
<1>2. /\ vK \in Seq(Byte) /\ Len(vK) = 2 * H
      /\ Update(K) \in Seq(Byte) /\ Len(Update(K)) = Len(K) /\ Len(K) \in Nat
      /\ Len(K) = 2 * H => Update(K) = vK
  BY <1>0, DigestBytes DEF TypeOK, K
<1>3. B \in Number /\ S \in Number /\ Len(B) <= W /\ Len(S) <= W
  BY DEF TypeOK, WidthInv
<1>4. FieldB \in Seq(Byte) /\ Len(FieldB) = W
  BY <1>0, <1>3, PaddedArray DEF WireInv
<1>5. Len(B) = W => FieldB = Reverse(B) /\ SetBinary(FieldB) = B
  <2>1. SUFFICES ASSUME Len(B) = W
                 PROVE  FieldB = Reverse(B) /\ SetBinary(FieldB) = B
    OBVIOUS
  <2>2. AsByteArray(B, W) = LittleEndian(B, W)
    BY <1>0, <1>3, <2>1, PaddingRight
  <2>3. SetBinary(LittleEndian(B, W)) = B  BY <1>0, <1>3, ReadBack
  <2>4. LittleEndian(B, W) = Reverse(B) \o Zeros(0)
    BY <1>0, <2>1 DEF LittleEndian
  <2>5. LittleEndian(B, W) = Reverse(B)  BY <1>1, <2>4, NoZeros
  <2>6. QED  BY <2>2, <2>3, <2>5 DEF WireInv
<1>6. AsByteArray(S, W) = LittleEndian(S, W) <=> Len(S) \in {0, W}
  BY <1>0, <1>3, PaddingRight
<1>7. ASSUME Full  PROVE SameProof
  <2>1. Len(A) = W /\ Len(B) = W /\ Len(S) \in {0, W} /\ Len(K) = 2 * H
    BY <1>7 DEF Full
  <2>2. Update(ReadA) = LpA /\ Update(B) = FieldB /\ Update(K) = vK
    BY <1>1, <1>2, <1>5, <2>1
  <2>3. SameSecret  BY <1>5, <2>1, <2>2 DEF SameSecret
  <2>4. SameKey  BY <1>6, <2>1, <2>3 DEF SameKey
  <2>5. Update(s) = FieldS  BY <1>1 DEF WireInv
  <2>6. QED  BY <2>2, <2>4, <2>5 DEF SameProof
<1>8. ASSUME SameProof  PROVE Full
  <2>1. /\ Update(A) \o Update(B) = LpA \o FieldB
        /\ AsByteArray(S, W) = LittleEndian(S, W)
    BY <1>1, <1>8 DEF SameProof, SameKey, SameSecret
  <2>2. Len(A) + Len(B) = W + W
    <3>1. /\ Len(Update(A) \o Update(B)) = Len(Update(A)) + Len(Update(B))
          /\ Len(LpA \o FieldB) = Len(LpA) + Len(FieldB)
      <4>1. /\ Update(A) \in Seq(Byte) /\ Update(B) \in Seq(Byte)
            /\ LpA \in Seq(Byte) /\ FieldB \in Seq(Byte)
        BY <1>1, <1>4
      <4>2. QED  BY ONLY <4>1, LengthOf2, Zenon
    <3>2. QED  BY <1>1, <1>4, <2>1, <3>1
  <2>3. Len(A) = W /\ Len(B) = W
    <3>1. Len(A) <= W /\ Len(B) <= W  BY DEF WidthInv
    <3>2. QED  BY <1>0, <1>1, <2>2, <3>1
  <2>4. Len(S) \in {0, W}  BY <1>6, <2>1
  <2>5. Update(s) \o Update(A) \o Update(B) \o Update(K)
          = Update(s) \o LpA \o FieldB \o vK
    BY <1>1, <1>8 DEF SameProof, WireInv
  <2>6. Len(s) + Len(A) + Len(B) + Len(K) = Len(s) + W + W + 2 * H
    <3>1. /\ Len(Update(s) \o Update(A) \o Update(B) \o Update(K))
               = Len(Update(s)) + Len(Update(A)) + Len(Update(B)) + Len(Update(K))
          /\ Len(Update(s) \o LpA \o FieldB \o vK)
               = Len(Update(s)) + Len(LpA) + Len(FieldB) + Len(vK)
      <4>1. /\ Update(s) \in Seq(Byte) /\ Update(A) \in Seq(Byte)
            /\ Update(B) \in Seq(Byte) /\ Update(K) \in Seq(Byte)
            /\ LpA \in Seq(Byte) /\ FieldB \in Seq(Byte) /\ vK \in Seq(Byte)
        BY <1>1, <1>2, <1>4
      <4>2. Len(Update(s) \o Update(A) \o Update(B) \o Update(K))
              = Len(Update(s)) + Len(Update(A)) + Len(Update(B)) + Len(Update(K))
        BY ONLY <4>1, LengthOf4
      <4>3. Len(Update(s) \o LpA \o FieldB \o vK)
              = Len(Update(s)) + Len(LpA) + Len(FieldB) + Len(vK)
        BY ONLY <4>1, LengthOf4
      <4>4. QED  BY <4>2, <4>3
    <3>2. QED  BY <1>1, <1>2, <1>4, <2>5, <3>1
  <2>7. Len(K) = 2 * H
    <3>1. Len(s) = W  BY DEF WireInv
    <3>2. QED  BY <1>0, <1>1, <1>2, <2>3, <2>6, <3>1
  <2>8. QED  BY <2>3, <2>4, <2>7 DEF Full
<1>9. QED  BY <1>7, <1>8

\* memcmp compares an M of full length with the bytes it was made of.
LEMMA ComparedFull ==
  ASSUME TypeOK
  PROVE  /\ Compared(M1) \subseteq BOOLEAN
         /\ Len(M) = H => Compared(M1) = {TRUE}
<1>1. H \in Nat  BY WidthFacts
<1>2. /\ Len(Update(M)) = Len(M)
      /\ Len(M) = H => Update(M) = M1
  BY <1>1, DigestBytes DEF TypeOK, M
<1>3. AsByteArray(SetBinary(M1), 0) = Update(M)  BY DEF Update, M
<1>4. QED  BY <1>2, <1>3 DEF Compared

\* The client takes M2 for right if M has its full length too.
LEMMA AnswerNeedsLength ==
  ASSUME TypeOK, WidthInv, WireInv, Full
  PROVE  Update(ReadA) \o Update(M) \o Update(K) = LpA \o M1 \o vK
           <=> Len(M) = H
<1>0. W \in Nat /\ H \in Nat /\ 2 * H \in Nat  BY WidthFacts
<1>1. /\ LpA \in Seq(Byte) /\ Len(LpA) = W /\ ReadA = A
      /\ Update(A) = Reverse(A) /\ (Len(A) = W => LpA = Reverse(A))
  BY ServerBytes
<1>2. vK \in Seq(Byte) /\ Len(vK) = 2 * H /\ (Len(K) = 2 * H => Update(K) = vK)
  BY <1>0, DigestBytes DEF TypeOK, K
<1>3. /\ M1 \in Seq(Byte) /\ Len(M1) = H /\ Update(M) \in Seq(Byte)
      /\ Len(Update(M)) = Len(M) /\ Len(M) \in Nat
      /\ Len(M) = H => Update(M) = M1
  BY <1>0, DigestBytes DEF TypeOK, M
<1>4. Update(ReadA) = LpA /\ Update(K) = vK  BY <1>1, <1>2 DEF Full
<1>5. ASSUME Len(M) = H
      PROVE  Update(ReadA) \o Update(M) \o Update(K) = LpA \o M1 \o vK
  BY <1>3, <1>4, <1>5
<1>6. ASSUME Update(ReadA) \o Update(M) \o Update(K) = LpA \o M1 \o vK
      PROVE  Len(M) = H
  <2>1. LpA \o Update(M) \o vK = LpA \o M1 \o vK  BY <1>4, <1>6
  <2>2. /\ Len(LpA \o Update(M) \o vK) = Len(LpA) + Len(Update(M)) + Len(vK)
        /\ Len(LpA \o M1 \o vK) = Len(LpA) + Len(M1) + Len(vK)
    <3>1. /\ LpA \in Seq(Byte) /\ Update(M) \in Seq(Byte)
          /\ M1 \in Seq(Byte) /\ vK \in Seq(Byte)
      BY <1>1, <1>2, <1>3
    <3>2. QED  BY ONLY <3>1, LengthOf3, Zenon
  <2>3. W + Len(M) + 2 * H = W + H + 2 * H  BY <1>1, <1>2, <1>3, <2>1, <2>2
  <2>4. QED  BY <1>0, <1>3, <2>3
<1>7. QED  BY <1>5, <1>6

-----------------------------------------------------------------------------
(***************************************************************************)
(* Every step keeps the invariant.                                         *)
(***************************************************************************)

LEMMA InitInv == Init => IInv
<1> SUFFICES ASSUME Init  PROVE IInv  OBVIOUS
<1> USE DEF Init
<1>1. H \in Nat /\ 2 * H \in Nat /\ W \in Nat  BY WidthFacts
<1>2. /\ <<>> \in Number /\ Len(<<>>) = 0 /\ <<>> \in Seq(Nat)
  BY EmptySeq DEF Number
<1>3. Zeros(H) \in Digests(H) /\ Zeros(2 * H) \in Digests(2 * H)
  BY <1>1, ByteFacts DEF Zeros, Digests
<1>4. TypeOK  BY <1>2, <1>3 DEF TypeOK
<1>5. HashRestored /\ WidthInv /\ DecidedByLengths
  BY <1>1, <1>2 DEF HashRestored, WidthInv, DecidedByLengths
<1>6. QED  BY <1>4, <1>5 DEF IInv

LEMMA ChallengeStep == IInv /\ HandleLogonChallenge => IInv'
<1> SUFFICES ASSUME IInv, HandleLogonChallenge  PROVE IInv'  OBVIOUS
<1>1. PICK hash \in Digests(H), salt \in SetRand(W), b \in Residues,
           unk3 \in SetRand(U) :
        /\ \/ rI' = hash /\ mDigest' = RestoredDigest(hash)
           \/ UNCHANGED <<rI, mDigest>>
        /\ s' = salt /\ B' = b /\ package' = Challenge(b, salt, unk3)
  <2>1. \A salt \in SetRand(W) : SetHexStr(salt) = salt  BY WidthFacts, RandHex
  <2>2. QED  BY <2>1 DEF HandleLogonChallenge
<1>2. /\ W \in Nat \ {0} /\ U \in Nat \ {0} /\ Modulus \in Number
      /\ Len(Modulus) = W /\ Generator \in Number /\ Len(Generator) = 1
  BY WidthFacts
<1>3. /\ b \in Number /\ Len(b) <= W /\ salt \in Number /\ Len(salt) = W
      /\ unk3 \in Number /\ Len(unk3) = U
  BY <1>2, ResidueProperties, RandProperties
<1>4. RestoredDigest(hash) = hash  BY DigestRestored DEF Digests
<1> DEFINE c == Challenge(b, salt, unk3)
<1>5. /\ c \in Seq(Nat) /\ Len(c) = 3 * W + U + 7
      /\ \A i \in 1 .. W : c[3 + i] = AsByteArray(b, W)[i]
      /\ c[W + 5] = Generator[1]
      /\ \A i \in 1 .. W : c[W + 6 + i] = AsByteArray(Modulus, W)[i]
      /\ \A i \in 1 .. W : c[2 * W + 6 + i] = AsByteArray(salt, 0)[i]
  <2>1. Layout(c, b, salt)  BY <1>3, ChallengeLayout, Zenon
  <2> HIDE DEF c
  <2>2. QED  BY <2>1 DEF Layout
<1>6. package' = c /\ B' = b /\ s' = salt  BY <1>1
<1> HIDE DEF c
<1>7. FieldB' = AsByteArray(b, W)
  <2> DEFINE arr == AsByteArray(b, W)
  <2>1. arr \in Seq(Nat) /\ Len(arr) = W
    BY <1>2, <1>3, PaddedArray, ByteFacts, SeqMonotonic
  <2> HIDE DEF arr
  <2>2. 3 \in Nat /\ 3 + Len(arr) <= Len(c)  BY <1>2, <1>5, <2>1
  <2>3. \A i \in 1 .. Len(arr) : c[3 + i] = arr[i]  BY <1>5, <2>1 DEF arr
  <2>4. SubSeq(c, 3 + 1, 3 + Len(arr)) = arr
    BY <1>5, <2>1, <2>2, <2>3, FieldIs
  <2>5. QED  BY <1>6, <2>1, <2>4 DEF FieldB, Field, arr
<1>8. FieldN' = AsByteArray(Modulus, W)
  <2> DEFINE arr == AsByteArray(Modulus, W)
  <2>1. arr \in Seq(Nat) /\ Len(arr) = W
    <3>1. Len(Modulus) <= W  BY <1>2
    <3>2. arr \in Seq(Byte) /\ Len(arr) = W  BY <1>2, <3>1, PaddedArray
    <3>3. QED  BY <3>2, ByteFacts, SeqMonotonic
  <2> HIDE DEF arr
  <2>2. W + 6 \in Nat /\ W + 6 + Len(arr) <= Len(c)  BY <1>2, <1>5, <2>1
  <2>3. \A i \in 1 .. Len(arr) : c[W + 6 + i] = arr[i]  BY <1>5, <2>1 DEF arr
  <2>4. SubSeq(c, W + 6 + 1, W + 6 + Len(arr)) = arr
    BY <1>5, <2>1, <2>2, <2>3, FieldIs
  <2>5. QED  BY <1>6, <2>1, <2>4 DEF FieldN, Field, arr
<1>9. FieldS' = Reverse(salt)
  <2> DEFINE arr == AsByteArray(salt, 0)
  <2>1. arr = Reverse(salt)  BY <1>3, BareArray
  <2>2. arr \in Seq(Nat) /\ Len(arr) = W
    BY <1>3, <2>1, NumberBytes, ReverseProperties, ByteFacts, SeqMonotonic
  <2> HIDE DEF arr
  <2>3. 2 * W + 6 \in Nat /\ 2 * W + 6 + Len(arr) <= Len(c)
    <3>1. W \in Nat /\ U \in Nat /\ Len(c) = 3 * W + U + 7 /\ Len(arr) = W
      BY <1>2, <1>5, <2>2
    <3>2. QED  BY ONLY <3>1
  <2>4. \A i \in 1 .. Len(arr) : c[2 * W + 6 + i] = arr[i]
    BY <1>5, <2>2 DEF arr
  <2>5. SubSeq(c, 2 * W + 6 + 1, 2 * W + 6 + Len(arr)) = arr
    BY <1>5, <2>2, <2>3, <2>4, FieldIs
  <2>6. QED  BY <1>6, <2>1, <2>2, <2>5 DEF FieldS, Field
<1>10. FieldG' = Generator
  <2>1. Generator \in Seq(Nat)
    BY <1>2, NumberBytes, ByteFacts, SeqMonotonic
  <2>2. W + 4 \in Nat /\ W + 4 + 1 = W + 5 /\ W + 4 + 1 <= Len(c)
    BY <1>2, <1>5
  <2>3. \A i \in 1 .. Len(Generator) : c[W + 4 + i] = Generator[i]
    <3> SUFFICES ASSUME NEW i \in 1 .. Len(Generator)
                 PROVE  c[W + 4 + i] = Generator[i]
      OBVIOUS
    <3>1. i = 1  BY <1>2
    <3>2. c[W + 4 + 1] = Generator[1]  BY <1>5, <2>2
    <3>3. QED  BY <3>1, <3>2
  <2>4. SubSeq(c, W + 4 + 1, W + 4 + Len(Generator)) = Generator
    BY <1>2, <1>5, <2>1, <2>2, <2>3, FieldIs
  <2>5. QED  BY <1>2, <1>6, <2>4 DEF FieldG, Field
<1>11. TypeOK'
  BY <1>1, <1>3, <1>4, <1>5, <1>6 DEF IInv, TypeOK, HandleLogonChallenge
<1>12. HashRestored'  BY <1>1, <1>4 DEF IInv, HashRestored
<1>13. WidthInv'  BY <1>3, <1>6 DEF IInv, WidthInv, HandleLogonChallenge
<1>14. WireInv'  BY <1>3, <1>5, <1>6, <1>7, <1>8, <1>9, <1>10 DEF WireInv
<1>15. step' = "challenged"  BY DEF HandleLogonChallenge
<1>16. QED
  BY <1>11, <1>12, <1>13, <1>14, <1>15 DEF IInv, DecidedByLengths

LEMMA SendStep == IInv /\ SendLogonProof => IInv'
<1> SUFFICES ASSUME IInv, SendLogonProof  PROVE IInv'  OBVIOUS
<1>1. PICK a \in Residues \ {<<>>}, secret \in Residues,
           key \in Digests(2 * H), hash \in Digests(H) :
        A' = a /\ S' = secret /\ vK' = key /\ M1' = hash
  BY DEF SendLogonProof
<1>2. /\ a \in Number /\ Len(a) <= W /\ secret \in Number /\ Len(secret) <= W
  BY ResidueProperties
<1>3. /\ UNCHANGED <<rI, mDigest, s, B, package, authed, convinced>>
      /\ step = "challenged" /\ step' = "proved"
  BY DEF SendLogonProof
<1>4. TypeOK'  BY <1>1, <1>2, <1>3 DEF IInv, TypeOK
<1>5. HashRestored'  BY <1>3 DEF IInv, HashRestored
<1>6. WidthInv'  BY <1>1, <1>2, <1>3 DEF IInv, WidthInv
<1>7. WireInv'
  BY <1>3 DEF IInv, WireInv, FieldB, FieldG, FieldN, FieldS, Field
<1>8. QED
  BY <1>3, <1>4, <1>5, <1>6, <1>7 DEF IInv, DecidedByLengths

\* What the steps after the client's proof leave alone.
LEMMA SameNumbers ==
  ASSUME IInv, UNCHANGED <<rI, mDigest, s, B, package, A, S, vK, M1>>
  PROVE  HashRestored' /\ WidthInv' /\ (WireInv <=> WireInv')
         /\ (Full <=> Full') /\ M' = M
BY DEF IInv, HashRestored, WidthInv, WireInv, Full, M, K,
       FieldB, FieldG, FieldN, FieldS, Field

LEMMA ProofStep == IInv /\ HandleLogonProof => IInv'
<1> SUFFICES ASSUME IInv, HandleLogonProof  PROVE IInv'  OBVIOUS
<1>1. /\ step = "proved" /\ step' = "judged"
      /\ authed' \in IF SameProof THEN Compared(M1) ELSE {FALSE}
      /\ UNCHANGED <<rI, mDigest, s, B, package, A, S, vK, M1, convinced>>
  BY DEF HandleLogonProof
<1>2. TypeOK /\ WidthInv /\ WireInv  BY <1>1 DEF IInv
<1>3. HashRestored' /\ WidthInv' /\ WireInv' /\ (Full <=> Full') /\ M' = M
  BY <1>1, <1>2, SameNumbers
<1>4. SameProof <=> Full  BY <1>2, ProofNeedsLengths
<1>5. Compared(M1) \subseteq BOOLEAN /\ (Len(M) = H => Compared(M1) = {TRUE})
  BY <1>2, ComparedFull
<1>6. authed' \in BOOLEAN  BY <1>1, <1>5
<1>7. TypeOK'  BY <1>1, <1>2, <1>6 DEF TypeOK
<1>8. JudgedInv'  BY <1>1, <1>3, <1>4, <1>5 DEF JudgedInv
<1>9. QED  BY <1>1, <1>3, <1>7, <1>8 DEF IInv, DecidedByLengths

LEMMA AnswerStep == IInv /\ ReceiveProof => IInv'
<1> SUFFICES ASSUME IInv, ReceiveProof  PROVE IInv'  OBVIOUS
<1> DEFINE Same == Update(ReadA) \o Update(M) \o Update(K) = LpA \o M1 \o vK
<1>1. /\ step = "judged" /\ step' = "done"
      /\ convinced' = (authed /\ Same)
      /\ UNCHANGED <<rI, mDigest, s, B, package, A, S, vK, M1, authed>>
  BY DEF ReceiveProof
<1>2. TypeOK /\ WidthInv /\ WireInv /\ JudgedInv  BY <1>1 DEF IInv
<1>3. HashRestored' /\ WidthInv' /\ WireInv' /\ (Full <=> Full') /\ M' = M
  BY <1>1, <1>2, SameNumbers
<1>4. Full => (Same <=> Len(M) = H)  BY <1>2, AnswerNeedsLength
<1> HIDE DEF Same
<1>5. TypeOK'  BY <1>1, <1>2 DEF TypeOK
<1>6. JudgedInv'  BY <1>1, <1>2, <1>3 DEF JudgedInv
<1>7. /\ convinced' <=> Full' /\ Len(M') = H
      /\ authed' => Full'
      /\ convinced' => authed'
  <2>1. authed \in BOOLEAN  BY <1>2 DEF TypeOK
  <2>2. QED  BY <1>1, <1>2, <1>3, <1>4, <2>1 DEF JudgedInv
<1>8. DecidedByLengths'  BY <1>7 DEF DecidedByLengths, Full
<1>9. QED  BY <1>1, <1>3, <1>5, <1>6, <1>8 DEF IInv

\* The invariant of one logon: what is on the wire, and what the verdict
\* says of the lengths.
THEOREM Invariance == Spec => []IInv
<1>1. Init => IInv  BY InitInv
<1>2. IInv /\ [Next]_vars => IInv'
  <2> SUFFICES ASSUME IInv, [Next]_vars  PROVE IInv'  OBVIOUS
  <2>1. CASE UNCHANGED vars
    <3>1. HashRestored' /\ WidthInv' /\ (WireInv <=> WireInv')
          /\ (Full <=> Full') /\ M' = M
      BY <2>1, SameNumbers DEF vars
    <3>2. TypeOK'  BY <2>1 DEF IInv, TypeOK, vars
    <3>3. JudgedInv <=> JudgedInv'  BY <2>1, <3>1 DEF JudgedInv, vars
    <3>4. DecidedByLengths'  BY <2>1 DEF IInv, DecidedByLengths, K, M, vars
    <3>5. step' = step  BY <2>1 DEF vars
    <3>6. QED  BY <3>1, <3>2, <3>3, <3>4, <3>5 DEF IInv
  <2>2. CASE HandleLogonChallenge  BY <2>2, ChallengeStep
  <2>3. CASE SendLogonProof  BY <2>3, SendStep
  <2>4. CASE HandleLogonProof  BY <2>4, ProofStep
  <2>5. CASE ReceiveProof  BY <2>5, AnswerStep
  <2>6. QED  BY <2>1, <2>2, <2>3, <2>4, <2>5 DEF Next
<1>3. QED  BY <1>1, <1>2, PTL DEF Spec

\* The variables of a logon have their types.
THEOREM TypeCorrect == Spec => []TypeOK
<1>1. IInv => TypeOK  BY DEF IInv
<1>2. QED  BY <1>1, Invariance, PTL

\* The verifier is made of all bytes of the stored hash
\* (AuthServer.cpp:178-185).
THEOREM HashKept == Spec => []HashRestored
<1>1. IInv => HashRestored  BY DEF IInv
<1>2. QED  BY <1>1, Invariance, PTL

\* The fields of a challenge are where clients look for them
\* (AuthServer.cpp:312-324).
THEOREM Aligned == Spec => []ChallengeAligned
<1>1. IInv => ChallengeAligned
  <2> SUFFICES ASSUME IInv, step # "connected"  PROVE
        /\ Len(package) = 3 * W + U + 7 /\ FieldG = Generator
        /\ FieldN = LittleEndian(Modulus, W) /\ FieldS = LittleEndian(s, W)
    BY DEF ChallengeAligned
  <2>1. WireInv /\ s \in Number /\ W \in Nat /\ Modulus \in Number
        /\ Len(Modulus) = W
    BY WidthFacts DEF IInv, TypeOK
  <2>2. AsByteArray(Modulus, W) = LittleEndian(Modulus, W)
    BY <2>1, PaddingRight
  <2>3. Reverse(s) = LittleEndian(s, W)
    <3>1. Len(s) = W /\ W - Len(s) = 0  BY <2>1 DEF WireInv
    <3>2. Reverse(s) \in Seq(Byte)  BY <2>1, NumberBytes, ReverseProperties
    <3>3. Reverse(s) \o Zeros(0) = Reverse(s)  BY <3>2, NoZeros
    <3>4. QED  BY <3>1, <3>3 DEF LittleEndian
  <2>4. QED  BY <2>1, <2>2, <2>3 DEF WireInv
<1>2. QED  BY <1>1, Invariance, PTL

\* A right password leads to a session on both sides just when no number of
\* the exchange is short (AuthServer.cpp:316, 349-433).
THEOREM LengthsDecide == Spec => []DecidedByLengths
<1>1. IInv => DecidedByLengths  BY DEF IInv
<1>2. QED  BY <1>1, Invariance, PTL
=============================================================================
