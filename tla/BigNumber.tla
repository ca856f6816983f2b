------------------------------ MODULE BigNumber ------------------------------
(***************************************************************************)
(* One BigNumber object (src/src/Util/BigNumber.cpp): an OpenSSL number    *)
(* and arraysMap, the byte arrays that AsByteArray has handed out, keyed   *)
(* by their length.                                                        *)
(*                                                                         *)
(* A number is the pair of what it is and how many bytes it has.  An array *)
(* is known by the number it was made of, its length, and whether its      *)
(* bytes are the number's in a field of that length: AsByteArray pads a    *)
(* number that is shorter than the array at the wrong end, so it makes     *)
(* such an array only at the number's own length (BigNumberBytes.tla has   *)
(* the bytes, and the theorem PaddingRight).                               *)
(***************************************************************************)
EXTENDS Naturals

CONSTANT Lengths  \* how long the arrays may be

\* The value BN_new gives, and an entry that is not in arraysMap.
Zero == <<>>
NoArray == [of |-> Zero, length |-> 0, exact |-> FALSE]

\* GetNumBytes
Size(n) == n[2]

\* What a client that keeps numbers in fields of a fixed length has.
Field(n, length) == [of |-> n, length |-> length, exact |-> TRUE]

\* What BN_bn2bin, the padding and the reversal make of a number that has no
\* more than `length` bytes.
Bytes(n, length) == [of |-> n, length |-> length, exact |-> length = Size(n)]

Arrays(Values) == [of : Values, length : Lengths, exact : BOOLEAN]

\* The objects whose number is zero or one of Values, and whose arrays are those
\* of Values.
BigNumbers(Values) ==
  [value : Values \cup {Zero}, arrays : [Lengths -> Arrays(Values) \cup {NoArray}]]

\* The constructors: a number, and an empty map.
NewNumber == [value |-> Zero, arrays |-> [l \in Lengths |-> NoArray]]

\* SetRand, SetHexStr, SetBinary and operator=: the number changes, arraysMap
\* does not.
Assign(n, val) == [n EXCEPT !.value = val]

\* The length of the array that AsByteArray(minSize) hands out.
ArrayLength(n, minSize) == IF minSize >= Size(n.value) THEN minSize ELSE Size(n.value)

\* What AsByteArray returns: the array of that length in the map, if there is one.
AsByteArray(n, minSize) ==
  LET length == ArrayLength(n, minSize)
  IN  IF n.arrays[length] # NoArray THEN n.arrays[length] ELSE Bytes(n.value, length)

\* The object after AsByteArray: an array it had to build is in the map.
Converted(n, minSize) ==
  [n EXCEPT !.arrays[ArrayLength(n, minSize)] = AsByteArray(n, minSize)]
=============================================================================
