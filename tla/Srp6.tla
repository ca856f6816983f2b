-------------------------------- MODULE Srp6 --------------------------------
(***************************************************************************)
(* The SRP6 computation of src/src/DWCore/AuthServer.cpp, as terms.  A     *)
(* number of the protocol is made of what it is computed from, so two      *)
(* numbers are equal exactly when their inputs are: hashing (SHA1) and     *)
(* exponentiation mod N are taken to be collision free, and a random draw  *)
(* to differ from every other.  How many bytes a number has is chance, and *)
(* is drawn with the random number it depends on.  N and g are constants   *)
(* and are left out.                                                       *)
(* The client's side is external: it is what a client that follows the     *)
(* protocol computes, with every number in a field of fixed length.        *)
(***************************************************************************)
EXTENDS BigNumber

\* s_BYTE_SIZE, the length of A, B and S; of K; of M.
SaltBytes == 32
FieldBytes == 32
KeyBytes == 40
ProofBytes == 20

\* No number computed with a draw of these sizes is shorter than its field.
FullSizes == [B |-> FieldBytes, S |-> FieldBytes, K |-> KeyBytes, M |-> ProofBytes]

\* The b of no draw.
NoDraw == [nr |-> 0, size |-> FullSizes]

\* v = g ^ H(s, I) : _SetVSFields, from the bytes of the salt and sha_pass_hash.
Verifier(s, I) == <<s, I>>

\* B = 3 v + g ^ b
PublicValue(v, b) == <<[v |-> v, b |-> b], b.size.B>>

\* K: A and B stand for the bytes of them that u = H(A, B) is made from, and
\* `exact` says whether it is made of the right bytes of S.
Key(A, B, v, b, exact) ==
  <<[A |-> A, B |-> B, v |-> v, b |-> b, exact |-> exact], b.size.K>>

\* Mutant: S = A * v ^ u, without its exponent b.
ServerKeyWithoutSecret(A, B, v, b) == Key(A, B, v, NoDraw, b.size.S = FieldBytes)

\* S = (A * v ^ u) ^ b, and the interleaved hash of S.AsByteArray(32), which has
\* the bytes of S at the wrong end if there are fewer.
ServerKey(A, B, v, b) == Key(A, B, v, b, b.size.S = FieldBytes)

\* The client's S = (B - 3 g ^ x) ^ (a + u x), from the salt and the B it was
\* sent and the name and password typed in.  Only if it can read B and its g ^ x
\* is the v inside does the subtraction leave g ^ b; else it leaves a number no
\* server computes.
ClientKey(A, B, s, I) ==
  LET x == Verifier(s, I)
      sum == B.of[1]
  IN  Key(A, B, x, IF B.exact /\ sum.v = x THEN sum.b ELSE NoDraw, TRUE)

\* Mutant: the proof does not cover the session key.
ProofWithoutKey(login, s, A, B, K) == <<login, s, A, B>>

\* M = H(H(N) xor H(g), H(login), s, A, B, K), of the bytes of s, A, B and K.
Proof(login, s, A, B, K) == <<login, s, A, B, K>>

\* Mutant: a wrong M1 is as good as the right one.
ComparedToNothing(M, M1, size) == {TRUE}

\* memcmp of 20 bytes of M with the client's: those behind a shorter array may be
\* anything.
Compared(M, M1, size) ==
  IF M # M1 THEN {FALSE} ELSE IF size = ProofBytes THEN {TRUE} ELSE BOOLEAN
=============================================================================
