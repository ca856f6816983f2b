----------------------------- MODULE LogonBytes -----------------------------
(***************************************************************************)
(* One logon with the right password as bytes: which numbers keep their     *)
(* value on the wire and in the hashes.                                     *)
(*                                                                          *)
(* AuthServer takes numbers as terms.  Here they are bytes, and what is     *)
(* computed from them is drawn: two hashes of the same bytes are equal, of  *)
(* different bytes different, and both sides find the same S if they know   *)
(* the same A, B and u.                                                     *)
(*                                                                          *)
(* The client is external.  It takes each number to be as wide as its field *)
(* in the packets (A[32] and M1[20] of AUTH_LOGON_PROOF_C), in what it      *)
(* reads, sends and hashes.                                                 *)
(***************************************************************************)
EXTENDS BigNumberBytes

CONSTANTS
  W,        \* bytes of N, g^x and s: 32
  H,        \* bytes of a hash: 20; K has twice as many
  U,        \* bytes of unk3: 16
  Modulus,  \* N
  Generator \* g, one byte

ASSUME SizesAssumption ==
  W \in Nat \ {0} /\ H \in Nat \ {0} /\ U \in Nat \ {0}
ASSUME GroupAssumption ==
  /\ Modulus \in Number /\ Len(Modulus) = W
  /\ Generator \in Number /\ Len(Generator) = 1

VARIABLES
  step,     \* connected, challenged, proved, judged, done
  rI,       \* sha_pass_hash as _SetVSFields is given it, as bytes
  mDigest,  \* the bytes of it that _SetVSFields hashes
  s, B,     \* the session's numbers
  package,  \* the challenge as it was sent
  A, S,     \* the client's g^a, the secret both sides compute
  vK, M1,   \* the bytes of the session key; the hash that proves it
  authed,   \* _authed
  convinced \* the client takes the server's M2 for right

vars == <<step, rI, mDigest, s, B, package, A, S, vK, M1, authed, convinced>>

-----------------------------------------------------------------------------
Digests(k) == [1 .. k -> Byte]

\* Results of a modular operation.
Below(n, m) ==
  \/ Len(n) < Len(m)
  \/ /\ Len(n) = Len(m)
     /\ \E i \in 1 .. Len(n) : n[i] < m[i] /\ \A j \in 1 .. i - 1 : n[j] = m[j]
Residues ==
  {n \in UNION {[1 .. k -> Byte] : k \in 0 .. W} :
     (n # <<>> => n[1] # 0) /\ Below(n, Modulus)}

Init ==
  /\ step = "connected"
  /\ rI = Zeros(H) /\ mDigest = Zeros(H)
  /\ s = <<>> /\ B = <<>> /\ package = <<>>
  /\ A = <<>> /\ S = <<>> /\ vK = Zeros(2 * H) /\ M1 = Zeros(H)
  /\ authed = FALSE /\ convinced = FALSE

\* Mutant: the digest is taken from BigNumber with its own padding.
PaddedDigest(hash) == Reverse(AsByteArray(SetHexStr(hash), H))

\* Mutant: the digest has only the bytes of the number.
BareDigest(hash) == Reverse(AsByteArray(SetHexStr(hash), 0))

\* _SetVSFields: copied into zeros, then turned round.
RestoredDigest(hash) ==
  LET I == SetHexStr(hash)
  IN  Reverse(AsByteArray(I, 0) \o Zeros(H - GetNumBytes(I)))

\* The answer: command, 0, success; B; 1, g; 32, N; s; unk3; flags.
Challenge(b, salt, unk3) ==
  LET head == AppendBytes(<<0, 0, 0>>, AsByteArray(b, W), W)
      group == AppendBytes(Append(head, 1), AsByteArray(Generator, 0), 1)
      prime == AppendBytes(Append(group, W), AsByteArray(Modulus, W), W)
      salted == AppendBytes(prime, AsByteArray(salt, 0), GetNumBytes(salt))
  IN  Append(AppendBytes(salted, AsByteArray(unk3, U), U), 0)

\* A salt and a verifier are made, or read from the row that an earlier logon has
\* written.
HandleLogonChallenge ==
  /\ step = "connected" /\ step' = "challenged"
  /\ \E hash \in Digests(H), salt \in SetRand(W), b \in Residues,
        unk3 \in SetRand(U) :
       /\ \/ rI' = hash /\ mDigest' = RestoredDigest(hash) /\ s' = salt
          \/ s' = SetHexStr(salt) /\ UNCHANGED <<rI, mDigest>>
       /\ B' = b
       /\ package' = Challenge(b, s', unk3)
  /\ UNCHANGED <<A, S, vK, M1, authed, convinced>>

\* The fields of the challenge, where a client finds them.
Field(at, len) == SubSeq(package, at + 1, at + len)
FieldB == Field(3, W)
FieldG == Field(W + 4, 1)
FieldN == Field(W + 6, W)
FieldS == Field(2 * W + 6, W)

\* The client draws its numbers and sends A and M1.
SendLogonProof ==
  /\ step = "challenged" /\ step' = "proved"
  /\ \E a \in Residues \ {<<>>}, secret \in Residues,
        key \in Digests(2 * H), hash \in Digests(H) :
       A' = a /\ S' = secret /\ vK' = key /\ M1' = hash
  /\ UNCHANGED <<rI, mDigest, s, B, package, authed, convinced>>

\* The bytes of numbers in UpdateBigNumbers.
Update(n) == AsByteArray(n, 0)

LpA == LittleEndian(A, W)
ReadA == SetBinary(LpA)
K == SetBinary(vK)
M == SetBinary(M1)

\* Both sides know the same numbers and the same u = H(A, B).
SameSecret ==
  /\ SetBinary(FieldB) = B
  /\ Update(ReadA) \o Update(B) = LpA \o FieldB
\* And make the key of the same bytes of S.
SameKey == SameSecret /\ AsByteArray(S, W) = LittleEndian(S, W)
\* And hash the same s, A, B and K for M.
SameProof ==
  /\ SameKey
  /\ Update(s) \o Update(ReadA) \o Update(B) \o Update(K)
       = FieldS \o LpA \o FieldB \o vK

\* memcmp reads 20 bytes: those behind a shorter array may be anything.
Compared(digest) ==
  LET array == AsByteArray(SetBinary(digest), 0)
  IN  IF Len(array) = H THEN {array = digest}
      ELSE {\A i \in DOMAIN array : array[i] = digest[i], FALSE}

HandleLogonProof ==
  /\ step = "proved" /\ step' = "judged"
  /\ ReadA # <<>>
  /\ authed' \in IF SameProof THEN Compared(M1) ELSE {FALSE}
  /\ UNCHANGED <<rI, mDigest, s, B, package, A, S, vK, M1, convinced>>

\* M2 = H(A, M, K), as the server and as the client hash it.
ReceiveProof ==
  /\ step = "judged" /\ step' = "done"
  /\ convinced' = (authed /\ Update(ReadA) \o Update(M) \o Update(K)
                               = LpA \o M1 \o vK)
  /\ UNCHANGED <<rI, mDigest, s, B, package, A, S, vK, M1, authed>>

Next ==
  HandleLogonChallenge \/ SendLogonProof \/ HandleLogonProof \/ ReceiveProof

Spec == Init /\ [][Next]_vars
-----------------------------------------------------------------------------
(* Properties.                                                             *)

TypeOK ==
  /\ step \in {"connected", "challenged", "proved", "judged", "done"}
  /\ rI \in Digests(H) /\ mDigest \in Digests(H)
  /\ s \in Number /\ B \in Number
  /\ package \in Seq(Nat)
  /\ A \in Number /\ S \in Number
  /\ vK \in Digests(2 * H) /\ M1 \in Digests(H)
  /\ authed \in BOOLEAN /\ convinced \in BOOLEAN

\* "In case of leading zeros in the rI hash, restore them"
\* (AuthServer.cpp:178): the verifier is made of the hash of the row.
HashRestored == mDigest = rI

\* s is appended with as many bytes as it has, and a challenge does not say
\* how many: the fields behind it, and its own, are where clients look for
\* them, for SetRand draws no short number.
ChallengeAligned ==
  step # "connected" =>
    /\ Len(package) = 3 * W + U + 7
    /\ FieldG = Generator
    /\ FieldN = LittleEndian(Modulus, W)
    /\ FieldS = LittleEndian(s, W)

\* A right password leads to a session on both sides just when no number of
\* the exchange has a leading zero byte.  If only M has one, the server may
\* take the session for logged on, but its client never does
\* (UpdateBigNumbers, AsByteArray, the memcmp of _HandleLogonProof).
DecidedByLengths ==
  LET full == Len(A) = W /\ Len(B) = W /\ Len(S) \in {0, W} /\ Len(K) = 2 * H
  IN  step = "done" =>
        /\ convinced <=> full /\ Len(M) = H
        /\ authed => full
        /\ convinced => authed

\* "B may be calculated < 32B so we force minimal length to 32B"
\* (AuthServer.cpp:315): a client reads the B that was calculated.
BReadBack == step # "connected" => SetBinary(FieldB) = B
=============================================================================
