-------------------------- MODULE AuthServerProofs --------------------------
(***************************************************************************)
(* Theorems about AuthServer, for any connections, names, passwords and    *)
(* bounds.                                                                 *)
(***************************************************************************)
EXTENDS AuthServer, TLAPS

(* Lemmas on the operators. *)

LEMMA LengthsKnown ==
  /\ Lengths \subseteq Nat \ {0} /\ 0 \notin Lengths
  /\ SaltBytes \in Lengths /\ FieldBytes \in Lengths /\ KeyBytes \in Lengths
BY AuthServerAssumption

LEMMA SizeTypes ==
  /\ \A v \in Salts : Size(v) = SaltBytes /\ Size(v) \in Lengths
  /\ \A v \in PublicValues : Size(v) \in Lengths
  /\ \A v \in ServerKeys : Size(v) \in Lengths
BY LengthsKnown DEF Salts, PublicValues, ServerKeys, KeysOf, Size

LEMMA AssignType ==
  ASSUME NEW V, NEW n \in BigNumbers(V), NEW val \in V
  PROVE  /\ Assign(n, val) \in BigNumbers(V)
         /\ Assign(n, val).value = val /\ Assign(n, val).arrays = n.arrays
BY DEF BigNumbers, Assign

\* A number that was set has a length that arraysMap can have.
LEMMA LengthType ==
  ASSUME NEW n, Size(n.value) \in Lengths, NEW m \in Lengths \cup {0}
  PROVE  ArrayLength(n, m) \in Lengths
<1>1. CASE m \in Lengths
  BY <1>1 DEF ArrayLength
<1>2. CASE m = 0
  <2>1. Size(n.value) \in Nat /\ Size(n.value) # 0
    BY LengthsKnown
  <2>2. QED BY <1>2, <2>1 DEF ArrayLength
<1>3. QED BY <1>1, <1>2

LEMMA BytesType ==
  ASSUME NEW V, NEW val \in V, NEW length \in Lengths
  PROVE  Bytes(val, length) \in Arrays(V) /\ Field(val, length) \in Arrays(V)
BY DEF Bytes, Field, Arrays

LEMMA NoArrayType == ASSUME NEW V PROVE NoArray \notin Arrays(V)
BY LengthsKnown DEF NoArray, Arrays

\* The array is the one in the map or is made now, and is found again.
LEMMA ConvertedType ==
  ASSUME NEW V, NEW n \in BigNumbers(V), n.value \in V, Size(n.value) \in Lengths,
         NEW m \in Lengths \cup {0}
  PROVE  /\ AsByteArray(n, m) \in Arrays(V)
         /\ Converted(n, m) \in BigNumbers(V)
         /\ Converted(n, m).value = n.value
         /\ Converted(n, m).arrays =
              [n.arrays EXCEPT ![ArrayLength(n, m)] = AsByteArray(n, m)]
         /\ AsByteArray(Converted(n, m), m) = AsByteArray(n, m)
<1> DEFINE l   == ArrayLength(n, m)
           arr == AsByteArray(n, m)
<1>1. l \in Lengths
  BY LengthType
<1>2. n.arrays \in [Lengths -> Arrays(V) \cup {NoArray}]
  BY DEF BigNumbers
<1>3. arr \in Arrays(V)
  BY <1>1, <1>2, BytesType DEF AsByteArray
<1> HIDE DEF arr
<1>4. /\ Converted(n, m) = [n EXCEPT !.arrays[l] = arr]
      /\ n = [value |-> n.value, arrays |-> n.arrays]
  BY DEF Converted, arr, BigNumbers
<1>5. /\ Converted(n, m).value = n.value
      /\ Converted(n, m).arrays = [n.arrays EXCEPT ![l] = arr]
  BY <1>4
<1>6. Converted(n, m) \in BigNumbers(V)
  BY <1>1, <1>2, <1>3, <1>4 DEF BigNumbers
<1>7. AsByteArray(Converted(n, m), m) = arr
  <2>1. ArrayLength(Converted(n, m), m) = l
    BY <1>5 DEF ArrayLength
  <2>2. Converted(n, m).arrays[l] = arr
    BY <1>1, <1>2, <1>5
  <2>3. arr # NoArray
    BY <1>3, NoArrayType
  <2>4. QED BY <2>1, <2>2, <2>3 DEF AsByteArray
<1>8. QED BY <1>3, <1>5, <1>6, <1>7 DEF arr

LEMMA NewNumberType == ASSUME NEW V PROVE NewNumber \in BigNumbers(V)
BY DEF BigNumbers, NewNumber

LEMMA NewSessionType == NewSession \in SessionType
BY NewNumberType DEF NewSession, SessionType, Zero, NoDraw, Draws

LEMMA HashType == ASSUME NEW n \in Names PROVE Hash(n) \in Names \X Passwords
BY AuthServerAssumption DEF Hash

LEMMA VerifierType ==
  ASSUME NEW s \in Arrays(Salts)
  PROVE  /\ \A n \in Names : Verifier(s, Hash(n)) \in Verifiers
         /\ \A I \in Names \X Passwords : Verifier(s, I) \in VerifiersOf(Names \X Passwords)
BY DEF Verifier, Verifiers, VerifiersOf

LEMMA DrawType ==
  ASSUME NEW b \in Draws
  PROVE  /\ b.nr \in Nat /\ b.size.K \in Lengths
         /\ \A size \in ServerSizes :
              /\ [nr |-> b.nr + 1, size |-> size] \in Draws
              /\ size.B \in Lengths
BY AuthServerAssumption, LengthsKnown DEF Draws, FullSizes

LEMMA KeyTypes ==
  ASSUME NEW A \in Arrays(ClientNumbers), NEW B \in Arrays(PublicValues)
  PROVE  /\ \A s \in Arrays(Salts), n \in Names, p \in Passwords :
              ClientKey(A, B, s, <<n, p>>) \in ClientKeys
         /\ \A v \in Verifiers, b \in Draws : ServerKey(A, B, v, b) \in ServerKeys
<1>1. ASSUME NEW s \in Arrays(Salts), NEW n \in Names, NEW p \in Passwords
      PROVE  ClientKey(A, B, s, <<n, p>>) \in ClientKeys
  <2> DEFINE x == Verifier(s, <<n, p>>)
             b == IF B.exact /\ B.of[1].v = x THEN B.of[1].b ELSE NoDraw
  <2>1. x \in VerifiersOf(Names \X Passwords)
    BY VerifierType
  <2>2. NoDraw \in Draws
    BY DEF NoDraw, Draws
  <2>3. B.of[1].b \in Draws
    BY DEF Arrays, PublicValues
  <2>4. b \in Draws /\ b.size.K \in Lengths
    BY <2>2, <2>3, DrawType
  <2>5. ClientKey(A, B, s, <<n, p>>) = Key(A, B, x, b, TRUE)
    BY DEF ClientKey
  <2> HIDE DEF x, b
  <2>6. Key(A, B, x, b, TRUE) \in ClientKeys
    BY <2>1, <2>4 DEF Key, ClientKeys, KeysOf
  <2>7. QED BY <2>5, <2>6
<1>2. ASSUME NEW v \in Verifiers, NEW b \in Draws
      PROVE  ServerKey(A, B, v, b) \in ServerKeys
  <2>1. b.size.K \in Lengths
    BY DrawType
  <2>2. QED BY <2>1 DEF ServerKey, Key, ServerKeys, KeysOf, Verifiers
<1>3. QED BY <1>1, <1>2

LEMMA SaltType == \A nr \in Nat, size \in VerifierSizes : Salt(nr, size) \in Salts
BY DEF Salt, Salts

LEMMA RowTypes ==
  ASSUME NEW kind \in RowKinds, NEW n \in Names
  PROVE  Row(kind, n) \in RowType
<1>1. Salt(0, 2 * SaltBytes) \in Salts
  BY DEF Salt, Salts
<1>2. VerifierOf(n, Salt(0, 2 * SaltBytes)) \in Verifiers
  BY <1>1, LengthsKnown, BytesType, VerifierType DEF VerifierOf
<1>3. QED BY <1>1, <1>2 DEF Row, RowType, RowKinds

LEMMA ReplyTypes ==
  ASSUME NEW r \in Replies
  PROVE  /\ r.cmd = "LOGON_CHALLENGE" => r.s \in Arrays(Salts) /\ r.B \in Arrays(PublicValues)
         /\ r.cmd = "LOGON_PROOF" => r.ok \in BOOLEAN
BY DEF Replies, NoPacket

LEMMA RequestTypes ==
  ASSUME NEW r \in Requests
  PROVE  /\ r.cmd = "LOGON_CHALLENGE" => r.name \in Names
         /\ r.cmd = "LOGON_PROOF" /\ r.A # Zero => r.A \in ClientNumbers /\ r.M1 \in Proofs
BY DEF Requests, NoPacket

LEMMA FieldsTyped ==
  ASSUME TypeOK, NEW c \in Conns
  PROVE  /\ session[c].s \in BigNumbers(Salts) /\ session[c].B \in BigNumbers(PublicValues)
         /\ session[c].K \in BigNumbers(ServerKeys) /\ session[c].b \in Draws
         /\ session[c].authed \in BOOLEAN
         /\ client[c].a \in ClientNumbers /\ client[c].a[1] \in Nat
<1>1. session[c] \in SessionType /\ client[c] \in ClientType
  BY DEF TypeOK
<1>2. client[c].a \in ClientNumbers
  BY <1>1 DEF ClientType
<1>3. QED BY <1>1, <1>2 DEF SessionType, ClientNumbers

\* The arrays of a key are of keys made from draws of a, which have numbers.
LEMMA KeyNumbers ==
  ASSUME NEW K \in BigNumbers(ServerKeys), NEW l \in Lengths, K.arrays[l] # NoArray
  PROVE  K.arrays[l].of[1].A.of[1] \in Nat
<1>1. K.arrays[l] \in Arrays(ServerKeys)
  BY DEF BigNumbers
<1>2. K.arrays[l].of \in ServerKeys
  BY <1>1 DEF Arrays
<1>3. K.arrays[l].of[1].A \in Arrays(ClientNumbers)
  BY <1>2 DEF ServerKeys, KeysOf
<1>4. K.arrays[l].of[1].A.of \in ClientNumbers
  BY <1>3 DEF Arrays
<1>5. QED BY <1>4 DEF ClientNumbers

LEMMA KeysMonotone ==
  ASSUME NEW K \in BigNumbers(ServerKeys), NEW nr \in Nat, KeysUpTo(K, nr)
  PROVE  KeysUpTo(K, nr + 1)
<1> SUFFICES ASSUME NEW l \in Lengths, K.arrays[l] # NoArray
             PROVE  K.arrays[l].of[1].A.of[1] <= nr + 1
  BY DEF KeysUpTo
<1> DEFINE k == K.arrays[l].of[1].A.of[1]
<1>1. k \in Nat
  BY KeyNumbers
<1>2. k <= nr
  BY DEF KeysUpTo
<1> HIDE DEF k
<1>3. k <= nr + 1
  BY <1>1, <1>2
<1>4. QED BY <1>3 DEF k

LEMMA NewKeys == ASSUME NEW nr PROVE KeysUpTo(NewNumber, nr)
BY DEF KeysUpTo, NewNumber
-----------------------------------------------------------------------------
(* Handlers preserve the invariant. *)

LEMMA DieStep ==
  ASSUME IInv, NEW how \in {"stopped", "crashed"}, Die(how),
         UNCHANGED <<account, salts, client, attempts>>
  PROVE  IInv'
<1>1. TypeOK'
  BY NewSessionType DEF IInv, TypeOK, Die, Requests, Replies
<1>2. ASSUME NEW c \in Conns PROVE SessionInv(c)'
  <2>1. /\ session'[c] = NewSession /\ request'[c] = NoPacket /\ reply'[c] = NoPacket
        /\ conn'[c] = "closed" /\ client'[c] = client[c] /\ SessionInv(c)
    BY DEF IInv, Die
  <2>2. KeysUpTo(NewSession.K, client[c].a[1])
    BY NewKeys DEF NewSession
  <2>3. QED
    BY <2>1, <2>2 DEF SessionInv, PacketsLive, ChallengeInv, ProofInv, ToldInv, Told, NoPacket
<1>3. QED BY <1>1, <1>2 DEF IInv

\* What no step of the handlers of other connections does.
Untouched(c) ==
  /\ session'[c] = session[c] /\ conn'[c] = conn[c] /\ client'[c] = client[c]
  /\ request'[c] = request[c] /\ reply'[c] = reply[c]

LEMMA UntouchedStep ==
  ASSUME NEW c \in Conns, SessionInv(c), Untouched(c)
  PROVE  SessionInv(c)'
BY DEF SessionInv, PacketsLive, ChallengeInv, ProofInv, ToldInv, Told, Untouched

\* The reply of a challenge, whatever s and v it is made from.
LEMMA SendChallengeStep ==
  ASSUME IInv, NEW c \in Conns, OnRead(c, "LOGON_CHALLENGE"),
         NEW s \in BigNumbers(Salts), s.value \in Salts, NEW v \in Verifiers,
         SendChallenge(c, request[c].name, s, v),
         UNCHANGED <<client, attempts>>,
         salts' \in Nat, account' \in [Names -> RowType]
  PROVE  IInv'
<1>1. PICK size \in ServerSizes :
        LET b == [nr |-> session[c].b.nr + 1, size |-> size]
            B == Assign(session[c].B, PublicValue(v, b))
        IN  /\ Recv(c)
            /\ session' = [session EXCEPT ![c] =
                 [@ EXCEPT !.login = request[c].name, !.s = Converted(s, 0), !.v = v,
                           !.b = b, !.B = Converted(B, FieldBytes)]]
            /\ Send(c, [cmd |-> "LOGON_CHALLENGE", s |-> AsByteArray(s, 0),
                        B |-> AsByteArray(B, FieldBytes)])
            /\ UNCHANGED <<process, conn>>
  BY DEF SendChallenge
<1> DEFINE n == request[c].name
           b == [nr |-> session[c].b.nr + 1, size |-> size]
           B == Assign(session[c].B, PublicValue(v, b))
           sent == AsByteArray(s, 0)
           sentB == AsByteArray(B, FieldBytes)
           packet == [cmd |-> "LOGON_CHALLENGE", s |-> sent, B |-> sentB]
           newS == Converted(s, 0)
           newB == Converted(B, FieldBytes)
           ses == [session[c] EXCEPT !.login = n, !.s = newS, !.v = v,
                                     !.b = b, !.B = newB]
<1>2. request[c].cmd = "LOGON_CHALLENGE" /\ n \in Names /\ conn[c] = "open"
  BY RequestTypes DEF IInv, TypeOK, OnRead
<1>3. session[c] \in SessionType
  BY DEF IInv, TypeOK
<1>4. b \in Draws /\ PublicValue(v, b) \in PublicValues
  <2>1. b \in Draws /\ size.B \in Lengths
    BY FieldsTyped, DrawType DEF IInv
  <2>2. QED BY <2>1 DEF PublicValue, PublicValues
<1>5. B \in BigNumbers(PublicValues) /\ B.value = PublicValue(v, b)
  BY <1>4, FieldsTyped, AssignType DEF IInv
<1>6. /\ newS \in BigNumbers(Salts) /\ newS.value = s.value
      /\ AsByteArray(newS, 0) = sent /\ sent \in Arrays(Salts)
  BY LengthsKnown, SizeTypes, ConvertedType
<1>7. /\ newB \in BigNumbers(PublicValues) /\ newB.value = PublicValue(v, b)
      /\ AsByteArray(newB, FieldBytes) = sentB /\ sentB \in Arrays(PublicValues)
  BY <1>4, <1>5, LengthsKnown, SizeTypes, ConvertedType
<1>8. /\ session' = [session EXCEPT ![c] = ses]
      /\ request' = [request EXCEPT ![c] = NoPacket]
      /\ UNCHANGED <<process, conn>>
  BY <1>1 DEF Recv
<1>9. reply' = [reply EXCEPT ![c] = IF client[c].phase = "away" THEN @ ELSE packet]
  BY <1>1 DEF Send, IInv, TypeOK
<1> HIDE DEF b, newS, newB, sent, sentB
<1>10. ses \in SessionType
  BY <1>2, <1>3, <1>4, <1>6, <1>7 DEF SessionType
<1>11. /\ ses.login = n /\ ses.v = v /\ ses.s = newS /\ ses.B = newB
       /\ ses.K = session[c].K /\ ses.authed = session[c].authed
  BY <1>3 DEF SessionType
<1> HIDE DEF ses
<1>12. packet \in Replies
  BY <1>6, <1>7 DEF Replies
<1>13. TypeOK'
  BY <1>8, <1>9, <1>10, <1>12 DEF IInv, TypeOK, Requests
<1>14. ASSUME NEW d \in Conns PROVE SessionInv(d)'
  <2>1. CASE d # c
    BY <2>1, <1>8, <1>9, UntouchedStep DEF IInv, TypeOK, Untouched
  <2>2. CASE d = c
    <3>1. /\ session'[c] = ses /\ request'[c] = NoPacket /\ conn'[c] = "open"
          /\ client'[c] = client[c]
      BY <1>2, <1>8 DEF IInv, TypeOK
    <3>2. /\ SessionInv(c)
          /\ client[c].phase \in {"challenging", "away"} /\ n = client[c].name
      BY <1>2 DEF IInv, SessionInv, ChallengeInv
    <3>3. reply'[c] = IF client[c].phase = "away" THEN NoPacket ELSE packet
      BY <1>9, <1>2, <3>2 DEF IInv, TypeOK, SessionInv, PacketsLive, NoPacket
    <3>4. Ready(ses)
      BY <1>4, <1>6, <1>7, <1>11 DEF Ready
    <3>5. PacketsLive(c)'
      BY <3>1, <3>2, <3>3 DEF PacketsLive, NoPacket
    <3>6. ChallengeInv(c)'
      BY <3>1, <3>2, <3>3, <3>4, <1>2, <1>6, <1>7, <1>11 DEF ChallengeInv, NoPacket
    <3>7. ProofInv(c)'
      BY <3>1, <3>2, <1>11 DEF SessionInv, ProofInv, NoPacket
    <3>8. ToldInv(c)'
      BY <3>1, <3>2 DEF ToldInv, Told
    <3>9. QED BY <2>2, <3>5, <3>6, <3>7, <3>8 DEF SessionInv
  <2>3. QED BY <2>1, <2>2
<1>15. QED BY <1>13, <1>14 DEF IInv

LEMMA LogonChallengeStep ==
  ASSUME IInv, NEW c \in Conns, HandleLogonChallenge(c)
  PROVE  IInv'
<1> DEFINE n == request[c].name
           row == account[n]
<1>1. /\ OnRead(c, "LOGON_CHALLENGE")
      /\ UNCHANGED <<client, attempts>>
  BY DEF HandleLogonChallenge
<1>2. n \in Names
  BY <1>1, RequestTypes DEF IInv, TypeOK, OnRead
<1>3. row \in RowType /\ salts \in Nat /\ session[c].s \in BigNumbers(Salts)
  BY <1>2, FieldsTyped DEF IInv, TypeOK
<1>4. CASE Die("crashed") /\ UNCHANGED <<account, salts>>
  BY <1>1, <1>4, DieStep
<1>5. CASE /\ HasVerifier(row)
           /\ SendChallenge(c, n, Assign(session[c].s, row.s), row.v)
           /\ UNCHANGED <<account, salts>>
  <2>1. row.v \in Verifiers
    BY <1>3, <1>5 DEF HasVerifier, HexSize, SaltBytes, RowType
  <2>2. row.s \in Salts
    BY <1>3, <1>5 DEF HasVerifier, RowType
  <2>3. QED BY <1>1, <1>3, <1>5, <2>1, <2>2, AssignType, SendChallengeStep DEF IInv, TypeOK
<1>6. CASE SetVSFields(c, n)
  <2>1. PICK size \in VerifierSizes, saved \in Saved :
          LET salt == Salt(salts + 1, size)
              s    == Assign(session[c].s, salt)
              v    == Verifier(AsByteArray(s, 0), Hash(n))
          IN  /\ salts' = salts + 1
              /\ account' = IF saved THEN UpdateRow(n, v, salt) ELSE account
              /\ SendChallenge(c, n, Converted(s, 0), v)
    BY <1>6 DEF SetVSFields
  <2> DEFINE salt == Salt(salts + 1, size)
             s    == Assign(session[c].s, salt)
             v    == Verifier(AsByteArray(s, 0), Hash(n))
  <2>2. salt \in Salts
    <3>1. salts + 1 \in Nat
      BY <1>3
    <3>2. QED BY <3>1, SaltType
  <2>3. s \in BigNumbers(Salts) /\ s.value \in Salts
    BY <1>3, <2>2, AssignType
  <2>4. /\ Converted(s, 0) \in BigNumbers(Salts) /\ Converted(s, 0).value \in Salts
        /\ AsByteArray(s, 0) \in Arrays(Salts)
    BY <2>3, LengthsKnown, SizeTypes, ConvertedType
  <2>5. v \in Verifiers
    BY <1>2, <2>4, VerifierType
  <2>6. account' \in [Names -> RowType]
    <3>1. CASE account' = account
      BY <3>1 DEF IInv, TypeOK
    <3>2. CASE account' = UpdateRow(n, v, salt)
      <4> HIDE DEF salt, v
      <4>1. QED BY <3>2, <1>2, <2>2, <2>5 DEF IInv, TypeOK, UpdateRow, RowType
    <3>3. QED BY <2>1, <3>1, <3>2
  <2>7. QED BY <1>1, <1>3, <2>1, <2>4, <2>5, <2>6, SendChallengeStep
<1>7. QED BY <1>4, <1>5, <1>6 DEF HandleLogonChallenge

\* A proof with a zero A is taken and leaves everything else as it was.
LEMMA ZeroProofStep ==
  ASSUME IInv, NEW c \in Conns, OnRead(c, "LOGON_PROOF"), Recv(c),
         UNCHANGED <<process, account, salts, conn, session, reply, client, attempts>>
  PROVE  IInv'
<1>1. TypeOK'
  BY DEF IInv, TypeOK, Recv, Requests
<1>2. ASSUME NEW d \in Conns PROVE SessionInv(d)'
  <2>1. CASE d # c
    BY <2>1, UntouchedStep DEF IInv, TypeOK, Untouched, Recv
  <2>2. CASE d = c
    <3>1. /\ SessionInv(c) /\ session'[c] = session[c] /\ client'[c] = client[c]
          /\ request'[c] = NoPacket /\ reply'[c] = reply[c] /\ conn'[c] = conn[c]
          /\ conn[c] = "open"
      BY DEF IInv, TypeOK, Recv, OnRead
    <3>2. QED
      BY <2>2, <3>1 DEF SessionInv, PacketsLive, ChallengeInv, ProofInv, ToldInv, Told,
                        NoPacket
  <2>3. QED BY <2>1, <2>2
<1>3. QED BY <1>1, <1>2 DEF IInv

\* Equal proofs are made from the same key: the server's array of K is that of
\* the key of the client.
LEMMA EqualProofs ==
  ASSUME NEW M, NEW M1, NEW size, TRUE \in Compared(M, M1, size)
  PROVE  M = M1
BY DEF Compared

LEMMA LogonProofStep ==
  ASSUME IInv, NEW c \in Conns, HandleLogonProof(c)
  PROVE  IInv'
<1>1. /\ OnRead(c, "LOGON_PROOF") /\ Recv(c)
      /\ request[c].cmd = "LOGON_PROOF" /\ conn[c] = "open"
      /\ UNCHANGED <<process, account, salts, conn, client, attempts>>
  BY DEF HandleLogonProof, OnRead
<1>2. CASE request[c].A = Zero
  <2>1. UNCHANGED <<session, reply>>
    BY <1>2 DEF HandleLogonProof
  <2>2. QED BY <1>1, <2>1, ZeroProofStep
<1>3. CASE request[c].A # Zero
  <2> DEFINE ses == session[c]
             cl  == client[c]
             sb  == AsByteArray(ses.s, 0)
             A   == Bytes(request[c].A, Size(request[c].A))
             B   == AsByteArray(ses.B, 0)
             key == ServerKey(A, B, ses.v, ses.b)
             K   == Assign(ses.K, key)
             l   == ArrayLength(K, 0)
             arr == AsByteArray(K, 0)
             M   == Proof(ses.login, sb, A, B, arr)
  <2>1. PICK ok \in Compared(M, request[c].M1, ses.b.size.M) :
          /\ session' = [session EXCEPT ![c] =
               [ses EXCEPT !.s = Converted(ses.s, 0), !.B = Converted(ses.B, 0),
                           !.K = Converted(K, 0), !.authed = ses.authed \/ ok]]
          /\ Send(c, [cmd |-> "LOGON_PROOF", ok |-> ok])
    BY <1>3 DEF HandleLogonProof
  <2> DEFINE newS == Converted(ses.s, 0)
             newB == Converted(ses.B, 0)
             newK == Converted(K, 0)
             new  == [ses EXCEPT !.s = newS, !.B = newB, !.K = newK,
                                 !.authed = ses.authed \/ ok]
             packet == [cmd |-> "LOGON_PROOF", ok |-> ok]
  <2>2. ok \in BOOLEAN
    BY DEF Compared
  <2>3. /\ session' = [session EXCEPT ![c] = new]
        /\ request' = [request EXCEPT ![c] = NoPacket]
        /\ reply' = [reply EXCEPT ![c] = IF cl.phase = "away" THEN @ ELSE packet]
    BY <1>1, <2>1 DEF Recv, Send, IInv, TypeOK
  <2>4. SessionInv(c) /\ ses \in SessionType /\ request[c].A \in ClientNumbers
    BY <1>1, <1>3, RequestTypes DEF IInv, TypeOK
  <2>5. /\ cl.phase \in {"proving", "away"} /\ Ready(ses)
        /\ cl.name \in Names /\ request[c].A = cl.a
        /\ cl.K = ClientKey(Field(cl.a, FieldBytes), AsByteArray(ses.B, FieldBytes), sb,
                             <<cl.name, cl.pw>>)
        /\ request[c].M1 = Proof(cl.name, sb, Field(cl.a, FieldBytes),
                                 AsByteArray(ses.B, FieldBytes), Field(cl.K, KeyBytes))
        /\ cl.fresh => cl.a[1] > 0 /\ KeysUpTo(ses.K, cl.a[1] - 1)
        /\ KeysUpTo(ses.K, cl.a[1])
    BY <1>1, <1>3, <2>4 DEF SessionInv, ProofInv
  <2>6. /\ ses.s \in BigNumbers(Salts) /\ ses.B \in BigNumbers(PublicValues)
        /\ ses.K \in BigNumbers(ServerKeys) /\ ses.v \in Verifiers /\ ses.b \in Draws
        /\ ses.authed \in BOOLEAN /\ cl.a[1] \in Nat
    BY <2>5, FieldsTyped DEF IInv, Ready
  <2>7. /\ newS \in BigNumbers(Salts)
        /\ newB \in BigNumbers(PublicValues) /\ B \in Arrays(PublicValues)
    BY <2>5, <2>6, LengthsKnown, SizeTypes, ConvertedType DEF Ready
  <2>8. A \in Arrays(ClientNumbers) /\ A.of = cl.a
    <3>1. Size(request[c].A) \in Lengths
      BY <2>4 DEF ClientNumbers, Size
    <3>2. QED BY <2>4, <2>5, <3>1, BytesType DEF Bytes
  <2>9. key \in ServerKeys /\ key[1].A = A
    BY <2>6, <2>7, <2>8, KeyTypes DEF ServerKey, Key
  <2>10. /\ K \in BigNumbers(ServerKeys) /\ K.value = key /\ K.arrays = ses.K.arrays
    BY <2>6, <2>9, AssignType
  <2>11. /\ newK \in BigNumbers(ServerKeys) /\ newK.value = key
         /\ newK.arrays = [ses.K.arrays EXCEPT ![l] = arr] /\ arr \in Arrays(ServerKeys)
    BY <2>9, <2>10, LengthsKnown, SizeTypes, ConvertedType
  <2>12. /\ ses.K.arrays \in [Lengths -> Arrays(ServerKeys) \cup {NoArray}] /\ l \in Lengths
         /\ arr = IF ses.K.arrays[l] # NoArray THEN ses.K.arrays[l] ELSE Bytes(key, l)
    <3>1. l \in Lengths
      BY <2>9, <2>10, LengthsKnown, SizeTypes, LengthType
    <3>2. QED BY <3>1, <2>6, <2>10 DEF AsByteArray, BigNumbers
  \* The heart of the matter: the key the client's proof was made from is one
  \* that the server made, from a verifier of some account, and if its a is fresh
  \* it is the one made just now.
  <2>13. ASSUME ok
         PROVE  cl.pw = PasswordOf[cl.name] /\ (cl.fresh => key = cl.K)
    <3>1. M = request[c].M1
      BY <2>13, <2>2, EqualProofs
    <3>2. arr = Field(cl.K, KeyBytes)
      <4> HIDE DEF sb, A, B, arr
      <4>1. QED BY <3>1, <2>5 DEF Proof
    <3>3. cl.K \in ServerKeys /\ arr.of = cl.K
      BY <3>2, <2>11 DEF Arrays, Field
    <3>4. cl.K[1].v \in Verifiers
      BY <3>3 DEF ServerKeys, KeysOf, Verifiers
    <3>5. cl.K[1].v[2] = <<cl.name, cl.pw>> /\ cl.K[1].A.of = cl.a
      <4> DEFINE x  == Verifier(sb, <<cl.name, cl.pw>>)
                 BC == AsByteArray(ses.B, FieldBytes)
                 bb == IF BC.exact /\ BC.of[1].v = x THEN BC.of[1].b ELSE NoDraw
      <4>1. cl.K = Key(Field(cl.a, FieldBytes), BC, x, bb, TRUE)
        BY <2>5 DEF ClientKey
      <4>2. x[2] = <<cl.name, cl.pw>>
        BY DEF Verifier
      <4> HIDE DEF x, BC, bb
      <4>3. cl.K[1].v = x /\ cl.K[1].A = Field(cl.a, FieldBytes)
        BY <4>1 DEF Key
      <4>4. QED BY <4>2, <4>3 DEF Field
    <3>6. PICK m \in Names : cl.K[1].v[2] = Hash(m)
      BY <3>4 DEF Verifiers, VerifiersOf
    <3>7. cl.pw = PasswordOf[cl.name]
      BY <3>5, <3>6 DEF Hash
    <3>8. ASSUME cl.fresh PROVE key = cl.K
      <4>1. ASSUME ses.K.arrays[l] # NoArray PROVE FALSE
        <5>1. ses.K.arrays[l].of[1].A.of[1] <= cl.a[1] - 1
          BY <2>5, <2>12, <3>8, <4>1 DEF KeysUpTo
        <5>2. ses.K.arrays[l].of = cl.K
          BY <2>12, <3>3, <4>1
        <5>3. ses.K.arrays[l].of[1].A.of[1] = cl.a[1]
          BY <3>5, <5>2
        <5>4. cl.a[1] <= cl.a[1] - 1
          BY <5>1, <5>3
        <5>5. QED BY <2>6, <5>4
      <4>2. arr.of = key
        BY <4>1, <2>12 DEF Bytes
      <4>3. QED BY <3>3, <4>2
    <3>9. QED BY <3>7, <3>8
  <2>14. KeysUpTo(newK, cl.a[1])
    <3> SUFFICES ASSUME NEW k \in Lengths, newK.arrays[k] # NoArray
                 PROVE  newK.arrays[k].of[1].A.of[1] <= cl.a[1]
      BY DEF KeysUpTo
    <3>1. CASE ses.K.arrays[k] # NoArray
      <4>1. newK.arrays[k] = ses.K.arrays[k]
        BY <3>1, <2>11, <2>12
      <4>2. QED BY <3>1, <4>1, <2>5 DEF KeysUpTo
    <3>2. CASE ses.K.arrays[k] = NoArray
      <4>1. k = l /\ newK.arrays[k] = Bytes(key, l)
        BY <3>2, <2>11, <2>12
      <4>2. newK.arrays[k].of = key
        BY <4>1 DEF Bytes
      <4>3. QED BY <4>2, <2>6, <2>8, <2>9
    <3>3. QED BY <3>1, <3>2
  <2> HIDE DEF newS, newB, newK, key
  <2>15. new \in SessionType
    BY <2>2, <2>4, <2>7, <2>11 DEF SessionType
  <2>16. new.K = newK /\ (ok => new.authed)
    BY <2>4 DEF SessionType
  <2> HIDE DEF new
  <2>17. TypeOK'
    BY <1>1, <2>2, <2>3, <2>15 DEF IInv, TypeOK, Requests, Replies
  <2>18. ASSUME NEW d \in Conns PROVE SessionInv(d)'
    <3>1. CASE d # c
      BY <3>1, <1>1, <2>3, UntouchedStep DEF IInv, TypeOK, Untouched
    <3>2. CASE d = c
      <4>1. /\ session'[c] = new /\ request'[c] = NoPacket /\ conn'[c] = "open"
            /\ client'[c] = client[c]
        BY <1>1, <2>3 DEF IInv, TypeOK
      <4>2. reply'[c] = IF cl.phase = "away" THEN NoPacket ELSE packet
        BY <1>1, <2>3, <2>4 DEF IInv, TypeOK, SessionInv, PacketsLive, NoPacket
      <4>3. PacketsLive(c)'
        BY <4>1, <4>2, <2>5 DEF PacketsLive, NoPacket
      <4>4. ChallengeInv(c)'
        BY <4>1, <4>2 DEF ChallengeInv, NoPacket
      <4>5. ProofInv(c)'
        BY <4>1, <2>14, <2>16 DEF ProofInv, NoPacket
      <4>6. ToldInv(c)'
        BY <4>1, <4>2, <2>5, <2>11, <2>13, <2>16 DEF ToldInv, Told, NoPacket
      <4>7. QED BY <3>2, <4>3, <4>4, <4>5, <4>6 DEF SessionInv
    <3>3. QED BY <3>1, <3>2
  <2>19. QED BY <2>17, <2>18 DEF IInv
<1>4. QED BY <1>2, <1>3

LEMMA RealmListStep ==
  ASSUME IInv, NEW c \in Conns, HandleRealmList(c)
  PROVE  IInv'
<1>1. /\ request[c].cmd = "REALM_LIST" /\ conn[c] = "open"
      /\ UNCHANGED <<account, salts, client, attempts>>
  BY DEF HandleRealmList, OnRead
<1>2. client[c].phase \in {"listing", "away"}
  BY <1>1 DEF IInv, SessionInv, PacketsLive
<1>3. CASE Die("crashed")
  BY <1>1, <1>3, DieStep
<1>4. ASSUME Recv(c), UNCHANGED <<process, session>>,
             NEW how \in {"open", "leaked"}, conn' = [conn EXCEPT ![c] = how],
             NEW packet \in {NoPacket, [cmd |-> "REALM_LIST"]},
             reply' = [reply EXCEPT ![c] = packet],
             client[c].phase = "away" => packet = NoPacket
      PROVE  IInv'
  <2>1. TypeOK'
    BY <1>1, <1>4 DEF IInv, TypeOK, Recv, Requests, Replies
  <2>2. ASSUME NEW d \in Conns PROVE SessionInv(d)'
    <3>1. CASE d # c
      BY <3>1, <1>1, <1>4, UntouchedStep DEF IInv, TypeOK, Untouched, Recv
    <3>2. CASE d = c
      <4>1. /\ SessionInv(c) /\ session'[c] = session[c] /\ client'[c] = client[c]
            /\ request'[c] = NoPacket /\ reply'[c] = packet /\ conn'[c] # "closed"
        BY <1>1, <1>4 DEF IInv, TypeOK, Recv
      <4>2. PacketsLive(c)'
        BY <4>1, <1>2, <1>4 DEF SessionInv, PacketsLive, NoPacket
      <4>3. ChallengeInv(c)' /\ ProofInv(c)'
        BY <4>1, <1>4 DEF SessionInv, ChallengeInv, ProofInv, NoPacket
      <4>4. ToldInv(c)'
        BY <4>1, <1>1, <1>2, <1>4 DEF SessionInv, ToldInv, Told, NoPacket
      <4>5. QED BY <3>2, <4>2, <4>3, <4>4 DEF SessionInv
    <3>3. QED BY <3>1, <3>2
  <2>3. QED BY <2>1, <2>2 DEF IInv
<1>5. CASE /\ Recv(c)
           /\ conn' = [conn EXCEPT ![c] = "leaked"]
           /\ reply' = [reply EXCEPT ![c] = NoPacket]
           /\ UNCHANGED <<process, session>>
  BY <1>4, <1>5
<1>6. CASE /\ Recv(c)
           /\ Send(c, [cmd |-> "REALM_LIST"])
           /\ UNCHANGED <<process, conn, session>>
  <2>1. conn' = [conn EXCEPT ![c] = "open"]
    BY <1>1, <1>6 DEF IInv, TypeOK
  <2>2. CASE client[c].phase = "away"
    <3>1. reply' = [reply EXCEPT ![c] = NoPacket]
      BY <1>6, <2>2 DEF Send, IInv, TypeOK, SessionInv, PacketsLive
    <3>2. QED BY <1>4, <1>6, <2>1, <3>1
  <2>3. CASE client[c].phase # "away"
    BY <1>4, <1>6, <2>1, <2>3 DEF Send
  <2>4. QED BY <2>2, <2>3
<1>7. QED BY <1>3, <1>5, <1>6 DEF HandleRealmList

LEMMA CloseStep ==
  ASSUME IInv, NEW c \in Conns, HandleClose(c)
  PROVE  IInv'
<1>1. TypeOK'
  BY NewSessionType DEF IInv, TypeOK, HandleClose, Requests
<1>2. ASSUME NEW d \in Conns PROVE SessionInv(d)'
  <2>1. CASE d # c
    BY <2>1, UntouchedStep DEF IInv, TypeOK, Untouched, HandleClose
  <2>2. CASE d = c
    <3>1. /\ client'[c].phase = "away" /\ session'[c] = NewSession
          /\ request'[c] = NoPacket /\ reply'[c] = reply[c]
      BY DEF IInv, TypeOK, HandleClose
    <3>2. reply[c] = NoPacket
      BY DEF IInv, SessionInv, PacketsLive, HandleClose
    <3>3. KeysUpTo(session'[c].K, client'[c].a[1])
      BY <3>1, NewKeys DEF NewSession
    <3>4. QED
      BY <2>2, <3>1, <3>2, <3>3 DEF NoPacket, SessionInv, PacketsLive, ChallengeInv,
                                    ProofInv, ToldInv, Told
  <2>3. QED BY <2>1, <2>2
<1>3. QED BY <1>1, <1>2 DEF IInv
-----------------------------------------------------------------------------
(* The steps of the clients and of the environment preserve the invariant. *)

LEMMA NoClientType == [NoClient EXCEPT !.phase = "connected"] \in ClientType
BY LengthsKnown DEF NoClient, NoSecret, ClientType, ClientNumbers, Phases

LEMMA ConnectStep ==
  ASSUME IInv, NEW c \in Conns, Connect(c)
  PROVE  IInv'
<1>1. TypeOK'
  BY NewSessionType, NoClientType DEF IInv, TypeOK, Connect
<1>2. ASSUME NEW d \in Conns PROVE SessionInv(d)'
  <2>1. CASE d # c
    BY <2>1, UntouchedStep DEF IInv, TypeOK, Untouched, Connect
  <2>2. CASE d = c
    <3>1. /\ request'[c] = NoPacket /\ reply'[c] = NoPacket
          /\ session'[c] = NewSession /\ client'[c].phase = "connected"
          /\ conn'[c] = "open"
      BY <2>2 DEF IInv, TypeOK, Connect, SessionInv, PacketsLive, NoClient
    <3>2. KeysUpTo(session'[c].K, client'[c].a[1])
      BY <3>1, NewKeys DEF NewSession
    <3>3. QED
      BY <2>2, <3>1, <3>2 DEF SessionInv, PacketsLive, ChallengeInv, ProofInv, ToldInv, Told,
                              NoPacket
  <2>3. QED BY <2>1, <2>2
<1>3. QED BY <1>1, <1>2 DEF IInv

\* A client's step is about its own connection and leaves the server alone.
LEMMA ClientSideStep ==
  ASSUME IInv, NEW c \in Conns,
         UNCHANGED <<process, account, salts, conn, session>>, attempts' \in Nat,
         NEW cl \in ClientType, client' = [client EXCEPT ![c] = cl],
         NEW req \in Requests, request' = [request EXCEPT ![c] = req],
         NEW rep \in Replies, reply' = [reply EXCEPT ![c] = rep],
         SessionInv(c)'
  PROVE  IInv'
<1>1. TypeOK'
  BY DEF IInv, TypeOK
<1>2. ASSUME NEW d \in Conns, d # c PROVE SessionInv(d)'
  BY <1>2, UntouchedStep DEF IInv, TypeOK, Untouched
<1>3. QED BY <1>1, <1>2 DEF IInv

LEMMA SendLogonChallengeStep ==
  ASSUME IInv, NEW c \in Conns, NEW n \in Names, SendLogonChallenge(c, n)
  PROVE  IInv'
<1> DEFINE cl  == [client[c] EXCEPT !.phase = "challenging", !.name = n,
                                    !.logons = client[c].logons + 1]
           req == [cmd |-> "LOGON_CHALLENGE", name |-> n]
<1>1. /\ client' = [client EXCEPT ![c] = cl] /\ request' = [request EXCEPT ![c] = req]
      /\ UNCHANGED <<process, account, salts, conn, session, reply>>
      /\ reply' = [reply EXCEPT ![c] = reply[c]]
      /\ attempts' \in Nat /\ conn[c] = "open"
      /\ client[c].phase \in {"connected", "refused", "in"}
  <2>1. /\ client' = [client EXCEPT ![c] = cl] /\ request' = [request EXCEPT ![c] = req]
        /\ UNCHANGED <<process, account, salts, conn, session, reply>>
        /\ attempts' = attempts + 1 /\ conn[c] = "open"
        /\ client[c].phase \in {"connected", "refused", "in"}
    BY DEF SendLogonChallenge, ClientSends
  <2>2. QED BY <2>1 DEF IInv, TypeOK
<1>2. cl \in ClientType /\ req \in Requests /\ reply[c] \in Replies
  <2>1. client[c] \in ClientType /\ reply[c] \in Replies
    BY DEF IInv, TypeOK
  <2>2. client[c].logons + 1 \in Nat
    BY <2>1 DEF ClientType
  <2>3. cl \in ClientType
    BY <2>1, <2>2 DEF ClientType, Phases
  <2>4. QED BY <2>1, <2>3 DEF Requests
<1>3. SessionInv(c)'
  <2>1. /\ SessionInv(c) /\ client'[c] = cl /\ request'[c] = req
        /\ reply'[c] = reply[c] /\ session'[c] = session[c] /\ conn'[c] = "open"
    BY <1>1 DEF IInv, TypeOK
  <2>2. /\ cl.phase = "challenging" /\ cl.name = n /\ cl.a = client[c].a
    BY DEF IInv, TypeOK, ClientType
  <2>3. reply[c] = NoPacket
    BY <2>1, <1>1 DEF SessionInv, PacketsLive
  <2>4. QED
    BY <2>1, <2>2, <2>3
    DEF NoPacket, SessionInv, PacketsLive, ChallengeInv, ProofInv, ToldInv, Told
<1>4. QED BY <1>1, <1>2, <1>3, ClientSideStep

\* A fresh a has the next number, and a kept one that of the last proof.
LEMMA SecretNumbers ==
  ASSUME TypeOK, NEW c \in Conns, NEW a \in Secrets(c)
  PROVE  /\ a \in ClientNumbers
         /\ a[1] = client[c].a[1] \/ a[1] = client[c].a[1] + 1
         /\ a # client[c].a => a[1] = client[c].a[1] + 1
<1>1. client[c].a \in ClientNumbers /\ client[c].a[1] \in Nat
  BY FieldsTyped
<1>2. QED BY <1>1, AuthServerAssumption DEF Secrets, ClientNumbers

LEMMA SendLogonProofStep ==
  ASSUME IInv, NEW c \in Conns, NEW pw \in Passwords, NEW a \in Secrets(c),
         SendLogonProof(c, pw, a)
  PROVE  IInv'
<1> DEFINE n   == client[c].name
           A   == Field(a, FieldBytes)
           K   == ClientKey(A, reply[c].B, reply[c].s, <<n, pw>>)
           cl  == [client[c] EXCEPT !.phase = "proving", !.pw = pw, !.a = a, !.K = K,
                                    !.fresh = a # client[c].a]
           M1  == Proof(n, reply[c].s, A, reply[c].B, Field(K, KeyBytes))
           req == [cmd |-> "LOGON_PROOF", A |-> a, M1 |-> M1]
<1>1. /\ client' = [client EXCEPT ![c] = cl] /\ request' = [request EXCEPT ![c] = req]
      /\ reply' = [reply EXCEPT ![c] = NoPacket]
      /\ UNCHANGED <<process, account, salts, conn, session, attempts>>
      /\ client[c].phase = "challenging" /\ reply[c].cmd = "LOGON_CHALLENGE"
      /\ conn[c] = "open"
  BY DEF SendLogonProof, ClientSends
<1>2. /\ SessionInv(c) /\ client[c] \in ClientType /\ reply[c] \in Replies
      /\ attempts \in Nat /\ client[c].a[1] \in Nat
      /\ session[c].K \in BigNumbers(ServerKeys)
  BY FieldsTyped DEF IInv, TypeOK
<1>3. /\ Ready(session[c]) /\ session[c].login = n /\ n \in Names
      /\ reply[c].s = AsByteArray(session[c].s, 0)
      /\ reply[c].B = AsByteArray(session[c].B, FieldBytes)
      /\ KeysUpTo(session[c].K, client[c].a[1])
  BY <1>1, <1>2 DEF SessionInv, ChallengeInv, ProofInv
<1>4. /\ a \in ClientNumbers
      /\ a[1] = client[c].a[1] \/ a[1] = client[c].a[1] + 1
      /\ a # client[c].a => a[1] = client[c].a[1] + 1
  BY SecretNumbers DEF IInv
<1>5. /\ reply[c].s \in Arrays(Salts) /\ reply[c].B \in Arrays(PublicValues)
      /\ A \in Arrays(ClientNumbers)
  BY <1>1, <1>2, <1>4, ReplyTypes, LengthsKnown, BytesType
<1>6. K \in ClientKeys /\ Field(K, KeyBytes) \in Arrays(ClientKeys)
  <2>1. K \in ClientKeys
    BY <1>3, <1>5, KeyTypes
  <2>2. QED BY <2>1, LengthsKnown, BytesType
<1>7. M1 \in Proofs
  BY <1>3, <1>5, <1>6 DEF Proof, Proofs
<1>8. /\ KeysUpTo(session[c].K, a[1])
      /\ a # client[c].a => a[1] > 0 /\ KeysUpTo(session[c].K, a[1] - 1)
  <2> DEFINE nr == client[c].a[1]
  <2>1. nr \in Nat /\ KeysUpTo(session[c].K, nr) /\ KeysUpTo(session[c].K, nr + 1)
    BY <1>2, <1>3, KeysMonotone
  <2>2. (nr + 1) - 1 = nr /\ nr + 1 > 0
    BY <2>1
  <2> HIDE DEF nr
  <2>3. QED BY <1>4, <2>1, <2>2 DEF nr
<1> HIDE DEF K, M1, A
<1>9. cl \in ClientType
  BY <1>2, <1>4, <1>6 DEF ClientType, Phases
<1>10. req \in Requests /\ NoPacket \in Replies
  BY <1>4, <1>7 DEF Requests, Replies
<1>11. SessionInv(c)'
  <2>1. /\ client'[c] = cl /\ request'[c] = req /\ reply'[c] = NoPacket
        /\ session'[c] = session[c] /\ conn'[c] = "open"
    BY <1>1 DEF IInv, TypeOK
  <2>2. /\ cl.phase = "proving" /\ cl.name = n /\ cl.a = a /\ cl.K = K /\ cl.pw = pw
        /\ cl.fresh = (a # client[c].a)
    BY <1>2 DEF ClientType
  <2> HIDE DEF cl
  <2>3. PacketsLive(c)'
    BY <2>1, <2>2 DEF PacketsLive, NoPacket
  <2>4. ChallengeInv(c)'
    BY <2>1, <2>2 DEF ChallengeInv, NoPacket
  <2>5. ProofInv(c)'
    <3>1. /\ K = ClientKey(Field(a, FieldBytes), AsByteArray(session[c].B, FieldBytes),
                           AsByteArray(session[c].s, 0), <<n, pw>>)
          /\ M1 = Proof(n, AsByteArray(session[c].s, 0), Field(a, FieldBytes),
                        AsByteArray(session[c].B, FieldBytes), Field(K, KeyBytes))
      BY <1>3 DEF K, M1, A
    <3>2. /\ req.A = a /\ req.M1 = M1 /\ a[1] = cl.a[1]
      BY <2>2
    <3> HIDE DEF req
    <3>3. QED BY <2>1, <2>2, <3>1, <3>2, <1>3, <1>8 DEF ProofInv
  <2>6. ToldInv(c)'
    BY <2>1, <2>2 DEF ToldInv, Told, NoPacket
  <2>7. QED BY <2>3, <2>4, <2>5, <2>6 DEF SessionInv
<1>12. QED BY <1>1, <1>2, <1>9, <1>10, <1>11, ClientSideStep

\* The other steps of a client change its phase and leave it with no answer.
LEMMA PhaseStep ==
  ASSUME IInv, NEW c \in Conns, NEW phase \in Phases,
         client' = [client EXCEPT ![c].phase = phase],
         NEW req, request' = [request EXCEPT ![c] = req],
         reply' = [reply EXCEPT ![c] = NoPacket],
         UNCHANGED <<process, account, salts, conn, session, attempts>>,
         \/ phase = "away" /\ req \in {request[c], NoPacket}
         \/ phase \in {"in", "refused"} /\ req = NoPacket
         \/ phase = "listing" /\ req = [cmd |-> "REALM_LIST"] /\ conn[c] = "open"
         \/ /\ phase = "waiting" /\ conn[c] = "open"
            /\ req \in {[cmd |-> "RECONNECT_CHALLENGE"],
                       [cmd |-> "LOGON_PROOF", A |-> Zero, M1 |-> Zero]},
         phase \in {"in", "listing"} => Told(c)
  PROVE  IInv'
<1> DEFINE cl == [client[c] EXCEPT !.phase = phase]
<1>1. /\ SessionInv(c) /\ client[c] \in ClientType /\ attempts \in Nat
      /\ request[c] \in Requests
  BY DEF IInv, TypeOK
<1>2. cl \in ClientType /\ client' = [client EXCEPT ![c] = cl]
  BY <1>1 DEF ClientType, IInv, TypeOK
<1>3. req \in Requests /\ NoPacket \in Replies
  BY <1>1 DEF Requests, Replies
<1>4. SessionInv(c)'
  <2>1. /\ client'[c] = cl /\ request'[c] = req /\ reply'[c] = NoPacket
        /\ session'[c] = session[c] /\ conn'[c] = conn[c]
    BY <1>2 DEF IInv, TypeOK
  <2>2. /\ cl.phase = phase /\ cl.name = client[c].name /\ cl.a = client[c].a
        /\ cl.K = client[c].K /\ cl.pw = client[c].pw /\ cl.fresh = client[c].fresh
    BY <1>1 DEF ClientType
  <2>3. PacketsLive(c)'
    <3>1. conn[c] = "closed" => req = NoPacket
      BY <1>1 DEF SessionInv, PacketsLive
    <3>2. req.cmd = "REALM_LIST" => phase \in {"listing", "away"}
      BY <1>1 DEF SessionInv, PacketsLive, NoPacket
    <3>3. QED BY <2>1, <2>2, <3>1, <3>2 DEF PacketsLive
  <2>4. ChallengeInv(c)'
    BY <1>1, <2>1, <2>2 DEF SessionInv, ChallengeInv, NoPacket
  <2>5. ProofInv(c)'
    BY <1>1, <2>1, <2>2 DEF SessionInv, ProofInv, NoPacket
  <2>6. ToldInv(c)'
    BY <1>1, <2>1, <2>2 DEF SessionInv, ToldInv, Told, NoPacket
  <2>7. QED BY <2>3, <2>4, <2>5, <2>6 DEF SessionInv
<1>5. QED BY <1>1, <1>2, <1>3, <1>4, ClientSideStep

LEMMA ClientStepStep ==
  ASSUME IInv, NEW c \in Conns, ClientStep(c)
  PROVE  IInv'
<1>1. /\ SessionInv(c) /\ request = [request EXCEPT ![c] = request[c]]
      /\ reply[c] = NoPacket => reply = [reply EXCEPT ![c] = NoPacket]
  BY DEF IInv, TypeOK
<1>2. CASE ReceiveResult(c)
  <2> DEFINE phase == IF reply[c].ok THEN "in" ELSE "refused"
  <2>1. /\ client[c].phase = "proving" /\ reply[c].cmd = "LOGON_PROOF"
        /\ client' = [client EXCEPT ![c].phase = phase]
        /\ reply' = [reply EXCEPT ![c] = NoPacket]
        /\ UNCHANGED <<process, account, salts, conn, session, request, attempts>>
    BY <1>2 DEF ReceiveResult
  <2>2. request[c] = NoPacket
    BY <1>1, <2>1 DEF SessionInv, PacketsLive, NoPacket
  <2>3. request' = [request EXCEPT ![c] = NoPacket]
    BY <1>1, <2>1, <2>2
  <2>4. phase \in Phases /\ phase \in {"in", "refused"}
    BY DEF Phases
  <2>5. phase \in {"in", "listing"} => Told(c)
    BY <2>1 DEF Told
  <2> HIDE DEF phase
  <2>6. QED BY <2>1, <2>3, <2>4, <2>5, PhaseStep
<1>3. CASE SendRealmList(c)
  <2>1. /\ client[c].phase = "in" /\ conn[c] = "open"
        /\ client' = [client EXCEPT ![c].phase = "listing"]
        /\ request' = [request EXCEPT ![c] = [cmd |-> "REALM_LIST"]]
        /\ UNCHANGED <<process, account, salts, conn, session, reply, attempts>>
    BY <1>3 DEF SendRealmList, ClientSends
  <2>2. reply' = [reply EXCEPT ![c] = NoPacket]
    BY <1>1, <2>1 DEF SessionInv, PacketsLive
  <2>3. QED BY <2>1, <2>2, PhaseStep DEF Phases, Told
<1>4. CASE ReceiveRealmList(c)
  <2>1. /\ client[c].phase = "listing" /\ reply[c].cmd = "REALM_LIST"
        /\ client' = [client EXCEPT ![c].phase = "in"]
        /\ reply' = [reply EXCEPT ![c] = NoPacket]
        /\ UNCHANGED <<process, account, salts, conn, session, request, attempts>>
    BY <1>4 DEF ReceiveRealmList
  <2>2. request' = [request EXCEPT ![c] = NoPacket]
    BY <1>1, <2>1 DEF SessionInv, PacketsLive, NoPacket
  <2>3. QED BY <2>1, <2>2, PhaseStep DEF Phases, Told
<1>5. CASE SendReconnect(c)
  <2>1. /\ client[c].phase = "connected" /\ conn[c] = "open"
        /\ client' = [client EXCEPT ![c].phase = "waiting"]
        /\ request' = [request EXCEPT ![c] = [cmd |-> "RECONNECT_CHALLENGE"]]
        /\ UNCHANGED <<process, account, salts, conn, session, reply, attempts>>
    BY <1>5 DEF SendReconnect, ClientSends
  <2>2. reply' = [reply EXCEPT ![c] = NoPacket]
    BY <1>1, <2>1 DEF SessionInv, PacketsLive
  <2>3. QED BY <2>1, <2>2, PhaseStep DEF Phases
<1>6. CASE Leave(c)
  <2>1. /\ client' = [client EXCEPT ![c].phase = "away"]
        /\ reply' = [reply EXCEPT ![c] = NoPacket]
        /\ UNCHANGED <<process, account, salts, conn, session, attempts>>
        /\ request' \in {request, [request EXCEPT ![c] = NoPacket]}
    BY <1>6 DEF Leave
  <2>2. CASE request' = request
    BY <1>1, <2>1, <2>2, PhaseStep DEF Phases
  <2>3. CASE request' = [request EXCEPT ![c] = NoPacket]
    BY <2>1, <2>3, PhaseStep DEF Phases
  <2>4. QED BY <2>1, <2>2, <2>3
<1>7. CASE SendZeroProof(c)
  <2>1. /\ client' = [client EXCEPT ![c].phase = "waiting"] /\ conn[c] = "open"
        /\ request' = [request EXCEPT ![c] = [cmd |-> "LOGON_PROOF", A |-> Zero, M1 |-> Zero]]
        /\ reply' = [reply EXCEPT ![c] = NoPacket]
        /\ UNCHANGED <<process, account, salts, conn, session, attempts>>
    BY <1>7 DEF SendZeroProof, ClientSends
  <2>2. QED BY <2>1, PhaseStep DEF Phases
<1>8. QED
  BY <1>2, <1>3, <1>4, <1>5, <1>6, <1>7, ConnectStep, SendLogonChallengeStep,
     SendLogonProofStep DEF ClientStep

LEMMA RemoveAccountStep ==
  ASSUME IInv, NEW n \in Names, RemoveAccount(n)
  PROVE  IInv'
<1> DEFINE row == Row("absent", n)
<1>1. /\ account' = [account EXCEPT ![n] = row]
      /\ UNCHANGED <<process, salts, conn, session, request, reply, client, attempts>>
  BY DEF RemoveAccount
<1>2. row \in RowType
  BY RowTypes DEF RowKinds
<1> HIDE DEF row
<1>3. TypeOK'
  BY <1>1, <1>2 DEF IInv, TypeOK
<1>4. ASSUME NEW c \in Conns PROVE SessionInv(c)'
  BY <1>1, UntouchedStep DEF IInv, Untouched
<1>5. QED BY <1>3, <1>4 DEF IInv

LEMMA SameStep ==
  ASSUME IInv, process' \in {"running", process},
         UNCHANGED <<account, salts, conn, session, request, reply, client, attempts>>
  PROVE  IInv'
<1>1. TypeOK'
  BY DEF IInv, TypeOK
<1>2. ASSUME NEW c \in Conns PROVE SessionInv(c)'
  BY UntouchedStep DEF IInv, Untouched
<1>3. QED BY <1>1, <1>2 DEF IInv
-----------------------------------------------------------------------------
(* The invariant, and what follows from it. *)

LEMMA Initially == Init => IInv
<1> SUFFICES ASSUME Init PROVE IInv
  OBVIOUS
<1>1. PICK kind \in [Names -> Rows] : account = [n \in Names |-> Row(kind[n], n)]
  BY DEF Init
<1>2. \A n \in Names : account[n] \in RowType
  BY <1>1, RowTypes, AuthServerAssumption
<1>3. TypeOK
  <2>1. account \in [Names -> RowType]
    BY <1>1, <1>2
  <2>2. NoClient \in ClientType
    BY LengthsKnown DEF NoClient, NoSecret, ClientType, ClientNumbers, Phases
  <2>3. QED
    BY <2>1, <2>2, NewSessionType DEF Init, TypeOK, Requests, Replies
<1>4. ASSUME NEW c \in Conns PROVE SessionInv(c)
  <2>1. KeysUpTo(session[c].K, client[c].a[1])
    BY NewKeys DEF Init, NewSession
  <2>2. QED
    BY <2>1 DEF Init, NoPacket, NoClient, SessionInv, PacketsLive, ChallengeInv, ProofInv,
                ToldInv, Told
<1>5. QED BY <1>3, <1>4 DEF IInv

LEMMA Inductive == IInv /\ [Next]_vars => IInv'
<1> SUFFICES ASSUME IInv, [Next]_vars PROVE IInv'
  OBVIOUS
<1>1. ASSUME NEW c \in Conns, HandleInput(c) PROVE IInv'
  BY <1>1, LogonChallengeStep, LogonProofStep, RealmListStep, CloseStep DEF HandleInput
<1>2. ASSUME NEW c \in Conns, ClientStep(c) PROVE IInv'
  BY <1>2, ClientStepStep
<1>3. CASE Stop
  BY <1>3, DieStep DEF Stop
<1>4. CASE Restart
  BY <1>4, SameStep DEF Restart
<1>5. ASSUME NEW n \in Names, RemoveAccount(n) PROVE IInv'
  BY <1>5, RemoveAccountStep
<1>6. CASE UNCHANGED vars
  BY <1>6, SameStep DEF vars
<1>7. QED BY <1>1, <1>2, <1>3, <1>4, <1>5, <1>6 DEF Next

LEMMA Meaning == IInv => TypeOK /\ MistypedRefused /\ KeyAgreement
BY DEF IInv, SessionInv, ToldInv, MistypedRefused, KeyAgreement

\* The inductive invariant holds in every reachable state: every session, packet
\* and key is what the logons on its connection made it.
THEOREM Invariance == Spec => []IInv
BY Initially, Inductive, PTL DEF Spec

\* The variables keep their types, and no handler turns a number into bytes that
\* was never set: AsByteArray has an array or a value whenever it is called.
THEOREM TypeCorrect == Spec => []TypeOK
BY Invariance, Meaning, PTL

\* Clients that follow the protocol (the only ones the model has) are told that
\* they are logged on only with the password of the account they named, on their
\* first logon or on a later one, after a refusal or a success, whatever stale
\* arrays of s, B and K the proof was checked with, however connections
\* interleave, whatever is lost, and through crashes and restarts.
THEOREM WrongPasswordsRefused == Spec => []MistypedRefused
BY Invariance, Meaning, PTL

\* Whenever a client with a fresh a is logged on, the number K of its session is
\* the key the client computed, though the proof was made from the array of K
\* found in the map, which may be that of an earlier logon.
THEOREM KeysAgree == Spec => []KeyAgreement
BY Invariance, Meaning, PTL
=============================================================================
