----------------------------- MODULE LogonProofs -----------------------------
(***************************************************************************)
(* Theorems about AuthServer whose truth rests on a connection being used   *)
(* for one logon, or on its first: what is wrong with later ones is shown   *)
(* by the runs RetryRefused and PoisonedRow.                                *)
(***************************************************************************)
EXTENDS AuthServerProofs

(* Rows. *)

SpoiledStays == \A n \in Names : Spoiled(n) => Spoiled(n)'

LEMMA AbsentRow ==
  ASSUME NEW n \in Names
  PROVE  Row("absent", n).exists = FALSE /\ Row("absent", n).s = Zero
BY DEF Row

\* A row that is kept or deleted, and no other, stays spoiled and consistent.
LEMMA RowsKept ==
  ASSUME RowsInv,
         \A n \in Names : account'[n] = account[n] \/ account'[n] = Row("absent", n)
  PROVE  SpoiledStays /\ RowsInv'
<1>1. ASSUME NEW n \in Names, account'[n] = account[n]
      PROVE  (Spoiled(n) => Spoiled(n)') /\ (Consistent(n) => Consistent(n)')
  BY <1>1 DEF Spoiled, Consistent, HasVerifier
<1>2. ASSUME NEW n \in Names, account'[n] = Row("absent", n)
      PROVE  Spoiled(n)' /\ Consistent(n)'
  <2>1. ~account'[n].exists /\ account'[n].s = Zero
    BY <1>2, AbsentRow
  <2>2. QED BY <2>1 DEF Spoiled, Consistent
<1>3. QED BY <1>1, <1>2 DEF SpoiledStays, RowsInv, RowsConsistent

\* An UPDATE of a row without a full verifier: it was not spoiled, and is
\* consistent if the new columns are.
LEMMA RowUpdated ==
  ASSUME IInv, RowsInv, NEW n \in Names, NEW v, NEW s,
         account[n].exists, ~HasVerifier(account[n]),
         account' = UpdateRow(n, v, s),
         MaxLogons <= 1 => v = VerifierOf(n, s)
  PROVE  SpoiledStays /\ RowsInv'
<1>1. account \in [Names -> RowType]
  BY DEF IInv, TypeOK
<1>2. /\ account'[n].v = v /\ account'[n].s = s
      /\ \A m \in Names \ {n} : account'[m] = account[m]
  BY <1>1 DEF UpdateRow, RowType
<1>3. ~Spoiled(n)
  BY DEF Spoiled
<1>4. \A m \in Names \ {n} :
        (Spoiled(m) => Spoiled(m)') /\ (Consistent(m) => Consistent(m)')
  BY <1>2 DEF Spoiled, Consistent, HasVerifier
<1>5. MaxLogons <= 1 => Consistent(n)'
  BY <1>2 DEF Consistent
<1>6. QED BY <1>3, <1>4, <1>5 DEF SpoiledStays, RowsInv, RowsConsistent
-----------------------------------------------------------------------------
(* Steps preserve FirstInv. *)

ConnInv(c) == CountInv(c) /\ FreshInv(c) /\ VerdictInv(c)

LEMMA UntouchedLogon ==
  ASSUME NEW c \in Conns, ConnInv(c), Untouched(c), SpoiledStays
  PROVE  ConnInv(c)'
<1>1. CountInv(c)'
  BY DEF ConnInv, CountInv, Untouched
<1>2. FreshInv(c)'
  BY DEF ConnInv, FreshInv, Untouched, SpoiledStays
<1>3. VerdictInv(c)'
  BY DEF ConnInv, CountInv, VerdictInv, FullLengths, Untouched, SpoiledStays
<1>4. QED BY <1>1, <1>2, <1>3 DEF ConnInv

\* A step of one connection.
LEMMA OneConnection ==
  ASSUME FirstInv, NEW c \in Conns, \A d \in Conns \ {c} : Untouched(d),
         SpoiledStays, RowsInv', ConnInv(c)'
  PROVE  FirstInv'
<1>1. \A d \in Conns \ {c} : ConnInv(d)'
  BY UntouchedLogon DEF FirstInv, ConnInv
<1>2. QED BY <1>1 DEF FirstInv, ConnInv

LEMMA VerifierSet == ASSUME NEW v \in Verifiers PROVE v # Zero
BY DEF Verifiers, VerifiersOf, Zero

LEMMA NewSessionFields ==
  /\ NewSession.v = Zero /\ NewSession.K = NewNumber
  /\ NewSession.s = NewNumber /\ NewSession.B = NewNumber
BY DEF NewSession

LEMMA NewCurrent == Current(NewNumber) /\ \A val : Current(Assign(NewNumber, val))
BY DEF Current, NewNumber, Assign

\* An object with no old array hands out the bytes of its number, and goes on to.
LEMMA CurrentConverted ==
  ASSUME NEW V, NEW n \in BigNumbers(V), n.value \in V, Size(n.value) \in Lengths,
         NEW m \in Lengths \cup {0}, Current(n)
  PROVE  /\ AsByteArray(n, m) = Bytes(n.value, ArrayLength(n, m))
         /\ Current(Converted(n, m))
<1> DEFINE l   == ArrayLength(n, m)
           arr == AsByteArray(n, m)
<1>1. l \in Lengths
  BY LengthType
<1>2. arr = Bytes(n.value, l)
  BY <1>1 DEF Current, AsByteArray
<1>3. /\ Converted(n, m).value = n.value
      /\ Converted(n, m).arrays = [n.arrays EXCEPT ![l] = arr]
  BY ConvertedType
<1>4. n.arrays \in [Lengths -> Arrays(V) \cup {NoArray}]
  BY DEF BigNumbers
<1> HIDE DEF l, arr
<1>5. \A k \in Lengths : Converted(n, m).arrays[k] \in {n.arrays[k], Bytes(n.value, k)}
  BY <1>2, <1>3, <1>4
<1>6. Current(Converted(n, m))
  BY <1>3, <1>5 DEF Current
<1>7. QED BY <1>2, <1>6 DEF l, arr

LEMMA DieLogon ==
  ASSUME IInv, FirstInv, NEW how, Die(how), UNCHANGED <<account, salts, client, attempts>>
  PROVE  FirstInv'
<1>1. SpoiledStays /\ RowsInv'
  BY RowsKept DEF FirstInv
<1>2. ASSUME NEW c \in Conns PROVE ConnInv(c)'
  <2>1. /\ session'[c] = NewSession /\ request'[c] = NoPacket /\ reply'[c] = NoPacket
        /\ client'[c] = client[c] /\ CountInv(c) /\ VerdictInv(c)
    BY DEF Die, FirstInv
  <2>2. CountInv(c)'
    BY <2>1 DEF CountInv, NoPacket
  <2>3. FreshInv(c)'
    BY <2>1, NewSessionFields, NewCurrent DEF FreshInv, NoPacket
  <2>4. VerdictInv(c)'
    BY <2>1, <1>1 DEF VerdictInv, FullLengths, CountInv, SpoiledStays, NoPacket
  <2>5. QED BY <2>2, <2>3, <2>4 DEF ConnInv
<1>3. QED BY <1>1, <1>2 DEF FirstInv, ConnInv
-----------------------------------------------------------------------------
(* Handlers. *)

\* The reply of a challenge, from numbers that belong together on a first logon.
LEMMA SendChallengeLogon ==
  ASSUME IInv, FirstInv, NEW c \in Conns, OnRead(c, "LOGON_CHALLENGE"),
         NEW n \in Names, n = request[c].name,
         NEW s \in BigNumbers(Salts), s.value \in Salts, NEW v \in Verifiers,
         SendChallenge(c, n, s, v),
         UNCHANGED <<client, attempts>>,
         SpoiledStays, RowsInv',
         client[c].logons <= 1 =>
           /\ Current(s)
           /\ \/ v = VerifierOf(n, s.value)
              \/ MaxLogons > 1 /\ Spoiled(n)'
  PROVE  FirstInv'
<1>1. PICK size \in ServerSizes :
        LET b == [nr |-> session[c].b.nr + 1, size |-> size]
            B == Assign(session[c].B, PublicValue(v, b))
        IN  /\ Recv(c)
            /\ session' = [session EXCEPT ![c] =
                 [@ EXCEPT !.login = n, !.s = Converted(s, 0), !.v = v,
                           !.b = b, !.B = Converted(B, FieldBytes)]]
            /\ Send(c, [cmd |-> "LOGON_CHALLENGE", s |-> AsByteArray(s, 0),
                        B |-> AsByteArray(B, FieldBytes)])
            /\ UNCHANGED <<process, conn>>
  BY DEF SendChallenge
<1> DEFINE b == [nr |-> session[c].b.nr + 1, size |-> size]
           B == Assign(session[c].B, PublicValue(v, b))
           newS == Converted(s, 0)
           newB == Converted(B, FieldBytes)
           packet == [cmd |-> "LOGON_CHALLENGE", s |-> AsByteArray(s, 0),
                      B |-> AsByteArray(B, FieldBytes)]
           ses == [session[c] EXCEPT !.login = n, !.s = newS, !.v = v,
                                     !.b = b, !.B = newB]
<1>2. request[c].cmd = "LOGON_CHALLENGE" /\ session[c] \in SessionType
  BY DEF IInv, TypeOK, OnRead
<1>3. PublicValue(v, b) \in PublicValues /\ b.size = size
  <2>1. b \in Draws /\ size.B \in Lengths
    BY FieldsTyped, DrawType DEF IInv
  <2>2. QED BY <2>1 DEF PublicValue, PublicValues
<1>4. B \in BigNumbers(PublicValues) /\ B.value = PublicValue(v, b)
  BY <1>3, FieldsTyped, AssignType DEF IInv
<1>5. newS.value = s.value /\ newB.value = PublicValue(v, b)
  BY <1>3, <1>4, LengthsKnown, SizeTypes, ConvertedType
<1>6. /\ session' = [session EXCEPT ![c] = ses]
      /\ request' = [request EXCEPT ![c] = NoPacket]
      /\ UNCHANGED <<process, conn>>
      /\ reply' = [reply EXCEPT ![c] = IF client[c].phase = "away" THEN @ ELSE packet]
  BY <1>1 DEF Recv, Send, IInv, TypeOK
<1>7. CountInv(c) /\ FreshInv(c) /\ VerdictInv(c) /\ SessionInv(c)
  BY DEF IInv, FirstInv
<1>8. /\ client[c].phase \in {"challenging", "away"} /\ client[c].logons # 0
      /\ client[c].phase = "away" => reply[c] = NoPacket
  BY <1>2, <1>7 DEF CountInv, SessionInv, ChallengeInv, PacketsLive
<1>9. /\ session'[c] = ses /\ request'[c] = NoPacket /\ client'[c] = client[c]
      /\ reply'[c] = IF client[c].phase = "away" THEN NoPacket ELSE packet
  BY <1>6, <1>8 DEF IInv, TypeOK
<1>10. client[c].logons <= 1 =>
         session[c] = NewSession /\ Current(newS) /\ Current(newB)
  <2> SUFFICES ASSUME client[c].logons <= 1
               PROVE  session[c] = NewSession /\ Current(newS) /\ Current(newB)
    OBVIOUS
  <2>1. session[c] = NewSession
    BY <1>2, <1>7 DEF FreshInv
  <2>2. Current(B)
    BY <2>1, NewSessionFields, NewCurrent
  <2>3. Current(newS) /\ Current(newB)
    BY <1>3, <1>4, <2>2, LengthsKnown, SizeTypes, CurrentConverted
  <2>4. QED BY <2>1, <2>3
<1> HIDE DEF b, B, newS, newB
<1>11. /\ ses.login = n /\ ses.v = v /\ ses.s = newS /\ ses.B = newB
       /\ ses.b = b /\ ses.K = session[c].K
  BY <1>2 DEF SessionType
<1> HIDE DEF ses
<1>12. CountInv(c)'
  BY <1>7, <1>9 DEF CountInv, NoPacket
<1>13. FreshInv(c)'
  <2> SUFFICES ASSUME client[c].logons <= 1
               PROVE  FreshInv(c)'
    BY <1>9 DEF FreshInv
  <2>1. ses.K = NewNumber
    BY <1>10, <1>11, NewSessionFields
  <2>2. /\ ses.B.value = PublicValue(ses.v, ses.b) /\ ses.b.size \in ServerSizes
        /\ ses.v = VerifierOf(n, ses.s.value) \/ (MaxLogons > 1 /\ Spoiled(n)')
    BY <1>3, <1>5, <1>11
  <2>3. Current(ses.s) /\ Current(ses.B) /\ ses.login = n
    BY <1>10, <1>11
  <2>4. QED
    BY <1>8, <1>9, <2>1, <2>2, <2>3 DEF FreshInv, Spoiled, Consistent, NoPacket
<1>14. VerdictInv(c)'
  BY <1>8, <1>9 DEF VerdictInv, NoPacket
<1>15. \A d \in Conns \ {c} : Untouched(d)
  BY <1>6 DEF Untouched, IInv, TypeOK
<1>16. QED BY <1>12, <1>13, <1>14, <1>15, OneConnection DEF ConnInv

\* The array of a salt, and the verifier made from it, if no array is old.
LEMMA SaltArray ==
  ASSUME NEW s \in BigNumbers(Salts), s.value \in Salts
  PROVE  /\ ArrayLength(s, 0) = SaltBytes
         /\ Current(s) => AsByteArray(s, 0) = Field(s.value, SaltBytes)
<1>1. Size(s.value) = SaltBytes /\ SaltBytes \in Lengths
  BY SizeTypes, LengthsKnown
<1>2. ArrayLength(s, 0) = SaltBytes
  BY <1>1 DEF ArrayLength, SaltBytes
<1>3. ASSUME Current(s) PROVE AsByteArray(s, 0) = Field(s.value, SaltBytes)
  <2>1. AsByteArray(s, 0) = Bytes(s.value, SaltBytes)
    BY <1>1, <1>2, <1>3, CurrentConverted
  <2>2. QED BY <1>1, <2>1 DEF Bytes, Field
<1>4. QED BY <1>2, <1>3

LEMMA ChallengeLogon ==
  ASSUME IInv, FirstInv, NEW c \in Conns, HandleLogonChallenge(c)
  PROVE  FirstInv'
<1>0. OnRead(c, "LOGON_CHALLENGE") /\ UNCHANGED <<client, attempts>>
  BY DEF HandleLogonChallenge
<1>1. PICK n \in Names : n = request[c].name
  BY <1>0, RequestTypes DEF IInv, TypeOK, OnRead
<1> DEFINE row == account[n]
<1>2. /\ request[c].cmd = "LOGON_CHALLENGE" /\ n \in Names
      /\ row \in RowType /\ salts \in Nat /\ session[c].s \in BigNumbers(Salts)
  BY <1>0, <1>1, FieldsTyped DEF IInv, TypeOK, OnRead
<1>3. client[c].logons <= 1 => session[c].s = NewNumber
  BY <1>2, NewSessionFields DEF FirstInv, FreshInv
<1>4. MaxLogons <= 1 => client[c].logons <= 1
  <2>1. client[c].logons \in Nat /\ client[c].logons <= MaxLogons
    BY DEF FirstInv, CountInv, IInv, TypeOK, ClientType
  <2>2. QED BY <2>1, AuthServerAssumption
<1>5. CASE Die("crashed") /\ UNCHANGED <<account, salts>>
  BY <1>0, <1>5, DieLogon
<1>6. CASE /\ HasVerifier(row)
           /\ SendChallenge(c, n, Assign(session[c].s, row.s), row.v)
           /\ UNCHANGED <<account, salts>>
  <2> DEFINE s == Assign(session[c].s, row.s)
  <2>1. row.v \in Verifiers /\ row.s \in Salts /\ row.s # Zero
    BY <1>2, <1>6 DEF HasVerifier, HexSize, SaltBytes, RowType
  <2>2. s \in BigNumbers(Salts) /\ s.value = row.s
    BY <1>2, <2>1, AssignType
  <2>3. SpoiledStays /\ RowsInv'
    BY <1>6, RowsKept DEF FirstInv
  <2>4. client[c].logons <= 1 => Current(s)
    BY <1>3, NewCurrent
  <2>5. row.v = VerifierOf(n, s.value) \/ (MaxLogons > 1 /\ Spoiled(n)')
    <3>1. CASE Consistent(n)
      BY <3>1, <2>1, <2>2 DEF Consistent
    <3>2. CASE ~Consistent(n)
      <4>1. MaxLogons > 1
        BY <3>2, <1>2, AuthServerAssumption DEF FirstInv, RowsInv, RowsConsistent
      <4>2. Spoiled(n)
        BY <3>2, <1>6 DEF Spoiled
      <4>3. QED BY <4>1, <4>2, <2>3, <1>2 DEF SpoiledStays
    <3>3. QED BY <3>1, <3>2
  <2> HIDE DEF s
  <2>6. SendChallenge(c, n, s, row.v)
    BY <1>6 DEF s
  <2>7. QED BY <1>0, <1>1, <2>1, <2>2, <2>3, <2>4, <2>5, <2>6, SendChallengeLogon
<1>7. ASSUME row.exists, ~HasVerifier(row), NEW size \in VerifierSizes, NEW saved \in Saved,
             LET salt == Salt(salts + 1, size)
                 s    == Assign(session[c].s, salt)
                 v    == Verifier(AsByteArray(s, 0), Hash(n))
             IN  /\ account' = IF saved THEN UpdateRow(n, v, salt) ELSE account
                 /\ SendChallenge(c, n, Converted(s, 0), v)
      PROVE  FirstInv'
  <2> DEFINE salt == Salt(salts + 1, size)
             s    == Assign(session[c].s, salt)
             v    == Verifier(AsByteArray(s, 0), Hash(n))
  <2>1. /\ account' = IF saved THEN UpdateRow(n, v, salt) ELSE account
        /\ SendChallenge(c, n, Converted(s, 0), v)
    BY <1>7
  <2>2. salt \in Salts
    <3>1. salts + 1 \in Nat
      BY <1>2
    <3>2. QED BY <3>1, SaltType
  <2> HIDE DEF salt
  <2>3. s \in BigNumbers(Salts) /\ s.value = salt
    BY <1>2, <2>2, AssignType
  <2>4. /\ AsByteArray(s, 0) \in Arrays(Salts) /\ Converted(s, 0) \in BigNumbers(Salts)
        /\ Converted(s, 0).value = salt
    BY <2>2, <2>3, LengthsKnown, SizeTypes, ConvertedType
  <2>5. v \in Verifiers
    BY <1>2, <2>4, VerifierType
  <2>6. client[c].logons <= 1 => Current(Converted(s, 0)) /\ v = VerifierOf(n, salt)
    <3> SUFFICES ASSUME client[c].logons <= 1
                 PROVE  Current(Converted(s, 0)) /\ v = VerifierOf(n, salt)
      OBVIOUS
    <3>1. Current(s)
      BY <1>3, NewCurrent
    <3>2. Current(Converted(s, 0)) /\ AsByteArray(s, 0) = Field(salt, SaltBytes)
      BY <2>2, <2>3, <3>1, LengthsKnown, SizeTypes, CurrentConverted, SaltArray
    <3>3. QED BY <3>2 DEF VerifierOf
  <2> HIDE DEF v, s
  <2>7. SpoiledStays /\ RowsInv'
    <3>1. CASE account' = account
      BY <3>1, RowsKept DEF FirstInv
    <3>2. CASE account' = UpdateRow(n, v, salt)
      BY <3>2, <1>2, <1>4, <1>7, <2>6, RowUpdated DEF FirstInv
    <3>3. QED BY <2>1, <3>1, <3>2
  <2>8. QED BY <1>0, <1>1, <2>1, <2>2, <2>4, <2>5, <2>6, <2>7, SendChallengeLogon
<1>8. QED
  <2>1. PICK found \in Found(n) :
          \/ /\ ~found \/ row.null
             /\ Die("crashed") /\ UNCHANGED <<account, salts>>
          \/ found /\ HasVerifier(row)
             /\ SendChallenge(c, n, Assign(session[c].s, row.s), row.v)
             /\ UNCHANGED <<account, salts>>
          \/ found /\ ~HasVerifier(row) /\ SetVSFields(c, n)
    BY <1>1 DEF HandleLogonChallenge
  <2>2. QED BY <2>1, <1>5, <1>6, <1>7 DEF SetVSFields, Found

\* The steps after which a connection has neither a challenge nor a verdict under
\* way, and the session it had or none.
LEMMA QuietStep ==
  ASSUME IInv, FirstInv, NEW c \in Conns, SpoiledStays,
         session'[c] \in {session[c], NewSession}, client'[c] = client[c],
         request'[c].cmd \notin {"LOGON_CHALLENGE", "LOGON_PROOF"},
         reply'[c].cmd \notin {"LOGON_CHALLENGE", "LOGON_PROOF"}
  PROVE  ConnInv(c)'
<1>1. CountInv(c) /\ FreshInv(c) /\ VerdictInv(c)
  BY DEF FirstInv
<1>2. CountInv(c)'
  BY <1>1 DEF CountInv
<1>3. FreshInv(c)'
  <2>1. CASE session'[c] = session[c]
    BY <1>1, <2>1 DEF FreshInv, SpoiledStays
  <2>2. CASE session'[c] = NewSession
    BY <2>2, NewSessionFields, NewCurrent DEF FreshInv
  <2>3. QED BY <2>1, <2>2
<1>4. VerdictInv(c)'
  BY <1>1 DEF VerdictInv, FullLengths, CountInv, SpoiledStays
<1>5. QED BY <1>2, <1>3, <1>4 DEF ConnInv

\* A proof with a zero A is not answered, and changes nothing.
LEMMA ZeroProofLogon ==
  ASSUME IInv, FirstInv, NEW c \in Conns, OnRead(c, "LOGON_PROOF"), Recv(c),
         UNCHANGED <<account, conn, session, reply, client>>
  PROVE  FirstInv'
<1>1. SpoiledStays /\ RowsInv'
  BY RowsKept DEF FirstInv
<1>2. request' = [request EXCEPT ![c] = NoPacket] /\ request[c].cmd = "LOGON_PROOF"
  BY DEF Recv, OnRead
<1>3. reply[c] = NoPacket
  BY <1>2 DEF IInv, SessionInv, PacketsLive, NoPacket
<1>4. ConnInv(c)'
  BY <1>1, <1>2, <1>3, QuietStep DEF IInv, TypeOK, NoPacket
<1>5. \A d \in Conns \ {c} : Untouched(d)
  BY <1>2 DEF Untouched, IInv, TypeOK
<1>6. QED BY <1>1, <1>4, <1>5, OneConnection

\* The right password on a first logon, with full lengths and a verifier of the
\* salt: the server makes the proof that the client sent, and compares all of it.
LEMMA FirstVerdict ==
  ASSUME IInv, FirstInv, NEW c \in Conns,
         request[c].cmd = "LOGON_PROOF", request[c].A # Zero,
         client[c].logons <= 1, client[c].pw = PasswordOf[client[c].name],
         FullLengths(c),
         session[c].v = VerifierOf(session[c].login, session[c].s.value)
  PROVE  LET ses == session[c]
             A   == Bytes(request[c].A, Size(request[c].A))
             B   == AsByteArray(ses.B, 0)
             K   == Assign(ses.K, ServerKey(A, B, ses.v, ses.b))
             M   == Proof(ses.login, AsByteArray(ses.s, 0), A, B, AsByteArray(K, 0))
         IN  Compared(M, request[c].M1, ses.b.size.M) = {TRUE}
<1> DEFINE ses == session[c]
           cl  == client[c]
           sb  == AsByteArray(ses.s, 0)
           FA  == Field(cl.a, FieldBytes)
           BC  == AsByteArray(ses.B, FieldBytes)
           A   == Bytes(request[c].A, Size(request[c].A))
           B   == AsByteArray(ses.B, 0)
           PV  == PublicValue(ses.v, ses.b)
           key == ServerKey(A, B, ses.v, ses.b)
           K   == Assign(ses.K, key)
           x   == Verifier(sb, <<cl.name, cl.pw>>)
           bb  == IF BC.exact /\ BC.of[1].v = x THEN BC.of[1].b ELSE NoDraw
           M   == Proof(ses.login, sb, A, B, AsByteArray(K, 0))
<1>1. /\ Ready(ses) /\ ses.login = cl.name /\ request[c].A = cl.a
      /\ cl.K = ClientKey(FA, BC, sb, <<cl.name, cl.pw>>)
      /\ request[c].M1 = Proof(cl.name, sb, FA, BC, Field(cl.K, KeyBytes))
  BY DEF IInv, SessionInv, ProofInv
<1>2. cl.K = Key(FA, BC, x, bb, TRUE)
  BY <1>1 DEF ClientKey
<1>3. /\ ses.s \in BigNumbers(Salts) /\ ses.B \in BigNumbers(PublicValues)
      /\ ses.K \in BigNumbers(ServerKeys) /\ ses.b \in Draws
      /\ ses.v \in Verifiers /\ ses.v # Zero
      /\ ses.s.value \in Salts /\ ses.B.value \in PublicValues
      /\ Size(ses.B.value) \in Lengths
  BY <1>1, FieldsTyped, VerifierSet, SizeTypes DEF IInv, Ready
<1>4. /\ Current(ses.s) /\ Current(ses.B) /\ ses.K = NewNumber /\ ses.B.value = PV
  BY <1>3 DEF FirstInv, FreshInv
<1>5. /\ BC = Bytes(PV, ArrayLength(ses.B, FieldBytes))
      /\ B = Bytes(PV, ArrayLength(ses.B, 0))
  BY <1>3, <1>4, LengthsKnown, CurrentConverted
<1>6. Size(cl.a) = FieldBytes /\ ses.b.size = FullSizes
  <2>1. cl.K[1].B = BC
    <3> HIDE DEF BC, FA, x, bb
    <3>1. QED BY <1>2 DEF Key
  <2>2. BC.of = PV
    BY <1>5 DEF Bytes
  <2>3. PV[1].b = ses.b
    BY DEF PublicValue
  <2> HIDE DEF BC, PV
  <2>4. QED BY <2>1, <2>2, <2>3 DEF FullLengths
<1>7. Size(PV) = FieldBytes
  BY <1>6 DEF PublicValue, Size, FullSizes
<1>8. ArrayLength(ses.B, FieldBytes) = FieldBytes /\ ArrayLength(ses.B, 0) = FieldBytes
  BY <1>4, <1>7 DEF ArrayLength, FieldBytes
<1>9. B = BC /\ BC.exact /\ BC.of = PV
  <2>1. B = Field(PV, FieldBytes) /\ BC = Field(PV, FieldBytes)
    BY <1>5, <1>7, <1>8 DEF Bytes, Field
  <2>2. QED BY <2>1 DEF Field
<1>10. A = FA
  BY <1>1, <1>6 DEF Bytes, Field
<1>11. x = ses.v
  <2>1. sb = Field(ses.s.value, SaltBytes)
    BY <1>3, <1>4, SaltArray
  <2>2. <<cl.name, cl.pw>> = Hash(ses.login)
    BY <1>1 DEF Hash
  <2>3. QED BY <2>1, <2>2 DEF VerifierOf
<1>12. bb = ses.b
  <2>1. PV[1].v = ses.v /\ PV[1].b = ses.b
    BY DEF PublicValue
  <2> HIDE DEF BC, PV, x
  <2>2. QED BY <1>9, <1>11, <2>1
<1>13. key = cl.K
  <2>1. key = Key(A, B, ses.v, ses.b, TRUE)
    <3>1. (ses.b.size.S = FieldBytes) = TRUE
      BY <1>6 DEF FullSizes
    <3>2. key = Key(A, B, ses.v, ses.b, ses.b.size.S = FieldBytes)
      BY DEF ServerKey
    <3>3. QED BY <3>1, <3>2
  <2> HIDE DEF A, FA, B, BC, x, bb, key
  <2>2. QED BY <2>1, <1>2, <1>9, <1>10, <1>11, <1>12
<1>14. Size(key) = KeyBytes
  BY <1>6 DEF ServerKey, Key, Size, FullSizes
<1>15. AsByteArray(K, 0) = Field(cl.K, KeyBytes)
  <2> HIDE DEF key
  <2>1. K.value = key /\ K.arrays = NewNumber.arrays
    BY <1>4 DEF Assign, NewNumber
  <2>2. ArrayLength(K, 0) = KeyBytes /\ KeyBytes \in Lengths
    BY <1>14, <2>1, LengthsKnown DEF ArrayLength, KeyBytes
  <2>3. K.arrays[KeyBytes] = NoArray
    BY <2>1, <2>2 DEF NewNumber
  <2> HIDE DEF K
  <2>4. AsByteArray(K, 0) = Bytes(key, KeyBytes)
    BY <2>1, <2>2, <2>3 DEF AsByteArray
  <2>5. QED BY <2>4, <1>13, <1>14 DEF Bytes, Field
<1>16. M = request[c].M1
  <2> HIDE DEF A, FA, B, BC, sb, K
  <2>1. QED BY <1>1, <1>9, <1>10, <1>15
<1>17. ses.b.size.M = ProofBytes
  BY <1>6 DEF FullSizes
<1> HIDE DEF M
<1>18. Compared(M, request[c].M1, ses.b.size.M) = {TRUE}
  BY <1>16, <1>17 DEF Compared
<1>19. QED BY <1>18 DEF M

LEMMA ProofLogon ==
  ASSUME IInv, FirstInv, NEW c \in Conns, HandleLogonProof(c)
  PROVE  FirstInv'
<1>1. /\ OnRead(c, "LOGON_PROOF") /\ Recv(c) /\ request[c].cmd = "LOGON_PROOF"
      /\ UNCHANGED <<process, account, salts, conn, client, attempts>>
  BY DEF HandleLogonProof, OnRead
<1>2. CASE request[c].A = Zero
  <2>1. UNCHANGED <<session, reply>>
    BY <1>2 DEF HandleLogonProof
  <2>2. QED BY <1>1, <2>1, ZeroProofLogon
<1>3. CASE request[c].A # Zero
  <2> DEFINE ses  == session[c]
             cl   == client[c]
             A    == Bytes(request[c].A, Size(request[c].A))
             B    == AsByteArray(ses.B, 0)
             K    == Assign(ses.K, ServerKey(A, B, ses.v, ses.b))
             M    == Proof(ses.login, AsByteArray(ses.s, 0), A, B, AsByteArray(K, 0))
             newS == Converted(ses.s, 0)
             newB == Converted(ses.B, 0)
             newK == Converted(K, 0)
  <2>1. PICK ok \in Compared(M, request[c].M1, ses.b.size.M) :
          /\ session' = [session EXCEPT ![c] =
               [ses EXCEPT !.s = newS, !.B = newB, !.K = newK,
                           !.authed = ses.authed \/ ok]]
          /\ Send(c, [cmd |-> "LOGON_PROOF", ok |-> ok])
    BY <1>3 DEF HandleLogonProof
  <2> DEFINE new == [ses EXCEPT !.s = newS, !.B = newB, !.K = newK,
                                !.authed = ses.authed \/ ok]
             packet == [cmd |-> "LOGON_PROOF", ok |-> ok]
  <2>2. /\ session' = [session EXCEPT ![c] = new]
        /\ request' = [request EXCEPT ![c] = NoPacket]
        /\ reply' = [reply EXCEPT ![c] = IF cl.phase = "away" THEN @ ELSE packet]
    BY <1>1, <2>1 DEF Recv, Send, IInv, TypeOK
  <2>3. /\ CountInv(c) /\ FreshInv(c) /\ SessionInv(c) /\ ses \in SessionType
    BY DEF IInv, TypeOK, FirstInv
  <2>4. /\ cl.phase \in {"proving", "away"} /\ Ready(ses) /\ ses.login = cl.name
        /\ cl.phase = "away" => reply[c] = NoPacket
    BY <1>1, <1>3, <2>3 DEF SessionInv, ProofInv, PacketsLive
  <2>5. /\ ses.s \in BigNumbers(Salts) /\ ses.B \in BigNumbers(PublicValues)
        /\ ses.v # Zero /\ ses.s.value \in Salts /\ ses.B.value \in PublicValues
    BY <2>4, FieldsTyped, VerifierSet DEF IInv, Ready
  <2>6. newS.value = ses.s.value /\ newB.value = ses.B.value
    BY <2>5, LengthsKnown, SizeTypes, ConvertedType
  <2>7. cl.logons <= 1 => Current(newS) /\ Current(newB)
    BY <2>3, <2>5, LengthsKnown, SizeTypes, CurrentConverted DEF FreshInv
  <2>8. cl.logons <= 1 /\ cl.pw = PasswordOf[cl.name] /\ ~ok
          => ~FullLengths(c) \/ (MaxLogons > 1 /\ Spoiled(cl.name))
    <3> SUFFICES ASSUME cl.logons <= 1, cl.pw = PasswordOf[cl.name], ~ok, FullLengths(c)
                 PROVE  MaxLogons > 1 /\ Spoiled(cl.name)
      OBVIOUS
    <3>1. \/ ses.v = VerifierOf(ses.login, ses.s.value)
          \/ MaxLogons > 1 /\ Spoiled(ses.login)
      BY <2>3, <2>5 DEF FreshInv
    <3>2. ASSUME ses.v = VerifierOf(ses.login, ses.s.value) PROVE FALSE
      <4>1. Compared(M, request[c].M1, ses.b.size.M) = {TRUE}
        BY <1>1, <1>3, <3>2, FirstVerdict
      <4> HIDE DEF M
      <4>2. QED BY <4>1, <2>1
    <3>3. QED BY <3>1, <3>2, <2>4
  <2> HIDE DEF newS, newB, newK, M
  <2>9. /\ new.s = newS /\ new.B = newB /\ new.v = ses.v
        /\ new.b = ses.b /\ new.login = ses.login
    BY <2>3 DEF SessionType
  <2> HIDE DEF new
  <2>10. /\ session'[c] = new /\ request'[c] = NoPacket /\ client'[c] = cl
         /\ reply'[c] = IF cl.phase = "away" THEN NoPacket ELSE packet
    BY <1>1, <2>2, <2>4 DEF IInv, TypeOK
  <2>11. SpoiledStays /\ RowsInv'
    BY <1>1, RowsKept DEF FirstInv
  <2>12. CountInv(c)'
    BY <2>3, <2>10 DEF CountInv, NoPacket
  <2>13. FreshInv(c)'
    <3> SUFFICES ASSUME cl.logons <= 1 PROVE FreshInv(c)'
      BY <2>10 DEF FreshInv
    <3>1. cl.logons # 0
      BY <2>3, <2>5, NewSessionFields DEF FreshInv
    <3>2. PICK n \in Names :
            /\ n = ses.login /\ ses.b.size \in ServerSizes
            /\ ses.B.value = PublicValue(ses.v, ses.b)
            /\ ses.v = VerifierOf(n, ses.s.value) \/ (MaxLogons > 1 /\ Spoiled(n))
      BY <2>3, <2>5 DEF FreshInv
    <3>3. /\ new.login = n /\ new.b.size \in ServerSizes
          /\ new.B.value = PublicValue(new.v, new.b)
          /\ new.v = VerifierOf(n, new.s.value) \/ (MaxLogons > 1 /\ Spoiled(n)')
      BY <3>2, <2>6, <2>9, <2>11 DEF SpoiledStays
    <3>4. Current(new.s) /\ Current(new.B)
      BY <2>7, <2>9
    <3>5. reply'[c].cmd # "LOGON_CHALLENGE"
      BY <2>10 DEF NoPacket
    <3>6. QED
      BY <3>1, <3>3, <3>4, <3>5, <2>10 DEF FreshInv, Spoiled, Consistent, NoPacket
  <2>14. VerdictInv(c)'
    <3>1. cl.name \in Names
      BY <1>1, <1>3, <2>3 DEF SessionInv, ProofInv
    <3>2. FullLengths(c)' <=> FullLengths(c)
      BY <2>10 DEF FullLengths
    <3>3. packet.ok = ok
      OBVIOUS
    <3> HIDE DEF packet
    <3>4. QED
      BY <3>1, <3>2, <3>3, <2>4, <2>8, <2>10, <2>11 DEF VerdictInv, SpoiledStays, NoPacket
  <2>15. \A d \in Conns \ {c} : Untouched(d)
    BY <1>1, <2>2 DEF Untouched, IInv, TypeOK
  <2>16. QED BY <2>11, <2>12, <2>13, <2>14, <2>15, OneConnection DEF ConnInv
<1>4. QED BY <1>2, <1>3

LEMMA RealmListLogon ==
  ASSUME IInv, FirstInv, NEW c \in Conns, HandleRealmList(c)
  PROVE  FirstInv'
<1>1. CASE Die("crashed") /\ UNCHANGED <<account, salts, client, attempts>>
  BY <1>1, DieLogon
<1>2. ASSUME UNCHANGED <<process, session>>, UNCHANGED <<account, client>>, Recv(c),
             \A d \in Conns \ {c} : conn'[d] = conn[d] /\ reply'[d] = reply[d],
             reply'[c] \in {reply[c], NoPacket, [cmd |-> "REALM_LIST"]},
             request[c].cmd = "REALM_LIST"
      PROVE  FirstInv'
  <2>1. SpoiledStays /\ RowsInv'
    BY <1>2, RowsKept DEF FirstInv
  <2>2. request' = [request EXCEPT ![c] = NoPacket] /\ request \in [Conns -> Requests]
    BY <1>2 DEF Recv, IInv, TypeOK
  <2>3. request[c] # NoPacket
    BY <1>2 DEF NoPacket
  <2>4. reply[c] = NoPacket
    BY <2>3 DEF IInv, SessionInv, PacketsLive
  <2>5. ConnInv(c)'
    BY <1>2, <2>1, <2>2, <2>4, QuietStep DEF NoPacket
  <2>6. \A d \in Conns \ {c} : Untouched(d)
    BY <1>2, <2>2 DEF Untouched
  <2>7. QED BY <2>1, <2>5, <2>6, OneConnection
<1>3. request[c].cmd = "REALM_LIST" /\ UNCHANGED <<account, salts, client, attempts>>
  BY DEF HandleRealmList, OnRead
<1>4. conn \in [Conns -> {"closed", "open", "leaked"}] /\ reply \in [Conns -> Replies]
  BY DEF IInv, TypeOK
<1>5. CASE /\ Recv(c) /\ conn' = [conn EXCEPT ![c] = "leaked"]
           /\ reply' = [reply EXCEPT ![c] = NoPacket] /\ UNCHANGED <<process, session>>
  BY <1>2, <1>3, <1>4, <1>5
<1>6. CASE /\ Recv(c) /\ Send(c, [cmd |-> "REALM_LIST"])
           /\ UNCHANGED <<process, conn, session>>
  BY <1>2, <1>3, <1>4, <1>6 DEF Send
<1>7. QED BY <1>1, <1>3, <1>5, <1>6 DEF HandleRealmList

LEMMA CloseLogon ==
  ASSUME IInv, FirstInv, NEW c \in Conns, HandleClose(c)
  PROVE  FirstInv'
<1>1. /\ session' = [session EXCEPT ![c] = NewSession]
      /\ request' = [request EXCEPT ![c] = NoPacket]
      /\ conn' = [conn EXCEPT ![c] = "closed"] /\ client[c].phase = "away"
      /\ UNCHANGED <<account, reply, client>>
  BY DEF HandleClose
<1>2. SpoiledStays /\ RowsInv'
  BY <1>1, RowsKept DEF FirstInv
<1>3. reply[c] = NoPacket
  BY <1>1 DEF IInv, SessionInv, PacketsLive
<1>4. ConnInv(c)'
  BY <1>1, <1>2, <1>3, QuietStep DEF IInv, TypeOK, NoPacket
<1>5. \A d \in Conns \ {c} : Untouched(d)
  BY <1>1 DEF Untouched, IInv, TypeOK
<1>6. QED BY <1>2, <1>4, <1>5, OneConnection
-----------------------------------------------------------------------------
(* Clients. *)

\* A client's step leaves the rows, and the sessions of other connections, alone.
LEMMA ClientLogon ==
  ASSUME IInv, FirstInv, NEW c \in Conns, UNCHANGED account,
         NEW ses, session' = [session EXCEPT ![c] = ses],
         NEW how, conn' = [conn EXCEPT ![c] = how],
         NEW cl, client' = [client EXCEPT ![c] = cl],
         NEW req, request' = [request EXCEPT ![c] = req],
         NEW rep, reply' = [reply EXCEPT ![c] = rep],
         SpoiledStays => ConnInv(c)'
  PROVE  FirstInv'
<1>1. SpoiledStays /\ RowsInv'
  BY RowsKept DEF FirstInv
<1>2. \A d \in Conns \ {c} : Untouched(d)
  BY DEF Untouched, IInv, TypeOK
<1>3. QED BY <1>1, <1>2, OneConnection

LEMMA ConnectLogon ==
  ASSUME IInv, FirstInv, NEW c \in Conns, Connect(c)
  PROVE  FirstInv'
<1> DEFINE cl == [NoClient EXCEPT !.phase = "connected"]
<1>1. /\ session' = [session EXCEPT ![c] = NewSession]
      /\ conn' = [conn EXCEPT ![c] = "open"]
      /\ client' = [client EXCEPT ![c] = cl]
      /\ conn[c] = "closed" /\ UNCHANGED <<account, request, reply>>
  BY DEF Connect
<1>2. cl.phase = "connected" /\ cl.logons = 0
  BY DEF NoClient
<1>3. request[c] = NoPacket /\ reply[c] = NoPacket
  BY <1>1 DEF IInv, SessionInv, PacketsLive
<1>4. /\ session'[c] = NewSession /\ client'[c] = cl /\ request'[c] = NoPacket
      /\ reply'[c] = NoPacket
      /\ request' = [request EXCEPT ![c] = request[c]]
      /\ reply' = [reply EXCEPT ![c] = reply[c]]
  BY <1>1, <1>3 DEF IInv, TypeOK
<1> HIDE DEF cl
<1>5. CountInv(c)'
  BY <1>2, <1>4, AuthServerAssumption DEF CountInv, NoPacket
<1>6. FreshInv(c)'
  BY <1>4, NewSessionFields, NewCurrent DEF FreshInv, NoPacket
<1>7. VerdictInv(c)'
  BY <1>2, <1>4 DEF VerdictInv
<1>8. QED BY <1>1, <1>4, <1>5, <1>6, <1>7, ClientLogon DEF ConnInv

LEMMA SendLogonChallengeLogon ==
  ASSUME IInv, FirstInv, NEW c \in Conns, NEW n \in Names, SendLogonChallenge(c, n)
  PROVE  FirstInv'
<1> DEFINE cl  == [client[c] EXCEPT !.phase = "challenging", !.name = n,
                                    !.logons = client[c].logons + 1]
           req == [cmd |-> "LOGON_CHALLENGE", name |-> n]
<1>1. /\ client[c].phase \in {"connected", "refused", "in"}
      /\ client[c].logons < MaxLogons
      /\ client' = [client EXCEPT ![c] = cl] /\ request' = [request EXCEPT ![c] = req]
      /\ UNCHANGED <<account, conn, session, reply>>
  BY DEF SendLogonChallenge, ClientSends
<1>2. /\ CountInv(c) /\ FreshInv(c) /\ SessionInv(c) /\ client[c] \in ClientType
  BY DEF IInv, TypeOK, FirstInv
<1>3. cl.phase = "challenging" /\ cl.name = n /\ cl.logons = client[c].logons + 1
  BY <1>2 DEF ClientType
<1>4. client[c].logons \in Nat /\ MaxLogons \in Nat
  BY <1>2, AuthServerAssumption DEF ClientType
<1>5. reply[c] = NoPacket
  BY <1>1, <1>2 DEF SessionInv, PacketsLive
<1>6. /\ client'[c] = cl /\ request'[c] = req /\ reply'[c] = NoPacket
      /\ session'[c] = session[c]
      /\ session' = [session EXCEPT ![c] = session[c]]
      /\ conn' = [conn EXCEPT ![c] = conn[c]]
      /\ reply' = [reply EXCEPT ![c] = reply[c]]
  BY <1>1, <1>5 DEF IInv, TypeOK
<1> HIDE DEF cl
<1>7. CountInv(c)'
  BY <1>1, <1>3, <1>4, <1>6 DEF CountInv
<1>8. FreshInv(c)'
  <2>1. CASE client[c].logons = 0
    <3>1. session'[c] = NewSession
      BY <1>2, <1>4, <1>6, <2>1 DEF FreshInv
    <3>2. QED BY <3>1, <1>6, NewSessionFields, NewCurrent DEF FreshInv, NoPacket
  <2>2. CASE client[c].logons # 0
    <3>1. ~(cl.logons <= 1)
      BY <1>3, <1>4, <2>2
    <3>2. QED BY <3>1, <1>6 DEF FreshInv
  <2>3. QED BY <2>1, <2>2
<1>9. VerdictInv(c)'
  BY <1>3, <1>6 DEF VerdictInv
<1> HIDE DEF req
<1>10. QED BY <1>1, <1>6, <1>7, <1>8, <1>9, ClientLogon DEF ConnInv

LEMMA SendLogonProofLogon ==
  ASSUME IInv, FirstInv, NEW c \in Conns, NEW pw \in Passwords, NEW a \in Secrets(c),
         SendLogonProof(c, pw, a)
  PROVE  FirstInv'
<1>1. PICK K, req, fresh :
        /\ client' = [client EXCEPT ![c] =
                        [@ EXCEPT !.phase = "proving", !.pw = pw, !.a = a, !.K = K,
                                  !.fresh = fresh]]
        /\ request' = [request EXCEPT ![c] = req] /\ req.cmd = "LOGON_PROOF"
        /\ reply' = [reply EXCEPT ![c] = NoPacket]
        /\ client[c].phase = "challenging" /\ reply[c].cmd = "LOGON_CHALLENGE"
        /\ UNCHANGED <<account, conn, session>>
  BY DEF SendLogonProof, ClientSends
<1> DEFINE cl == [client[c] EXCEPT !.phase = "proving", !.pw = pw, !.a = a, !.K = K,
                                   !.fresh = fresh]
<1>2. /\ CountInv(c) /\ FreshInv(c) /\ client[c] \in ClientType
      /\ client \in [Conns -> ClientType]
  BY DEF IInv, TypeOK, FirstInv
<1>3. /\ cl.phase = "proving" /\ cl.name = client[c].name
      /\ cl.logons = client[c].logons
  BY <1>2 DEF ClientType
<1>4. client' = [client EXCEPT ![c] = cl]
  BY <1>1, <1>2
<1>5. /\ client'[c] = cl /\ request'[c] = req /\ reply'[c] = NoPacket
      /\ session'[c] = session[c]
      /\ session' = [session EXCEPT ![c] = session[c]]
      /\ conn' = [conn EXCEPT ![c] = conn[c]]
  BY <1>1, <1>4 DEF IInv, TypeOK
<1> HIDE DEF cl
<1>6. CountInv(c)'
  BY <1>1, <1>2, <1>3, <1>5 DEF CountInv
<1>7. SpoiledStays => FreshInv(c)'
  BY <1>1, <1>2, <1>3, <1>5 DEF FreshInv, SpoiledStays, NoPacket
<1>8. VerdictInv(c)'
  BY <1>3, <1>5 DEF VerdictInv, NoPacket
<1>9. QED BY <1>1, <1>4, <1>5, <1>6, <1>7, <1>8, ClientLogon DEF ConnInv

\* The other steps of a client.
LEMMA PhaseLogon ==
  ASSUME IInv, FirstInv, NEW c \in Conns, NEW phase \in Phases,
         client' = [client EXCEPT ![c].phase = phase],
         NEW req, request' = [request EXCEPT ![c] = req],
         reply' = [reply EXCEPT ![c] = NoPacket],
         UNCHANGED <<account, conn, session>>,
         \/ req = request[c] \/ req.cmd \notin {"LOGON_CHALLENGE", "LOGON_PROOF"}
         \/ req.cmd = "LOGON_PROOF" /\ reply[c].cmd = "LOGON_CHALLENGE",
         \/ phase \in {"away", "in", "listing", "waiting"}
         \/ /\ phase = "refused" /\ client[c].phase = "proving"
            /\ reply[c].cmd = "LOGON_PROOF" /\ ~reply[c].ok
  PROVE  FirstInv'
<1> DEFINE cl == [client[c] EXCEPT !.phase = phase]
<1>1. /\ CountInv(c) /\ FreshInv(c) /\ VerdictInv(c) /\ client[c] \in ClientType
      /\ client \in [Conns -> ClientType]
  BY DEF IInv, TypeOK, FirstInv
<1>2. /\ cl.phase = phase /\ cl.name = client[c].name /\ cl.pw = client[c].pw
      /\ cl.a = client[c].a /\ cl.K = client[c].K
      /\ cl.logons = client[c].logons /\ client' = [client EXCEPT ![c] = cl]
  BY <1>1 DEF ClientType
<1>3. /\ client'[c] = cl /\ request'[c] = req /\ reply'[c] = NoPacket
      /\ session'[c] = session[c]
      /\ session' = [session EXCEPT ![c] = session[c]]
      /\ conn' = [conn EXCEPT ![c] = conn[c]]
  BY <1>2 DEF IInv, TypeOK
<1> HIDE DEF cl
<1>4. CountInv(c)'
  BY <1>1, <1>2, <1>3 DEF CountInv
<1>5. SpoiledStays => FreshInv(c)'
  BY <1>1, <1>2, <1>3 DEF FreshInv, SpoiledStays, NoPacket
<1>6. SpoiledStays => VerdictInv(c)'
  BY <1>1, <1>2, <1>3 DEF VerdictInv, FullLengths, CountInv, SpoiledStays, NoPacket
<1>7. QED BY <1>2, <1>3, <1>4, <1>5, <1>6, ClientLogon DEF ConnInv

LEMMA ClientStepLogon ==
  ASSUME IInv, FirstInv, NEW c \in Conns, ClientStep(c)
  PROVE  FirstInv'
<1>1. /\ SessionInv(c) /\ request = [request EXCEPT ![c] = request[c]]
      /\ reply[c] = NoPacket => reply = [reply EXCEPT ![c] = NoPacket]
      /\ reply[c] \in Replies
  BY DEF IInv, TypeOK
<1>2. CASE ReceiveResult(c)
  <2> DEFINE phase == IF reply[c].ok THEN "in" ELSE "refused"
  <2>1. /\ client[c].phase = "proving" /\ reply[c].cmd = "LOGON_PROOF"
        /\ client' = [client EXCEPT ![c].phase = phase]
        /\ reply' = [reply EXCEPT ![c] = NoPacket]
        /\ UNCHANGED <<account, conn, session, request>>
    BY <1>2 DEF ReceiveResult
  <2>2. phase \in Phases /\ (phase = "in" \/ (phase = "refused" /\ ~reply[c].ok))
    BY DEF Phases
  <2>3. request' = [request EXCEPT ![c] = request[c]]
    BY <1>1, <2>1
  <2> HIDE DEF phase
  <2>4. QED BY <2>1, <2>2, <2>3, PhaseLogon
<1>3. CASE SendRealmList(c)
  <2>1. /\ client[c].phase = "in"
        /\ client' = [client EXCEPT ![c].phase = "listing"]
        /\ request' = [request EXCEPT ![c] = [cmd |-> "REALM_LIST"]]
        /\ UNCHANGED <<account, conn, session, reply>>
    BY <1>3 DEF SendRealmList, ClientSends
  <2>2. reply' = [reply EXCEPT ![c] = NoPacket]
    BY <1>1, <2>1 DEF SessionInv, PacketsLive
  <2>3. QED BY <2>1, <2>2, PhaseLogon DEF Phases
<1>4. CASE ReceiveRealmList(c)
  <2>1. /\ client' = [client EXCEPT ![c].phase = "in"]
        /\ reply' = [reply EXCEPT ![c] = NoPacket]
        /\ UNCHANGED <<account, conn, session, request>>
    BY <1>4 DEF ReceiveRealmList
  <2>2. request' = [request EXCEPT ![c] = request[c]]
    BY <1>1, <2>1
  <2>3. QED BY <2>1, <2>2, PhaseLogon DEF Phases
<1>5. CASE SendReconnect(c)
  <2>1. /\ client[c].phase = "connected"
        /\ client' = [client EXCEPT ![c].phase = "waiting"]
        /\ request' = [request EXCEPT ![c] = [cmd |-> "RECONNECT_CHALLENGE"]]
        /\ UNCHANGED <<account, conn, session, reply>>
    BY <1>5 DEF SendReconnect, ClientSends
  <2>2. reply' = [reply EXCEPT ![c] = NoPacket]
    BY <1>1, <2>1 DEF SessionInv, PacketsLive
  <2>3. QED BY <2>1, <2>2, PhaseLogon DEF Phases
<1>6. CASE Leave(c)
  <2>1. /\ client' = [client EXCEPT ![c].phase = "away"]
        /\ reply' = [reply EXCEPT ![c] = NoPacket]
        /\ UNCHANGED <<account, conn, session>>
        /\ request' \in {request, [request EXCEPT ![c] = NoPacket]}
    BY <1>6 DEF Leave
  <2>2. CASE request' = request
    BY <1>1, <2>1, <2>2, PhaseLogon DEF Phases
  <2>3. CASE request' = [request EXCEPT ![c] = NoPacket]
    BY <2>1, <2>3, PhaseLogon DEF Phases, NoPacket
  <2>4. QED BY <2>1, <2>2, <2>3
<1>7. CASE SendZeroProof(c)
  <2>1. /\ client' = [client EXCEPT ![c].phase = "waiting"]
        /\ request' = [request EXCEPT ![c] = [cmd |-> "LOGON_PROOF", A |-> Zero, M1 |-> Zero]]
        /\ reply' = [reply EXCEPT ![c] = NoPacket] /\ reply[c].cmd = "LOGON_CHALLENGE"
        /\ UNCHANGED <<account, conn, session>>
    BY <1>7 DEF SendZeroProof, ClientSends
  <2>2. QED BY <2>1, PhaseLogon DEF Phases
<1>8. QED
  BY <1>2, <1>3, <1>4, <1>5, <1>6, <1>7, ConnectLogon, SendLogonChallengeLogon,
     SendLogonProofLogon DEF ClientStep
-----------------------------------------------------------------------------
(* The invariant, and what follows from it. *)

\* A step that changes at most rows, and deletes those it changes.
LEMMA RowsLogon ==
  ASSUME IInv, FirstInv, UNCHANGED <<conn, session, request, reply, client>>,
         \A n \in Names : account'[n] = account[n] \/ account'[n] = Row("absent", n)
  PROVE  FirstInv'
<1>1. SpoiledStays /\ RowsInv'
  BY RowsKept DEF FirstInv
<1>2. \A c \in Conns : ConnInv(c)'
  BY <1>1, UntouchedLogon DEF Untouched, FirstInv, ConnInv
<1>3. QED BY <1>1, <1>2 DEF FirstInv, ConnInv

LEMMA InitiallyLogon == Init => FirstInv
<1> SUFFICES ASSUME Init PROVE FirstInv
  OBVIOUS
<1>1. PICK kind \in [Names -> Rows] : account = [n \in Names |-> Row(kind[n], n)]
  BY DEF Init
<1>2. ASSUME NEW n \in Names PROVE Consistent(n)
  BY <1>1 DEF Consistent, Row, Zero
<1>3. ASSUME NEW c \in Conns PROVE ConnInv(c)
  <2>1. /\ session[c] = NewSession /\ request[c] = NoPacket /\ reply[c] = NoPacket
        /\ client[c] = NoClient
    BY DEF Init
  <2>2. NoClient.phase = "away" /\ NoClient.logons = 0
    BY DEF NoClient
  <2>3. CountInv(c)
    BY <2>1, <2>2, AuthServerAssumption DEF CountInv, NoPacket
  <2>4. FreshInv(c)
    BY <2>1, NewSessionFields, NewCurrent DEF FreshInv, NoPacket
  <2>5. VerdictInv(c)
    BY <2>1, <2>2 DEF VerdictInv
  <2>6. QED BY <2>3, <2>4, <2>5 DEF ConnInv
<1>4. QED BY <1>2, <1>3 DEF FirstInv, ConnInv, RowsInv, RowsConsistent

LEMMA InductiveLogon == IInv /\ FirstInv /\ [Next]_vars => FirstInv'
<1> SUFFICES ASSUME IInv, FirstInv, [Next]_vars PROVE FirstInv'
  OBVIOUS
<1>1. ASSUME NEW c \in Conns, HandleInput(c) PROVE FirstInv'
  BY <1>1, ChallengeLogon, ProofLogon, RealmListLogon, CloseLogon DEF HandleInput
<1>2. ASSUME NEW c \in Conns, ClientStep(c) PROVE FirstInv'
  BY <1>2, ClientStepLogon
<1>3. CASE Stop
  BY <1>3, DieLogon DEF Stop
<1>4. CASE Restart
  BY <1>4, RowsLogon DEF Restart
<1>5. ASSUME NEW n \in Names, RemoveAccount(n) PROVE FirstInv'
  BY <1>5, RowsLogon DEF RemoveAccount, IInv, TypeOK
<1>6. CASE UNCHANGED vars
  BY <1>6, RowsLogon DEF vars
<1>7. QED BY <1>1, <1>2, <1>3, <1>4, <1>5, <1>6 DEF Next

\* On the first logon of every connection no array of s and B is old, there is
\* none of K before the proof, and v is the verifier of s unless they come from a
\* row that a later logon spoiled; so the right password is refused only for such
\* a row or a number of the logon that came out short.
THEOREM FirstLogon == Spec => []FirstInv
BY Invariance, InitiallyLogon, InductiveLogon, PTL DEF Spec

LEMMA Explained == IInv /\ FirstInv => RefusalExplained
BY DEF FirstInv, VerdictInv, RefusalExplained, Spoiled

\* A right password refused on the first logon of its connection is refused for
\* what the row holds or because A, B, S, K or M came out short: no interleaving
\* of handlers, failed UPDATE, lost packet or restart does it
\* (_HandleLogonChallenge, _HandleLogonProof).
THEOREM RefusalsExplained == Spec => []RefusalExplained
BY Invariance, FirstLogon, Explained, PTL

\* If no connection is used for a second logon, every row with a salt holds the
\* verifier of that salt, whatever is cut short (_SetVSFields).
THEOREM RowsStayConsistent ==
  ASSUME MaxLogons <= 1 PROVE Spec => []RowsConsistent
<1>1. FirstInv => RowsConsistent
  BY DEF FirstInv, RowsInv
<1>2. QED BY <1>1, FirstLogon, PTL

LEMMA NoneRefused ==
  ASSUME MaxLogons <= 1, IInv, FirstInv PROVE RightPasswordAccepted
<1> SUFFICES ASSUME NEW c \in Conns, client[c].phase = "refused",
                    client[c].pw = PasswordOf[client[c].name]
             PROVE  ~FullLengths(c)
  BY DEF RightPasswordAccepted
<1>1. client[c].logons \in Nat /\ client[c].logons <= MaxLogons /\ MaxLogons \in Nat
  BY AuthServerAssumption DEF FirstInv, CountInv, IInv, TypeOK, ClientType
<1>2. client[c].logons <= 1 /\ ~(MaxLogons > 1)
  BY <1>1
<1>3. QED BY <1>2 DEF FirstInv, VerdictInv

\* If no connection is used for a second logon, whoever typed the right password
\* is not refused, unless A, B, S, K or M of the logon came out short
\* (_HandleLogonProof, BigNumber::AsByteArray).
THEOREM RightPasswordsAccepted ==
  ASSUME MaxLogons <= 1 PROVE Spec => []RightPasswordAccepted
<1>1. IInv /\ FirstInv => RightPasswordAccepted
  BY NoneRefused
<1>2. QED BY <1>1, Invariance, FirstLogon, PTL
-----------------------------------------------------------------------------
(* The logon service. *)

stages == [c \in Conns |-> Stage(c)]
claims == [c \in Conns |-> Claim(c)]

\* The stage of a client by its phase.
StageOf(phase) ==
  CASE phase = "away" -> "away"
    [] phase \in {"connected", "challenging", "waiting"} -> "connected"
    [] phase = "proving" -> "claimed"
    [] phase \in {"in", "listing"} -> "accepted"
    [] phase = "refused" -> "refused"

\* FullLengths, by what the client knows.
LuckyOf(cl) ==
  Size(cl.a) = FieldBytes /\ cl.K[1].B.of[1].b.size = FullSizes

ClaimOf(cl) ==
  IF StageOf(cl.phase) \in {"claimed", "accepted", "refused"}
  THEN <<cl.name, cl.pw, LuckyOf(cl)>> ELSE <<>>

LEMMA Stages ==
  /\ StageOf("away") = "away" /\ StageOf("proving") = "claimed"
  /\ StageOf("connected") = "connected" /\ StageOf("challenging") = "connected"
  /\ StageOf("waiting") = "connected"
  /\ StageOf("in") = "accepted" /\ StageOf("listing") = "accepted"
  /\ StageOf("refused") = "refused"
BY DEF StageOf

LEMMA Mapping ==
  /\ stages = [c \in Conns |-> StageOf(client[c].phase)]
  /\ claims = [c \in Conns |-> ClaimOf(client[c])]
BY DEF stages, claims, Stage, Claim, StageOf, ClaimOf, FullLengths, LuckyOf

LEMMA MappingPrime ==
  /\ stages' = [c \in Conns |-> StageOf(client'[c].phase)]
  /\ claims' = [c \in Conns |-> ClaimOf(client'[c])]
BY DEF stages, claims, Stage, Claim, StageOf, ClaimOf, FullLengths, LuckyOf

\* A step of one client, as the service sees it.
LEMMA OneClient ==
  ASSUME IInv, NEW c \in Conns, NEW cl, client' = [client EXCEPT ![c] = cl]
  PROVE  /\ stages' = [stages EXCEPT ![c] = StageOf(cl.phase)]
         /\ claims' = [claims EXCEPT ![c] = ClaimOf(cl)]
         /\ stages[c] = StageOf(client[c].phase)
         /\ claims[c] = ClaimOf(client[c])
<1>1. client'[c] = cl /\ \A d \in Conns \ {c} : client'[d] = client[d]
  BY DEF IInv, TypeOK
<1>2. stages' = [stages EXCEPT ![c] = StageOf(cl.phase)]
  BY <1>1, Mapping, MappingPrime
<1>3. claims' = [claims EXCEPT ![c] = ClaimOf(cl)]
  BY <1>1, Mapping, MappingPrime
<1>4. QED BY <1>2, <1>3, Mapping

LEMMA SameClients ==
  ASSUME UNCHANGED client PROVE UNCHANGED <<stages, claims>>
BY Mapping, MappingPrime

LEMMA SeenByService ==
  /\ Service!svars = <<stages, claims>>
  /\ Service!SInit <=> /\ stages = [c \in Conns |-> "away"]
                       /\ claims = [c \in Conns |-> <<>>]
BY DEF Service!svars, Service!SInit, stages, claims

\* A client that stays where the service sees it.
LEMMA SamePlace ==
  ASSUME IInv, NEW c \in Conns, NEW cl, client' = [client EXCEPT ![c] = cl],
         StageOf(cl.phase) = StageOf(client[c].phase),
         ClaimOf(cl) = ClaimOf(client[c])
  PROVE  UNCHANGED <<stages, claims>>
<1>1. /\ stages' = [stages EXCEPT ![c] = stages[c]]
      /\ claims' = [claims EXCEPT ![c] = claims[c]]
  BY OneClient
<1>2. /\ stages = [stages EXCEPT ![c] = stages[c]]
      /\ claims = [claims EXCEPT ![c] = claims[c]]
  BY Mapping
<1>3. QED BY <1>1, <1>2

LEMMA ServiceStep ==
  ASSUME MaxLogons <= 1, IInv, FirstInv, [Next]_vars
  PROVE  [Service!SNext]_<<stages, claims>>
<1>1. ASSUME NEW c \in Conns, HandleInput(c) PROVE UNCHANGED client
  BY <1>1 DEF HandleInput, HandleLogonChallenge, HandleLogonProof, HandleRealmList,
              HandleClose
<1>2. ASSUME NEW c \in Conns, Connect(c) PROVE Service!SNext
  <2> DEFINE cl == [NoClient EXCEPT !.phase = "connected"]
  <2>1. client' = [client EXCEPT ![c] = cl] /\ client[c].phase = "away"
    BY <1>2 DEF Connect
  <2>2. cl.phase = "connected"
    BY DEF NoClient
  <2>3. ClaimOf(cl) = <<>> /\ ClaimOf(client[c]) = <<>>
    BY <2>1, <2>2, Stages DEF ClaimOf
  <2> HIDE DEF cl
  <2>4. /\ stages[c] = "away" /\ stages' = [stages EXCEPT ![c] = "connected"]
        /\ claims' = [claims EXCEPT ![c] = claims[c]]
    <3>1. /\ stages' = [stages EXCEPT ![c] = StageOf(cl.phase)]
          /\ claims' = [claims EXCEPT ![c] = ClaimOf(cl)]
          /\ stages[c] = StageOf(client[c].phase) /\ claims[c] = ClaimOf(client[c])
      BY <2>1, OneClient
    <3>2. QED BY <3>1, <2>1, <2>2, <2>3, Stages
  <2>5. claims' = claims
    BY <2>4, Mapping
  <2>6. Service!Arrive(c)
    BY <2>4, <2>5 DEF Service!Arrive, stages, claims
  <2>7. QED BY <2>6 DEF Service!SNext
<1>3. ASSUME NEW c \in Conns, NEW n \in Names, SendLogonChallenge(c, n)
      PROVE  [Service!SNext]_<<stages, claims>>
  <2> DEFINE cl == [client[c] EXCEPT !.phase = "challenging", !.name = n,
                                     !.logons = client[c].logons + 1]
  <2>1. /\ client' = [client EXCEPT ![c] = cl] /\ client[c] \in ClientType
        /\ client[c].phase \in {"connected", "refused", "in"}
    BY <1>3 DEF SendLogonChallenge, IInv, TypeOK
  <2>2. cl.phase = "challenging"
    BY <2>1 DEF ClientType
  <2>3. ClaimOf(cl) = <<>>
    BY <2>2, Stages DEF ClaimOf
  <2> HIDE DEF cl
  <2>4. CASE client[c].phase = "connected"
    <3>1. ClaimOf(client[c]) = <<>>
      BY <2>4, Stages DEF ClaimOf
    <3>2. QED BY <2>1, <2>2, <2>3, <2>4, <3>1, Stages, SamePlace
  <2>5. CASE client[c].phase \in {"refused", "in"}
    <3>1. /\ stages[c] \in {"accepted", "refused"}
          /\ stages' = [stages EXCEPT ![c] = "connected"]
          /\ claims' = [claims EXCEPT ![c] = <<>>]
      <4>1. /\ stages' = [stages EXCEPT ![c] = StageOf(cl.phase)]
            /\ claims' = [claims EXCEPT ![c] = ClaimOf(cl)]
            /\ stages[c] = StageOf(client[c].phase) /\ claims[c] = ClaimOf(client[c])
        BY <2>1, OneClient
      <4>2. QED BY <4>1, <2>1, <2>2, <2>3, <2>5, Stages
    <3>2. Service!StartAgain(c)
      BY <3>1 DEF Service!StartAgain, stages, claims
    <3>3. QED BY <3>2 DEF Service!SNext
  <2>6. QED BY <2>1, <2>4, <2>5
<1>4. ASSUME NEW c \in Conns, NEW pw \in Passwords, NEW a \in Secrets(c),
             SendLogonProof(c, pw, a)
      PROVE  Service!SNext
  <2>1. PICK K, fresh :
          client' = [client EXCEPT ![c] =
                       [@ EXCEPT !.phase = "proving", !.pw = pw, !.a = a, !.K = K,
                                 !.fresh = fresh]]
    BY <1>4 DEF SendLogonProof
  <2> DEFINE cl == [client[c] EXCEPT !.phase = "proving", !.pw = pw, !.a = a, !.K = K,
                                     !.fresh = fresh]
             lucky == LuckyOf(cl)
  <2>2. /\ client[c].phase = "challenging" /\ client[c] \in ClientType
        /\ client[c].name \in Names /\ client \in [Conns -> ClientType]
    BY <1>4 DEF SendLogonProof, IInv, TypeOK, FirstInv, CountInv
  <2>3. client' = [client EXCEPT ![c] = cl]
    BY <2>1, <2>2
  <2>4. cl.phase = "proving" /\ cl.name = client[c].name /\ cl.pw = pw
    BY <2>2 DEF ClientType
  <2>5. ClaimOf(cl) = <<client[c].name, pw, lucky>>
    BY <2>4, Stages DEF ClaimOf
  <2>6. lucky \in BOOLEAN
    BY DEF LuckyOf
  <2> HIDE DEF cl, lucky
  <2>7. /\ stages[c] = "connected" /\ stages' = [stages EXCEPT ![c] = "claimed"]
        /\ claims' = [claims EXCEPT ![c] = <<client[c].name, pw, lucky>>]
    <3>1. /\ stages' = [stages EXCEPT ![c] = StageOf(cl.phase)]
          /\ claims' = [claims EXCEPT ![c] = ClaimOf(cl)]
          /\ stages[c] = StageOf(client[c].phase) /\ claims[c] = ClaimOf(client[c])
      BY <2>3, OneClient
    <3>2. QED BY <3>1, <2>2, <2>4, <2>5, Stages
  <2>8. Service!MakeClaim(c, client[c].name, pw, lucky)
    BY <2>7 DEF Service!MakeClaim, stages, claims
  <2>9. QED BY <2>2, <2>6, <2>8 DEF Service!SNext
<1>5. ASSUME NEW c \in Conns, ReceiveResult(c) PROVE Service!SNext
  <2> DEFINE phase == IF reply[c].ok THEN "in" ELSE "refused"
             cl    == [client[c] EXCEPT !.phase = phase]
             lucky == LuckyOf(client[c])
             right == client[c].pw = PasswordOf[client[c].name]
  <2>1. /\ client[c].phase = "proving" /\ reply[c].cmd = "LOGON_PROOF"
        /\ client' = [client EXCEPT ![c].phase = phase]
        /\ client[c] \in ClientType /\ client \in [Conns -> ClientType]
        /\ VerdictInv(c) /\ CountInv(c) /\ SessionInv(c)
    BY <1>5 DEF ReceiveResult, IInv, TypeOK, FirstInv
  <2>2. client' = [client EXCEPT ![c] = cl]
    BY <2>1
  <2>3. /\ cl.phase = phase /\ cl.name = client[c].name /\ cl.pw = client[c].pw
        /\ cl.a = client[c].a /\ cl.K = client[c].K
    BY <2>1 DEF ClientType
  <2>4. client[c].logons <= 1 /\ ~(MaxLogons > 1)
    <3>1. client[c].logons \in Nat /\ client[c].logons <= MaxLogons /\ MaxLogons \in Nat
      BY <2>1, AuthServerAssumption DEF CountInv, ClientType
    <3>2. QED BY <3>1
  <2>5. reply[c].ok => right
    BY <2>1 DEF SessionInv, ToldInv, Told
  <2>6. ~reply[c].ok => ~(right /\ lucky)
    BY <2>1, <2>4 DEF VerdictInv, FullLengths, LuckyOf
  <2>7. ClaimOf(client[c]) = <<client[c].name, client[c].pw, lucky>>
    BY <2>1, Stages DEF ClaimOf
  <2>8. ClaimOf(cl) = ClaimOf(client[c])
    BY <2>3, <2>7, Stages DEF ClaimOf, LuckyOf
  <2>9. \/ right /\ StageOf(cl.phase) = "accepted"
        \/ ~(right /\ lucky) /\ StageOf(cl.phase) = "refused"
    BY <2>3, <2>5, <2>6, Stages
  <2> HIDE DEF cl, phase, lucky
  <2>10. /\ stages[c] = "claimed"
         /\ claims[c] = <<client[c].name, client[c].pw, lucky>>
         /\ stages' = [stages EXCEPT ![c] = StageOf(cl.phase)]
         /\ claims' = [claims EXCEPT ![c] = claims[c]]
    <3>1. /\ stages' = [stages EXCEPT ![c] = StageOf(cl.phase)]
          /\ claims' = [claims EXCEPT ![c] = ClaimOf(cl)]
          /\ stages[c] = StageOf(client[c].phase) /\ claims[c] = ClaimOf(client[c])
      BY <2>2, OneClient
    <3>2. QED BY <3>1, <2>1, <2>2, <2>7, <2>8, Stages
  <2>11. claims' = claims
    BY <2>10, Mapping
  <2>12. Service!Right(c) = right /\ claims[c][3] = lucky
    BY <2>10 DEF Service!Right, claims
  <2>13. Service!Decide(c)
    BY <2>9, <2>10, <2>11, <2>12 DEF Service!Decide, stages, claims
  <2>14. QED BY <2>13 DEF Service!SNext
<1>6. ASSUME NEW c \in Conns, NEW phase, client' = [client EXCEPT ![c].phase = phase],
             <<client[c].phase, phase>> \in
               {<<"in", "listing">>, <<"listing", "in">>, <<"connected", "waiting">>,
                <<"challenging", "waiting">>}
      PROVE  UNCHANGED <<stages, claims>>
  <2> DEFINE cl == [client[c] EXCEPT !.phase = phase]
  <2>1. client[c] \in ClientType /\ client' = [client EXCEPT ![c] = cl]
    BY <1>6 DEF IInv, TypeOK
  <2>2. /\ cl.phase = phase /\ cl.name = client[c].name /\ cl.pw = client[c].pw
        /\ cl.a = client[c].a /\ cl.K = client[c].K
    BY <2>1 DEF ClientType
  <2>3. StageOf(cl.phase) = StageOf(client[c].phase)
    BY <1>6, <2>2, Stages
  <2>4. ClaimOf(cl) = ClaimOf(client[c])
    BY <2>2, <2>3 DEF ClaimOf, LuckyOf
  <2> HIDE DEF cl
  <2>5. QED BY <2>1, <2>3, <2>4, SamePlace
<1>7. ASSUME NEW c \in Conns, Leave(c) PROVE Service!SNext
  <2> DEFINE cl == [client[c] EXCEPT !.phase = "away"]
  <2>1. /\ client[c].phase # "away" /\ client[c] \in ClientType
        /\ client' = [client EXCEPT ![c] = cl]
    BY <1>7 DEF Leave, IInv, TypeOK
  <2>2. cl.phase = "away"
    BY <2>1 DEF ClientType
  <2>3. ClaimOf(cl) = <<>>
    BY <2>2, Stages DEF ClaimOf
  <2>4. StageOf(client[c].phase) # "away"
    BY <2>1, Stages DEF ClientType, Phases
  <2> HIDE DEF cl
  <2>5. /\ stages[c] # "away" /\ stages' = [stages EXCEPT ![c] = "away"]
        /\ claims' = [claims EXCEPT ![c] = <<>>]
    <3>1. /\ stages' = [stages EXCEPT ![c] = StageOf(cl.phase)]
          /\ claims' = [claims EXCEPT ![c] = ClaimOf(cl)]
          /\ stages[c] = StageOf(client[c].phase) /\ claims[c] = ClaimOf(client[c])
      BY <2>1, OneClient
    <3>2. QED BY <3>1, <2>1, <2>2, <2>3, <2>4, Stages
  <2>6. Service!Depart(c)
    BY <2>5 DEF Service!Depart, stages, claims
  <2>7. QED BY <2>6 DEF Service!SNext
<1>8. ASSUME NEW c \in Conns, ClientStep(c) PROVE [Service!SNext]_<<stages, claims>>
  <2>1. ASSUME SendRealmList(c) \/ ReceiveRealmList(c) \/ SendReconnect(c)
               \/ SendZeroProof(c)
        PROVE  UNCHANGED <<stages, claims>>
    BY <2>1, <1>6 DEF SendRealmList, ReceiveRealmList, SendReconnect, SendZeroProof
  <2>2. QED BY <1>2, <1>3, <1>4, <1>5, <1>7, <1>8, <2>1 DEF ClientStep
<1>9. CASE UNCHANGED client
  BY <1>9, SameClients
<1>10. QED
  BY <1>1, <1>8, <1>9 DEF Next, Stop, Restart, RemoveAccount, vars

\* If no connection is used for a second logon, what a client learns is decided
\* by the name and the password it typed, and by the lengths of the numbers drawn
\* for its logon, and by nothing else: the server implements LogonService.
THEOREM Refinement ==
  ASSUME MaxLogons <= 1 PROVE Spec => ImplementsLogonService
<1>1. Init => Service!SInit
  BY Stages, Mapping, SeenByService DEF Init, NoClient, ClaimOf
<1>2. IInv /\ FirstInv /\ [Next]_vars => [Service!SNext]_Service!svars
  BY ServiceStep DEF Service!svars, stages, claims
<1>3. QED
  BY <1>1, <1>2, Invariance, FirstLogon, PTL
  DEF Spec, ImplementsLogonService, Service!Spec
=============================================================================
