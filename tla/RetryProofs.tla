----------------------------- MODULE RetryProofs -----------------------------
(***************************************************************************)
(* Theorems about AuthServer and what becomes of the rows of the table when *)
(* logons follow others on a connection, as many as there may be.           *)
(***************************************************************************)
EXTENDS LogonProofs

(* Rows. *)

\* What a step does to the rows: it keeps them, deletes some, or is the UPDATE of
\* a row without a full verifier, by a challenge for it.
RowsStep ==
  \/ \A n \in Names : account'[n] = account[n] \/ account'[n] = Row("absent", n)
  \/ \E c \in Conns, size \in VerifierSizes :
       LET n    == request[c].name
           salt == Salt(salts + 1, size)
           s    == Assign(session[c].s, salt)
       IN  /\ request[c].cmd = "LOGON_CHALLENGE" /\ n \in Names
           /\ ~HasVerifier(account[n])
           /\ account' = UpdateRow(n, Verifier(AsByteArray(s, 0), Hash(n)), salt)

LEMMA ChallengeRows ==
  ASSUME IInv, NEW c \in Conns, HandleLogonChallenge(c)
  PROVE  RowsStep
<1> DEFINE n == request[c].name
<1>1. request[c].cmd = "LOGON_CHALLENGE" /\ n \in Names
  BY RequestTypes DEF HandleLogonChallenge, OnRead, IInv, TypeOK
<1>2. CASE account' = account
  BY <1>2 DEF RowsStep
<1>3. CASE ~HasVerifier(account[n]) /\ SetVSFields(c, n)
  <2>1. PICK size \in VerifierSizes, saved \in Saved :
          LET salt == Salt(salts + 1, size)
              s    == Assign(session[c].s, salt)
              v    == Verifier(AsByteArray(s, 0), Hash(n))
          IN  account' = IF saved THEN UpdateRow(n, v, salt) ELSE account
    BY <1>3 DEF SetVSFields
  <2>2. QED BY <1>1, <1>2, <1>3, <2>1 DEF RowsStep
<1>4. QED BY <1>2, <1>3 DEF HandleLogonChallenge

LEMMA NextRows == ASSUME IInv, [Next]_vars PROVE RowsStep
<1>1. CASE account' = account
  BY <1>1 DEF RowsStep
<1>2. ASSUME NEW c \in Conns, HandleInput(c) PROVE RowsStep
  BY <1>1, <1>2, ChallengeRows
     DEF HandleInput, HandleLogonProof, HandleRealmList, HandleClose
<1>3. ASSUME NEW c \in Conns, ClientStep(c) PROVE account' = account
  BY <1>3 DEF ClientStep, Connect, SendLogonChallenge, SendLogonProof, ReceiveResult,
              SendRealmList, ReceiveRealmList, SendReconnect, SendZeroProof, Leave,
              ClientSends
<1>4. ASSUME NEW n \in Names, RemoveAccount(n) PROVE RowsStep
  BY <1>4 DEF RemoveAccount, RowsStep, IInv, TypeOK
<1>5. CASE Stop \/ Restart \/ UNCHANGED vars
  BY <1>1, <1>5 DEF Stop, Restart, vars
<1>6. QED BY <1>1, <1>2, <1>3, <1>4, <1>5 DEF Next

LEMMA UpdatedRow ==
  ASSUME IInv, NEW n \in Names, NEW v, NEW s, account' = UpdateRow(n, v, s)
  PROVE  /\ account'[n].v = v /\ account'[n].s = s
         /\ \A m \in Names \ {n} : account'[m] = account[m]
BY DEF IInv, TypeOK, UpdateRow, RowType

LEMMA WholeStep ==
  ASSUME IInv, RowsWhole, [Next]_vars PROVE RowsWhole'
<1>1. CASE \A n \in Names : account'[n] = account[n] \/ account'[n] = Row("absent", n)
  BY <1>1 DEF RowsWhole, Row
<1>2. ASSUME NEW n \in Names, NEW v, v # Zero, NEW s, s # Zero,
             account' = UpdateRow(n, v, s)
      PROVE  RowsWhole'
  BY <1>2, UpdatedRow DEF RowsWhole
<1>3. QED BY <1>1, <1>2, NextRows DEF RowsStep, Verifier, Salt, Zero

LEMMA WholeInitially == Init => RowsWhole
BY DEF Init, RowsWhole, Row, VerifierOf, Verifier, Salt, Zero

\* A row with a verifier of full size is never rewritten (_HandleLogonChallenge,
\* _SetVSFields).
THEOREM FullRowsKept == Spec => FullRowKept
<1>1. Init => RowsWhole
  BY WholeInitially
<1>2. IInv /\ RowsWhole /\ [Next]_vars => RowsWhole'
  BY WholeStep
<1>3. IInv /\ RowsWhole /\ [Next]_vars =>
        [\A n \in Names : HexSize(account[n].v) = 2 * SaltBytes =>
           account'[n] = account[n] \/ ~account'[n].exists]_vars
  <2> SUFFICES ASSUME IInv, RowsWhole, [Next]_vars, NEW n \in Names,
                      HexSize(account[n].v) = 2 * SaltBytes
               PROVE  account'[n] = account[n] \/ ~account'[n].exists
    OBVIOUS
  <2>1. HasVerifier(account[n])
    BY DEF RowsWhole, HasVerifier, HexSize, SaltBytes
  <2>2. CASE \A m \in Names :
               account'[m] = account[m] \/ account'[m] = Row("absent", m)
    BY <2>2, AbsentRow
  <2>3. ASSUME NEW m \in Names, ~HasVerifier(account[m]), NEW v, NEW s,
               account' = UpdateRow(m, v, s)
        PROVE  account'[n] = account[n]
    BY <2>1, <2>3, UpdatedRow
  <2>4. QED BY <2>2, <2>3, NextRows DEF RowsStep
<1>4. QED BY <1>1, <1>2, <1>3, Invariance, PTL DEF Spec, FullRowKept

\* Only a later logon on a connection spoils a row, by the salt array of an
\* earlier one (_SetVSFields, BigNumber::AsByteArray).
THEOREM SpoiledByRetries == Spec => SpoiledByRetry
<1>1. IInv /\ FirstInv /\ [Next]_vars =>
        [\A n \in Names : Consistent(n) /\ ~Consistent(n)' =>
           \E c \in Conns :
             /\ request[c].cmd = "LOGON_CHALLENGE" /\ request[c].name = n
             /\ client[c].logons > 1 /\ session[c].s.arrays[SaltBytes] # NoArray]_vars
  <2> SUFFICES ASSUME IInv, FirstInv, [Next]_vars, NEW n \in Names,
                      Consistent(n), ~Consistent(n)'
               PROVE  \E c \in Conns :
                        /\ request[c].cmd = "LOGON_CHALLENGE" /\ request[c].name = n
                        /\ client[c].logons > 1 /\ session[c].s.arrays[SaltBytes] # NoArray
    OBVIOUS
  <2>1. account'[n] # account[n] /\ account'[n] # Row("absent", n)
    BY AbsentRow DEF Consistent
  <2>2. PICK c \in Conns, size \in VerifierSizes :
          LET salt == Salt(salts + 1, size)
              s    == Assign(session[c].s, salt)
          IN  /\ request[c].cmd = "LOGON_CHALLENGE" /\ request[c].name \in Names
              /\ account' = UpdateRow(request[c].name,
                              Verifier(AsByteArray(s, 0), Hash(request[c].name)), salt)
    BY <2>1, NextRows DEF RowsStep
  <2> DEFINE salt == Salt(salts + 1, size)
             s    == Assign(session[c].s, salt)
             m    == request[c].name
  <2>3. m = n
    BY <2>1, <2>2, UpdatedRow
  <2>4. /\ account'[n].v = Verifier(AsByteArray(s, 0), Hash(n))
        /\ account'[n].s = salt
    BY <2>2, <2>3, UpdatedRow
  <2>5. AsByteArray(s, 0) # Field(salt, SaltBytes)
    BY <2>4 DEF Consistent, VerifierOf
  <2>6. session[c].s \in BigNumbers(Salts) /\ client[c].logons \in Nat
    BY FieldsTyped DEF IInv, TypeOK, ClientType
  <2>7. salt \in Salts /\ Size(salt) = SaltBytes
    <3>1. salts + 1 \in Nat
      BY DEF IInv, TypeOK
    <3>2. QED BY <3>1, SaltType, SizeTypes
  <2> HIDE DEF salt
  <2>8. s \in BigNumbers(Salts) /\ s.value = salt /\ s.arrays = session[c].s.arrays
    BY <2>6, <2>7, AssignType
  <2>9. session[c].s.arrays[SaltBytes] # NoArray
    <3>1. ArrayLength(s, 0) = SaltBytes
      BY <2>7, <2>8, SaltArray
    <3>2. Bytes(salt, SaltBytes) = Field(salt, SaltBytes)
      BY <2>7 DEF Bytes, Field
    <3> HIDE DEF s
    <3>3. QED BY <2>5, <2>8, <3>1, <3>2 DEF AsByteArray
  <2>10. session[c] # NewSession
    BY <2>9, LengthsKnown DEF NewSession, NewNumber
  <2>11. client[c].logons > 1
    BY <2>2, <2>6, <2>10 DEF FirstInv, FreshInv
  <2>12. QED BY <2>2, <2>3, <2>9, <2>11
<1>2. QED BY <1>1, Invariance, FirstLogon, PTL DEF Spec, SpoiledByRetry

\* On the first logons of all connections what FirstLogon says, and always that
\* the columns v and s of a row are set together (_SetVSFields).
THEOREM RowsAndLogons == Spec => []LogonInv
<1>1. Init => RowsWhole
  BY WholeInitially
<1>2. IInv /\ RowsWhole /\ [Next]_vars => RowsWhole'
  BY WholeStep
<1>3. QED BY <1>1, <1>2, Invariance, FirstLogon, PTL DEF Spec, LogonInv
=============================================================================
