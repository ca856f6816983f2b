----------------------------- MODULE AuthServer -----------------------------
(***************************************************************************)
(* The logon server (src/src/DWCore/AuthServer.cpp): one AuthServer object *)
(* per connection, the account table they share, and the clients.          *)
(*                                                                         *)
(* The process has one thread and its reactor runs one handler at a time,  *)
(* so a handler is one action; the handlers of different connections, the  *)
(* clients, and the death and restart of the process interleave freely.    *)
(* The clients are external and follow the protocol: a client sends one    *)
(* request and waits for the answer, proves what it computed from the      *)
(* password typed in, may mistype its password or its name, may log on     *)
(* again on its connection, refused or accepted, with its secret a drawn   *)
(* again or kept, and may leave at any time, gracefully or with its        *)
(* request lost.  The server takes what it is sent in any order and with   *)
(* any contents, and resets nothing: all that is said here of who is       *)
(* accepted is said of such clients.                                       *)
(***************************************************************************)
EXTENDS Naturals, BigNumber, Srp6

CONSTANTS
  Conns,         \* connections
  Names,         \* account names a client may type
  Passwords,     \* passwords a client may type
  PasswordOf,    \* the password sha_pass_hash was made from, by name
  Rows,          \* what the account table may hold at first for a name
  VerifierSizes, \* sizes v may have as a hexadecimal string
  ServerSizes,   \* sizes B, S, K and M of one logon may have in bytes
  ClientSizes,   \* sizes A may have in bytes
  SecretsKept,   \* whether a client may keep its a when it logs on again
  QueriesFail,   \* whether a query to MySQL may fail
  MaxLogons,     \* bound: logons a client tries on one connection
  MaxAttempts    \* bound: logons tried over all connections

RowKinds == {"absent", "null", "unset", "filled"}

ASSUME AuthServerAssumption ==
  /\ PasswordOf \in [Names -> Passwords]
  /\ Rows \subseteq RowKinds /\ Rows # {}
  /\ VerifierSizes \subseteq Nat
  /\ Lengths \subseteq Nat \ {0} /\ {SaltBytes, FieldBytes, KeyBytes} \subseteq Lengths
  /\ ServerSizes \subseteq [B : Lengths \cap (1 .. FieldBytes), S : 1 .. FieldBytes,
                          K : Lengths \cap (1 .. KeyBytes), M : 1 .. ProofBytes]
  /\ ClientSizes \subseteq Lengths \cap (1 .. FieldBytes)
  /\ SecretsKept \in BOOLEAN /\ QueriesFail \in BOOLEAN
  /\ MaxLogons \in Nat
  /\ MaxAttempts \in Nat

VARIABLES
  process,  \* "running", "stopped" (by its operator) or "crashed" (by a fault)
  account,  \* the rows of the table `account`, by name
  salts,    \* how many salts _SetVSFields has drawn
  conn,     \* "closed", "open", or "leaked": shut down, never deleted
  session,  \* the members of the AuthServer object of an open connection
  request,  \* the packet in the input buffer of a connection
  reply,    \* the packet under way to the client of a connection
  client,   \* what the client of a connection knows and waits for
  attempts  \* how many logons were tried

vars == <<process, account, salts, conn, session, request, reply, client, attempts>>

-----------------------------------------------------------------------------
(* The account table. *)

\* sha_pass_hash of a name's row, and what a client computes from what is typed.
Hash(n) == <<n, PasswordOf[n]>>

\* A salt: which draw it was, and the size its verifiers have.  It has its full
\* length, SetRand sets its top bit.
Salt(nr, size) == <<<<nr, size>>, SaltBytes>>

\* The number of hexadecimal digits of a stored v.  It depends on the salt v is
\* made from.  An unset column holds '0'.
HexSize(v) == IF v = Zero THEN 1 ELSE v[1].of[1][2]

\* The v that belongs to a name and its salt s.
VerifierOf(n, s) == Verifier(Field(s, SaltBytes), Hash(n))

\* A row as the administrator left it: the columns v and s can be NULL, '0', or
\* filled by an earlier run of the server.
Row(kind, n) ==
  LET salt == Salt(0, 2 * SaltBytes)
  IN  [exists |-> kind # "absent",
       null   |-> kind = "null",
       v      |-> IF kind = "filled" THEN VerifierOf(n, salt) ELSE Zero,
       s      |-> IF kind = "filled" THEN salt ELSE Zero]

\* Mutant: the size is counted in bytes, the column holds hexadecimal digits.
HasVerifierBytes(row) == HexSize(row.v) = SaltBytes /\ row.s # Zero

\* Whether the challenge takes v and s from the row: both have their full size.
HasVerifier(row) == HexSize(row.v) = 2 * SaltBytes /\ row.s # Zero

\* The outcomes of a SELECT on a name: a row or none, and none after an error.
Found(n) == {account[n].exists} \cup (IF QueriesFail THEN {FALSE} ELSE {})

\* The outcomes of an UPDATE, which the handler does not look at.
Saved == {TRUE} \cup (IF QueriesFail THEN {FALSE} ELSE {})

\* The row agrees with itself: v is the verifier of its own s.
Consistent(n) ==
  account[n].s # Zero => account[n].v = VerifierOf(n, account[n].s)

-----------------------------------------------------------------------------
(* Sessions and packets. *)

\* The AuthServer constructor, and OnAccept, which changes nothing.
NewSession ==
  [login |-> Zero, authed |-> FALSE, s |-> NewNumber, v |-> Zero, b |-> NoDraw,
   B |-> NewNumber, K |-> NewNumber]

NoPacket == [cmd |-> "NONE"]

\* Mutants: a proof needs a session that is logged on; the reconnect commands
\* hold the session.
ProofNeedsAuthed(c, cmd) ==
  \/ cmd = "LOGON_CHALLENGE"
  \/ cmd \in {"LOGON_PROOF", "REALM_LIST"} /\ session[c].authed
AcceptsReconnect(c, cmd) ==
  \/ cmd \in {"LOGON_CHALLENGE", "LOGON_PROOF", "RECONNECT_CHALLENGE"}
  \/ cmd = "REALM_LIST" /\ session[c].authed

\* table[] and its lookup in OnRead: the command at the head of the input
\* buffer has a handler in this session's status.  The handlers of the two
\* reconnect commands return false and leave the packet where it is: a session
\* that has one at its head does nothing until it is closed.
Accepts(c, cmd) ==
  \/ cmd \in {"LOGON_CHALLENGE", "LOGON_PROOF"}
  \/ cmd = "REALM_LIST" /\ session[c].authed

\* OnRead has the packet of connection c at the head of its input buffer.
OnRead(c, cmd) ==
  /\ process = "running" /\ conn[c] = "open"
  /\ request[c].cmd = cmd /\ Accepts(c, cmd)

\* recv: the packet leaves the input buffer.
Recv(c) == request' = [request EXCEPT ![c] = NoPacket]

\* send: the answer is for whoever still listens.
Send(c, packet) ==
  reply' = IF client[c].phase = "away" THEN reply
                                       ELSE [reply EXCEPT ![c] = packet]

\* The process ends: its connections and all that is on them are gone.
Die(how) ==
  /\ process' = how
  /\ conn'    = [c \in Conns |-> "closed"]
  /\ session' = [c \in Conns |-> NewSession]
  /\ request' = [c \in Conns |-> NoPacket]
  /\ reply'   = [c \in Conns |-> NoPacket]

-----------------------------------------------------------------------------
(* Handlers. *)

\* The second half of _HandleLogonChallenge, with s and v settled.
SendChallenge(c, n, s, v) ==
  \E size \in ServerSizes :
    LET b == [nr |-> session[c].b.nr + 1, size |-> size]
        B == Assign(session[c].B, PublicValue(v, b))
    IN  /\ Recv(c)
        /\ session' = [session EXCEPT ![c] =
                         [@ EXCEPT !.login = n, !.s = Converted(s, 0), !.v = v,
                                   !.b = b, !.B = Converted(B, FieldBytes)]]
        /\ Send(c, [cmd |-> "LOGON_CHALLENGE", s |-> AsByteArray(s, 0),
                    B |-> AsByteArray(B, FieldBytes)])
        /\ UNCHANGED <<process, conn>>

\* Mutant: the UPDATE leaves v as it was.
UpdateOnlySalt(n, v, s) == [account EXCEPT ![n].s = s]

\* UPDATE account SET v, s
UpdateRow(n, v, s) == [account EXCEPT ![n].v = v, ![n].s = s]

\* _SetVSFields: v comes from the bytes of s, the row gets the number s.
SetVSFields(c, n) ==
  \E size \in VerifierSizes, saved \in Saved :
    LET salt == Salt(salts + 1, size)
        s    == Assign(session[c].s, salt)
        v    == Verifier(AsByteArray(s, 0), Hash(n))
    IN  /\ salts' = salts + 1
        /\ account' = IF saved THEN UpdateRow(n, v, salt) ELSE account
        /\ SendChallenge(c, n, Converted(s, 0), v)

\* A name without a row and a row with NULL columns end in a null pointer.
HandleLogonChallenge(c) ==
  /\ OnRead(c, "LOGON_CHALLENGE")
  /\ LET n   == request[c].name
         row == account[n]
     IN  \E found \in Found(n) :
           \/ /\ ~found \/ row.null
              /\ Die("crashed")
              /\ UNCHANGED <<account, salts>>
           \/ /\ found /\ ~row.null /\ HasVerifier(row)
              /\ SendChallenge(c, n, Assign(session[c].s, row.s), row.v)
              /\ UNCHANGED <<account, salts>>
           \/ /\ found /\ ~row.null /\ ~HasVerifier(row)
              /\ SetVSFields(c, n)
  /\ UNCHANGED <<client, attempts>>

\* _HandleLogonProof.  A zero A is not answered.
HandleLogonProof(c) ==
  /\ OnRead(c, "LOGON_PROOF")
  /\ Recv(c)
  /\ \/ request[c].A = Zero /\ UNCHANGED <<session, reply>>
     \/ /\ request[c].A # Zero
        /\ LET ses == session[c]
               s   == AsByteArray(ses.s, 0)
               A   == Bytes(request[c].A, Size(request[c].A))
               B   == AsByteArray(ses.B, 0)
               K   == Assign(ses.K, ServerKey(A, B, ses.v, ses.b))
               M   == Proof(ses.login, s, A, B, AsByteArray(K, 0))
           IN  \E ok \in Compared(M, request[c].M1, ses.b.size.M) :
                 /\ session' = [session EXCEPT ![c] =
                      [ses EXCEPT !.s = Converted(ses.s, 0), !.B = Converted(ses.B, 0),
                                  !.K = Converted(K, 0), !.authed = ses.authed \/ ok]]
                 /\ Send(c, [cmd |-> "LOGON_PROOF", ok |-> ok])
  /\ UNCHANGED <<process, account, salts, conn, client, attempts>>

\* _HandleRealmList.  Without a row the connection is shut down and taken from
\* the reactor, which forgets it; nothing deletes it.  With a row, the delete of
\* a MYSQL_ROW is undefined: the server goes on, or does not.
HandleRealmList(c) ==
  /\ OnRead(c, "REALM_LIST")
  /\ \E found \in Found(session[c].login) :
       \/ /\ ~found
          /\ Recv(c)
          /\ conn' = [conn EXCEPT ![c] = "leaked"]
          /\ reply' = [reply EXCEPT ![c] = NoPacket]
          /\ UNCHANGED <<process, session>>
       \/ /\ found
          /\ Recv(c)
          /\ Send(c, [cmd |-> "REALM_LIST"])
          /\ UNCHANGED <<process, conn, session>>
       \/ found /\ Die("crashed")
  /\ UNCHANGED <<account, salts, client, attempts>>

\* handle_input reads the end of the stream, after all that was sent before it,
\* and the reactor closes and deletes the session.
HandleClose(c) ==
  /\ process = "running" /\ conn[c] = "open"
  /\ client[c].phase = "away"
  /\ ~Accepts(c, request[c].cmd)
  /\ conn'    = [conn EXCEPT ![c] = "closed"]
  /\ session' = [session EXCEPT ![c] = NewSession]
  /\ request' = [request EXCEPT ![c] = NoPacket]
  /\ UNCHANGED <<process, account, salts, reply, client, attempts>>

HandleInput(c) ==
  \/ HandleLogonChallenge(c)
  \/ HandleLogonProof(c)
  \/ HandleRealmList(c)
  \/ HandleClose(c)

-----------------------------------------------------------------------------
(* The clients, and what else happens around the server. *)

\* The a of a client that has drawn none: a number <<which draw it was, the size
\* of its A>>.
NoSecret == <<0, FieldBytes>>

NoClient ==
  [phase |-> "away", name |-> Zero, pw |-> Zero, a |-> NoSecret, fresh |-> FALSE,
   K |-> Zero, logons |-> 0]

\* A client connects: the acceptor makes an AuthServer for it.
Connect(c) ==
  /\ process = "running" /\ conn[c] = "closed"
  /\ client[c].phase = "away"
  /\ conn'    = [conn EXCEPT ![c] = "open"]
  /\ session' = [session EXCEPT ![c] = NewSession]
  /\ client'  = [client EXCEPT ![c] = [NoClient EXCEPT !.phase = "connected"]]
  /\ UNCHANGED <<process, account, salts, request, reply, attempts>>

\* A client whose connection is open sends a packet and waits in `phase`.
ClientSends(c, packet) ==
  /\ conn[c] = "open" /\ request[c] = NoPacket
  /\ request' = [request EXCEPT ![c] = packet]
  /\ UNCHANGED <<process, account, salts, conn, session>>

\* The user types a name, at first or when the last logon has been decided.
SendLogonChallenge(c, n) ==
  /\ client[c].phase \in {"connected", "refused", "in"}
  /\ client[c].logons < MaxLogons /\ attempts < MaxAttempts
  /\ ClientSends(c, [cmd |-> "LOGON_CHALLENGE", name |-> n])
  /\ attempts' = attempts + 1
  /\ client' = [client EXCEPT ![c] =
                  [@ EXCEPT !.phase = "challenging", !.name = n,
                            !.logons = client[c].logons + 1]]
  /\ UNCHANGED reply

\* The client answers a challenge with the password typed, and with an a that is
\* fresh or that of its last logon.
SendLogonProof(c, pw, a) ==
  /\ client[c].phase = "challenging" /\ reply[c].cmd = "LOGON_CHALLENGE"
  /\ LET n == client[c].name
         s == reply[c].s
         A == Field(a, FieldBytes)
         B == reply[c].B
         K == ClientKey(A, B, s, <<n, pw>>)
     IN  /\ ClientSends(c, [cmd |-> "LOGON_PROOF", A |-> a,
                            M1 |-> Proof(n, s, A, B, Field(K, KeyBytes))])
         /\ client' = [client EXCEPT ![c] =
                         [@ EXCEPT !.phase = "proving", !.pw = pw, !.a = a, !.K = K,
                                   !.fresh = a # client[c].a]]
  /\ reply' = [reply EXCEPT ![c] = NoPacket]
  /\ UNCHANGED attempts

\* The secrets a client may use next.
Secrets(c) ==
  {<<client[c].a[1] + 1, size>> : size \in ClientSizes}
    \cup (IF SecretsKept /\ client[c].a # NoSecret THEN {client[c].a} ELSE {})

\* A proof that is all zero, of a client that has no a.
SendZeroProof(c) ==
  /\ client[c].phase = "challenging" /\ reply[c].cmd = "LOGON_CHALLENGE"
  /\ ClientSends(c, [cmd |-> "LOGON_PROOF", A |-> Zero, M1 |-> Zero])
  /\ client' = [client EXCEPT ![c].phase = "waiting"]
  /\ reply' = [reply EXCEPT ![c] = NoPacket]
  /\ UNCHANGED attempts

\* The client learns whether it is logged on.
ReceiveResult(c) ==
  /\ client[c].phase = "proving" /\ reply[c].cmd = "LOGON_PROOF"
  /\ client' = [client EXCEPT ![c].phase = IF reply[c].ok THEN "in" ELSE "refused"]
  /\ reply' = [reply EXCEPT ![c] = NoPacket]
  /\ UNCHANGED <<process, account, salts, conn, session, request, attempts>>

\* A client that is logged on asks for the realms, again and again.
SendRealmList(c) ==
  /\ client[c].phase = "in"
  /\ ClientSends(c, [cmd |-> "REALM_LIST"])
  /\ client' = [client EXCEPT ![c].phase = "listing"]
  /\ UNCHANGED <<reply, attempts>>

ReceiveRealmList(c) ==
  /\ client[c].phase = "listing" /\ reply[c].cmd = "REALM_LIST"
  /\ client' = [client EXCEPT ![c].phase = "in"]
  /\ reply' = [reply EXCEPT ![c] = NoPacket]
  /\ UNCHANGED <<process, account, salts, conn, session, request, attempts>>

\* A client that was logged on before tries to resume.
SendReconnect(c) ==
  /\ client[c].phase = "connected" /\ client[c].logons = 0
  /\ ClientSends(c, [cmd |-> "RECONNECT_CHALLENGE"])
  /\ client' = [client EXCEPT ![c].phase = "waiting"]
  /\ UNCHANGED <<reply, attempts>>

\* The client leaves, or finds that the server has closed its connection.  What
\* it sent last may be lost.
Leave(c) ==
  /\ client[c].phase # "away"
  /\ client' = [client EXCEPT ![c].phase = "away"]
  /\ request' \in {request, [request EXCEPT ![c] = NoPacket]}
  /\ reply' = [reply EXCEPT ![c] = NoPacket]
  /\ UNCHANGED <<process, account, salts, conn, session, attempts>>

\* The operator stops the process, or the machine does.
Stop ==
  /\ process = "running"
  /\ Die("stopped")
  /\ UNCHANGED <<account, salts, client, attempts>>

\* The process starts again, with nothing but the account table.
Restart ==
  /\ process # "running"
  /\ process' = "running"
  /\ UNCHANGED <<account, salts, conn, session, request, reply, client, attempts>>

\* The administrator deletes an account.
RemoveAccount(n) ==
  /\ account[n].exists
  /\ account' = [account EXCEPT ![n] = Row("absent", n)]
  /\ UNCHANGED <<process, salts, conn, session, request, reply, client, attempts>>

-----------------------------------------------------------------------------

Init ==
  /\ process = "running"
  /\ \E kind \in [Names -> Rows] : account = [n \in Names |-> Row(kind[n], n)]
  /\ salts    = 0
  /\ conn     = [c \in Conns |-> "closed"]
  /\ session  = [c \in Conns |-> NewSession]
  /\ request  = [c \in Conns |-> NoPacket]
  /\ reply    = [c \in Conns |-> NoPacket]
  /\ client   = [c \in Conns |-> NoClient]
  /\ attempts = 0

ClientStep(c) ==
  \/ Connect(c)
  \/ \E n \in Names : SendLogonChallenge(c, n)
  \/ \E pw \in Passwords, a \in Secrets(c) : SendLogonProof(c, pw, a)
  \/ SendZeroProof(c)
  \/ ReceiveResult(c)
  \/ SendRealmList(c)
  \/ ReceiveRealmList(c)
  \/ SendReconnect(c)
  \/ Leave(c)

Next ==
  \/ \E c \in Conns : HandleInput(c) \/ ClientStep(c)
  \/ Stop
  \/ Restart
  \/ \E n \in Names : RemoveAccount(n)

\* The reactor's thread comes to every connection whose input is ready.
Fairness == \A c \in Conns : WF_vars(HandleInput(c))

Spec == Init /\ [][Next]_vars /\ Fairness

-----------------------------------------------------------------------------
(* Properties. *)

Salts == ((Nat \X VerifierSizes) \cup {<<0, 2 * SaltBytes>>}) \X {SaltBytes}
Draws == [nr : Nat, size : ServerSizes \cup {FullSizes}]
VerifiersOf(Hashes) == Arrays(Salts) \X Hashes
Verifiers == VerifiersOf({Hash(n) : n \in Names})
PublicValues == [v : Verifiers, b : Draws] \X Lengths
ClientNumbers == Nat \X Lengths
KeysOf(Hashes) ==
  [A : Arrays(ClientNumbers), B : Arrays(PublicValues), v : VerifiersOf(Hashes),
   b : Draws, exact : BOOLEAN] \X Lengths
ServerKeys == KeysOf({Hash(n) : n \in Names})
ClientKeys == KeysOf(Names \X Passwords)
Proofs ==
  Names \X Arrays(Salts) \X Arrays(ClientNumbers) \X Arrays(PublicValues)
    \X Arrays(ClientKeys)

Requests ==
  {NoPacket} \cup [cmd : {"REALM_LIST", "RECONNECT_CHALLENGE"}]
    \cup [cmd : {"LOGON_CHALLENGE"}, name : Names]
    \cup [cmd : {"LOGON_PROOF"}, A : ClientNumbers, M1 : Proofs]
    \cup [cmd : {"LOGON_PROOF"}, A : {Zero}, M1 : {Zero}]

Replies ==
  {NoPacket} \cup [cmd : {"REALM_LIST"}] \cup [cmd : {"LOGON_PROOF"}, ok : BOOLEAN]
    \cup [cmd : {"LOGON_CHALLENGE"}, s : Arrays(Salts), B : Arrays(PublicValues)]

RowType ==
  [exists : BOOLEAN, null : BOOLEAN, v : Verifiers \cup {Zero}, s : Salts \cup {Zero}]

SessionType ==
  [login : Names \cup {Zero}, authed : BOOLEAN, s : BigNumbers(Salts),
   v : Verifiers \cup {Zero}, b : Draws, B : BigNumbers(PublicValues),
   K : BigNumbers(ServerKeys)]

Phases ==
  {"away", "connected", "challenging", "proving", "in", "refused", "listing", "waiting"}

ClientType ==
  [phase : Phases, name : Names \cup {Zero}, pw : Passwords \cup {Zero},
   a : ClientNumbers, fresh : BOOLEAN, K : ClientKeys \cup {Zero}, logons : Nat]

\* The types.  They say too that no byte array is ever made of a number that was
\* not set, and that every verifier the server has, in whatever key or public
\* value, was made from the hash in some row.
TypeOK ==
  /\ process \in {"running", "stopped", "crashed"}
  /\ account \in [Names -> RowType]
  /\ salts \in Nat
  /\ conn \in [Conns -> {"closed", "open", "leaked"}]
  /\ session \in [Conns -> SessionType]
  /\ request \in [Conns -> Requests]
  /\ reply \in [Conns -> Replies]
  /\ client \in [Conns -> ClientType]
  /\ attempts \in Nat

\* The client of connection c has been told that it is logged on.
Told(c) ==
  \/ client[c].phase \in {"in", "listing"}
  \/ client[c].phase = "proving" /\ reply[c].cmd = "LOGON_PROOF" /\ reply[c].ok

\* None of A, B, S, K and M of the last logon of connection c is shorter than
\* its field.
FullLengths(c) ==
  Size(client[c].a) = FieldBytes /\ client[c].K[1].B.of[1].b.size = FullSizes

\* No client that follows the protocol logs on with a password that is not its
\* account's, whatever older arrays of s, B and K the session still has, and
\* whoever is logged on to it already.
MistypedRefused ==
  \A c \in Conns : Told(c) => client[c].pw = PasswordOf[client[c].name]

\* A client that drew a fresh a and is logged on has the very session key that
\* its server keeps, though the proof was compared with one made from whatever
\* bytes K's array has and the server keeps the number K.
KeyAgreement ==
  \A c \in Conns :
    conn[c] # "closed" /\ Told(c) /\ client[c].fresh
      => session[c].K.value = client[c].K

\* No client is refused that typed the right password, unless a number of the
\* logon came out short.
RightPasswordAccepted ==
  \A c \in Conns : client[c].phase = "refused" =>
    client[c].pw # PasswordOf[client[c].name] \/ ~FullLengths(c)

\* Whatever logons were cut short, by a client that left, an UPDATE that failed
\* or the end of the process, a row with a salt holds the verifier of that salt.
RowsConsistent == \A n \in Names : Consistent(n)

\* A right password refused on the first logon of its connection is refused
\* because a number came out short, or because of what the row held; and the row
\* holds it still, or was deleted.
RefusalExplained ==
  \A c \in Conns :
    client[c].phase = "refused" /\ client[c].logons = 1
      /\ client[c].pw = PasswordOf[client[c].name]
      /\ account[client[c].name].exists
    => ~Consistent(client[c].name) \/ ~FullLengths(c)

\* A row with a verifier of full size is never rewritten, however many
\* connections log on to it at once; it can only be deleted.
FullRowKept ==
  [][\A n \in Names : HexSize(account[n].v) = 2 * SaltBytes =>
       account'[n] = account[n] \/ ~account'[n].exists]_vars

\* A row stops agreeing with itself only through a later logon of a connection,
\* one that finds the array of an earlier salt (AuthServer.cpp:188): not through
\* connections that compete for the row, queries that fail, or a restart.
SpoiledByRetry ==
  [][\A n \in Names : Consistent(n) /\ ~Consistent(n)' =>
       \E c \in Conns :
         /\ request[c].cmd = "LOGON_CHALLENGE" /\ request[c].name = n
         /\ client[c].logons > 1 /\ session[c].s.arrays[SaltBytes] # NoArray]_vars

\* A challenge for a name the table does not hold is refused, as the other
\* logon failures are, by a server that goes on.
UnknownNameRefused ==
  [][\A c \in Conns :
       request[c].cmd = "LOGON_CHALLENGE" /\ request'[c] = NoPacket
         /\ process = "running" /\ ~account[request[c].name].exists
       => process' # "crashed"]_vars

\* Every logon packet and every request for the realms is taken from its input
\* buffer, whatever else the reactor has to do, unless the process has ended.
RequestsServed ==
  \A c \in Conns :
    (request[c].cmd \in {"LOGON_CHALLENGE", "LOGON_PROOF", "REALM_LIST"})
      ~> (request[c] = NoPacket)

\* A session whose client is gone is closed, unless the server has leaked it.
SessionsClosed ==
  \A c \in Conns :
    (conn[c] = "open" /\ client[c].phase = "away") ~> (conn[c] # "open")

-----------------------------------------------------------------------------
(* The inductive invariant behind MistypedRefused and KeyAgreement. *)

\* A session that has sent a challenge has the numbers a proof is checked with.
Ready(ses) == ses.v \in Verifiers /\ ses.s.value \in Salts /\ ses.B.value \in PublicValues

\* A connection has one packet under way at most, its client's request or the
\* answer that the client waits for.
PacketsLive(c) ==
  /\ conn[c] = "closed" => request[c] = NoPacket /\ reply[c] = NoPacket
  /\ request[c].cmd = "REALM_LIST" => client[c].phase \in {"listing", "away"}
  /\ reply[c] # NoPacket =>
       /\ request[c] = NoPacket
       /\ <<client[c].phase, reply[c].cmd>> \in
            {<<"challenging", "LOGON_CHALLENGE">>, <<"proving", "LOGON_PROOF">>,
             <<"listing", "REALM_LIST">>}

\* A name under way, and the answer to it, belong to the logon the client waits for.
ChallengeInv(c) ==
  /\ request[c].cmd = "LOGON_CHALLENGE" =>
       /\ client[c].phase \in {"challenging", "away"}
       /\ request[c].name = client[c].name
  /\ reply[c].cmd = "LOGON_CHALLENGE" =>
       /\ Ready(session[c])
       /\ client[c].name \in Names /\ session[c].login = client[c].name
       /\ reply[c].s = AsByteArray(session[c].s, 0)
       /\ reply[c].B = AsByteArray(session[c].B, FieldBytes)

\* All arrays of K are of keys made from the first nr draws of a.
KeysUpTo(K, nr) ==
  \A l \in Lengths : K.arrays[l] # NoArray => K.arrays[l].of[1].A.of[1] <= nr

\* A proof under way is made from the bytes the session has sent, and if its a is
\* fresh the session has no array of a key made from it.
ProofInv(c) ==
  LET ses == session[c]
      cl  == client[c]
      s   == AsByteArray(ses.s, 0)
      A   == Field(cl.a, FieldBytes)
      B   == AsByteArray(ses.B, FieldBytes)
  IN  /\ KeysUpTo(ses.K, cl.a[1])
      /\ request[c].cmd = "LOGON_PROOF" /\ request[c].A # Zero =>
           /\ cl.phase \in {"proving", "away"}
           /\ Ready(ses) /\ ses.login = cl.name
           /\ cl.name \in Names /\ cl.pw \in Passwords
           /\ request[c].A = cl.a
           /\ cl.K = ClientKey(A, B, s, <<cl.name, cl.pw>>)
           /\ request[c].M1 = Proof(cl.name, s, A, B, Field(cl.K, KeyBytes))
           /\ cl.fresh => cl.a[1] > 0 /\ KeysUpTo(ses.K, cl.a[1] - 1)

\* A client that was told that it is logged on typed the password of its account,
\* and so its session has it.
ToldInv(c) ==
  Told(c) =>
    /\ client[c].name \in Names /\ client[c].pw = PasswordOf[client[c].name]
    /\ conn[c] # "closed" =>
         /\ session[c].authed
         /\ client[c].fresh => session[c].K.value = client[c].K

SessionInv(c) == PacketsLive(c) /\ ChallengeInv(c) /\ ProofInv(c) /\ ToldInv(c)

IInv == TypeOK /\ \A c \in Conns : SessionInv(c)

-----------------------------------------------------------------------------
(* The inductive invariant behind RightPasswordAccepted, RowsConsistent and *)
(* RefusalExplained: what holds on the first logon of a connection.         *)

\* The row keeps, for as long as it exists, a verifier that is not its salt's.
Spoiled(n) == account[n].exists => HasVerifier(account[n]) /\ ~Consistent(n)

\* Rows are spoiled by a second logon on a connection only.
RowsInv == MaxLogons <= 1 => RowsConsistent

\* Logons are counted before their challenge is handled.
CountInv(c) ==
  /\ client[c].logons <= MaxLogons
  /\ client[c].phase = "connected" => client[c].logons = 0
  /\ request[c].cmd = "LOGON_CHALLENGE" => client[c].logons # 0
  /\ client[c].phase \in {"challenging", "proving", "refused"} =>
       client[c].name \in Names

\* No array of the object is older than its number.
Current(n) ==
  \A l \in Lengths : n.arrays[l] = NoArray \/ n.arrays[l] = Bytes(n.value, l)

\* On the first logon no array is old, and the numbers belong together unless
\* they come from a spoiled row.
FreshInv(c) ==
  LET ses == session[c]
  IN  client[c].logons <= 1 =>
        /\ client[c].logons = 0 \/ request[c].cmd = "LOGON_CHALLENGE"
             => ses = NewSession
        /\ Current(ses.s) /\ Current(ses.B)
        /\ request[c].cmd = "LOGON_PROOF" \/ reply[c].cmd = "LOGON_CHALLENGE"
             => ses.K = NewNumber
        /\ ses.v # Zero =>
             /\ ses.login \in Names /\ ses.b.size \in ServerSizes
             /\ ses.B.value = PublicValue(ses.v, ses.b)
             /\ \/ ses.v = VerifierOf(ses.login, ses.s.value)
                \/ MaxLogons > 1 /\ Spoiled(ses.login)

\* A no to the right password, under way or received, is due to a short number
\* or to a spoiled row.
VerdictInv(c) ==
  /\ client[c].logons <= 1
  /\ \/ client[c].phase = "refused"
     \/ client[c].phase = "proving" /\ reply[c].cmd = "LOGON_PROOF" /\ ~reply[c].ok
  /\ client[c].pw = PasswordOf[client[c].name]
  => ~FullLengths(c) \/ (MaxLogons > 1 /\ Spoiled(client[c].name))

FirstInv ==
  RowsInv /\ \A c \in Conns : CountInv(c) /\ FreshInv(c) /\ VerdictInv(c)

-----------------------------------------------------------------------------
(* The inductive invariant behind SpoiledByRetry and FullRowKept, for any    *)
(* number of logons.                                                         *)

\* The columns v and s of a row are set together.
RowsWhole == \A n \in Names : account[n].v = Zero <=> account[n].s = Zero

LogonInv == FirstInv /\ RowsWhole

-----------------------------------------------------------------------------
(* What a client sees is the abstract logon service. *)

Stage(c) ==
  CASE client[c].phase = "away" -> "away"
    [] client[c].phase \in {"connected", "challenging", "waiting"} -> "connected"
    [] client[c].phase = "proving" -> "claimed"
    [] client[c].phase \in {"in", "listing"} -> "accepted"
    [] client[c].phase = "refused" -> "refused"

Claim(c) ==
  IF Stage(c) \in {"claimed", "accepted", "refused"}
  THEN <<client[c].name, client[c].pw, FullLengths(c)>> ELSE <<>>

Service == INSTANCE LogonService WITH
             stage <- [c \in Conns |-> Stage(c)],
             claim <- [c \in Conns |-> Claim(c)]

\* The server implements the service: what a client learns is decided by the
\* name and the password it typed, and by the lengths of the numbers drawn, and
\* by nothing else.
ImplementsLogonService == Service!Spec
=============================================================================
