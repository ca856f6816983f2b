# DWCore: specifications and proofs

DWCore is a logon server (realmd) for a game client.  A client connects, sends
its account name, is sent a challenge, proves with SRP6 that it knows the
password, and may then ask for the list of realms.  The program's own code is
about 3000 lines under `src/src`; it runs on the vendored ACE framework, OpenSSL
and MySQL (some 390 000 lines under `src/dep`, of which it uses a few hundred).  This directory models that code in TLA+, checks the models with TLC
and proves theorems about them with TLAPS.

## 1. The system

One process, one thread.  `main` reads the configuration, opens the database,
opens an acceptor and runs ACE's thread pool reactor on the main thread.  The
reactor calls one handler at a time, so handlers never run in parallel; what
interleaves are the handlers of different connections, the network, the clients,
and the end and restart of the process.

| Part | State | Operations | Hard to get right |
|---|---|---|---|
| `AuthServer` (src/src/DWCore/AuthServer.cpp), one object per connection | `_login`, `_safelogin`, `_authed`, the SRP6 numbers `s v b B K` | `OnAccept`, `OnRead` and its command table, `_HandleLogonChallenge`, `_HandleLogonProof`, `_HandleRealmList`, two reconnect handlers that only fail | several logons on a connection; several connections for a name; queries that fail; the process that ends between two packets |
| Account table (src/sql/realmd.sql) | rows with `sha_pass_hash`, `v`, `s` | SELECT, UPDATE of `v` and `s`, the administrator's changes | shared by all connections, outlives the process; NULL, '0', short and full columns |
| `BigNumber` (src/src/Util/BigNumber.cpp) | an OpenSSL number, a cache of byte arrays by length | constructors, assignments, `AsByteArray` | the cache against the number; lengths |
| Input half of `BufferedSocket` | `input_buffer_` of 4096 bytes | `handle_input`, `recv`, `recv_soft`, `recv_skip`, `recv_len` | packets in pieces, many packets in a read, the full buffer, the end of the stream |
| Output half of `BufferedSocket` | ACE message queue, WRITE bit of the handle | `send`, `handle_output`, `noblk_send` | partial writes, the high water mark, errors, wake-ups |
| Reactor (ACE TP reactor) | handler repository, wait set and suspend set (arrays of sockets on Windows) | select, dispatch, post processing, `suspend_i`, `resume_i`, `register_handler`, `remove_handler` | one thread; a handler that returns 1 is called again at once; writes before reads; arrays that are full; handles that the system gives again |
| Connection lifecycle | the handler object, its socket, its registration | the acceptor's `handle_input`, `open` and its failures, `handle_close`, `close_connection` | objects delete themselves while the reactor holds their pointer; `close_connection` removes the handler and nothing deletes it |
| `DatabaseMysql` | the MySQL connection, the last result | `Query`, `PQuery`, `PExecute`, `escape_string`, `InitDB` | errors that look like empty results; results that are not freed |
| `Sha1Hash`, `ByteBuffer`, `Config`, `Log` | buffers | pure, or read once, or output only | - |

How they interact: the reactor calls `handle_input`; it fills the input buffer and
calls `OnRead`; that calls a handler of the table as long as there are packets; a
handler reads the database, changes its session and calls `send`; `send` writes to
the socket or leaves the rest to the queue and asks the reactor for
`handle_output`.  A handler of `handle_input` that fails (-1) has the reactor call
`handle_close`, which deletes the object.

What makes each part correct: of the clients that follow the protocol, whoever
mistypes the password is refused and whoever types the right one is logged on; a row holds
the verifier of its own salt, whatever happens in between; packets are handled
once and in order however they arrive; accepted answers leave once and in order;
sessions of clients that are gone are closed; buffers and queues stay within
their limits.  `PROJECT.json` lists, under "hazards", the places where these can
fail, with the properties about them.

## 2. Modules

| Module | What it is |
|---|---|
| `BigNumber` | one BigNumber object: its value and its byte arrays, by length |
| `Srp6` | the SRP6 computation as terms |
| `AuthServer` | sessions, account table, clients, process: the logon |
| `LogonService` | abstract: name, password and the luck of the draw decide, nothing else |
| `MCAuthServer` | values of constants for TLC, symmetry |
| `AuthServerProofs` | theorems about `AuthServer`: wrong passwords and session keys, any number of logons on a connection |
| `LogonProofs` | theorems about `AuthServer`, the first logon of a connection; the refinement of `LogonService` |
| `RetryProofs` | theorems about `AuthServer`: the rows, any number of logons on a connection |
| `BigNumberBytes` | BigNumber and ByteBuffer::append as byte sequences |
| `LogonBytes` | one logon with the right password, byte by byte |
| `MCLogonBytes` | values of its constants for TLC |
| `LogonBytesProofs` | theorems about `BigNumberBytes` and `LogonBytes` |
| `Reactor` | the reactor's turn, the acceptor, the handlers of all connections |
| `ConnectionLife` | abstract: a socket handle is leased to one connection from accept to close |
| `ReactorProofs` | theorems about `Reactor` |
| `SendQueue` | send, handle_output and ACE's queue, one connection |
| `MessageStream` | abstract: accepted bytes arrive once and in order |
| `SendQueueProofs` | theorems about `SendQueue` |
| `InputFraming` | handle_input, the input buffer and OnRead's loop, one connection |
| `PacketChannel` | abstract: packets are handled once and in order |
| `InputFramingProofs` | theorems about `InputFraming` |

`AuthServer` is the composition of `BigNumber`, `Srp6`, the table and the sessions.
It takes packets as whole and answers as sent; that this is right is what
`InputFraming` and `SendQueue` are about, and the abstract specifications
`PacketChannel` and `MessageStream` are the interfaces between the three.  `Reactor`
composes the connections with the thread that serves them: what `InputFraming` and
`SendQueue` say of the bytes of one connection is a counter there, and what they
assume of the reactor (their fairness, the repeated call, the handler that is gone
when it is removed) is checked there.  `LogonBytes` opens the numbers that are terms
in `AuthServer`.

### AuthServer

Every handler is one action, because the thread finishes it before it does
anything else: `HandleLogonChallenge`, `HandleLogonProof`, `HandleRealmList`, and
`HandleClose` for the end of the stream.  `session` holds the members of the
C++ object, `account` the rows, `request` and `reply` the packet under way in
each direction.  `Accepts` is the command table; a reconnect packet is never
taken, as its handlers return false.  A null row or a NULL column ends the
process (`Die`), which closes every connection and forgets every session;
`Restart` starts it with the table alone.

Abstractions, about data but for the clients:

- A number is the term it is computed from, `Verifier(s, I)`, `PublicValue(v, b)`
  and so on, with its length in bytes.  Two terms are equal only if their inputs
  are: SHA1 is free of collisions, and random draws differ.  Which length a number
  of a logon comes out with is chance: it is drawn with the random number it
  depends on, from `ServerSizes` (B, S, K and M, with b) and `ClientSizes` (A, with a).
- The bytes of a number are known by the number, the length of the array, and
  whether they are what a field of that length should hold (`exact`).  `AsByteArray`
  looks the array up by its length and else makes it: exact at the number's own
  length, not at a longer one, because the padding comes before the reversal
  (BigNumber.cpp:163-183; the theorem `PaddingRight` of `LogonBytesProofs` has the
  bytes).  So a session that logs on again may have arrays of several lengths, of
  different numbers.  The bytes of S are not exact if S is short; the proof compared
  reads beyond M if M is short, and then may match or not (`Compared`).
- Clients are external and follow the protocol.  They wait for an answer before they
  go on, and answer a challenge with the proof of what was typed, computed from fields
  of fixed width, or with a proof that is all zero (A = 0, AuthServer.cpp:346, which is
  not answered).  They mistype, leave, lose their last packet, and log on again on
  their connection after a refusal and after a success, for the same name or another,
  with their secret a redrawn or kept.  The server itself takes challenges and proofs in
  any order and with any contents, and never resets `_authed`, `s`, `v`, `B`, `K` or
  their arrays.  The model keeps all of that state, but it has no client that sends
  what the protocol does not let it compute: what is said here of who is accepted is
  said of clients that follow the protocol and not of any others.
- What a client makes of the server's proof (M2) is left to `LogonBytes`.
- `delete` of a MYSQL_ROW (AuthServer.cpp:478) is undefined: the server goes on
  or ends.
- MySQL is external: a SELECT gives the row, no row, or an error that looks like
  no row; an UPDATE takes place or not.  Both are atomic.

### SendQueue

A message is its size, the accepted bytes are numbered, and a block of the queue
is the interval of bytes it holds with the next one to send.  `Send` and
`HandleOutput` are the two functions with all their exits.  The queue is full at
its mark or above it (`is_full_i`), so a message of any length gets in below it.
`again` is the return value 1 of handle_output, on which the reactor calls it
again at once; `wakeup` is the WRITE bit.  Allocation failures are left out.

### InputFraming

The client's bytes are numbered, so the buffer is `taken+1 .. got`; `crunch` at
the end of handle_input is the definition of `Space`.  The loop of `OnRead` is one
action per turn, with `reading` saying that the thread is inside.  TCP gives any
piece.  A handler that fails ends the loop with packets left in the buffer: a proof
with A = 0 has been taken then (`Stalled`), a challenge shorter than its structure, one
without a name, has lost its header (`TooShort`, AuthServer.cpp:250).  A byte in the
middle of a challenge is no command: the first byte of its
body is the 'W' of the game's name.  The client may send many packets without
waiting.  Crashes of a handler are `AuthServer`'s matter.

### BigNumberBytes and LogonBytes

A number is the sequence of its bytes as OpenSSL writes it; `AsByteArray` pads it at
the end and reverses all of it, `SetBinary` reverses and drops leading zeros.
`LittleEndian` is the reference: what a field of fixed width should hold.
`LogonBytes` is one logon in four steps, the two handlers and the client's two
reactions.  What is computed is drawn instead: any digest, any residue, any of the
numbers BN_rand draws (both ends set, so always of full length); equal bytes have
equal hashes, different bytes different ones.  `u` and `x` enter by value only, and
the width of H(N) xor H(g) is a constant of the group, so they need no bytes.  The
client is external and uses fields of fixed width for what it reads, sends and
hashes, as the packet structures at AuthServer.cpp:45-72 have them.  memcmp reads
20 bytes of an array that may be shorter: the bytes behind it may be anything, and
the comparison may go either way.

### Reactor

A turn is `Dispatch` (select and suspend), the callbacks, each an action of its own
because clients act between them, and `PostProcess` (delete, resume, or nothing if
the handle is no longer bound to the handler that ran).  `repo`, `waitRd`, `waitWr`,
`suspRd` and `suspWr` are ACE's repository and sets, the wait set as the arrays that
Windows keeps: select and the iterator see the sockets in the order they were added,
and adding to a full array does nothing.  The thread pool reactor's `suspend` clears
the ready set, so every turn selects anew.  A connection's `life` runs from
`pending` in the backlog to `served` and back to `absent`, or to `removed` by
close_connection.  `FreeHandles` is the system, which may give a closed handle to the
next connection.  Handlers are pointers: what a callback would do to an object that
is gone is what `NoDangling` forbids.

Abstractions: bytes and packets are counted (`rx`, `q`), and what OnRead does to the
queue is any of the results `SendQueue` allows; whether a socket is full (`room`) is
followed only while answers are queued for it; a connection that left and one that
failed look the same to the reactor.  Timers, signals and other threads are never
used by the server; the notification pipe takes one place of the read array for good.
That select returns the sockets of an array in their order is what Windows does and
is taken as external.

## 3. Runs

| Run | Module | What it shows |
|---|---|---|
| `FreshLogon` | `MCAuthServer` | One logon per connection, rows NULL or unset, verifiers short or full, numbers of full length or one byte short, queries that fail: `RightPasswordAccepted`, `RowsConsistent`, `FullRowKept` hold and the server implements `LogonService` |
| `Relogon` | `MCAuthServer` | Three logons on a connection, after refusals and successes, a kept or redrawn, K short or not: mistyped passwords are refused (`MistypedRefused`), both sides have one key when a is fresh (`KeyAgreement`), only later logons spoil rows (`SpoiledByRetry`), a right password refused on a first logon is explained by the row or a short number, requests are served, sessions closed; the proofs' invariants `IInv` and `LogonInv` |
| `RetryRefused` | `MCAuthServer` | violated: the right password is refused on a second logon |
| `PoisonedRow` | `MCAuthServer` | violated: a second logon stores a verifier that is not that of the salt beside it |
| `UnknownName` | `MCAuthServer` | violated: an unknown name ends the process |
| `SendQueue` | `SendQueue` | the stream is intact, wake-ups are set, the queue is bounded, connections end; implements `MessageStream` with its liveness |
| `InputFraming` | `InputFraming` | packets in any pieces are handled once, in order, each by the call that reads its last byte (`WholeHandled`), and only a torn challenge loses packets and only a proof with A = 0 keeps them waiting |
| `SplitChallenge` | `InputFraming` | violated: a challenge in two pieces is never handled |
| `Reactor` | `Reactor` | no callback on a deleted or removed object, every bit accounted for, handles leased to one connection at a time (`ConnectionLife`), served connections and the acceptor waited for, nobody overtaken in the arrays (`NeverOvertaken`); unless one connection keeps the thread, input is read and pending connections are accepted |
| `ReactorFull` | `Reactor` | violated: with one place too few in the sets the acceptor is never waited for again |
| `LogonBytes` | `MCLogonBytes` | the stored hash keeps its zeros, the challenge its layout, and the logon succeeds on both sides just when A, B, S, K and M have their full length |
| `ForcedLength` | `MCLogonBytes` | violated: a client does not read the B that was calculated |

### Bounds and why they are enough

- `FreshLogon`: two connections that compete for one name, with a right and a wrong
  password, one logon each (`MaxLogons = 1`), and none or one of A, B, S, K and M one byte
  short.  Two connections are what a row can be disputed by, and one of them finds
  what the other, or a restart between them, left.  Connections are interchangeable
  (SYMMETRY; the run has no liveness property).
- `Relogon`: one connection with two names, up to three logons in a row
  (`MaxLogons = 3`) and four in all, so that it can be left after three and come back for
  one that finds what they left in the table.  Three logons are enough for arrays of two
  lengths of K from two different logons.  The arrays belong to one session and fairness
  to one connection, so a second one would only multiply the states: that
  connections compete is checked by `FreshLogon`, and the theorems have any number of
  them.  The liveness properties are checked here, without symmetry.
- `SendQueue`: sizes 1, 2 and 4, a mark of 4, a socket of 3 bytes and 12 bytes in
  all: a message can be shorter or longer than the socket and reach the mark,
  and the queue fills with three or four blocks.
- `InputFraming`: a buffer of 4 bytes, a header of 1, packets of 2, 3 and 4 bytes
  and four packets, among them challenges without a name and proofs with A = 0: a packet
  can fill the buffer exactly, end in it anywhere, or share it with one or two others.

- `Reactor`: three clients, two socket handles, sets of three places (the acceptor
  and both handles), one read in flight per client and two answers in its queue.  Two
  clients can be served while the third waits, handles are given again, and three
  sockets in an array are enough for one to be overtaken.  `ReactorFull` has one
  place less and two clients.
- `LogonBytes`: two values for a byte, numbers of three bytes, hashes of two: every
  number can be of full length, one or two bytes short, or zero, and short numbers
  are as frequent as long ones.  The theorems have any base and width.

Deadlock is not checked where the system may stop: a logon of `LogonBytes` ends, and
when no client acts the reactor waits.

### Fairness

In `Reactor` the thread runs (weak fairness of `Thread`, the loop of Main.cpp:87-96)
and nothing else is fair.  From that, `InputServed` and `PendingServed` derive what
the modules of one connection assume, weak fairness of its handlers, with one
exception they name: a connection whose handle_input goes on returning 1 keeps the
only thread (`Monopoly`), as TP_Reactor.cpp:564-568 allows.  Nobody starves although
output comes first and arrays are searched from the start, because suspend and
resume move the handle that was served to the end of its array; `NeverOvertaken` is
that argument as a safety property, which is proved.  In
`SendQueue`, whose queue empties only into a socket somebody reads, also weak
fairness of the peer's reading, as long as the peer is there.  Nothing else is
fair: clients may stop at any time, the process need not restart.

## 4. Proofs

`AuthServerProofs` proves, for any connections, names, passwords, rows, lengths and
failures and any number of logons on a connection, from `AuthServerAssumption`:

- `TypeCorrect`: `Spec => []TypeOK`
- `WrongPasswordsRefused`: `Spec => []MistypedRefused`
- `KeysAgree`: `Spec => []KeyAgreement`

All three follow from `Invariance`, `Spec => []IInv`.  MistypedRefused is not
inductive: that a proof which matches was made from the right password depends on
where every verifier the server has came from, in a row, in a session or inside the
key of an old array (the types say: from the hash of a row), on which bytes the
proof under way was made from (`ProofInv`), on the bytes of the challenge before it
(`ChallengeInv`), and on a connection having one packet under way (`PacketsLive`).
A client that keeps its a can be accepted by an old array of K: the array is of the
same key its own proof is made from, so the password is right, but the number K that
the server keeps is another one.  This is why KeyAgreement asks for a fresh a: then
every old array of K was made from an earlier draw than the proof's (`KeysUpTo`), and
the key whose bytes were compared is the one the server keeps.  Both theorems are
about the clients of the model, see "AuthServer" in section 2.

`SendQueueProofs` proves, for any sizes, mark and socket:

- `StreamKept`: `Spec => []StreamIntact`, `WakeupKept`: `[]WakeupWhileQueued`,
  `QueueKeptBounded`: `[]QueueBounded`
- `GivenUp`: `Spec => GivenUpOnlyForLonger`
- `Refinement`: the initial states and steps of the queue are those of
  `MessageStream` (its liveness is TLC's)

from `Invariance`: the blocks in the queue are consecutive intervals of bytes, the
first after what was sent, the last up to what was accepted, `cur_bytes` counts
them from the first byte of the first block, and the last block found the queue
below its mark.

`InputFramingProofs` proves, for any sizes of buffer and packets that the
assumption allows:

- `AllHandled`: `Spec => []WholeHandled`
- `ClosedForCause`: `Spec => ClosedOnlyBlocked`
- `Refinement`: `Spec => ImplementsPacketChannel`

from `Invariance`: the packets are consecutive intervals, those handled are the
first that were sent, and the buffer starts where the next one does, or is torn.
The first two add `WaitInv`: between two calls a packet at the head that a handler
would take has not arrived whole, or waits behind a proof with A = 0 in a buffer that
has space.

`LogonProofs` is about the first logon of a connection.  For any constants:

- `RefusalsExplained`: `Spec => []RefusalExplained`

and with at most one logon per connection (`MaxLogons <= 1`; the runs `RetryRefused`
and `PoisonedRow` show that they fail without it):

- `RowsStayConsistent`: `[]RowsConsistent`, `RightPasswordsAccepted`:
  `[]RightPasswordAccepted`
- `Refinement`: `Spec => ImplementsLogonService`

from `FirstLogon`, `Spec => []FirstInv` beside `IInv`.  That a verdict is right is not
inductive: it rests on the cached arrays being those of the numbers (`FreshInv`,
`Current`: no array was made before its number), at whatever lengths, on the verifier of the session being that of its
salt, or from a row that was spoiled before (`RowsInv`, `Spoiled`), and on the packets
under way (`CountInv`, `VerdictInv`).  Other connections change the row meanwhile;
`Spoiled` is kept by all of them.

`RetryProofs` is about what any number of logons on a connection does to the rows.
For any constants:

- `SpoiledByRetries`: `Spec => SpoiledByRetry`
- `FullRowsKept`: `Spec => FullRowKept`
- `RowsAndLogons`: `Spec => []LogonInv`

They rest on `RowsStep`, which says all that any step does to the rows: a new row
disagrees with itself only if the array that was hashed is not of the new salt, and by
`FirstInv` a session with such an array is at its second logon at least; and rows are
written whole (`RowsWhole`), so that a full verifier is never missed.  Together with
`RefusalsExplained`: on the first logon of a connection the right password is refused
for two reasons only, a number that came out short (about once in fifty logons, see
`LengthsDecide`) and a row that some connection spoiled by a logon after its first.  What becomes of the
right password on later logons is not promised by the code: with a fresh a it is refused
while the arrays are older than the numbers (`RetryRefused`), and with the a of an earlier
logon it may be accepted by the old array.

`ReactorProofs` proves, for any clients, handles and sizes:

- `HandlersAlive`: `[]NoDangling`, `SetsAccounted`: `[]HandlesAccounted`,
  `TypeCorrect`: `[]TypeOK`
- `Quiet`: `Spec => ClosedStaysQuiet`, `NoOvertaking`: `Spec => NeverOvertaken`
- `Refinement`: `Spec => LeasesKept`

from `Invariance`: bits stand for bound handles and in one set only (`SetsInv`), a
bound handle is that of the served connection it is bound to (`OwnedInv`), the
dispatched handler has the dispatched handle until the turn ends (`EventInv`), and a
connection waits for accept once (`BacklogInv`).  NeverOvertaken rests on lemmas about
the places in an array without repetitions: set_bit leaves every handle at its place
(`FdSetPlaces`), clr_bit moves those behind its handle up by one (`FdClrPlaces`), and
the handle of a turn is before all others that are ready (`TurnMovesUp`).  If the sets have room for every
socket (`Cardinality(AllHandles) <= SetSize`), also

- `WatchedWhileServed`: `[]ServedWatched`, `ListensForEver`: `[]AcceptorListens`

by counting: an array without repetitions that lacks a handle has room for it.
`ReactorFull` shows that the condition is needed.

`LogonBytesProofs` proves, for any base, widths and group:

- `PaddingRight`: `AsByteArray(n, w)` is the little endian field just when n fills it
  or is zero; `ReadBack`: `SetBinary` reads what `LittleEndian` wrote;
  `DigestRestored`: `_SetVSFields` hashes all bytes of the stored hash
- `TypeCorrect`, `HashKept`: `[]HashRestored`, `Aligned`: `[]ChallengeAligned`,
  `LengthsDecide`: `[]DecidedByLengths`

from `Invariance`, which says what each field of the challenge holds.  Lengths decide
because fields are of fixed width and numbers are not: if the bytes hashed on both
sides are equal, so are their lengths, and no number is longer than its field.

Only model-checked: the liveness properties (out of the prover's reach), which are
`RequestsServed`, `SessionsClosed`, `EndedClosed`, `OnlyTornOrStalled`, `InputServed`,
`PendingServed` and the fairness of `MessageStream`.  Every invariant and every action
property of a passing run is a theorem, or a part of one (`TypeOK` is a part of every
`IInv`).

## 5. What the violated runs say

1. `RetryRefused`.  `AsByteArray` returns the array it made first for a length
   (BigNumber.cpp:167) and no assignment clears it.  A client that mistyped its
   password and tries again on the same connection is sent the old salt and B
   while the server computes with the new b: it is refused.
2. `PoisonedRow`.  If that second logon is one that computes a verifier, the row
   gets the new salt and a verifier of the old one (AuthServer.cpp:188, 200): the
   account cannot log on any more, on any connection, until its columns are reset.
3. `UnknownName`.  `result[0]` of a null row (AuthServer.cpp:286).  The comment
   at AuthCodes.h:54 has unknown accounts refused.
4. `SplitChallenge`.  The header is taken at AuthServer.cpp:244, the return is at
   250; the rest of the packet is then read as commands.

5. `ReactorFull`.  `resume_i` (Select_Reactor_T.cpp:918) adds the handle with
   `set_bit`, which silently does nothing on a full Windows fd_set, and clears the
   suspend bit all the same.  When the acceptor's own turn registers the connection
   that fills the array, the acceptor stays registered and is never waited for, to the
   end of the process, even after the others have left.  `register_handler` and
   `resume_i` both return success.
6. `ForcedLength`.  `AsByteArray(32)` puts the zeros at the wrong end of a short B
   (BigNumber.cpp:171-178), so the client reads another number.  `PaddingRight` says
   exactly when it is right, `LengthsDecide` what that means for a logon: with
   the right password it fails about once in fifty times.  If only M is short the
   server may take the session for logged on, and its client does not.

Seen while modelling, and not a run: OnAccept sets no salt though its comment says
so (AuthServer.cpp:128); the session key is not stored (422); the list of realms is
always empty (480).

## 6. Plan and what is not modelled

Done: `BigNumber`, `Srp6`, `AuthServer` with `LogonService`; `SendQueue` with
`MessageStream`; `InputFraming` with `PacketChannel`; `Reactor` with `ConnectionLife`;
`BigNumberBytes` and `LogonBytes`; their proofs.

What could be added: numbers as byte sequences and several logons in one module, in
place of the terms with lengths of `AuthServer`.

Not modelled:

- Clients that send what the protocol does not let them compute: `AuthServer` has the
  server's state for them, no property covers them.
- The steps of `main` and `InitDB` before the first connection: one straight line
  without another actor; each failure ends the process.
- The results of SELECTs, which are stored and never freed (DatabaseMysql.cpp:128):
  memory is not in the models; and a null result of a query that succeeded (130), which
  looks like the failed query that is modelled.
- The reading half of `ByteBuffer`, the configuration, logging and text conversion:
  nothing the program does depends on them.
- ACE beyond the queue, the reactor's turn, the acceptor and the service handler; OpenSSL;
  MySQL.  They are vendored libraries, nearly all of the lines of the repository, and
  the server calls a small part of them.  This is why the lines the models are mapped to
  are a small share of all lines, though they hold most of `src/src/DWCore`, `BigNumber`
  and the parts of ACE that run.
