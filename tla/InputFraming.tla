---------------------------- MODULE InputFraming ----------------------------
(***************************************************************************)
(* How packets are found in the bytes of one connection: handle_input and  *)
(* the recv functions of src/src/DWCore/BufferedSocket.cpp, OnRead and     *)
(* what the handlers of src/src/DWCore/AuthServer.cpp take from the input  *)
(* buffer.                                                                 *)
(*                                                                         *)
(* The bytes a client sends are numbered 1, 2, ...; the input buffer holds *)
(* the bytes taken+1 .. got.  TCP delivers them in any pieces.  The loop   *)
(* of OnRead takes one step per turn, during which the reactor's thread is *)
(* inside handle_input and no other handler runs.  What a handler answers  *)
(* is AuthServer.tla's matter; here a proof is right or wrong, its A is 0  *)
(* or not, and a row found or not.                                         *)
(***************************************************************************)
EXTENDS Naturals, Sequences

CONSTANTS
  Capacity,        \* of input_buffer_
  HeaderBytes,     \* that _HandleLogonChallenge reads first
  ChallengeBytes,  \* sizeof(sAuthLogonChallenge_C), a name of one letter included
  ProofBytes,      \* sizeof(sAuthLogonProof_C)
  RealmListBytes,  \* of a request for the realms
  NameSizes,       \* how long the names are that clients send, 0 included
  MaxPackets       \* bound: packets a client sends

ASSUME InputFramingAssumption ==
  /\ {HeaderBytes, ChallengeBytes, ProofBytes, RealmListBytes} \subseteq Nat \ {0}
  /\ HeaderBytes + 1 < ChallengeBytes
  /\ NameSizes \subseteq Nat
  /\ Capacity \in Nat
  /\ ProofBytes <= Capacity /\ RealmListBytes <= Capacity
  /\ \A n \in NameSizes : ChallengeBytes + n - 1 <= Capacity
  /\ MaxPackets \in Nat

VARIABLES
  peer,     \* "open"; "ended", the client sends no more; "broken", it is gone
  conn,     \* "open", "closed", or "leaked": shut down, never deleted
  reading,  \* whether OnRead is in its loop
  again,    \* whether handle_input will ask to be called again at once
  sent,     \* the packets the client has sent
  got,      \* how many bytes were read into the buffer
  taken,    \* how many bytes were taken from it
  authed,   \* _authed
  handled   \* the packets the handlers have taken

vars == <<peer, conn, reading, again, sent, got, taken, authed, handled>>

-----------------------------------------------------------------------------
(* The bytes. *)

\* LOGON_PROOF_ZERO is a LOGON_PROOF whose A is 0.
Commands ==
  {"LOGON_CHALLENGE", "LOGON_PROOF", "LOGON_PROOF_ZERO", "REALM_LIST", "RECONNECT_CHALLENGE"}

Proofs == {"LOGON_PROOF", "LOGON_PROOF_ZERO"}

\* The sizes of the packets that clients send.
PacketSizes(cmd) ==
  CASE cmd \in Proofs       -> {ProofBytes}
    [] cmd = "REALM_LIST"  -> {RealmListBytes}
    [] OTHER               -> {ChallengeBytes + n - 1 : n \in NameSizes}

\* How many bytes the client has sent.
Written == IF sent = <<>> THEN 0 ELSE sent[Len(sent)].last

\* The bytes of a packet are first..last.
Length(packet) == packet.last - packet.first + 1

\* The packet that starts with the first byte of the buffer.
AtHead(packet) == packet.first = taken + 1

\* recv_len
RecvLen == got - taken

\* Mutant: the data in the buffer is never moved to its beginning.
SpaceBehind == Capacity - got

\* What the buffer can take: crunch has moved its data to the beginning.
Space == Capacity - RecvLen

\* The pieces recv may find, at most `size` bytes.
Pieces(size) == {n \in 1..size : got + n <= Written}

-----------------------------------------------------------------------------
(* handle_input *)

Close == conn' = "closed" /\ UNCHANGED <<reading, again, got, taken, authed, handled>>

\* The reactor calls handle_input: the socket is readable, or the last call
\* returned 1.
Readable == again \/ got < Written \/ peer # "open"

\* recv finds some bytes and OnRead is called.
ReadBytes ==
  \E n \in Pieces(Space) :
    /\ got' = got + n
    /\ again' = (n = Space)
    /\ reading' = TRUE
    /\ UNCHANGED <<conn, taken, authed, handled>>

\* recv returns 0: the stream has ended, or the buffer has no space.
ReadEnd ==
  /\ Space = 0 \/ (peer = "ended" /\ got = Written)
  /\ Close

\* recv fails: there is nothing yet, or the connection is broken.
ReadError ==
  /\ Space > 0
  /\ \/ /\ peer # "broken" /\ again
        /\ again' = FALSE
        /\ UNCHANGED <<conn, reading, got, taken, authed, handled>>
     \/ /\ peer = "broken"
        /\ Close

HandleInput ==
  /\ conn = "open" /\ ~reading /\ Readable
  /\ ReadBytes \/ ReadEnd \/ ReadError
  /\ UNCHANGED <<peer, sent>>

-----------------------------------------------------------------------------
(* OnRead, one turn of its loop. *)

\* OnRead returns and handle_input crunches the buffer.
Return == reading' = FALSE

\* Mutant: one packet for each call.
OnePacket == reading' = FALSE

\* OnRead goes on with the next packet.
Continue == UNCHANGED reading

\* Mutant: recv_soft in place of recv.
PeekPacket(packet, n) ==
  /\ UNCHANGED taken
  /\ handled' = Append(handled, packet)

\* A handler takes n bytes, a whole packet.
TakePacket(packet, n) ==
  /\ taken' = taken + n
  /\ handled' = Append(handled, packet)

Leave == UNCHANGED <<conn, taken, authed, handled>>

\* The size in the header of a challenge.
Remaining(packet) == Length(packet) - HeaderBytes

\* A challenge without a name is shorter than the structure it is read into.
TooShort(packet) == packet.cmd = "LOGON_CHALLENGE" /\ Length(packet) < ChallengeBytes

\* _HandleLogonChallenge; the header leaves the buffer before the handler knows
\* whether the rest is there, and long enough.
HandleLogonChallenge(packet) ==
  /\ packet.cmd = "LOGON_CHALLENGE"
  /\ \/ /\ RecvLen < ChallengeBytes
        /\ Return /\ Leave
     \/ /\ RecvLen >= ChallengeBytes
        /\ TooShort(packet) \/ RecvLen - HeaderBytes < Remaining(packet)
        /\ taken' = taken + HeaderBytes
        /\ Return
        /\ UNCHANGED <<conn, authed, handled>>
     \/ /\ RecvLen >= ChallengeBytes
        /\ ~TooShort(packet) /\ RecvLen - HeaderBytes >= Remaining(packet)
        /\ TakePacket(packet, HeaderBytes + Remaining(packet))
        /\ Continue
        /\ UNCHANGED <<conn, authed>>

\* _HandleLogonProof; the proof is right or wrong.  With A = 0 it fails, and
\* OnRead looks at no other packet.
HandleLogonProof(packet) ==
  /\ packet.cmd \in Proofs
  /\ \/ /\ RecvLen < ProofBytes
        /\ Return /\ Leave
     \/ /\ RecvLen >= ProofBytes
        /\ TakePacket(packet, ProofBytes)
        /\ UNCHANGED conn
        /\ IF packet.cmd = "LOGON_PROOF_ZERO"
           THEN Return /\ UNCHANGED authed
           ELSE Continue /\ authed' \in {authed, TRUE}

\* Mutant: one byte of a request stays.
SkipShort == RealmListBytes - 1

\* recv_skip(5)
Skip == RealmListBytes

\* _HandleRealmList; without a row the connection is given up.
HandleRealmList(packet) ==
  /\ packet.cmd = "REALM_LIST" /\ authed
  /\ \/ /\ RecvLen < RealmListBytes
        /\ Return /\ Leave
     \/ /\ RecvLen >= RealmListBytes
        /\ TakePacket(packet, Skip)
        /\ \/ Continue /\ UNCHANGED conn
           \/ Return /\ conn' = "leaked"
        /\ UNCHANGED authed

\* The commands OnRead finds no handler for, and the reconnect commands, whose
\* handlers take nothing and fail.
Refused(packet) ==
  \/ packet.cmd = "RECONNECT_CHALLENGE"
  \/ packet.cmd = "REALM_LIST" /\ ~authed

\* The packet that OnRead looks at; a byte inside a challenge is not a command.
OnRead ==
  /\ conn = "open" /\ reading
  /\ \/ \E k \in 1..Len(sent) :
          /\ AtHead(sent[k]) /\ taken < got
          /\ \/ HandleLogonChallenge(sent[k])
             \/ HandleLogonProof(sent[k])
             \/ HandleRealmList(sent[k])
             \/ Refused(sent[k]) /\ Return /\ Leave
     \/ /\ taken = got \/ \A k \in 1..Len(sent) : ~AtHead(sent[k])
        /\ Return /\ Leave
  /\ UNCHANGED <<peer, again, sent, got>>

-----------------------------------------------------------------------------
(* The client, external.  It may send before it is answered, and asks for the *)
(* realms when it is logged on.                                               *)

SendPacket(cmd, size) ==
  /\ peer = "open" /\ Len(sent) < MaxPackets
  /\ sent' = Append(sent, [cmd |-> cmd, first |-> Written + 1, last |-> Written + size])
  /\ UNCHANGED <<peer, conn, reading, again, got, taken, authed, handled>>

ClientSends ==
  \E cmd \in Commands :
    /\ cmd = "REALM_LIST" => authed
    /\ \E size \in PacketSizes(cmd) : SendPacket(cmd, size)

ClientEnds ==
  /\ \/ peer = "open" /\ peer' \in {"ended", "broken"}
     \/ peer = "ended" /\ peer' = "broken"
  /\ UNCHANGED <<conn, reading, again, sent, got, taken, authed, handled>>

-----------------------------------------------------------------------------

Init ==
  /\ peer = "open" /\ conn = "open" /\ reading = FALSE /\ again = FALSE
  /\ sent = <<>> /\ got = 0 /\ taken = 0 /\ authed = FALSE /\ handled = <<>>

Next == HandleInput \/ OnRead \/ ClientSends \/ ClientEnds

\* The reactor dispatches a readable handle and its thread goes on.
Fairness == WF_vars(HandleInput) /\ WF_vars(OnRead)

Spec == Init /\ [][Next]_vars /\ Fairness

-----------------------------------------------------------------------------
(* Properties. *)

Packets == [cmd : Commands, first : Nat, last : Nat]

TypeOK ==
  /\ peer \in {"open", "ended", "broken"}
  /\ conn \in {"open", "closed", "leaked"}
  /\ reading \in BOOLEAN /\ again \in BOOLEAN /\ authed \in BOOLEAN
  /\ sent \in Seq(Packets) /\ handled \in Seq(Packets)
  /\ got \in Nat /\ taken \in Nat

\* Where the next packet that no handler has taken starts.
NextFirst == IF handled = <<>> THEN 1 ELSE handled[Len(handled)].last + 1

\* A challenge whose header is gone and whose rest nobody will take.
Torn ==
  \E k \in 1..Len(sent) :
    /\ sent[k].cmd = "LOGON_CHALLENGE" /\ k = Len(handled) + 1
    /\ taken = sent[k].first + HeaderBytes - 1

\* The packet at the head of the buffer blocks it: no handler takes it whole.
Blocks(packet) == Refused(packet) \/ TooShort(packet)

Blocked == Torn \/ \E k \in 1..Len(sent) : AtHead(sent[k]) /\ Blocks(sent[k])

\* The last packet handled was a proof with A = 0: OnRead looks at the packets
\* behind it when more bytes arrive, and not before.
Stalled == handled # <<>> /\ handled[Len(handled)].cmd = "LOGON_PROOF_ZERO"

\* Between two calls the packets that were handled are those whose bytes are all
\* there, unless the buffer is blocked or a proof with A = 0 was the last: each is
\* handled by the call that reads its last byte, none later and none before it is
\* whole.
WholeHandled ==
  conn = "open" /\ ~reading /\ ~Blocked /\ ~Stalled =>
    \A k \in 1..Len(sent) : sent[k].last <= got <=> k <= Len(handled)

\* The server closes a connection whose client is there only if something blocks
\* its buffer: packets up to the size of the buffer never fill it.
ClosedOnlyBlocked ==
  [][conn = "open" /\ conn' = "closed" => peer # "open" \/ Blocked]_vars

\* What is found in the bytes is the packets that were sent.
Channel == INSTANCE PacketChannel WITH
             sent <- sent, handled <- handled, up <- (conn = "open")

ImplementsPacketChannel == Channel!Spec

\* The k-th packet is handled, or the connection has ended, or one is before it
\* that no handler takes whole.
Settled(k) ==
  \/ Len(handled) >= k
  \/ conn # "open" \/ peer # "open"
  \/ \E j \in 1..Len(sent) :
       j <= k /\ (sent[j].cmd = "RECONNECT_CHALLENGE" \/ TooShort(sent[j]))

\* A packet that was sent is read and handled, in whatever pieces it arrives, when
\* no proof has A = 0.
PacketsHandled ==
  \A k \in 1..MaxPackets :
    (Len(sent) >= k) ~>
      (Settled(k) \/ \E j \in 1..Len(sent) : sent[j].cmd = "LOGON_PROOF_ZERO")

\* Packets are lost to a torn challenge, or wait behind a proof with A = 0, and for
\* nothing else: not for the limits of the buffer, for packets that arrive
\* together, or for one that comes in pieces.
OnlyTornOrStalled ==
  \A k \in 1..MaxPackets : (Len(sent) >= k) ~> (Settled(k) \/ Torn \/ Stalled)

-----------------------------------------------------------------------------
(* The inductive invariant behind these. *)

\* The packets are consecutive.
SentInv ==
  \A k \in 1..Len(sent) :
    /\ Length(sent[k]) \in PacketSizes(sent[k].cmd)
    /\ sent[k].last <= Written
    /\ sent[k].first = IF k = 1 THEN 1 ELSE sent[k - 1].last + 1
    /\ \A j \in 1..(k - 1) : sent[j].last < sent[k].first

\* The first of them are handled.
HandledInv ==
  /\ Len(handled) <= Len(sent)
  /\ \A k \in 1..Len(handled) : handled[k] = sent[k]

\* The buffer starts where the next one does, or in the midst of a torn one.
BufferInv ==
  /\ taken <= got /\ got <= Written /\ got - taken <= Capacity
  /\ taken + 1 = NextFirst \/ Torn

IInv == TypeOK /\ SentInv /\ HandledInv /\ BufferInv

\* Between two calls a whole packet at the head that a handler would take waits
\* behind a proof with A = 0 only, and then the buffer has space.
WaitInv ==
  conn = "open" /\ ~reading =>
    \A k \in 1..Len(sent) :
      AtHead(sent[k]) => \/ Blocks(sent[k])
                         \/ got < sent[k].last
                         \/ Stalled /\ RecvLen < Capacity
=============================================================================
