------------------------- MODULE InputFramingProofs -------------------------
(***************************************************************************)
(* Theorems about InputFraming, for any sizes of the buffer, the packets   *)
(* and their headers.                                                      *)
(***************************************************************************)
EXTENDS InputFraming, SequenceTheorems, TLAPS

(* Facts about packets. *)

\* A packet has a byte at least and fits in the buffer, and a challenge is longer
\* than its header.
LEMMA SizeFacts ==
  ASSUME NEW cmd \in Commands, NEW size \in PacketSizes(cmd)
  PROVE  /\ size \in Nat \ {0} /\ size <= Capacity
         /\ cmd \in Proofs => size = ProofBytes
         /\ cmd = "REALM_LIST" => size = RealmListBytes
         /\ cmd = "LOGON_CHALLENGE" => size > HeaderBytes
<1>1. /\ HeaderBytes \in Nat \ {0} /\ ChallengeBytes \in Nat \ {0}
      /\ ProofBytes \in Nat \ {0} /\ RealmListBytes \in Nat \ {0} /\ Capacity \in Nat
      /\ HeaderBytes + 1 < ChallengeBytes /\ ProofBytes <= Capacity
      /\ RealmListBytes <= Capacity
  BY InputFramingAssumption
<1>2. CASE cmd \in Proofs
  BY <1>1, <1>2 DEF PacketSizes, Proofs
<1>3. CASE cmd = "REALM_LIST"
  BY <1>1, <1>3 DEF PacketSizes, Proofs
<1>4. CASE cmd \notin Proofs /\ cmd # "REALM_LIST"
  <2>1. PICK n \in NameSizes : size = ChallengeBytes + n - 1
    BY <1>4 DEF PacketSizes
  <2>2. n \in Nat /\ ChallengeBytes + n - 1 <= Capacity
    BY InputFramingAssumption
  <2>3. QED BY <1>1, <1>4, <2>1, <2>2
<1>5. QED BY <1>2, <1>3, <1>4

\* What the invariant says of one packet.
LEMMA PacketFacts ==
  ASSUME IInv, NEW k \in 1..Len(sent)
  PROVE  /\ sent[k] \in Packets /\ sent[k].cmd \in Commands
         /\ sent[k].first \in Nat \ {0} /\ sent[k].last \in Nat
         /\ Length(sent[k]) = sent[k].last - sent[k].first + 1
         /\ Length(sent[k]) \in PacketSizes(sent[k].cmd)
         /\ Length(sent[k]) \in Nat \ {0} /\ Length(sent[k]) <= Capacity
         /\ sent[k].first <= sent[k].last /\ sent[k].last <= Written
<1>1. sent[k] \in Packets
  BY DEF IInv, TypeOK
<1>2. sent[k].cmd \in Commands /\ sent[k].first \in Nat /\ sent[k].last \in Nat
  BY <1>1 DEF Packets
<1>3. Length(sent[k]) \in PacketSizes(sent[k].cmd) /\ sent[k].last <= Written
  BY DEF IInv, SentInv
<1>4. Length(sent[k]) \in Nat \ {0} /\ Length(sent[k]) <= Capacity
  BY <1>2, <1>3, SizeFacts
<1>5. sent[k].first <= sent[k].last
  BY <1>2, <1>4 DEF Length
<1>6. sent[k].first # 0
  <2>1. CASE k = 1
    BY <2>1 DEF IInv, SentInv
  <2>2. CASE k # 1
    <3>1. 1 \in 1..(k - 1) /\ 1 \in 1..Len(sent)
      BY <2>2
    <3>2. sent[1].last < sent[k].first
      BY <3>1 DEF IInv, SentInv
    <3>3. sent[1] \in Packets
      BY <3>1 DEF IInv, TypeOK
    <3>4. sent[1].last \in Nat
      BY <3>3 DEF Packets
    <3>5. QED BY <3>2, <3>4, <1>2
  <2>3. QED BY <2>1, <2>2
<1>7. QED BY <1>1, <1>2, <1>3, <1>4, <1>5, <1>6 DEF Length

LEMMA Numbers ==
  ASSUME IInv
  PROVE  /\ got \in Nat /\ taken \in Nat /\ Written \in Nat /\ NextFirst \in Nat
         /\ Len(sent) \in Nat /\ Len(handled) \in Nat /\ Capacity \in Nat
         /\ HeaderBytes \in Nat \ {0} /\ sent \in Seq(Packets) /\ handled \in Seq(Packets)
<1>1. /\ got \in Nat /\ taken \in Nat /\ sent \in Seq(Packets) /\ handled \in Seq(Packets)
  BY DEF IInv, TypeOK
<1>2. Written \in Nat
  <2>1. CASE sent = <<>>
    BY <2>1 DEF Written
  <2>2. CASE sent # <<>>
    <3>1. Len(sent) \in 1..Len(sent)
      BY <2>2, <1>1
    <3>2. QED BY <2>2, <3>1, PacketFacts DEF Written
  <2>3. QED BY <2>1, <2>2
<1>3. NextFirst \in Nat
  <2>1. CASE handled = <<>>
    BY <2>1 DEF NextFirst
  <2>2. CASE handled # <<>>
    <3>1. handled[Len(handled)] \in Packets
      BY <2>2, <1>1
    <3>2. QED BY <2>2, <3>1 DEF NextFirst, Packets
  <2>3. QED BY <2>1, <2>2
<1>4. QED BY <1>1, <1>2, <1>3, InputFramingAssumption

\* The next packet starts where the last one handled ends.
LEMMA NextStarts ==
  ASSUME IInv, Len(handled) < Len(sent)
  PROVE  Len(handled) + 1 \in 1..Len(sent) /\ sent[Len(handled) + 1].first = NextFirst
<1> DEFINE k == Len(handled) + 1
<1>1. k \in 1..Len(sent)
  BY Numbers
<1>2. sent[k].first = IF k = 1 THEN 1 ELSE sent[k - 1].last + 1
  BY <1>1 DEF IInv, SentInv
<1>3. CASE handled = <<>>
  BY <1>1, <1>2, <1>3 DEF NextFirst
<1>4. CASE handled # <<>>
  <2>1. k # 1 /\ k - 1 = Len(handled) /\ Len(handled) \in 1..Len(handled)
    BY <1>4, Numbers
  <2>2. handled[Len(handled)] = sent[Len(handled)]
    BY <2>1 DEF IInv, HandledInv
  <2>3. QED BY <1>1, <1>2, <1>4, <2>1, <2>2 DEF NextFirst
<1>5. QED BY <1>3, <1>4

\* Only the next packet starts where the next packet starts, and none starts
\* inside it.
LEMMA StartsInside ==
  ASSUME IInv, NEW i \in 1..Len(sent), NEW j \in 1..Len(sent),
         sent[i].first <= sent[j].first, sent[j].first <= sent[i].last
  PROVE  i = j
<1>1. /\ sent[i].first \in Nat /\ sent[i].last \in Nat
      /\ sent[j].first \in Nat /\ sent[j].last \in Nat
      /\ sent[i].first <= sent[i].last /\ sent[j].first <= sent[j].last
  BY PacketFacts
<1>2. ASSUME i < j PROVE FALSE
  <2>1. i \in 1..(j - 1)
    BY <1>2
  <2>2. sent[i].last < sent[j].first
    BY <2>1 DEF IInv, SentInv
  <2>3. QED BY <2>2, <1>1
<1>3. ASSUME j < i PROVE FALSE
  <2>1. j \in 1..(i - 1)
    BY <1>3
  <2>2. sent[j].last < sent[i].first
    BY <2>1 DEF IInv, SentInv
  <2>3. QED BY <2>2, <1>1
<1>4. QED BY <1>2, <1>3

LEMMA Inside ==
  ASSUME NEW f \in Nat, NEW l \in Nat, NEW h \in Nat \ {0}, NEW t \in Nat,
         NEW x, t = f + h - 1, x = t + 1, l - f + 1 > h
  PROVE  f <= x /\ x <= l /\ f # x
OBVIOUS

\* When a packet is at the head of the buffer, it is the next one.
LEMMA HeadIsNext ==
  ASSUME IInv, NEW k \in 1..Len(sent), AtHead(sent[k])
  PROVE  k = Len(handled) + 1 /\ taken + 1 = NextFirst
<1>1. sent[k].first = taken + 1 /\ sent[k].first <= sent[k].last /\ sent[k].last <= Written
  BY PacketFacts DEF AtHead
<1>2. taken + 1 = NextFirst
  <2>1. ASSUME Torn PROVE FALSE
    <3>1. PICK i \in 1..Len(sent) :
            /\ sent[i].cmd = "LOGON_CHALLENGE" /\ taken = sent[i].first + HeaderBytes - 1
      BY <2>1 DEF Torn
    <3>2. /\ Length(sent[i]) > HeaderBytes /\ sent[i].first \in Nat /\ sent[i].last \in Nat
          /\ Length(sent[i]) = sent[i].last - sent[i].first + 1
      BY <3>1, PacketFacts, SizeFacts
    <3>3. sent[i].first <= sent[k].first /\ sent[k].first <= sent[i].last
          /\ sent[i].first # sent[k].first
      <4>1. /\ taken \in Nat /\ HeaderBytes \in Nat \ {0}
            /\ taken = sent[i].first + HeaderBytes - 1
        BY <3>1, Numbers
      <4>2. sent[i].last - sent[i].first + 1 > HeaderBytes
        BY <3>2
      <4>3. sent[k].first = taken + 1
        BY <1>1
      <4>4. QED BY <3>2, <4>1, <4>2, <4>3, Inside
    <3>4. QED BY <3>3, StartsInside
  <2>2. QED BY <2>1 DEF IInv, BufferInv
<1>3. Len(handled) < Len(sent)
  <2>1. ASSUME Len(handled) = Len(sent) PROVE FALSE
    <3>1. sent # <<>> /\ handled # <<>> /\ Len(handled) \in 1..Len(handled)
      BY <2>1, Numbers
    <3>2. handled[Len(handled)] = sent[Len(sent)]
      BY <2>1, <3>1 DEF IInv, HandledInv
    <3>3. NextFirst = Written + 1
      BY <3>1, <3>2 DEF NextFirst, Written
    <3>4. QED BY <1>1, <1>2, <3>3, Numbers, PacketFacts
  <2>2. QED BY <2>1, Numbers DEF IInv, HandledInv
<1>4. sent[Len(handled) + 1].first = sent[k].first /\ Len(handled) + 1 \in 1..Len(sent)
  BY <1>1, <1>2, <1>3, NextStarts
<1>5. k = Len(handled) + 1
  BY <1>1, <1>4, PacketFacts, StartsInside
<1>6. QED BY <1>2, <1>5

-----------------------------------------------------------------------------
(* Steps preserve the invariant. *)

Flags ==
  /\ peer \in {"open", "ended", "broken"}
  /\ conn \in {"open", "closed", "leaked"}
  /\ reading \in BOOLEAN /\ again \in BOOLEAN /\ authed \in BOOLEAN

\* Steps that take nothing from the buffer.
LEMMA StillStep ==
  ASSUME IInv, Flags', UNCHANGED <<sent, handled, taken>>,
         got' \in Nat, got <= got', got' <= Written, got' - taken <= Capacity
  PROVE  IInv'
<1>1. TypeOK'
  BY DEF IInv, TypeOK, Flags
<1>2. SentInv' /\ HandledInv'
  BY DEF IInv, SentInv, HandledInv, Length, Written
<1>3. BufferInv'
  <2>1. taken <= got' /\ Written' = Written
    BY Numbers DEF IInv, BufferInv, Written
  <2>2. NextFirst' = NextFirst /\ Torn' = Torn
    BY DEF NextFirst, Torn
  <2>3. QED BY <2>1, <2>2 DEF IInv, BufferInv
<1>4. QED BY <1>1, <1>2, <1>3 DEF IInv

\* The client sends a packet.
LEMMA SendPacketStep ==
  ASSUME IInv, NEW cmd \in Commands, NEW size \in PacketSizes(cmd), SendPacket(cmd, size)
  PROVE  IInv'
<1> DEFINE packet == [cmd |-> cmd, first |-> Written + 1, last |-> Written + size]
           n == Len(sent)
<1>1. /\ size \in Nat \ {0} /\ Written \in Nat /\ n \in Nat /\ sent \in Seq(Packets)
      /\ UNCHANGED <<peer, conn, reading, again, got, taken, authed, handled>>
  BY Numbers, SizeFacts DEF SendPacket
<1>2. packet \in Packets /\ Length(packet) = size
  BY <1>1 DEF Packets, Length
<1>3. /\ sent' \in Seq(Packets) /\ Len(sent') = n + 1 /\ sent' # <<>>
      /\ \A i \in 1..n : sent'[i] = sent[i]
      /\ sent'[n + 1] = packet
  <2>1. sent' = Append(sent, packet)
    BY DEF SendPacket
  <2> HIDE DEF packet
  <2>2. QED BY <2>1, <1>1, <1>2, AppendProperties
<1>4. Written' = Written + size
  BY <1>1, <1>3 DEF Written
<1>5. TypeOK'
  BY <1>1, <1>3 DEF IInv, TypeOK
<1>6. SentInv'
  <2> SUFFICES ASSUME NEW k \in 1..Len(sent')
               PROVE  /\ Length(sent'[k]) \in PacketSizes(sent'[k].cmd)
                      /\ sent'[k].last <= Written'
                      /\ sent'[k].first = IF k = 1 THEN 1 ELSE sent'[k - 1].last + 1
                      /\ \A j \in 1..(k - 1) : sent'[j].last < sent'[k].first
    BY DEF SentInv, Length
  <2>1. CASE k \in 1..n
    <3>1. sent'[k] = sent[k] /\ \A j \in 1..(k - 1) : j \in 1..n /\ sent'[j] = sent[j]
      BY <1>1, <1>3, <2>1
    <3>2. sent[k].last <= Written'
      BY <1>1, <1>4, <2>1, PacketFacts
    <3>3. k # 1 => sent'[k - 1] = sent[k - 1]
      BY <1>1, <1>3, <2>1
    <3>4. QED BY <2>1, <3>1, <3>2, <3>3 DEF IInv, SentInv
  <2>2. CASE k = n + 1
    <3>1. sent'[k] = packet /\ packet.last = Written'
      BY <1>3, <1>4, <2>2
    <3>2. packet.first = IF k = 1 THEN 1 ELSE sent'[k - 1].last + 1
      <4>1. CASE n = 0
        <5>1. sent = <<>>
          BY <1>1, <4>1
        <5>2. QED BY <2>2, <4>1, <5>1 DEF Written
      <4>2. CASE n # 0
        <5>1. sent # <<>> /\ n \in 1..n /\ k - 1 = n /\ k # 1
          BY <1>1, <2>2, <4>2
        <5>2. sent'[k - 1] = sent[n] /\ Written = sent[n].last
          BY <5>1, <1>3 DEF Written
        <5>3. QED BY <5>1, <5>2
      <4>3. QED BY <4>1, <4>2
    <3>3. ASSUME NEW j \in 1..(k - 1) PROVE sent'[j].last < packet.first
      <4>1. j \in 1..n
        BY <1>1, <2>2
      <4>2. sent'[j] = sent[j] /\ sent[j].last <= Written /\ sent[j].last \in Nat
        BY <4>1, <1>3, PacketFacts
      <4>3. QED BY <4>2, <1>1
    <3>4. Length(packet) \in PacketSizes(packet.cmd) /\ packet.last <= Written'
      BY <1>1, <1>2, <1>4
    <3>5. QED BY <3>1, <3>2, <3>3, <3>4
  <2>3. QED BY <1>1, <1>3, <2>1, <2>2
<1>7. HandledInv'
  <2>1. Len(handled) <= n /\ Len(handled) \in Nat
    BY Numbers DEF IInv, HandledInv
  <2>2. \A k \in 1..Len(handled) : k \in 1..n /\ sent'[k] = sent[k]
    BY <1>1, <1>3, <2>1
  <2>3. Len(handled) <= Len(sent')
    BY <1>1, <1>3, <2>1
  <2>4. QED BY <1>1, <2>2, <2>3 DEF IInv, HandledInv
<1>8. BufferInv'
  <2>1. taken <= got /\ got <= Written' /\ got - taken <= Capacity
    BY <1>1, <1>4, Numbers DEF IInv, BufferInv
  <2>2. NextFirst' = NextFirst
    BY <1>1 DEF NextFirst
  <2>3. ASSUME Torn PROVE Torn'
    <3>1. PICK k \in 1..n : /\ sent[k].cmd = "LOGON_CHALLENGE" /\ k = Len(handled) + 1
                            /\ taken = sent[k].first + HeaderBytes - 1
      BY <2>3 DEF Torn
    <3>2. sent'[k] = sent[k] /\ k \in 1..Len(sent')
      BY <1>1, <1>3
    <3>3. QED BY <1>1, <3>1, <3>2 DEF Torn
  <2>4. QED BY <1>1, <2>1, <2>2, <2>3 DEF IInv, BufferInv
<1>9. QED BY <1>5, <1>6, <1>7, <1>8 DEF IInv

\* A handler takes the packet at the head of the buffer.
LEMMA TakePacketStep ==
  ASSUME IInv, Flags', NEW k \in 1..Len(sent), AtHead(sent[k]),
         Length(sent[k]) <= RecvLen, TakePacket(sent[k], Length(sent[k])),
         UNCHANGED <<sent, got>>
  PROVE  IInv' /\ k = Len(handled) + 1 /\ handled' = Append(handled, sent[k])
<1> DEFINE packet == sent[k]
<1>1. k = Len(handled) + 1 /\ taken + 1 = NextFirst /\ packet.first = taken + 1
  BY HeadIsNext DEF AtHead
<1>2. /\ packet \in Packets /\ packet.first \in Nat \ {0} /\ packet.last \in Nat
      /\ Length(packet) = packet.last - packet.first + 1 /\ Length(packet) \in Nat \ {0}
      /\ packet.first <= packet.last /\ packet.last <= Written
  BY PacketFacts
<1>3. handled' = Append(handled, packet) /\ taken' = taken + Length(packet)
  BY DEF TakePacket
<1>4. /\ handled' \in Seq(Packets) /\ Len(handled') = Len(handled) + 1
      /\ \A i \in 1..Len(handled) : handled'[i] = handled[i]
      /\ handled'[Len(handled) + 1] = packet /\ handled' # <<>>
  <2>1. handled \in Seq(Packets) /\ packet \in Packets
    BY <1>2, Numbers
  <2> HIDE DEF packet
  <2>2. QED BY <1>3, <2>1, AppendProperties
<1>5. taken' = packet.last
  BY <1>1, <1>2, <1>3, Numbers
<1>6. TypeOK'
  BY <1>2, <1>4, <1>5 DEF IInv, TypeOK, Flags
<1>7. SentInv'
  BY DEF IInv, SentInv, Length, Written
<1>8. HandledInv'
  <2>0. Len(handled') <= Len(sent) /\ sent' = sent
    <3>1. Len(handled') = k /\ k <= Len(sent)
      BY <1>1, <1>4
    <3>2. QED BY <3>1
  <2> SUFFICES ASSUME NEW i \in 1..Len(handled') PROVE handled'[i] = sent[i]
    BY <2>0 DEF HandledInv
  <2>1. CASE i \in 1..Len(handled)
    BY <2>1, <1>4 DEF IInv, HandledInv
  <2>2. CASE i = Len(handled) + 1
    BY <2>2, <1>1, <1>4
  <2>3. QED BY <2>1, <2>2, <1>4, Numbers
<1>9. BufferInv'
  <2>1. NextFirst' = packet.last + 1
    BY <1>4 DEF NextFirst
  <2>2. taken' <= got /\ got - taken' <= Capacity
    <3>1. Length(packet) <= got - taken /\ got - taken <= Capacity
      BY DEF RecvLen, IInv, BufferInv
    <3>2. QED BY <3>1, <1>2, <1>3, Numbers
  <2>3. got <= Written /\ Written' = Written
    BY DEF IInv, BufferInv, Written
  <2>4. QED BY <1>5, <2>1, <2>2, <2>3 DEF BufferInv
<1>10. QED BY <1>1, <1>3, <1>6, <1>7, <1>8, <1>9 DEF IInv

\* The header of the challenge at the head of the buffer is taken.
LEMMA TearStep ==
  ASSUME IInv, Flags', NEW k \in 1..Len(sent), AtHead(sent[k]),
         sent[k].cmd = "LOGON_CHALLENGE", RecvLen >= ChallengeBytes,
         taken' = taken + HeaderBytes, UNCHANGED <<sent, got, handled>>
  PROVE  IInv'
<1>1. k = Len(handled) + 1 /\ sent[k].first = taken + 1
  BY HeadIsNext DEF AtHead
<1>2. taken' \in Nat /\ taken' <= got /\ got - taken' <= Capacity
  <2>1. got - taken >= ChallengeBytes /\ got - taken <= Capacity
    BY DEF RecvLen, IInv, BufferInv
  <2>2. ChallengeBytes \in Nat /\ HeaderBytes + 1 < ChallengeBytes
    BY InputFramingAssumption
  <2>3. QED BY <2>1, <2>2, Numbers
<1>3. TypeOK'
  BY <1>2 DEF IInv, TypeOK, Flags
<1>4. SentInv' /\ HandledInv'
  BY DEF IInv, SentInv, HandledInv, Length, Written
<1>5. Torn'
  <2>1. taken' = sent[k].first + HeaderBytes - 1
    BY <1>1, Numbers
  <2>2. QED BY <1>1, <2>1 DEF Torn
<1>6. BufferInv'
  BY <1>2, <1>5 DEF IInv, BufferInv, Written
<1>7. QED BY <1>3, <1>4, <1>6 DEF IInv

\* Nothing is at the head of the buffer that a handler would take.
Drained ==
  \A k \in 1..Len(sent) :
    AtHead(sent[k]) => Blocks(sent[k]) \/ got < sent[k].last

\* OnRead returns and has taken nothing.
Returns ==
  /\ UNCHANGED <<conn, taken, authed, handled>> /\ Drained

\* OnRead returns from a challenge whose rest is missing.
Tears(k) ==
  /\ AtHead(sent[k]) /\ sent[k].cmd = "LOGON_CHALLENGE" /\ RecvLen >= ChallengeBytes
  /\ taken' = taken + HeaderBytes
  /\ UNCHANGED <<conn, authed, handled>>

\* A handler has taken a packet; OnRead goes on, or the connection is given up, or
\* the packet was a proof with A = 0.
Takes(k) ==
  /\ AtHead(sent[k]) /\ Length(sent[k]) <= RecvLen
  /\ TakePacket(sent[k], Length(sent[k]))
  /\ \/ UNCHANGED <<conn, reading>>
     \/ conn' = "leaked"
     \/ UNCHANGED conn /\ sent[k].cmd = "LOGON_PROOF_ZERO"

\* A packet that is not all in the buffer.
LEMMA Incomplete ==
  ASSUME IInv, NEW k \in 1..Len(sent), AtHead(sent[k]),
         RecvLen < Length(sent[k]) \/ Blocks(sent[k])
  PROVE  Drained
<1>1. Blocks(sent[k]) \/ got < sent[k].last
  <2>1. ASSUME RecvLen < Length(sent[k]) PROVE got < sent[k].last
    <3>1. sent[k].first = taken + 1 /\ got - taken < Length(sent[k])
      BY <2>1 DEF AtHead, RecvLen
    <3>2. QED BY <3>1, PacketFacts, Numbers
  <2>2. QED BY <2>1
<1>2. \A i \in 1..Len(sent) : AtHead(sent[i]) => i = k
  BY HeadIsNext
<1>3. QED BY <1>1, <1>2 DEF Drained

\* A turn of the loop returns, tears a challenge, or takes a packet whole.
LEMMA OnReadCases ==
  ASSUME IInv, OnRead
  PROVE  /\ Flags' /\ UNCHANGED <<peer, again, sent, got>> /\ conn = "open" /\ reading
         /\ Returns \/ \E k \in 1..Len(sent) : Tears(k) \/ Takes(k)
<1>1. UNCHANGED <<peer, again, sent, got>> /\ conn = "open" /\ reading
  BY DEF OnRead
<1>2. peer \in {"open", "ended", "broken"} /\ again \in BOOLEAN /\ authed \in BOOLEAN
  BY DEF IInv, TypeOK
<1>3. CASE taken = got \/ \A k \in 1..Len(sent) : ~AtHead(sent[k])
  <2>1. CASE Return /\ Leave
    <3>1. Drained
      <4>1. ASSUME NEW k \in 1..Len(sent), AtHead(sent[k]) PROVE got < sent[k].last
        <5>1. sent[k].first = taken + 1 /\ taken = got
          BY <1>3, <4>1 DEF AtHead
        <5>2. QED BY <5>1, PacketFacts, Numbers
      <4>2. QED BY <4>1 DEF Drained
    <3>2. QED BY <1>1, <1>2, <2>1, <3>1 DEF Return, Leave, Returns, Flags
  <2>2. CASE taken # got
    BY <1>3, <2>1, <2>2 DEF OnRead
  <2>3. CASE taken = got
    <3>1. ~(taken < got)
      BY <2>3, Numbers
    <3>2. QED BY <2>1, <3>1 DEF OnRead
  <2>4. QED BY <2>2, <2>3
<1>4. ASSUME NEW k \in 1..Len(sent), AtHead(sent[k]),
             \/ HandleLogonChallenge(sent[k])
             \/ HandleLogonProof(sent[k])
             \/ HandleRealmList(sent[k])
             \/ Refused(sent[k]) /\ Return /\ Leave
      PROVE  Flags' /\ (Returns \/ Tears(k) \/ Takes(k))
  <2>1. /\ Length(sent[k]) \in Nat \ {0} /\ RecvLen \in Int
        /\ HeaderBytes \in Nat /\ ChallengeBytes \in Nat
        /\ sent[k].cmd \in Proofs => Length(sent[k]) = ProofBytes
        /\ sent[k].cmd = "REALM_LIST" => Length(sent[k]) = RealmListBytes
    <3>1. /\ sent[k].cmd \in Commands /\ Length(sent[k]) \in PacketSizes(sent[k].cmd)
          /\ Length(sent[k]) \in Nat \ {0}
      BY PacketFacts
    <3>2. RecvLen \in Int
      BY Numbers DEF RecvLen
    <3>3. HeaderBytes \in Nat /\ ChallengeBytes \in Nat
      BY InputFramingAssumption
    <3>4. QED BY <3>1, <3>2, <3>3, SizeFacts
  <2>2. CASE HandleLogonChallenge(sent[k])
    <3>1. Flags' /\ sent[k].cmd = "LOGON_CHALLENGE"
      BY <1>1, <1>2, <2>2
         DEF HandleLogonChallenge, Return, Leave, Continue, TakePacket, Flags
    <3>2. CASE RecvLen < ChallengeBytes /\ Leave
      <4>1. RecvLen < Length(sent[k]) \/ Blocks(sent[k])
        BY <2>1, <3>1, <3>2 DEF TooShort, Blocks
      <4>2. Drained
        BY <1>4, <4>1, Incomplete
      <4>3. QED BY <3>1, <3>2, <4>2 DEF Leave, Returns
    <3>3. CASE /\ RecvLen >= ChallengeBytes /\ taken' = taken + HeaderBytes
               /\ UNCHANGED <<conn, authed, handled>>
      BY <1>4, <3>1, <3>3 DEF Tears
    <3>4. CASE /\ RecvLen - HeaderBytes >= Remaining(sent[k])
               /\ TakePacket(sent[k], HeaderBytes + Remaining(sent[k]))
               /\ UNCHANGED <<conn, reading>>
      <4>1. Length(sent[k]) <= RecvLen
        BY <2>1, <3>4 DEF Remaining
      <4>2. HeaderBytes + Remaining(sent[k]) = Length(sent[k])
        BY <2>1 DEF Remaining
      <4>3. QED BY <1>4, <3>1, <3>4, <4>1, <4>2 DEF Takes
    <3>5. QED BY <2>2, <3>2, <3>3, <3>4 DEF HandleLogonChallenge, Continue
  <2>3. CASE HandleLogonProof(sent[k])
    <3>1. Flags' /\ Length(sent[k]) = ProofBytes
      BY <1>1, <1>2, <2>1, <2>3
         DEF HandleLogonProof, Return, Leave, Continue, TakePacket, Flags
    <3>2. CASE RecvLen < ProofBytes /\ Leave
      <4>1. Drained
        BY <1>4, <3>1, <3>2, Incomplete
      <4>2. QED BY <3>1, <3>2, <4>1 DEF Leave, Returns
    <3>3. CASE /\ RecvLen >= ProofBytes /\ TakePacket(sent[k], ProofBytes)
               /\ UNCHANGED conn
               /\ UNCHANGED reading \/ sent[k].cmd = "LOGON_PROOF_ZERO"
      BY <1>4, <2>1, <3>1, <3>3 DEF Takes
    <3>4. QED BY <2>3, <3>2, <3>3 DEF HandleLogonProof, Continue
  <2>4. CASE HandleRealmList(sent[k])
    <3>1. Flags' /\ Length(sent[k]) = RealmListBytes
      BY <1>1, <1>2, <2>1, <2>4
         DEF HandleRealmList, Return, Leave, Continue, TakePacket, Flags
    <3>2. CASE RecvLen < RealmListBytes /\ Leave
      <4>1. Drained
        BY <1>4, <3>1, <3>2, Incomplete
      <4>2. QED BY <3>1, <3>2, <4>1 DEF Leave, Returns
    <3>3. CASE /\ RecvLen >= RealmListBytes /\ TakePacket(sent[k], RealmListBytes)
               /\ UNCHANGED <<conn, reading>> \/ conn' = "leaked"
      BY <1>4, <2>1, <3>1, <3>3 DEF Takes
    <3>4. QED BY <2>4, <3>2, <3>3 DEF HandleRealmList, Continue, Skip
  <2>5. CASE Refused(sent[k]) /\ Return /\ Leave
    <3>1. Drained
      <4>1. \A i \in 1..Len(sent) : AtHead(sent[i]) => i = k
        BY <1>4, HeadIsNext
      <4>2. QED BY <2>5, <4>1 DEF Drained, Blocks
    <3>2. QED BY <1>1, <1>2, <2>5, <3>1 DEF Return, Leave, Returns, Flags
  <2>6. QED BY <1>4, <2>2, <2>3, <2>4, <2>5
<1>5. QED
  <2>1. CASE taken = got \/ \A k \in 1..Len(sent) : ~AtHead(sent[k])
    BY <1>1, <1>3, <2>1
  <2>2. CASE ~(taken = got \/ \A k \in 1..Len(sent) : ~AtHead(sent[k]))
    BY <1>1, <1>4, <2>2 DEF OnRead
  <2>3. QED BY <2>1, <2>2

LEMMA OnReadStep ==
  ASSUME IInv, OnRead
  PROVE  IInv'
<1>1. /\ Flags' /\ UNCHANGED <<sent, got>>
      /\ Returns \/ \E k \in 1..Len(sent) : Tears(k) \/ Takes(k)
  BY OnReadCases
<1>2. CASE Returns
  <2>1. got' \in Nat /\ got <= got' /\ got' <= Written /\ got' - taken <= Capacity
    BY <1>1, Numbers DEF IInv, BufferInv
  <2>2. QED BY <1>1, <1>2, <2>1, StillStep DEF Returns
<1>3. ASSUME NEW k \in 1..Len(sent), Tears(k) PROVE IInv'
  BY <1>1, <1>3, TearStep DEF Tears
<1>4. ASSUME NEW k \in 1..Len(sent), Takes(k) PROVE IInv'
  BY <1>1, <1>4, TakePacketStep DEF Takes
<1>5. QED BY <1>1, <1>2, <1>3, <1>4

LEMMA HandleInputStep ==
  ASSUME IInv, HandleInput
  PROVE  IInv' /\ UNCHANGED <<sent, handled, taken>>
<1>1. Flags' /\ UNCHANGED <<sent, handled, taken>>
  <2>1. peer \in {"open", "ended", "broken"} /\ authed \in BOOLEAN
        /\ conn \in {"open", "closed", "leaked"} /\ reading \in BOOLEAN
        /\ again \in BOOLEAN
    BY DEF IInv, TypeOK
  <2>2. CASE ReadBytes
    BY <2>1, <2>2 DEF HandleInput, ReadBytes, Flags
  <2>3. CASE ReadEnd \/ ReadError
    BY <2>1, <2>3 DEF HandleInput, ReadEnd, ReadError, Close, Flags
  <2>4. QED BY <2>2, <2>3 DEF HandleInput
<1>2. got' \in Nat /\ got <= got' /\ got' <= Written /\ got' - taken <= Capacity
  <2>1. CASE ReadBytes
    <3>1. PICK n \in 1..(Capacity - (got - taken)) : got' = got + n /\ got + n <= Written
      BY <2>1 DEF ReadBytes, Pieces, Space, RecvLen
    <3>2. QED BY <3>1, Numbers
  <2>2. CASE got' = got
    BY <2>2, Numbers DEF IInv, BufferInv
  <2>3. QED BY <2>1, <2>2 DEF HandleInput, ReadEnd, ReadError, Close
<1>3. QED BY <1>1, <1>2, StillStep

LEMMA Inductive == IInv /\ [Next]_vars => IInv'
<1> SUFFICES ASSUME IInv, [Next]_vars PROVE IInv'
  OBVIOUS
<1>1. CASE HandleInput
  BY <1>1, HandleInputStep
<1>2. CASE OnRead
  BY <1>2, OnReadStep
<1>3. CASE ClientSends
  BY <1>3, SendPacketStep DEF ClientSends
<1>4. CASE ClientEnds \/ UNCHANGED vars
  <2>1. Flags' /\ UNCHANGED <<sent, handled, taken, got>>
    BY <1>4 DEF ClientEnds, vars, IInv, TypeOK, Flags
  <2>2. got' \in Nat /\ got <= got' /\ got' <= Written /\ got' - taken <= Capacity
    BY <2>1, Numbers DEF IInv, BufferInv
  <2>3. QED BY <2>1, <2>2, StillStep
<1>5. QED BY <1>1, <1>2, <1>3, <1>4 DEF Next

LEMMA Initially == Init => IInv /\ WaitInv
<1> SUFFICES ASSUME Init PROVE IInv /\ WaitInv
  OBVIOUS
<1>1. sent = <<>> /\ handled = <<>> /\ Len(sent) = 0 /\ Len(handled) = 0
  BY EmptySeq DEF Init
<1>2. TypeOK
  BY EmptySeq DEF Init, TypeOK
<1>3. SentInv /\ HandledInv /\ WaitInv
  BY <1>1 DEF SentInv, HandledInv, WaitInv
<1>4. BufferInv
  BY <1>1, InputFramingAssumption DEF Init, BufferInv, NextFirst, Written
<1>5. QED BY <1>2, <1>3, <1>4 DEF IInv

\* When OnRead is left, nothing is left that it could have taken but behind a proof
\* with A = 0; what arrives later is read by a call of its own.
LEMMA WaitStep ==
  ASSUME IInv, WaitInv, [Next]_vars
  PROVE  WaitInv'
<1>1. CASE HandleInput
  <2>1. CASE ReadBytes
    BY <2>1 DEF ReadBytes, WaitInv
  <2>2. CASE ReadEnd \/ ReadError
    BY <1>1, <2>2
       DEF HandleInput, ReadEnd, ReadError, Close, WaitInv, AtHead, Blocks, Refused,
           TooShort, Stalled, RecvLen
  <2>3. QED BY <1>1, <2>1, <2>2 DEF HandleInput
<1>2. CASE OnRead
  <2>1. /\ UNCHANGED <<sent, got>> /\ conn = "open" /\ reading
        /\ Returns \/ \E k \in 1..Len(sent) : Tears(k) \/ Takes(k)
    BY <1>2, OnReadCases
  <2>2. CASE Returns
    BY <2>1, <2>2 DEF Returns, Drained, WaitInv, AtHead, Blocks, Refused, TooShort
  <2>3. ASSUME NEW k \in 1..Len(sent), Tears(k) PROVE WaitInv'
    <3>1. sent[k].first = taken + 1 /\ taken' = taken + HeaderBytes
      BY <2>3 DEF Tears, AtHead
    <3>2. ASSUME NEW i \in 1..Len(sent), sent[i].first = taken' + 1 PROVE FALSE
      <4>1. /\ Length(sent[k]) > HeaderBytes
            /\ Length(sent[k]) = sent[k].last - sent[k].first + 1
            /\ sent[k].first \in Nat /\ sent[k].last \in Nat
        BY <2>3, PacketFacts, SizeFacts DEF Tears
      <4>2. /\ sent[k].first <= sent[i].first /\ sent[i].first <= sent[k].last
            /\ sent[k].first # sent[i].first
        <5>1. taken' \in Nat /\ taken' = sent[k].first + HeaderBytes - 1
          <6>1. taken \in Nat /\ HeaderBytes \in Nat
            BY Numbers
          <6>2. QED BY <3>1, <6>1
        <5>2. sent[k].last - sent[k].first + 1 > HeaderBytes
          BY <4>1
        <5>3. QED BY <3>2, <4>1, <5>1, <5>2, Numbers, Inside
      <4>3. QED BY <4>2, StartsInside
    <3>3. QED BY <2>1, <3>2 DEF WaitInv, AtHead
  <2>4. ASSUME NEW k \in 1..Len(sent), Takes(k) PROVE WaitInv'
    <3>1. CASE UNCHANGED <<conn, reading>> \/ conn' = "leaked"
      BY <2>1, <3>1 DEF WaitInv
    <3>2. CASE sent[k].cmd = "LOGON_PROOF_ZERO"
      <4>1. handled' = Append(handled, sent[k]) /\ taken' = taken + Length(sent[k])
        BY <2>4 DEF Takes, TakePacket
      <4>2. Stalled'
        <5>1. sent[k] \in Packets /\ handled \in Seq(Packets)
          BY PacketFacts, Numbers
        <5>2. handled' # <<>> /\ handled'[Len(handled')] = sent[k]
          BY <4>1, <5>1, AppendProperties
        <5>3. QED BY <3>2, <5>2 DEF Stalled
      <4>3. RecvLen' < Capacity
        <5>1. got - taken <= Capacity /\ got' = got
          BY <2>1 DEF IInv, BufferInv
        <5>2. QED BY <4>1, <5>1, PacketFacts, Numbers DEF RecvLen
      <4>4. QED BY <4>2, <4>3 DEF WaitInv
    <3>3. QED BY <2>4, <3>1, <3>2 DEF Takes
  <2>5. QED BY <2>1, <2>2, <2>3, <2>4
<1>3. CASE ClientSends
  <2>0. PICK cmd \in Commands : \E size \in PacketSizes(cmd) : SendPacket(cmd, size)
    BY <1>3 DEF ClientSends
  <2>1. PICK size \in PacketSizes(cmd) : SendPacket(cmd, size)
    BY <2>0
  <2> DEFINE packet == [cmd |-> cmd, first |-> Written + 1, last |-> Written + size]
  <2>2. /\ Len(sent') = Len(sent) + 1 /\ sent'[Len(sent) + 1] = packet
        /\ \A k \in 1..Len(sent) : sent'[k] = sent[k]
        /\ UNCHANGED <<conn, reading, got, taken, authed, handled>>
    <3>1. /\ sent' = Append(sent, packet)
          /\ UNCHANGED <<conn, reading, got, taken, authed, handled>>
      BY <2>1 DEF SendPacket
    <3>2. sent \in Seq(Packets)
      BY Numbers
    <3>3. QED BY <3>1, <3>2
  <2>3. got < packet.last
    <3>1. size \in Nat \ {0} /\ got <= Written
      BY SizeFacts DEF IInv, BufferInv
    <3>2. QED BY <3>1, Numbers
  <2>4. ASSUME NEW k \in 1..Len(sent'), conn = "open", ~reading, sent'[k].first = taken + 1
        PROVE  \/ Blocks(sent'[k]) \/ got < sent'[k].last
               \/ Stalled /\ RecvLen < Capacity
    <3>1. CASE k \in 1..Len(sent)
      BY <2>2, <2>4, <3>1 DEF WaitInv, AtHead
    <3>2. CASE k = Len(sent) + 1
      BY <2>2, <2>3, <3>2
    <3>3. QED BY <2>2, <3>1, <3>2, Numbers
  <2>5. QED BY <2>2, <2>4 DEF WaitInv, AtHead, Blocks, Refused, TooShort, Stalled, RecvLen
<1>4. CASE ClientEnds \/ UNCHANGED vars
  BY <1>4 DEF ClientEnds, vars, WaitInv, AtHead, Blocks, Refused, TooShort, Stalled, RecvLen
<1>5. QED BY <1>1, <1>2, <1>3, <1>4 DEF Next

-----------------------------------------------------------------------------
(* The theorems. *)

\* The packets that were sent are consecutive, the first of them are handled, and
\* the buffer starts with the next one or is torn: the inductive invariant of
\* handle_input and OnRead.
THEOREM Invariance == Spec => []IInv
<1>1. QED BY Initially, Inductive, PTL DEF Spec

\* Between two calls of handle_input a whole packet that a handler would take waits
\* at the head of the buffer only behind a proof with A = 0.
LEMMA Waits == Spec => []WaitInv
<1>1. IInv /\ WaitInv /\ [Next]_vars => WaitInv'
  BY WaitStep
<1>2. QED BY <1>1, Initially, Invariance, PTL DEF Spec

\* Without a block or a proof with A = 0 the packets whose bytes were all read are
\* the handled ones.
LEMMA WholeAreHandled ==
  ASSUME IInv, WaitInv, conn = "open", ~reading, ~Blocked, ~Stalled,
         NEW k \in 1..Len(sent)
  PROVE  sent[k].last <= got <=> k <= Len(handled)
<1>1. taken + 1 = NextFirst /\ taken <= got
  BY DEF IInv, BufferInv, Blocked
<1>2. ASSUME k <= Len(handled) PROVE sent[k].last <= got
  <2> DEFINE m == Len(handled)
  <2>1. m \in 1..Len(sent) /\ k \in 1..m /\ handled # <<>>
    BY <1>2, Numbers DEF IInv, HandledInv
  <2>2. handled[m] = sent[m]
    BY <2>1 DEF IInv, HandledInv
  <2>3. taken = sent[m].last
    <3>1. sent[m].last \in Nat /\ NextFirst = sent[m].last + 1
      BY <2>1, <2>2, PacketFacts DEF NextFirst
    <3>2. taken \in Nat
      BY Numbers
    <3>3. QED BY <1>1, <3>1, <3>2
  <2>4. sent[k].last <= sent[m].last
    <3>1. CASE k = m
      BY <3>1, <2>1, PacketFacts
    <3>2. CASE k \in 1..(m - 1)
      <4>1. sent[k].last < sent[m].first
        BY <2>1, <3>2 DEF IInv, SentInv
      <4>2. QED BY <2>1, <4>1, PacketFacts
    <3>3. QED BY <2>1, <3>1, <3>2
  <2>5. taken \in Nat /\ sent[k].last \in Nat /\ got \in Nat
    BY PacketFacts, Numbers
  <2>6. QED BY <1>1, <2>3, <2>4, <2>5
<1>3. ASSUME ~(k <= Len(handled)) PROVE ~(sent[k].last <= got)
  <2> DEFINE j == Len(handled) + 1
  <2>1. j \in 1..Len(sent) /\ j <= k /\ Len(handled) < Len(sent)
    BY <1>3, Numbers
  <2>2. AtHead(sent[j])
    BY <1>1, <2>1, NextStarts DEF AtHead
  <2>3. got < sent[j].last
    BY <2>1, <2>2 DEF WaitInv, Blocked
  <2>4. sent[j].last <= sent[k].last
    <3>1. CASE j = k
      BY <3>1, PacketFacts
    <3>2. CASE j \in 1..(k - 1)
      <4>1. sent[j].last < sent[k].first
        BY <3>2 DEF IInv, SentInv
      <4>2. QED BY <2>1, <4>1, PacketFacts
    <3>3. QED BY <2>1, <3>1, <3>2
  <2>5. sent[j].last \in Nat /\ sent[k].last \in Nat /\ got \in Nat
    BY <2>1, PacketFacts, Numbers
  <2>6. QED BY <2>3, <2>4, <2>5
<1>4. QED BY <1>2, <1>3

\* Each packet is handled by the call that reads its last byte: between two calls
\* exactly the packets that have arrived whole are handled, unless the buffer is
\* blocked or the last packet was a proof with A = 0.
THEOREM AllHandled == Spec => []WholeHandled
<1>1. IInv /\ WaitInv => WholeHandled
  BY WholeAreHandled DEF WholeHandled
<1>2. QED BY <1>1, Invariance, Waits, PTL

\* The buffer is full only if its head is blocked.
LEMMA FullOnlyBlocked ==
  ASSUME IInv, WaitInv, conn = "open", ~reading, Space = 0
  PROVE  Blocked
<1>1. got - taken = Capacity /\ got <= Written /\ taken < got
  <2>1. ProofBytes \in Nat \ {0} /\ ProofBytes <= Capacity
    BY InputFramingAssumption
  <2>2. got \in Nat /\ taken \in Nat /\ Capacity \in Nat
    BY Numbers
  <2>3. Capacity - (got - taken) = 0
    BY DEF Space, RecvLen
  <2>4. got <= Written
    BY DEF IInv, BufferInv
  <2>5. QED BY <2>1, <2>2, <2>3, <2>4
<1>2. CASE Torn
  BY <1>2 DEF Blocked
<1>3. CASE taken + 1 = NextFirst
  <2>1. Len(handled) < Len(sent)
    <3>1. ASSUME Len(handled) = Len(sent) PROVE FALSE
      <4>1. CASE sent = <<>>
        BY <1>1, <4>1, Numbers DEF Written
      <4>2. CASE sent # <<>>
        <5>1. handled # <<>> /\ Len(handled) \in 1..Len(handled)
          BY <3>1, <4>2, Numbers
        <5>2. handled[Len(handled)] = sent[Len(sent)]
          BY <3>1, <5>1 DEF IInv, HandledInv
        <5>3. NextFirst = Written + 1
          BY <4>2, <5>1, <5>2 DEF NextFirst, Written
        <5>4. QED BY <1>1, <1>3, <5>3, Numbers
      <4>3. QED BY <4>1, <4>2
    <3>2. QED BY <3>1, Numbers DEF IInv, HandledInv
  <2> DEFINE k == Len(handled) + 1
  <2>2. k \in 1..Len(sent) /\ AtHead(sent[k])
    BY <1>3, <2>1, NextStarts DEF AtHead
  <2>3. ~(got < sent[k].last)
    <3>1. /\ Length(sent[k]) <= Capacity /\ sent[k].last \in Nat
          /\ Length(sent[k]) = sent[k].last - sent[k].first + 1
          /\ sent[k].first = taken + 1
      BY <2>2, PacketFacts DEF AtHead
    <3>2. sent[k].last - (taken + 1) + 1 <= Capacity
      BY <3>1
    <3>3. QED BY <1>1, <3>1, <3>2, Numbers
  <2>4. Blocks(sent[k])
    <3>1. ~(RecvLen < Capacity)
      BY <1>1, Numbers DEF RecvLen
    <3>2. QED BY <2>2, <2>3, <3>1 DEF WaitInv
  <2>5. QED BY <2>2, <2>4 DEF Blocked
<1>4. QED BY <1>2, <1>3 DEF IInv, BufferInv

\* The server closes the connection of a client that is there only if its buffer
\* is blocked.
THEOREM ClosedForCause == Spec => ClosedOnlyBlocked
<1> DEFINE A == conn = "open" /\ conn' = "closed" => peer # "open" \/ Blocked
<1>1. ASSUME IInv, WaitInv, Next, conn = "open", conn' = "closed", peer = "open"
      PROVE  Blocked
  <2>1. CASE HandleInput
    <3>1. Space = 0 /\ ~reading
      BY <1>1, <2>1 DEF HandleInput, ReadBytes, ReadEnd, ReadError
    <3>2. QED BY <1>1, <3>1, FullOnlyBlocked
  <2>2. CASE OnRead
    <3>1. Returns \/ \E k \in 1..Len(sent) : Tears(k) \/ Takes(k)
      BY <1>1, <2>2, OnReadCases
    <3>2. QED BY <1>1, <3>1 DEF Returns, Tears, Takes
  <2>3. CASE ClientSends \/ ClientEnds
    BY <1>1, <2>3 DEF ClientSends, SendPacket, ClientEnds
  <2>4. QED BY <1>1, <2>1, <2>2, <2>3 DEF Next
<1>2. IInv /\ WaitInv /\ [Next]_vars => [A]_vars
  BY <1>1
<1>3. QED BY <1>2, Invariance, Waits, PTL DEF Spec, ClosedOnlyBlocked

LEMMA ChannelStep ==
  ASSUME IInv, [Next]_vars
  PROVE  [Channel!PNext]_(Channel!pvars)
<1>1. CASE HandleInput
  <2>1. UNCHANGED <<sent, handled>> /\ conn = "open"
    BY <1>1, HandleInputStep DEF HandleInput
  <2>2. CASE conn' = "open"
    BY <2>1, <2>2 DEF Channel!pvars
  <2>3. CASE conn' # "open"
    BY <2>1, <2>3 DEF Channel!PNext, Channel!EndConnection
  <2>4. QED BY <2>2, <2>3
<1>2. CASE OnRead
  <2>1. /\ Flags' /\ UNCHANGED <<sent, got>> /\ conn = "open"
        /\ Returns \/ \E k \in 1..Len(sent) : Tears(k) \/ Takes(k)
    BY <1>2, OnReadCases
  <2>2. CASE UNCHANGED <<conn, handled>>
    BY <2>1, <2>2 DEF Channel!pvars
  <2>3. ASSUME NEW k \in 1..Len(sent), Takes(k) PROVE Channel!PNext
    <3>1. k = Len(handled) + 1 /\ handled' = Append(handled, sent[k])
      BY <2>1, <2>3, TakePacketStep DEF Takes
    <3>2. Len(handled) < Len(sent)
      BY <3>1, Numbers
    <3>3. QED BY <2>1, <3>1, <3>2 DEF Channel!PNext, Channel!HandlePacket
  <2>4. QED BY <2>1, <2>2, <2>3 DEF Returns, Tears
<1>3. CASE ClientSends
  <2>1. PICK packet \in Packets : sent' = Append(sent, packet)
    <3>0. PICK cmd \in Commands : \E size \in PacketSizes(cmd) : SendPacket(cmd, size)
      BY <1>3 DEF ClientSends
    <3>1. PICK size \in PacketSizes(cmd) : SendPacket(cmd, size)
      BY <3>0
    <3>2. [cmd |-> cmd, first |-> Written + 1, last |-> Written + size] \in Packets
      BY SizeFacts, Numbers DEF Packets
    <3>3. QED BY <3>1, <3>2 DEF SendPacket
  <2>2. UNCHANGED <<conn, handled>>
    BY <1>3 DEF ClientSends, SendPacket
  <2>3. Len(sent') = Len(sent) + 1 /\ SubSeq(sent', 1, Len(sent)) = sent
    <3>1. sent \in Seq(Packets)
      BY Numbers
    <3>2. QED BY <2>1, <3>1, AppendProperties
  <2>4. QED BY <2>2, <2>3 DEF Channel!PNext, Channel!SendPacket
<1>4. CASE ClientEnds \/ UNCHANGED vars
  BY <1>4 DEF ClientEnds, vars, Channel!pvars
<1>5. QED BY <1>1, <1>2, <1>3, <1>4 DEF Next

\* What handle_input and OnRead find in the bytes is the packets that were sent:
\* each whole, once, and in order, in whatever pieces they arrive.
THEOREM Refinement == Spec => ImplementsPacketChannel
<1>1. Init => Channel!PInit
  BY DEF Init, Channel!PInit
<1>2. IInv /\ [Next]_vars => [Channel!PNext]_(Channel!pvars)
  BY ChannelStep
<1>3. QED BY <1>1, <1>2, Invariance, PTL DEF Spec, ImplementsPacketChannel, Channel!Spec
=============================================================================
