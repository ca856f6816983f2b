--------------------------- MODULE SendQueueProofs ---------------------------
(***************************************************************************)
(* Theorems about SendQueue, for any sizes, marks and socket.              *)
(***************************************************************************)
EXTENDS SendQueue, SequenceTheorems, TLAPS

(* Lemmas on sequences. *)

LEMMA CountUp ==
  ASSUME NEW w \in Seq(Nat), w = [i \in 1..Len(w) |-> i], NEW n \in Nat
  PROVE  LET x == w \o [i \in 1..n |-> Len(w) + 1 + i - 1]
         IN  /\ x \in Seq(Nat) /\ Len(x) = Len(w) + n
             /\ x = [i \in 1..Len(x) |-> i]
<1> DEFINE more == [i \in 1..n |-> Len(w) + 1 + i - 1]
           x == w \o more
<1>1. Len(w) \in Nat
  OBVIOUS
<1>2. more \in Seq(Nat) /\ Len(more) = n
  <2>1. \A i \in 1..n : Len(w) + 1 + i - 1 \in Nat
    BY <1>1
  <2>2. more \in [1..n -> Nat]
    BY <2>1
  <2>3. QED BY <2>2
<1>3. x \in Seq(Nat) /\ Len(x) = Len(w) + n
  BY <1>2, ConcatProperties
<1>4. \A i \in 1..Len(x) : x[i] = i
  <2> SUFFICES ASSUME NEW i \in 1..Len(x) PROVE x[i] = i
    OBVIOUS
  <2>1. CASE i <= Len(w)
    <3>1. x[i] = w[i]
      BY <2>1, <1>2, ConcatProperties
    <3>2. i \in 1..Len(w)
      BY <2>1, <1>1
    <3>3. w[i] = i
      BY <3>2
    <3>4. QED BY <3>1, <3>3
  <2>2. CASE i > Len(w)
    <3>1. x[i] = more[i - Len(w)]
      BY <2>2, <1>2, ConcatProperties
    <3>2. i - Len(w) \in 1..n
      BY <2>2, <1>1, <1>3
    <3>3. QED BY <3>1, <3>2, <1>1
  <2>3. QED BY <2>1, <2>2, <1>1
<1>5. x = [i \in 1..Len(x) |-> i]
  BY <1>3, <1>4, LenProperties
<1>6. QED BY <1>3, <1>5

LEMMA TailAt ==
  ASSUME NEW S, NEW q \in Seq(S), q # <<>>
  PROVE  /\ Tail(q) \in Seq(S) /\ Len(Tail(q)) = Len(q) - 1
         /\ \A i \in 1..(Len(q) - 1) : Tail(q)[i] = q[i + 1]
         /\ Head(q) = q[1] /\ q[1] \in S /\ Len(q) \in Nat \ {0}
OBVIOUS

LEMMA PutBackAt ==
  ASSUME NEW S, NEW q \in Seq(S), q # <<>>, NEW b \in S
  PROVE  LET x == PutBack(b, Tail(q))
         IN  /\ x \in Seq(S) /\ Len(x) = Len(q) /\ x[1] = b
             /\ \A i \in 2..Len(q) : x[i] = q[i]
<1>1. <<b>> \in Seq(S) /\ Len(<<b>>) = 1 /\ <<b>>[1] = b
  OBVIOUS
<1>2. Tail(q) \in Seq(S) /\ Len(Tail(q)) = Len(q) - 1 /\ Len(q) \in Nat
  BY TailAt
<1>3. PutBack(b, Tail(q)) \in Seq(S) /\ Len(PutBack(b, Tail(q))) = Len(q)
  BY <1>1, <1>2, ConcatProperties DEF PutBack
<1>4. PutBack(b, Tail(q))[1] = b
  BY <1>1, <1>2, ConcatProperties DEF PutBack
<1>5. \A i \in 2..Len(q) : PutBack(b, Tail(q))[i] = q[i]
  <2> SUFFICES ASSUME NEW i \in 2..Len(q) PROVE PutBack(b, Tail(q))[i] = q[i]
    OBVIOUS
  <2>1. PutBack(b, Tail(q))[i] = Tail(q)[i - 1]
    BY <1>1, <1>2, ConcatProperties DEF PutBack
  <2>2. QED BY <2>1, <1>2, TailAt
<1>6. QED BY <1>3, <1>4, <1>5

LEMMA Later ==
  ASSUME NEW l \in Nat, NEW a \in Nat, NEW size \in Nat, l <= a
  PROVE  l <= a + size
OBVIOUS

LEMMA Cut ==
  ASSUME NEW a \in Nat, NEW f \in Nat, NEW l \in Nat, l <= a
  PROVE  (a - f + 1) - (l - f + 1) = a - l /\ a - l \in Nat
OBVIOUS

LEMMA Below ==
  ASSUME NEW x \in Nat, NEW y \in Nat, NEW size \in Nat, NEW mark \in Nat,
         x <= y, y - size < mark
  PROVE  x - size < mark
OBVIOUS

LEMMA Sum ==
  ASSUME NEW a \in Nat, NEW f \in Nat, NEW size \in Nat
  PROVE  (a - f + 1) + size = (a + size) - f + 1
OBVIOUS

-----------------------------------------------------------------------------
(* Steps preserve the invariant. *)

\* What noblk_send returns is an error or a number of bytes that fit.
LEMMA ResultsFit ==
  ASSUME NEW len \in Nat \ {0}, room \in Nat, NEW n \in Results(len), n # -1
  PROVE  n \in Nat /\ n <= len /\ n <= room /\ conn # "broken"
BY DEF Results

\* The socket took the next n bytes.
Taken(n) ==
  /\ wire' \in Seq(Nat) /\ Len(wire') = Len(wire) + n
  /\ InOrder(wire')
  /\ room' \in 0..Room

LEMMA TakeStep ==
  ASSUME IInv, NEW n \in Nat, n <= room, Take(Len(wire) + 1, n)
  PROVE  Taken(n)
<1>1. wire \in Seq(Nat) /\ InOrder(wire) /\ room \in 0..Room
  BY DEF IInv, TypeOK, StreamIntact
<1>2. wire' = wire \o [i \in 1..n |-> Len(wire) + 1 + i - 1] /\ room' = room - n
  BY DEF Take
<1>3. room' \in 0..Room
  BY <1>1, <1>2, SendQueueAssumption
<1>4. QED BY <1>1, <1>2, <1>3, CountUp DEF InOrder, Taken

\* Steps that leave the bytes and the queue alone.
LEMMA SameQueueStep ==
  ASSUME IInv, UNCHANGED <<queue, cur_bytes, accepted, wire>>,
         conn' \in {"open", "ended", "broken", "shut", "closed"},
         wakeup' \in BOOLEAN, again' \in BOOLEAN, room' \in 0..Room,
         Live' => Live, WakeupWhileQueued'
  PROVE  IInv'
<1>1. TypeOK'
  BY DEF IInv, TypeOK
<1>2. StreamIntact' /\ BlocksInv' /\ QueueInv'
  BY DEF IInv, StreamIntact, BlocksInv, QueueInv, Size
<1>3. QED BY <1>1, <1>2 DEF IInv

LEMMA CloseStep ==
  ASSUME IInv, Close, room' \in 0..Room, wire' \in Seq(Nat),
         InOrder(wire'), Len(wire') <= accepted
  PROVE  IInv'
<1>1. TypeOK'
  <2>1. queue' \in Seq(Blocks)
    BY EmptySeq DEF Close
  <2>2. accepted' \in Nat
    BY DEF IInv, TypeOK, Close
  <2>3. QED BY <2>1, <2>2 DEF TypeOK, Close
<1>2. StreamIntact' /\ BlocksInv' /\ QueueInv' /\ WakeupWhileQueued'
  BY DEF Close, StreamIntact, BlocksInv, QueueInv, WakeupWhileQueued, Live
<1>3. QED BY <1>1, <1>2 DEF IInv

\* A block is appended, some of it sent already if the queue was empty.
LEMMA AppendStep ==
  ASSUME IInv, NEW size \in Sizes, NEW n \in 0..size, ~IsFull(cur_bytes),
         queue = <<>> => Live, queue # <<>> => n = 0, Taken(n), UNCHANGED <<conn, again>>,
         n < size,
         NEW block, block = [first |-> accepted + 1, next |-> accepted + 1 + n,
                             last |-> accepted + size],
         Enqueue(block)
  PROVE  IInv'
<1>1. /\ size \in Nat \ {0} /\ accepted \in Nat /\ n \in Nat
      /\ queue \in Seq(Blocks) /\ Len(queue) \in Nat /\ cur_bytes \in Nat
      /\ Len(wire) \in Nat
  <2>1. size \in Nat \ {0} /\ n \in Nat
    BY SendQueueAssumption
  <2>2. queue \in Seq(Blocks) /\ wire \in Seq(Nat) /\ accepted \in Nat /\ cur_bytes \in Nat
    BY DEF IInv, TypeOK
  <2>3. QED BY <2>1, <2>2, LenProperties
<1>2. /\ block \in Blocks /\ Size(block) = size
      /\ accepted' = accepted + size /\ cur_bytes' = cur_bytes + size /\ wakeup' = TRUE
  BY <1>1 DEF Blocks, Size, Enqueue
<1>0. /\ wire' \in Seq(Nat) /\ Len(wire') = Len(wire) + n /\ room' \in 0..Room
      /\ InOrder(wire')
  BY DEF Taken
<1>3. /\ queue' \in Seq(Blocks) /\ Len(queue') = Len(queue) + 1
      /\ \A i \in 1..Len(queue) : queue'[i] = queue[i]
      /\ queue'[Len(queue) + 1] = block
      /\ queue' # <<>>
  <2>1. /\ Append(queue, block) \in Seq(Blocks)
        /\ Append(queue, block) # <<>>
        /\ Len(Append(queue, block)) = Len(queue) + 1
        /\ \A i \in 1..Len(queue) : Append(queue, block)[i] = queue[i]
        /\ Append(queue, block)[Len(queue) + 1] = block
    BY <1>1, <1>2, AppendProperties
  <2>2. queue' = Append(queue, block)
    BY DEF Enqueue
  <2>3. QED BY <2>1, <2>2
<1>4. TypeOK'
  BY <1>0, <1>1, <1>2, <1>3 DEF IInv, TypeOK
<1>5. queue = <<>> => Len(wire) = accepted /\ cur_bytes = 0
  BY DEF IInv, QueueInv
<1>6. queue # <<>> => /\ queue[1].next = Len(wire) + 1
                      /\ queue[Len(queue)].last = accepted
                      /\ cur_bytes = accepted - queue[1].first + 1
  BY DEF IInv, QueueInv
<1>7. StreamIntact'
  <2>1. Len(wire) <= accepted /\ n <= size
    BY <1>1 DEF IInv, StreamIntact
  <2>2. Len(wire') <= accepted'
    BY <2>1, <1>0, <1>1, <1>2
  <2>3. QED BY <2>2, <1>0 DEF StreamIntact
<1>8. BlocksInv'
  <2> SUFFICES ASSUME NEW i \in 1..Len(queue')
               PROVE  /\ queue'[i].first <= queue'[i].next
                      /\ queue'[i].next <= queue'[i].last
                      /\ queue'[i].last <= accepted'
                      /\ Size(queue'[i]) \in Sizes
                      /\ i > 1 => /\ queue'[i].next = queue'[i].first
                                  /\ queue'[i].first = queue'[i - 1].last + 1
    BY DEF BlocksInv, Size
  <2>1. CASE i <= Len(queue)
    <3>1. i \in 1..Len(queue) /\ (i > 1 => i - 1 \in 1..Len(queue))
      BY <2>1, <1>1, <1>3
    <3>2. queue[i] \in Blocks /\ queue[i].last <= accepted
      BY <3>1, <1>1 DEF IInv, BlocksInv
    <3>3. queue[i].last <= accepted'
      <4>1. queue[i].last \in Nat
        BY <3>2 DEF Blocks
      <4>2. accepted \in Nat /\ size \in Nat
        BY <1>1
      <4>3. accepted' = accepted + size
        BY <1>2
      <4>4. QED BY <3>2, <4>1, <4>2, <4>3, Later
    <3>4. QED BY <3>1, <3>3, <1>3 DEF IInv, BlocksInv
  <2>2. CASE i = Len(queue) + 1
    <3>1. queue'[i] = block
      BY <2>2, <1>3
    <3>2. block.first <= block.next /\ block.next <= block.last
      <4>1. n <= size
        BY <1>1
      <4>2. QED BY <4>1, <1>1
    <3>3. ASSUME i > 1 PROVE /\ block.next = block.first
                             /\ block.first = queue'[i - 1].last + 1
      <4>1. queue # <<>> /\ i - 1 = Len(queue) /\ i - 1 \in 1..Len(queue)
        BY <3>3, <2>2, <1>1
      <4>2. queue'[i - 1].last = accepted /\ n = 0
        BY <4>1, <1>3, <1>6
      <4>3. block.next = accepted + 1 /\ block.first = accepted + 1
        BY <4>2, <1>1
      <4>4. QED BY <4>2, <4>3
    <3>4. block.last <= accepted'
      BY <1>1, <1>2
    <3>5. QED BY <3>1, <3>2, <3>3, <3>4, <1>2
  <2>3. QED BY <2>1, <2>2, <1>1, <1>3
<1>9. QueueInv'
  <2>1. queue'[Len(queue')] = block /\ block.last = accepted'
    BY <1>2, <1>3
  <2>2. CASE queue = <<>>
    <3>1. queue'[1] = block /\ Len(queue) = 0
      BY <2>2, <1>3
    <3>2. block.next = Len(wire') + 1
      <4>1. Len(wire') = accepted + n
        BY <2>2, <1>0, <1>5
      <4>2. block.next = accepted + 1 + n
        OBVIOUS
      <4>3. QED BY <4>1, <4>2, <1>1
    <3>3. cur_bytes' = accepted' - block.first + 1
      BY <2>2, <1>1, <1>2, <1>5
    <3>4. cur_bytes' - Size(block) < HighWaterMark
      BY <2>2, <1>1, <1>2, <1>5, SendQueueAssumption
    <3>5. QED BY <2>1, <3>1, <3>2, <3>3, <3>4, <1>3 DEF QueueInv, Size
  <2>3. CASE queue # <<>>
    <3>1. queue'[1] = queue[1] /\ queue[1].first \in Nat /\ queue[1].next \in Nat
      <4>1. 1 \in 1..Len(queue)
        BY <2>3, <1>1
      <4>2. queue[1] \in Blocks
        BY <2>3, <1>1
      <4>3. QED BY <4>1, <4>2, <1>3 DEF Blocks
    <3>2. Len(wire') = Len(wire) /\ cur_bytes < HighWaterMark
      BY <2>3, <1>0, <1>1, SendQueueAssumption DEF IsFull
    <3>3. cur_bytes' = accepted' - queue[1].first + 1
      <4>1. cur_bytes = accepted - queue[1].first + 1
        BY <2>3, <1>6
      <4>2. cur_bytes' = cur_bytes + size /\ accepted' = accepted + size
        BY <1>2
      <4>3. accepted \in Nat /\ size \in Nat /\ queue[1].first \in Nat
        BY <3>1, <1>1
      <4>4. (accepted - queue[1].first + 1) + size = (accepted + size) - queue[1].first + 1
        BY <4>3, Sum
      <4>5. QED BY <4>1, <4>2, <4>4, Zenon
    <3>4. cur_bytes' - Size(block) < HighWaterMark
      BY <3>2, <1>1, <1>2, SendQueueAssumption
    <3>5. queue[1].next = Len(wire') + 1
      BY <2>3, <3>2, <1>6
    <3>6. QED BY <2>1, <3>1, <3>3, <3>4, <3>5, <1>3 DEF QueueInv, Size
  <2>4. QED BY <2>2, <2>3
<1>10. WakeupWhileQueued'
  BY <1>2, <1>3 DEF WakeupWhileQueued
<1>11. QED BY <1>4, <1>7, <1>8, <1>9, <1>10 DEF IInv

\* The block at the head of the queue.
LEMMA HeadBlock ==
  ASSUME IInv, queue # <<>>
  PROVE  /\ Head(queue) = queue[1] /\ queue[1] \in Blocks
         /\ queue[1].first \in Nat /\ queue[1].next \in Nat /\ queue[1].last \in Nat
         /\ queue[1].first <= queue[1].next /\ queue[1].next <= queue[1].last
         /\ queue[1].last <= accepted /\ accepted \in Nat
         /\ queue[1].next = Len(wire) + 1 /\ Len(wire) \in Nat
         /\ cur_bytes = accepted - queue[1].first + 1
         /\ Size(queue[1]) \in Sizes /\ Size(queue[1]) \in Nat \ {0}
         /\ Rest(queue[1]) \in Nat \ {0}
         /\ Len(queue) \in Nat \ {0}
<1>1. /\ queue \in Seq(Blocks) /\ wire \in Seq(Nat) /\ accepted \in Nat
  BY DEF IInv, TypeOK
<1>2. Head(queue) = queue[1] /\ queue[1] \in Blocks /\ Len(queue) \in Nat \ {0}
  BY <1>1, TailAt
<1>3. queue[1].first \in Nat /\ queue[1].next \in Nat /\ queue[1].last \in Nat
  BY <1>2 DEF Blocks
<1>4. 1 \in 1..Len(queue)
  BY <1>2
<1>5. /\ queue[1].first <= queue[1].next /\ queue[1].next <= queue[1].last
      /\ queue[1].last <= accepted /\ Size(queue[1]) \in Sizes
  BY <1>4 DEF IInv, BlocksInv
<1>6. queue[1].next = Len(wire) + 1 /\ cur_bytes = accepted - queue[1].first + 1
  BY DEF IInv, QueueInv
<1>7. Size(queue[1]) \in Nat \ {0}
  BY <1>5, SendQueueAssumption
<1>8. Rest(queue[1]) \in Nat \ {0}
  BY <1>3, <1>5 DEF Rest
<1>9. Len(wire) \in Nat
  BY <1>1
<1>10. QED BY <1>1, <1>2, <1>3, <1>5, <1>6, <1>7, <1>8, <1>9

\* The last of the block at the head leaves.
BlockLeaves ==
  /\ queue' = Tail(queue) /\ cur_bytes' = Left(Head(queue))
  /\ again' = TRUE
  /\ UNCHANGED <<conn, wakeup, accepted>>

LEMMA TailStep ==
  ASSUME IInv, Live, queue # <<>>, Taken(Rest(Head(queue))), BlockLeaves
  PROVE  IInv'
<1> DEFINE f == queue[1].first
           l == queue[1].last
<1>1. /\ f \in Nat /\ l \in Nat /\ l <= accepted /\ accepted \in Nat
      /\ queue[1].next = Len(wire) + 1 /\ Len(wire) \in Nat
      /\ cur_bytes = accepted - f + 1 /\ Len(queue) \in Nat \ {0}
      /\ Size(queue[1]) \in Nat \ {0} /\ cur_bytes \in Nat
  BY HeadBlock DEF IInv, TypeOK
<1>2. /\ queue' \in Seq(Blocks) /\ Len(queue') = Len(queue) - 1
      /\ \A i \in 1..(Len(queue) - 1) : queue'[i] = queue[i + 1]
  <2>1. queue' = Tail(queue) /\ queue \in Seq(Blocks)
    BY DEF BlockLeaves, IInv, TypeOK
  <2>2. QED BY <2>1, TailAt
<1>0. /\ wire' \in Seq(Nat) /\ InOrder(wire') /\ room' \in 0..Room
      /\ UNCHANGED <<conn, wakeup, accepted>> /\ again' = TRUE
  BY DEF Taken, BlockLeaves
<1>3. Len(wire') = l
  <2>1. Len(wire') = Len(wire) + Rest(queue[1])
    BY HeadBlock DEF Taken
  <2>2. QED BY <2>1, <1>1 DEF Rest
<1>4. cur_bytes' = accepted - l /\ cur_bytes' \in Nat
  <2>1. cur_bytes' = (accepted - f + 1) - (l - f + 1)
    BY <1>1, HeadBlock DEF BlockLeaves, Left, Size
  <2>2. /\ (accepted - f + 1) - (l - f + 1) = accepted - l
        /\ accepted - l \in Nat
    <3>1. f \in Nat /\ l \in Nat /\ l <= accepted /\ accepted \in Nat
      BY <1>1
    <3> HIDE DEF f, l
    <3>2. QED BY <3>1, Cut
  <2>3. QED BY <2>1, <2>2, Zenon
<1>5. TypeOK'
  BY <1>0, <1>2, <1>4 DEF IInv, TypeOK
<1>6. StreamIntact'
  BY <1>0, <1>1, <1>3 DEF StreamIntact
<1>7. BlocksInv'
  <2> SUFFICES ASSUME NEW i \in 1..Len(queue')
               PROVE  /\ queue'[i].first <= queue'[i].next
                      /\ queue'[i].next <= queue'[i].last
                      /\ queue'[i].last <= accepted'
                      /\ Size(queue'[i]) \in Sizes
                      /\ i > 1 => /\ queue'[i].next = queue'[i].first
                                  /\ queue'[i].first = queue'[i - 1].last + 1
    BY DEF BlocksInv, Size
  <2>1. i + 1 \in 1..Len(queue) /\ queue'[i] = queue[i + 1] /\ i + 1 > 1
    <3>1. i \in 1..(Len(queue) - 1)
      BY <1>1, <1>2
    <3>2. queue'[i] = queue[i + 1]
      BY <3>1, <1>2
    <3>3. Len(queue) \in Nat
      BY <1>1
    <3>4. i + 1 \in 1..Len(queue) /\ i + 1 > 1
      BY <3>1, <3>3
    <3>5. QED BY <3>2, <3>4
  <2>2. ASSUME i > 1 PROVE queue'[i - 1] = queue[(i + 1) - 1]
    <3>1. i - 1 \in 1..(Len(queue) - 1) /\ (i - 1) + 1 = (i + 1) - 1
      BY <2>2, <1>1, <1>2
    <3>2. QED BY <3>1, <1>2
  <2>3. QED BY <2>1, <2>2, <1>0 DEF IInv, BlocksInv
<1>8. QueueInv'
  <2>1. CASE Len(queue) = 1
    <3>1. queue' = <<>>
      BY <2>1, <1>2
    <3>2. l = accepted
      BY <2>1 DEF IInv, QueueInv
    <3>3. QED BY <3>1, <3>2, <1>0, <1>1, <1>3, <1>4 DEF QueueInv
  <2>2. CASE Len(queue) # 1
    <3>1. queue' # <<>> /\ 2 \in 1..Len(queue)
      BY <2>2, <1>1, <1>2
    <3>2. queue'[1] = queue[2] /\ queue'[Len(queue')] = queue[Len(queue)]
      BY <2>2, <1>1, <1>2
    <3>3. /\ queue[2].first = l + 1 /\ queue[2].next = l + 1
      BY <3>1 DEF IInv, BlocksInv
    <3>4. /\ queue[Len(queue)].last = accepted
          /\ cur_bytes - Size(queue[Len(queue)]) < HighWaterMark
          /\ Size(queue[Len(queue)]) \in Nat
      <4>1. Len(queue) \in 1..Len(queue)
        BY <1>1
      <4>2. QED BY <4>1, SendQueueAssumption DEF IInv, QueueInv, BlocksInv
    <3>5. cur_bytes' - Size(queue'[Len(queue')]) < HighWaterMark
      <4>1. cur_bytes' <= cur_bytes
        BY HeadBlock, <1>1 DEF BlockLeaves, Left
      <4>2. HighWaterMark \in Nat
        BY SendQueueAssumption
      <4>3. cur_bytes' - Size(queue[Len(queue)]) < HighWaterMark
        BY <4>1, <4>2, <3>4, <1>1, <1>4, Below
      <4>4. QED BY <4>3, <3>2, Zenon
    <3>6. cur_bytes' = accepted' - queue'[1].first + 1
      <4>1. queue'[1].first = l + 1 /\ accepted' = accepted
        BY <3>2, <3>3, <1>0
      <4>2. accepted - (l + 1) + 1 = accepted - l
        BY <1>1
      <4>3. QED BY <4>1, <4>2, <1>4
    <3>7. queue'[1].next = Len(wire') + 1
      BY <3>2, <3>3, <1>3
    <3>8. queue'[Len(queue')].last = accepted'
      BY <3>2, <3>4, <1>0
    <3>9. QED BY <3>1, <3>5, <3>6, <3>7, <3>8 DEF QueueInv, Size
  <2>3. QED BY <2>1, <2>2
<1>9. WakeupWhileQueued'
  BY <1>0 DEF IInv, WakeupWhileQueued, Live
<1>10. QED BY <1>5, <1>6, <1>7, <1>8, <1>9 DEF IInv

\* Some of the block at the head leaves, or none of it, and the rest goes back.
BlockReturns(n) ==
  /\ queue' = PutBack([Head(queue) EXCEPT !.next = Head(queue).next + n], Tail(queue))
  /\ again' = FALSE
  /\ UNCHANGED <<conn, cur_bytes, wakeup, accepted>>

LEMMA PutBackStep ==
  ASSUME IInv, Live, queue # <<>>, NEW n \in Nat, n < Rest(Head(queue)), Taken(n),
         BlockReturns(n)
  PROVE  IInv'
<1> DEFINE next == queue[1].next
           last == queue[1].last
           block == [queue[1] EXCEPT !.next = next + n]
<1>1. /\ next \in Nat /\ last \in Nat /\ last <= accepted /\ accepted \in Nat
      /\ next = Len(wire) + 1 /\ Len(wire) \in Nat
      /\ queue[1] \in Blocks /\ Len(queue) \in Nat \ {0} /\ Head(queue) = queue[1]
      /\ queue[1].first \in Nat /\ queue[1].first <= next
  BY HeadBlock
<1>2. /\ block \in Blocks /\ block.first = queue[1].first /\ block.last = last
      /\ block.next = next + n
  BY <1>1 DEF Blocks
<1>3. block.first <= block.next /\ block.next <= block.last
  <2>1. n < last - next + 1
    BY <1>1 DEF Rest
  <2>2. QED BY <2>1, <1>1, <1>2
<1>4. /\ wire' \in Seq(Nat) /\ Len(wire') = Len(wire) + n /\ InOrder(wire')
      /\ room' \in 0..Room
      /\ again' = FALSE /\ UNCHANGED <<conn, cur_bytes, wakeup, accepted>>
  BY DEF Taken, BlockReturns
<1>5. /\ queue' \in Seq(Blocks) /\ Len(queue') = Len(queue) /\ queue'[1] = block
      /\ \A i \in 2..Len(queue) : queue'[i] = queue[i]
      /\ queue' # <<>>
  <2>1. queue' = PutBack(block, Tail(queue)) /\ queue \in Seq(Blocks)
    BY <1>1 DEF BlockReturns, IInv, TypeOK
  <2>2. /\ PutBack(block, Tail(queue)) \in Seq(Blocks)
        /\ Len(PutBack(block, Tail(queue))) = Len(queue)
        /\ PutBack(block, Tail(queue))[1] = block
        /\ \A i \in 2..Len(queue) : PutBack(block, Tail(queue))[i] = queue[i]
    <3>1. block \in Blocks
      BY <1>2
    <3>2. queue \in Seq(Blocks) /\ queue # <<>>
      BY <2>1
    <3> HIDE DEF block
    <3>3. QED BY <3>1, <3>2, PutBackAt
  <2>3. QED BY <2>1, <2>2, <1>1
<1>6. \A i \in 1..Len(queue) : /\ queue'[i].last = queue[i].last
                               /\ queue'[i].first = queue[i].first
  <2> SUFFICES ASSUME NEW i \in 1..Len(queue)
               PROVE  queue'[i].last = queue[i].last /\ queue'[i].first = queue[i].first
    OBVIOUS
  <2>1. CASE i = 1
    <3>1. queue'[i] = block
      BY <2>1, <1>5
    <3> HIDE DEF block
    <3>2. QED BY <3>1, <2>1, <1>2
  <2>2. CASE i # 1
    <3>1. i \in 2..Len(queue)
      BY <2>2, <1>1
    <3>2. QED BY <3>1, <1>5
  <2>3. QED BY <2>1, <2>2
<1>7. TypeOK'
  BY <1>4, <1>5 DEF IInv, TypeOK
<1>8. StreamIntact'
  <2>1. Len(wire') <= accepted
    BY <1>1, <1>2, <1>3, <1>4
  <2>2. QED BY <2>1, <1>4 DEF StreamIntact
<1>9. BlocksInv'
  <2> SUFFICES ASSUME NEW i \in 1..Len(queue')
               PROVE  /\ queue'[i].first <= queue'[i].next
                      /\ queue'[i].next <= queue'[i].last
                      /\ queue'[i].last <= accepted'
                      /\ Size(queue'[i]) \in Sizes
                      /\ i > 1 => /\ queue'[i].next = queue'[i].first
                                  /\ queue'[i].first = queue'[i - 1].last + 1
    BY DEF BlocksInv, Size
  <2>1. i \in 1..Len(queue) /\ queue'[i].last <= accepted' /\ Size(queue'[i]) \in Sizes
    BY <1>4, <1>5, <1>6 DEF IInv, BlocksInv, Size
  <2>2. CASE i = 1
    BY <2>1, <2>2, <1>3, <1>5
  <2>3. CASE i # 1
    <3>1. i \in 2..Len(queue) /\ i > 1 /\ i - 1 \in 1..Len(queue)
      BY <2>1, <2>3, <1>1
    <3>2. queue'[i] = queue[i] /\ queue'[i - 1].last = queue[i - 1].last
      BY <3>1, <1>5, <1>6
    <3>3. QED BY <2>1, <3>1, <3>2 DEF IInv, BlocksInv
  <2>4. QED BY <2>2, <2>3
<1>10. QueueInv'
  <2>1. queue'[1].next = Len(wire') + 1
    BY <1>1, <1>2, <1>4, <1>5
  <2>2. 1 \in 1..Len(queue) /\ Len(queue) \in 1..Len(queue)
    BY <1>1
  <2>3. /\ queue'[1].first = queue[1].first
        /\ queue'[Len(queue')].last = queue[Len(queue)].last
        /\ Size(queue'[Len(queue')]) = Size(queue[Len(queue)])
    BY <2>2, <1>5, <1>6 DEF Size
  <2>4. /\ queue[Len(queue)].last = accepted
        /\ cur_bytes = accepted - queue[1].first + 1
        /\ cur_bytes - Size(queue[Len(queue)]) < HighWaterMark
    BY DEF IInv, QueueInv
  <2>5. /\ queue'[Len(queue')].last = accepted'
        /\ cur_bytes' = accepted' - queue'[1].first + 1
        /\ cur_bytes' - Size(queue'[Len(queue')]) < HighWaterMark
    BY <2>3, <2>4, <1>4
  <2>6. QED BY <2>1, <2>5, <1>5 DEF QueueInv, Size
<1>11. WakeupWhileQueued'
  BY <1>4, <1>5 DEF IInv, WakeupWhileQueued, Live
<1>12. QED BY <1>7, <1>8, <1>9, <1>10, <1>11 DEF IInv

LEMMA SendBlockStep ==
  ASSUME IInv, Live, SendBlock
  PROVE  IInv'
<1> DEFINE block == Head(queue)
           left  == Left(block)
<1>1. PICK n \in Results(Rest(block)) :
        \/ n = -1 /\ Close /\ UNCHANGED <<room, wire>>
        \/ n = Rest(block) /\ Take(block.next, n) /\ BlockLeaves
        \/ /\ n \in 0..(Rest(block) - 1) /\ ~IsFull(left)
           /\ Take(block.next, n) /\ BlockReturns(n)
        \/ /\ n \in 0..(Rest(block) - 1) /\ IsFull(left)
           /\ Take(block.next, n) /\ Close
  BY DEF SendBlock, BlockLeaves, BlockReturns
<1>2. /\ queue # <<>> /\ room \in Nat /\ room \in 0..Room /\ wire \in Seq(Nat)
      /\ InOrder(wire) /\ Len(wire) <= accepted
  BY SendQueueAssumption DEF SendBlock, IInv, TypeOK, StreamIntact
<1>3. /\ block.next = Len(wire) + 1 /\ Rest(block) \in Nat \ {0}
      /\ Rest(block) = block.last - Len(wire) /\ block.last <= accepted
      /\ block.last \in Nat /\ accepted \in Nat /\ Len(wire) \in Nat
  BY <1>2, HeadBlock DEF Rest
<1>4. ASSUME n # -1, Take(block.next, n) PROVE n \in Nat /\ n <= Rest(block) /\ Taken(n)
  <2>1. n \in Nat /\ n <= Rest(block) /\ n <= room
    BY <1>2, <1>3, <1>4, ResultsFit
  <2>2. Take(Len(wire) + 1, n)
    BY <1>3, <1>4
  <2>3. QED BY <2>1, <2>2, TakeStep
<1>5. CASE n = -1 /\ Close /\ UNCHANGED <<room, wire>>
  BY <1>2, <1>5, CloseStep
<1>6. CASE n = Rest(block) /\ Take(block.next, n) /\ BlockLeaves
  BY <1>2, <1>3, <1>4, <1>6, TailStep
<1>7. CASE n \in 0..(Rest(block) - 1) /\ Take(block.next, n) /\ BlockReturns(n)
  <2>1. n < Rest(block) /\ n # -1
    BY <1>3, <1>7
  <2>2. QED BY <1>2, <1>4, <1>7, <2>1, PutBackStep
<1>8. CASE n \in 0..(Rest(block) - 1) /\ Take(block.next, n) /\ Close
  <2>1. n # -1
    BY <1>3, <1>8
  <2>2. n \in Nat /\ n <= Rest(block) /\ Taken(n)
    BY <1>4, <1>8, <2>1
  <2>3. Len(wire') <= accepted
    BY <2>2, <1>3 DEF Taken
  <2>4. QED BY <1>8, <2>2, <2>3, CloseStep DEF Taken
<1>9. QED BY <1>1, <1>5, <1>6, <1>7, <1>8

\* A message that the socket takes whole.
LEMMA WholeMessageStep ==
  ASSUME IInv, Live, queue = <<>>, NEW size \in Nat, Taken(size),
         accepted' = accepted + size,
         UNCHANGED <<conn, queue, cur_bytes, wakeup, again>>
  PROVE  IInv'
<1>1. accepted \in Nat /\ Len(wire) = accepted /\ cur_bytes = 0
  BY DEF IInv, TypeOK, QueueInv
<1>2. /\ wire' \in Seq(Nat) /\ InOrder(wire') /\ room' \in 0..Room
      /\ Len(wire') = accepted'
  BY <1>1 DEF Taken
<1>3. accepted' \in Nat
  BY <1>1
<1>4. TypeOK'
  BY <1>2, <1>3 DEF IInv, TypeOK
<1>5. StreamIntact' /\ BlocksInv' /\ QueueInv' /\ WakeupWhileQueued'
  BY <1>1, <1>2, <1>3
     DEF IInv, StreamIntact, BlocksInv, QueueInv, WakeupWhileQueued, Live
<1>6. QED BY <1>4, <1>5 DEF IInv

\* Enqueue on a queue that is full leaves everything as it is.
LEMMA RefusedStep ==
  ASSUME IInv, IsFull(cur_bytes), NEW block, Enqueue(block), queue # <<>>,
         UNCHANGED <<conn, again, room, wire>>
  PROVE  IInv'
<1>1. UNCHANGED <<queue, cur_bytes, wakeup, accepted>>
  BY DEF Enqueue
<1>2. QED BY <1>1, SameQueueStep DEF IInv, TypeOK, WakeupWhileQueued, Live

LEMMA SendStep ==
  ASSUME IInv, NEW size \in Sizes, Send(size)
  PROVE  IInv'
<1> DEFINE block(n) == [first |-> accepted + 1, next |-> accepted + 1 + n,
                        last |-> accepted + size]
<1>1. /\ size \in Nat \ {0} /\ Live /\ UNCHANGED <<conn, again>>
      /\ room \in Nat /\ room \in 0..Room /\ wire \in Seq(Nat) /\ accepted \in Nat
      /\ cur_bytes \in Nat
  BY SendQueueAssumption DEF Send, IInv, TypeOK
<1>2. CASE queue = <<>>
  <2>1. PICK n \in Results(size) :
          \/ n = -1 /\ UNCHANGED <<queue, cur_bytes, wakeup, room, accepted, wire>>
          \/ /\ n = size /\ Take(accepted + 1, n) /\ accepted' = accepted + size
             /\ UNCHANGED <<queue, cur_bytes, wakeup>>
          \/ n \in 0..(size - 1) /\ Take(accepted + 1, n) /\ Enqueue(block(n))
    BY <1>2 DEF Send
  <2>2. Len(wire) = accepted /\ cur_bytes = 0
    BY <1>1, <1>2 DEF IInv, QueueInv
  <2>3. ASSUME n # -1, Take(accepted + 1, n) PROVE n \in Nat /\ Taken(n)
    <3>1. n \in Nat /\ n <= room
      BY <1>1, <2>3, ResultsFit
    <3>2. Take(Len(wire) + 1, n)
      BY <2>2, <2>3
    <3>3. QED BY <3>1, <3>2, TakeStep
  <2>4. CASE n = -1 /\ UNCHANGED <<queue, cur_bytes, wakeup, room, accepted, wire>>
    BY <2>4, <1>1, SameQueueStep DEF IInv, TypeOK, WakeupWhileQueued, Live
  <2>5. CASE /\ n = size /\ Take(accepted + 1, n) /\ accepted' = accepted + size
             /\ UNCHANGED <<queue, cur_bytes, wakeup>>
    <3>1. n # -1
      BY <2>5, <1>1
    <3>2. Taken(size)
      BY <2>3, <2>5, <3>1
    <3>3. QED BY <1>1, <1>2, <2>5, <3>2, WholeMessageStep
  <2>6. CASE n \in 0..(size - 1) /\ Take(accepted + 1, n) /\ Enqueue(block(n))
    <3>1. n # -1 /\ n \in 0..size /\ n < size
      BY <2>6, <1>1
    <3>2. Taken(n)
      BY <2>3, <2>6, <3>1
    <3>3. ~IsFull(cur_bytes)
      BY <2>2, SendQueueAssumption DEF IsFull
    <3>4. Enqueue(block(n))
      BY <2>6
    <3>5. QED BY <1>1, <1>2, <3>1, <3>2, <3>3, <3>4, AppendStep
  <2>7. QED BY <2>1, <2>4, <2>5, <2>6
<1>3. CASE queue # <<>>
  <2>1. Enqueue(block(0)) /\ UNCHANGED <<room, wire>>
    BY <1>3 DEF Send
  <2>2. CASE IsFull(cur_bytes)
    BY <1>1, <1>3, <2>1, <2>2, RefusedStep
  <2>3. CASE ~IsFull(cur_bytes)
    <3>1. Taken(0)
      BY <1>1, <2>1 DEF Taken, IInv, StreamIntact, InOrder
    <3>2. 0 \in 0..size /\ 0 < size
      BY <1>1
    <3>3. QED BY <1>1, <1>3, <2>1, <2>3, <3>1, <3>2, AppendStep
  <2>4. QED BY <2>2, <2>3
<1>4. QED BY <1>2, <1>3

LEMMA HandleOutputStep ==
  ASSUME IInv, HandleOutput
  PROVE  IInv'
<1>1. CASE CancelWakeup
  BY <1>1, SameQueueStep
     DEF HandleOutput, CancelWakeup, IInv, TypeOK, WakeupWhileQueued, Live
<1>2. CASE SendBlock
  BY <1>2, SendBlockStep DEF HandleOutput
<1>3. QED BY <1>1, <1>2 DEF HandleOutput

LEMMA EndStep ==
  ASSUME IInv, HandleInputEnd
  PROVE  IInv'
<1>1. Close /\ UNCHANGED <<room, wire>>
  BY DEF HandleInputEnd
<1>2. room' \in 0..Room /\ wire' \in Seq(Nat) /\ InOrder(wire') /\ Len(wire') <= accepted
  BY <1>1 DEF IInv, TypeOK, StreamIntact
<1>3. QED BY <1>1, <1>2, CloseStep

LEMMA OtherStep ==
  ASSUME IInv, CloseConnection \/ PeerReads \/ PeerEnds
  PROVE  IInv'
<1>1. room \in 0..Room /\ Room \in Nat
  BY SendQueueAssumption DEF IInv, TypeOK
<1>2. CASE CloseConnection
  BY <1>1, <1>2, SameQueueStep
     DEF CloseConnection, IInv, TypeOK, WakeupWhileQueued, Live
<1>3. CASE PeerReads
  <2>1. room' \in 0..Room
    BY <1>1, <1>3 DEF PeerReads
  <2>2. QED BY <2>1, <1>3, SameQueueStep
     DEF PeerReads, IInv, TypeOK, WakeupWhileQueued, Live
<1>4. CASE PeerEnds
  BY <1>1, <1>4, SameQueueStep
     DEF PeerEnds, IInv, TypeOK, WakeupWhileQueued, Live
<1>5. QED BY <1>2, <1>3, <1>4

LEMMA Inductive == IInv /\ [Next]_vars => IInv'
<1> SUFFICES ASSUME IInv, [Next]_vars PROVE IInv'
  OBVIOUS
<1>1. ASSUME NEW size \in Sizes, Send(size) PROVE IInv'
  BY <1>1, SendStep
<1>2. CASE HandleOutput
  BY <1>2, HandleOutputStep
<1>3. CASE HandleInputEnd
  BY <1>3, EndStep
<1>4. CASE CloseConnection \/ PeerReads \/ PeerEnds
  BY <1>4, OtherStep
<1>5. CASE UNCHANGED vars
  BY <1>5, SameQueueStep DEF vars, IInv, TypeOK, WakeupWhileQueued, Live
<1>6. QED BY <1>1, <1>2, <1>3, <1>4, <1>5 DEF Next

LEMMA Initially == Init => IInv
<1> SUFFICES ASSUME Init PROVE IInv
  OBVIOUS
<1>1. queue \in Seq(Blocks) /\ wire \in Seq(Nat) /\ Len(wire) = 0 /\ Len(queue) = 0
  BY EmptySeq DEF Init
<1>2. TypeOK
  <2>1. room \in 0..Room
    BY SendQueueAssumption DEF Init
  <2>2. QED BY <1>1, <2>1 DEF Init, TypeOK
<1>3. InOrder(wire)
  BY EmptySeq DEF Init, InOrder
<1>4. StreamIntact /\ BlocksInv /\ QueueInv /\ WakeupWhileQueued
  BY <1>1, <1>3 DEF Init, StreamIntact, BlocksInv, QueueInv, WakeupWhileQueued
<1>5. QED BY <1>2, <1>4 DEF IInv

-----------------------------------------------------------------------------
(* The theorems. *)

\* The blocks that wait are always the bytes between those sent and the last
\* accepted: the inductive invariant of send and handle_output.
THEOREM Invariance == Spec => []IInv
<1>1. QED BY Initially, Inductive, PTL DEF Spec

\* The bytes of the accepted messages leave once and in order, however the socket
\* and the queue cut them up.
THEOREM StreamKept == Spec => []StreamIntact
<1>1. IInv => StreamIntact
  BY DEF IInv
<1>2. QED BY <1>1, Invariance, PTL

\* While a block waits the reactor is asked to call handle_output.
THEOREM WakeupKept == Spec => []WakeupWhileQueued
<1>1. IInv => WakeupWhileQueued
  BY DEF IInv
<1>2. QED BY <1>1, Invariance, PTL

\* The queue passes its high water mark by less than one message.
THEOREM QueueKeptBounded == Spec => []QueueBounded
<1>1. ASSUME IInv PROVE QueueBounded
  <2>1. CASE queue = <<>>
    BY <2>1, <1>1 DEF IInv, QueueInv, QueueBounded
  <2>2. CASE queue # <<>>
    <3> DEFINE size == Size(queue[Len(queue)])
    <3>1. Len(queue) \in 1..Len(queue)
      BY <2>2, <1>1, HeadBlock
    <3>2. size \in Sizes /\ cur_bytes - size < HighWaterMark
      BY <2>2, <1>1, <3>1 DEF IInv, BlocksInv, QueueInv
    <3>3. size \in Nat /\ cur_bytes \in Nat /\ HighWaterMark \in Nat
      BY <1>1, <3>2, SendQueueAssumption DEF IInv, TypeOK
    <3> HIDE DEF size
    <3>4. cur_bytes < HighWaterMark + size
      BY <3>2, <3>3
    <3>5. QED BY <3>2, <3>4 DEF QueueBounded
  <2>3. QED BY <2>1, <2>2
<1>2. QED BY <1>1, Invariance, PTL

\* An open connection is closed by handle_output only when the message at the end
\* of the queue is longer than the one at its head.
THEOREM GivenUp == Spec => GivenUpOnlyForLonger
<1> DEFINE A == conn = "open" /\ conn' = "closed" =>
                  Size(queue[1]) < Size(queue[Len(queue)])
<1>1. ASSUME IInv, Next, conn = "open", conn' = "closed"
      PROVE  Size(queue[1]) < Size(queue[Len(queue)])
  <2>1. HandleOutput /\ SendBlock
    <3>1. ASSUME NEW size \in Sizes, Send(size) PROVE FALSE
      BY <1>1, <3>1 DEF Send
    <3>2. CASE CloseConnection \/ PeerReads \/ PeerEnds \/ HandleInputEnd
      BY <1>1, <3>2 DEF CloseConnection, PeerReads, PeerEnds, HandleInputEnd
    <3>3. QED BY <1>1, <3>1, <3>2 DEF Next, HandleOutput, CancelWakeup
  <2>2. queue # <<>> /\ IsFull(Left(Head(queue)))
    <3>1. queue # <<>> /\ Rest(queue[1]) \in Nat \ {0} /\ Head(queue) = queue[1]
      BY <1>1, <2>1, HeadBlock DEF SendBlock
    <3>2. PICK n \in Results(Rest(queue[1])) : n = -1 \/ IsFull(Left(Head(queue)))
      BY <1>1, <2>1, <3>1 DEF SendBlock
    <3>3. n # -1
      <4>1. room \in Nat
        BY <1>1, SendQueueAssumption DEF IInv, TypeOK
      <4>2. QED BY <1>1, <3>1, <4>1 DEF Results
    <3>4. QED BY <3>1, <3>2, <3>3
  <2>3. cur_bytes - Size(queue[1]) >= HighWaterMark
    BY <1>1, <2>2, HeadBlock DEF IsFull, Left
  <2>4. Len(queue) \in 1..Len(queue) /\ cur_bytes - Size(queue[Len(queue)]) < HighWaterMark
    BY <1>1, <2>2, HeadBlock DEF IInv, QueueInv
  <2>5. Size(queue[Len(queue)]) \in Nat /\ Size(queue[1]) \in Nat
    BY <1>1, <2>2, <2>4, HeadBlock, SendQueueAssumption DEF IInv, BlocksInv
  <2>6. cur_bytes \in Nat /\ HighWaterMark \in Nat
    BY <1>1, SendQueueAssumption DEF IInv, TypeOK
  <2>7. QED BY <2>3, <2>4, <2>5, <2>6
<1>2. IInv /\ [Next]_vars => [A]_vars
  BY <1>1
<1>3. QED BY <1>2, Invariance, PTL DEF Spec, GivenUpOnlyForLonger

-----------------------------------------------------------------------------
(* The queue implements the stream. *)

\* What was sent is the first bytes there were.
LEMMA WireIsBytes ==
  ASSUME IInv
  PROVE  /\ wire = Stream!Bytes(Len(wire)) /\ Len(wire) \in Nat /\ accepted \in Nat
         /\ Len(wire) <= accepted /\ (queue = <<>> /\ Live => Len(wire) = accepted)
<1>1. wire \in Seq(Nat) /\ accepted \in Nat /\ InOrder(wire) /\ Len(wire) <= accepted
  BY DEF IInv, TypeOK, StreamIntact
<1>2. wire = Stream!Bytes(Len(wire))
  BY <1>1 DEF InOrder, Stream!Bytes
<1>3. queue = <<>> /\ Live => Len(wire) = accepted
  BY DEF IInv, QueueInv
<1>4. QED BY <1>1, <1>2, <1>3

LEMMA AcceptStep ==
  ASSUME IInv, IInv', NEW size \in Sizes, Send(size)
  PROVE  [Stream!MNext]_(Stream!mvars)
<1>1. size \in Nat \ {0} /\ Live /\ Live'
  BY SendQueueAssumption DEF Send, Live
<1>2. \/ UNCHANGED <<accepted, wire>>
      \/ accepted' = accepted + size /\ (wire' = wire \/ queue = <<>>)
  <2>1. CASE queue = <<>>
    <3>1. ~IsFull(cur_bytes)
      BY <2>1, SendQueueAssumption DEF IInv, QueueInv, IsFull
    <3>2. QED BY <2>1, <3>1 DEF Send, Enqueue
  <2>2. CASE queue # <<>>
    BY <2>2 DEF Send, Enqueue
  <2>3. QED BY <2>1, <2>2
<1>3. CASE UNCHANGED <<accepted, wire>>
  BY <1>1, <1>3 DEF Stream!mvars
<1>4. CASE accepted' = accepted + size /\ (wire' = wire \/ queue = <<>>)
  <2>1. accepted \in Nat /\ accepted' \in Nat /\ accepted' > accepted
    BY <1>1, <1>4, WireIsBytes
  <2>2. CASE wire' = wire
    BY <1>1, <2>1, <2>2 DEF Stream!MNext, Stream!Accept
  <2>3. CASE queue = <<>>
    <3>1. Len(wire) = accepted
      BY <1>1, <2>3, WireIsBytes
    <3>2. wire' = Stream!Bytes(Len(wire')) /\ Len(wire') \in Nat /\ Len(wire') <= accepted'
      BY DEF IInv, TypeOK, StreamIntact, InOrder, Stream!Bytes
    <3>3. Len(wire') >= accepted
      <4>1. PICK n \in Results(size) : wire' = wire \/ (n # -1 /\ Take(accepted + 1, n))
        <5>1. PICK n \in Results(size) :
                \/ n = -1 /\ wire' = wire
                \/ n = size /\ Take(accepted + 1, n)
                \/ n \in 0..(size - 1) /\ Take(accepted + 1, n)
          BY <2>3 DEF Send
        <5>2. size # -1 /\ (n \in 0..(size - 1) => n # -1)
          BY <1>1
        <5>3. QED BY <5>1, <5>2
      <4>2. CASE wire' = wire
        BY <4>2, <3>1, <2>1
      <4>3. CASE n # -1 /\ Take(accepted + 1, n)
        <5>1. n \in Nat /\ n <= room
          BY <4>3, <1>1, ResultsFit DEF IInv, TypeOK
        <5>2. Taken(n)
          BY <4>3, <5>1, <3>1, TakeStep
        <5>3. QED BY <5>1, <5>2, <3>1, <2>1 DEF Taken
      <4>4. QED BY <4>1, <4>2, <4>3
    <3>4. Len(wire') \in accepted..accepted'
      BY <3>2, <3>3, <2>1
    <3>5. QED BY <1>1, <2>1, <3>1, <3>2, <3>4 DEF Stream!MNext, Stream!Accept
  <2>4. QED BY <1>4, <2>2, <2>3
<1>5. QED BY <1>2, <1>3, <1>4

\* The connection ends and no byte that was sent is lost.
LEMMA EndOfStream ==
  ASSUME IInv, IInv', Live, ~Live', accepted' = accepted, Len(wire') >= Len(wire)
  PROVE  [Stream!MNext]_(Stream!mvars)
<1>1. /\ wire' = Stream!Bytes(Len(wire')) /\ Len(wire') \in Nat /\ Len(wire') <= accepted'
      /\ accepted' \in Nat
  BY DEF IInv, TypeOK, StreamIntact, InOrder, Stream!Bytes
<1>2. Len(wire') \in Len(wire)..accepted
  BY <1>1, WireIsBytes
<1>3. QED BY <1>1, <1>2 DEF Stream!MNext, Stream!End

LEMMA DeliverStep ==
  ASSUME IInv, IInv', Live, SendBlock
  PROVE  [Stream!MNext]_(Stream!mvars)
<1> DEFINE block == Head(queue)
<1>1. PICK n \in Results(Rest(block)) :
        \/ Close /\ UNCHANGED wire
        \/ n # -1 /\ Take(block.next, n) /\ Close
        \/ n # -1 /\ Take(block.next, n) /\ UNCHANGED <<conn, accepted>>
  <2>1. Rest(block) \in Nat \ {0}
    BY HeadBlock DEF SendBlock
  <2>2. QED BY <2>1 DEF SendBlock
<1>2. queue # <<>> /\ Rest(block) \in Nat \ {0} /\ block.next = Len(wire) + 1
  BY HeadBlock DEF SendBlock
<1>3. ASSUME n # -1, Take(block.next, n)
      PROVE  n \in Nat /\ Len(wire') = Len(wire) + n /\ InOrder(wire') /\ Len(wire) \in Nat
  <2>1. n \in Nat /\ n <= room
    BY <1>2, <1>3, ResultsFit DEF IInv, TypeOK
  <2>2. QED BY <1>2, <1>3, <2>1, TakeStep, WireIsBytes DEF Taken
<1>4. CASE Close /\ UNCHANGED wire
  <2>1. ~Live' /\ accepted' = accepted /\ Len(wire') >= Len(wire)
    BY <1>4, WireIsBytes DEF Close, Live
  <2>2. QED BY <2>1, EndOfStream
<1>5. CASE n # -1 /\ Take(block.next, n) /\ Close
  <2>1. ~Live' /\ accepted' = accepted /\ Len(wire') >= Len(wire)
    BY <1>3, <1>5 DEF Close, Live
  <2>2. QED BY <2>1, EndOfStream
<1>6. CASE n # -1 /\ Take(block.next, n) /\ UNCHANGED <<conn, accepted>>
  <2>1. CASE n = 0
    <3>1. Len(wire') = Len(wire)
      BY <1>3, <1>6, <2>1
    <3>2. wire' = wire
      BY <1>3, <1>6, <3>1, WireIsBytes DEF InOrder, Stream!Bytes
    <3>3. QED BY <1>6, <3>2 DEF Stream!mvars, Live
  <2>2. CASE n # 0
    <3>1. wire' = Stream!Bytes(Len(wire')) /\ Len(wire') <= accepted' /\ Len(wire') \in Nat
      BY DEF IInv, TypeOK, StreamIntact, InOrder, Stream!Bytes
    <3>2. Len(wire') \in (Len(wire) + 1)..accepted
      BY <1>3, <1>6, <2>2, <3>1, WireIsBytes
    <3>3. Live' /\ accepted' = accepted
      BY <1>6 DEF Live
    <3>4. QED BY <3>1, <3>2, <3>3 DEF Stream!MNext, Stream!Deliver
  <2>3. QED BY <2>1, <2>2
<1>7. QED BY <1>1, <1>4, <1>5, <1>6

LEMMA Simulation ==
  ASSUME IInv, IInv', [Next]_vars
  PROVE  [Stream!MNext]_(Stream!mvars)
<1>1. ASSUME NEW size \in Sizes, Send(size) PROVE [Stream!MNext]_(Stream!mvars)
  BY <1>1, AcceptStep
<1>2. CASE HandleOutput
  <2>1. CASE CancelWakeup
    BY <2>1 DEF CancelWakeup, Stream!mvars, Live
  <2>2. QED BY <1>2, <2>1, DeliverStep DEF HandleOutput
<1>3. CASE HandleInputEnd \/ CloseConnection
  <2>1. Live /\ ~Live' /\ accepted' = accepted /\ wire' = wire
    BY <1>3 DEF HandleInputEnd, CloseConnection, Close, Live
  <2>2. Len(wire') >= Len(wire)
    BY <2>1, WireIsBytes
  <2>3. QED BY <2>1, <2>2, EndOfStream
<1>4. CASE PeerReads \/ PeerEnds \/ UNCHANGED vars
  BY <1>4 DEF PeerReads, PeerEnds, vars, Stream!mvars, Live
<1>5. QED BY <1>1, <1>2, <1>3, <1>4 DEF Next

\* send and handle_output implement the stream of messages: every step either
\* accepts a message, delivers the next bytes, ends the connection or does
\* nothing the stream sees.  (That bytes do not wait for ever is checked by TLC.)
THEOREM Refinement == Spec => Stream!MInit /\ [][Stream!MNext]_(Stream!mvars)
<1>1. Init => Stream!MInit
  BY DEF Init, Live, Stream!MInit
<1>2. IInv /\ IInv' /\ [Next]_vars => [Stream!MNext]_(Stream!mvars)
  BY Simulation
<1>3. QED BY <1>1, <1>2, Invariance, PTL DEF Spec
=============================================================================
