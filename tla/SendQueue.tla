------------------------------ MODULE SendQueue ------------------------------
(***************************************************************************)
(* How an answer leaves the server (src/src/DWCore/BufferedSocket.cpp):    *)
(* send tries the socket and queues what the socket does not take, the     *)
(* reactor calls handle_output when the socket takes more.  The queue is   *)
(* ACE's message queue, which refuses a message once it holds as many      *)
(* bytes as its high water mark, and the wake-up is the WRITE bit of the   *)
(* handle in the reactor.                                                  *)
(*                                                                         *)
(* One connection.  A message is its size; the bytes of the accepted       *)
(* messages are numbered 1, 2, ... in the order they were accepted, so a   *)
(* byte that is lost, sent twice or sent out of turn shows in the numbers  *)
(* that were sent.  The network takes bytes between any two calls.         *)
(***************************************************************************)
EXTENDS Integers, Sequences

CONSTANTS
  Sizes,          \* sizes messages have
  HighWaterMark,  \* of the message queue
  Room,           \* bytes the socket holds
  MaxBytes        \* bound: bytes in accepted messages

ASSUME SendQueueAssumption ==
  /\ Sizes \subseteq Nat \ {0}
  /\ HighWaterMark \in Nat \ {0}
  /\ Room \in Nat \ {0}
  /\ MaxBytes \in Nat

VARIABLES
  conn,       \* "open"; "ended" by its peer, which still reads; "broken";
              \* "shut" by close_connection; "closed" and deleted
  queue,      \* the message blocks that wait
  cur_bytes,  \* the sizes of the blocks in the queue, sent parts included
  wakeup,     \* whether the WRITE bit is set
  again,      \* whether handle_output asked to be called again at once
  room,       \* bytes the socket can take
  accepted,   \* bytes in messages that send returned true for
  wire        \* the bytes the socket took, in order

vars == <<conn, queue, cur_bytes, wakeup, again, room, accepted, wire>>

Live == conn \in {"open", "ended", "broken"}

\* A message block: its bytes are first..last, those before `next` were sent.
Size(block) == block.last - block.first + 1
Rest(block) == block.last - block.next + 1

-----------------------------------------------------------------------------
(* The socket and the queue. *)

\* What noblk_send may return for len bytes: -1 for an error, 0 when the socket
\* would block, else how many bytes the socket took.
Results(len) ==
  IF conn = "broken" THEN {-1}
  ELSE IF room = 0 THEN {0}
  ELSE 1..(IF len < room THEN len ELSE room)

\* The socket takes n bytes from `first` on.
Take(first, n) ==
  /\ wire' = wire \o [i \in 1..n |-> first + i - 1]
  /\ room' = room - n

\* Mutant: a queue that has no limit.
NeverFull(bytes) == FALSE

\* is_full_i
IsFull(bytes) == bytes >= HighWaterMark

\* Mutant: the reactor is not told.
EnqueueOnly(block) ==
  IF IsFull(cur_bytes)
  THEN UNCHANGED <<queue, cur_bytes, wakeup, accepted>>
  ELSE /\ queue' = Append(queue, block)
       /\ cur_bytes' = cur_bytes + Size(block)
       /\ accepted' = block.last
       /\ UNCHANGED wakeup

\* enqueue_tail with a timeout of zero and schedule_wakeup; send returns true
\* unless the queue is full.
Enqueue(block) ==
  IF IsFull(cur_bytes)
  THEN UNCHANGED <<queue, cur_bytes, wakeup, accepted>>
  ELSE /\ queue' = Append(queue, block)
       /\ cur_bytes' = cur_bytes + Size(block)
       /\ wakeup' = TRUE
       /\ accepted' = block.last

\* Mutant: a block that leaves the queue is still counted.
StillCounted(block) == cur_bytes

\* What dequeue_head leaves of cur_bytes.
Left(block) == cur_bytes - Size(block)

\* Mutant: the block goes to the end of the queue.
PutBackLast(block, q) == Append(q, block)

\* enqueue_head
PutBack(block, q) == <<block>> \o q

\* handle_close: the session is deleted, and its queue with it.
Close ==
  /\ conn' = "closed" /\ queue' = <<>> /\ cur_bytes' = 0
  /\ wakeup' = FALSE /\ again' = FALSE
  /\ UNCHANGED <<accepted>>

-----------------------------------------------------------------------------
(* Handlers. *)

\* send, from a handler of handle_input.  Whoever called it does not look at
\* what it returns.
Send(size) ==
  /\ Live /\ ~again /\ accepted + size <= MaxBytes
  /\ LET first == accepted + 1
         last  == accepted + size
         block(n) == [first |-> first, next |-> first + n, last |-> last]
     IN  \/ /\ queue = <<>>
            /\ \E n \in Results(size) :
                 \/ /\ n = -1
                    /\ UNCHANGED <<queue, cur_bytes, wakeup, room, accepted, wire>>
                 \/ /\ n = size
                    /\ Take(first, n)
                    /\ accepted' = last
                    /\ UNCHANGED <<queue, cur_bytes, wakeup>>
                 \/ /\ n \in 0..(size - 1)
                    /\ Take(first, n)
                    /\ Enqueue(block(n))
         \/ /\ queue # <<>>
            /\ Enqueue(block(0))
            /\ UNCHANGED <<room, wire>>
  /\ UNCHANGED <<conn, again>>

\* Whether the reactor calls handle_output: it has asked for it, or the bit is
\* set and select finds the socket writable.
Writable == again \/ (wakeup /\ (room > 0 \/ conn = "broken"))

\* handle_output with an empty queue
CancelWakeup ==
  /\ queue = <<>>
  /\ wakeup' = FALSE /\ again' = FALSE
  /\ UNCHANGED <<conn, queue, cur_bytes, room, accepted, wire>>

\* handle_output with a block: it is sent and the rest is put back.  The queue
\* may be too full to put it back.
SendBlock ==
  /\ queue # <<>>
  /\ LET block == Head(queue)
         left  == Left(block)
     IN  \E n \in Results(Rest(block)) :
           \/ /\ n = -1
              /\ Close
              /\ UNCHANGED <<room, wire>>
           \/ /\ n = Rest(block)
              /\ Take(block.next, n)
              /\ queue' = Tail(queue) /\ cur_bytes' = left
              /\ again' = TRUE
              /\ UNCHANGED <<conn, wakeup, accepted>>
           \/ /\ n \in 0..(Rest(block) - 1) /\ ~IsFull(left)
              /\ Take(block.next, n)
              /\ queue' = PutBack([block EXCEPT !.next = block.next + n], Tail(queue))
              /\ again' = FALSE
              /\ UNCHANGED <<conn, cur_bytes, wakeup, accepted>>
           \/ /\ n \in 0..(Rest(block) - 1) /\ IsFull(left)
              /\ Take(block.next, n)
              /\ Close

HandleOutput == Live /\ Writable /\ (CancelWakeup \/ SendBlock)

\* Mutant: the end of the stream is taken for a read that found nothing.
HandleInputError ==
  /\ conn = "broken" /\ ~again
  /\ Close
  /\ UNCHANGED <<room, wire>>

\* handle_input reads the end of the stream, or an error.
HandleInputEnd ==
  /\ conn \in {"ended", "broken"} /\ ~again
  /\ Close
  /\ UNCHANGED <<room, wire>>

\* close_connection, from a handler: the socket is shut down and the handle
\* leaves the reactor.
CloseConnection ==
  /\ Live /\ ~again
  /\ conn' = "shut" /\ wakeup' = FALSE
  /\ UNCHANGED <<queue, cur_bytes, again, room, accepted, wire>>

-----------------------------------------------------------------------------
(* The network and the peer, external. *)

PeerReads ==
  /\ conn \in {"open", "ended"} /\ room < Room
  /\ room' \in (room + 1)..Room
  /\ UNCHANGED <<conn, queue, cur_bytes, wakeup, again, accepted, wire>>

\* The peer sends no more; or it is gone, and the socket fails.
PeerEnds ==
  /\ \/ conn = "open" /\ conn' \in {"ended", "broken"}
     \/ conn = "ended" /\ conn' = "broken"
  /\ UNCHANGED <<queue, cur_bytes, wakeup, again, room, accepted, wire>>

-----------------------------------------------------------------------------

Init ==
  /\ conn = "open" /\ queue = <<>> /\ cur_bytes = 0
  /\ wakeup = FALSE /\ again = FALSE
  /\ room = Room /\ accepted = 0 /\ wire = <<>>

Next ==
  \/ \E size \in Sizes : Send(size)
  \/ HandleOutput
  \/ HandleInputEnd
  \/ CloseConnection
  \/ PeerReads
  \/ PeerEnds

\* The reactor dispatches a handle that is ready, writes before reads; and a
\* peer that is there reads what it is sent.
Fairness == WF_vars(HandleOutput) /\ WF_vars(HandleInputEnd) /\ WF_vars(PeerReads)

Spec == Init /\ [][Next]_vars /\ Fairness

-----------------------------------------------------------------------------
(* Properties. *)

Blocks == [first : Nat, next : Nat, last : Nat]

TypeOK ==
  /\ conn \in {"open", "ended", "broken", "shut", "closed"}
  /\ queue \in Seq(Blocks)
  /\ cur_bytes \in Nat
  /\ wakeup \in BOOLEAN /\ again \in BOOLEAN
  /\ room \in 0..Room
  /\ accepted \in Nat
  /\ wire \in Seq(Nat)

\* The bytes of w are the first there were, each once and in order.
InOrder(w) == w = [i \in 1..Len(w) |-> i]

\* What goes out is the accepted messages, every byte of them once and in order,
\* however they were cut up, and no byte of a message that was refused.
StreamIntact ==
  /\ InOrder(wire)
  /\ Len(wire) <= accepted

\* While anything waits the reactor will be told when the socket takes more; when
\* nothing does it is not called in vain.
WakeupWhileQueued ==
  Live => /\ queue # <<>> => wakeup
          /\ queue = <<>> /\ ~again => ~wakeup

\* The queue passes its mark by less than one message.
QueueBounded == \/ cur_bytes = 0
                \/ \E size \in Sizes : cur_bytes < HighWaterMark + size

\* A connection that works is given up only when a message waits behind a shorter
\* one: with answers of one size a full queue never costs a connection.
GivenUpOnlyForLonger ==
  [][conn = "open" /\ conn' = "closed" =>
       Size(queue[1]) < Size(queue[Len(queue)])]_vars

\* A session whose peer has ended the stream is closed.
EndedClosed == (conn \in {"ended", "broken"}) ~> (conn \in {"shut", "closed"})

\* The inductive invariant behind these.
BlocksInv ==
  \A i \in 1..Len(queue) :
    /\ queue[i].first <= queue[i].next /\ queue[i].next <= queue[i].last
    /\ queue[i].last <= accepted
    /\ Size(queue[i]) \in Sizes
    /\ i > 1 => /\ queue[i].next = queue[i].first
                /\ queue[i].first = queue[i - 1].last + 1

\* The bytes that wait are those after the bytes sent, up to the last accepted,
\* and the last message found the queue below its mark.
QueueInv ==
  IF queue = <<>>
  THEN cur_bytes = 0 /\ (Live => Len(wire) = accepted)
  ELSE /\ queue[1].next = Len(wire) + 1
       /\ queue[Len(queue)].last = accepted
       /\ cur_bytes = accepted - queue[1].first + 1
       /\ cur_bytes - Size(queue[Len(queue)]) < HighWaterMark

IInv == TypeOK /\ StreamIntact /\ BlocksInv /\ QueueInv /\ WakeupWhileQueued

-----------------------------------------------------------------------------
(* send promises a stream of messages. *)

Stream == INSTANCE MessageStream WITH
            accepted <- accepted, received <- wire, up <- Live

ImplementsMessageStream == Stream!Spec
=============================================================================
