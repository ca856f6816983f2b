---------------------------- MODULE MessageStream ----------------------------
(***************************************************************************)
(* What BufferedSocket::send promises: the bytes of the messages it has    *)
(* accepted arrive, each once, in order, until the connection ends.  They  *)
(* are numbered 1, 2, ... in the order they were accepted.                 *)
(***************************************************************************)
EXTENDS Integers, Sequences

VARIABLES
  accepted,  \* how many bytes the messages have that send returned true for
  received,  \* the bytes that were handed to the network
  up         \* whether the connection lasts

mvars == <<accepted, received, up>>

\* The first n bytes.
Bytes(n) == [i \in 1..n |-> i]

MInit == accepted = 0 /\ received = <<>> /\ up = TRUE

\* A message is accepted; if no byte is waiting, some of it leaves at once.
Accept ==
  /\ up
  /\ accepted' \in Nat /\ accepted' > accepted
  /\ \/ received' = received
     \/ Len(received) = accepted /\ \E n \in accepted..accepted' : received' = Bytes(n)
  /\ UNCHANGED up

\* Bytes that wait leave.
Deliver ==
  /\ up
  /\ \E n \in (Len(received) + 1)..accepted : received' = Bytes(n)
  /\ UNCHANGED <<accepted, up>>

\* The connection ends, perhaps with some more bytes on their way.
End ==
  /\ up /\ up' = FALSE
  /\ \E n \in Len(received)..accepted : received' = Bytes(n)
  /\ UNCHANGED accepted

MNext == Accept \/ Deliver \/ End

\* Bytes do not wait for ever on a connection that lasts.
Spec == MInit /\ [][MNext]_mvars /\ WF_mvars(Deliver)
=============================================================================
