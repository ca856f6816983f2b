---------------------------- MODULE PacketChannel ----------------------------
(***************************************************************************)
(* What BufferedSocket and OnRead promise: the packets a client has sent   *)
(* are handled whole, each once, in the order it sent them, while the      *)
(* connection lasts.                                                       *)
(***************************************************************************)
EXTENDS Naturals, Sequences

VARIABLES
  sent,     \* the packets the client has sent
  handled,  \* the packets a handler was given
  up        \* whether the connection lasts

pvars == <<sent, handled, up>>

PInit == sent = <<>> /\ handled = <<>> /\ up = TRUE

\* The client sends a packet.
SendPacket ==
  /\ Len(sent') = Len(sent) + 1 /\ SubSeq(sent', 1, Len(sent)) = sent
  /\ UNCHANGED <<handled, up>>

\* The next packet is handled; its handler may end the connection.
HandlePacket ==
  /\ up /\ Len(handled) < Len(sent)
  /\ handled' = Append(handled, sent[Len(handled) + 1])
  /\ up' \in BOOLEAN
  /\ UNCHANGED sent

EndConnection ==
  /\ up /\ up' = FALSE
  /\ UNCHANGED <<sent, handled>>

PNext == SendPacket \/ HandlePacket \/ EndConnection

Spec == PInit /\ [][PNext]_pvars
=============================================================================
