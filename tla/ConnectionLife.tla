--------------------------- MODULE ConnectionLife ---------------------------
(***************************************************************************)
(* What the server promises about connections and socket handles: a handle  *)
(* is leased to one connection from accept to close, and a connection that  *)
(* was removed (close_connection) keeps its handle for good.                *)
(***************************************************************************)
CONSTANTS Conns, Handles, NoHandle
VARIABLES life, sock

Leased == {sock[c] : c \in Conns} \ {NoHandle}

Init ==
  /\ life = [c \in Conns |-> "absent"]
  /\ sock = [c \in Conns |-> NoHandle]

Move(c, from, to) == life[c] = from /\ life' = [life EXCEPT ![c] = to]

Arrive(c) == Move(c, "absent", "pending") /\ UNCHANGED sock
GiveUp(c) == Move(c, "pending", "absent") /\ UNCHANGED sock
Serve(c) ==
  /\ Move(c, "pending", "served")
  /\ \E h \in Handles \ Leased : sock' = [sock EXCEPT ![c] = h]
Release(c) ==
  /\ Move(c, "served", "absent")
  /\ sock' = [sock EXCEPT ![c] = NoHandle]
Remove(c) == Move(c, "served", "removed") /\ UNCHANGED sock

Next == \E c \in Conns :
  Arrive(c) \/ GiveUp(c) \/ Serve(c) \/ Release(c) \/ Remove(c)

Spec == Init /\ [][Next]_<<life, sock>>
=============================================================================
