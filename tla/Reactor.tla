------------------------------ MODULE Reactor ------------------------------
(***************************************************************************)
(* The ACE thread pool reactor as DWCore runs it: one thread, one           *)
(* acceptor, one AuthServer object per accepted connection.                 *)
(*                                                                          *)
(* A turn of the reactor selects the handles that are ready, picks one,     *)
(* suspends it, calls its handler until the handler stops asking to be      *)
(* called again, and then removes or resumes the handle.  Meanwhile the     *)
(* clients connect, send, read and leave.  suspend_i clears the whole       *)
(* ready set (the thread pool reactor's clear_dispatch_mask resets it), so  *)
(* every turn starts with a new select and the ready set needs no variable. *)
(*                                                                          *)
(* On Windows, the platform of the project, a handle set is an array of     *)
(* FD_SETSIZE sockets in the order they were added; adding to a full array  *)
(* does nothing and says nothing.                                           *)
(*                                                                          *)
(* The bytes of SendQueue and the packets of InputFraming are counted here: *)
(* rx is what a client has sent and handle_input has not read, q what is    *)
(* queued for handle_output.                                                *)
(***************************************************************************)
EXTENDS Integers, Sequences, FiniteSets

CONSTANTS
  Conns,      \* connections; c stands for the client and for its AuthServer
  Handles,    \* the socket handles the system can give to accepted sockets
  Listener,   \* the handle of the acceptor's socket
  Acceptor,   \* the acceptor, as an event handler
  NoHandle,   \* ACE_INVALID_HANDLE
  NoHandler,  \* the null event handler
  SetSize,    \* FD_SETSIZE without the slot of the notification pipe
  MaxIn,      \* bound: reads a client may have in flight
  MaxQueue    \* the message queue's high water mark, in answers

ASSUME HandlesAssumption ==
  /\ IsFiniteSet(Handles)
  /\ Listener \notin Handles
  /\ NoHandle \notin Handles \cup {Listener}
ASSUME HandlersAssumption ==
  /\ Acceptor \notin Conns
  /\ NoHandler \notin Conns \cup {Acceptor}
ASSUME SizesAssumption ==
  SetSize \in Nat \ {0} /\ MaxIn \in Nat \ {0} /\ MaxQueue \in Nat \ {0}

AllHandles == Handles \cup {Listener}
Handlers == Conns \cup {Acceptor}

VARIABLES
  repo,             \* handler_rep_: the handler bound to each handle
  waitRd, waitWr,   \* wait_set_: read and write arrays
  suspRd, suspWr,   \* suspend_set_: handles of the dispatched event
  cur, eh, mask,    \* the event being dispatched: handle, handler, mask
  status,           \* what its callback returned last; 1 before the first call
  life,             \* a connection: absent, pending, served or removed
  sock,             \* the handle of its AuthServer's peer()
  backlog,          \* connections that wait for accept, in order
  rx, gone,         \* reads in flight; the client has left
  room,             \* its socket takes output
  q                 \* answers in its message queue

sets == <<waitRd, waitWr, suspRd, suspWr>>
event == <<cur, eh, mask>>
net == <<rx, gone, room>>
vars == <<repo, sets, event, status, life, sock, backlog, net, q>>

Init ==
  /\ repo = [h \in AllHandles |-> IF h = Listener THEN Acceptor ELSE NoHandler]
  /\ waitRd = <<Listener>> /\ waitWr = <<>>
  /\ suspRd = {} /\ suspWr = {}
  /\ cur = NoHandle /\ eh = NoHandler /\ mask = "read" /\ status = 0
  /\ life = [c \in Conns |-> "absent"]
  /\ sock = [c \in Conns |-> NoHandle]
  /\ backlog = <<>>
  /\ rx = [c \in Conns |-> 0]
  /\ gone = [c \in Conns |-> FALSE]
  /\ room = [c \in Conns |-> TRUE]
  /\ q = [c \in Conns |-> 0]

-----------------------------------------------------------------------------
(* Handle sets.                                                            *)

Elems(s) == {s[i] : i \in DOMAIN s}

\* Mutant: the last place of the array is never used.
FdSetShort(s, h) ==
  IF h \in Elems(s) \/ Len(s) + 1 >= SetSize THEN s ELSE Append(s, h)

\* Mutant: a handle goes to the start of the array.
FdSetFirst(s, h) == IF h \in Elems(s) \/ Len(s) >= SetSize THEN s ELSE <<h>> \o s

\* Adds a handle at the end; a full array is left as it is.
FdSet(s, h) == IF h \in Elems(s) \/ Len(s) >= SetSize THEN s ELSE Append(s, h)

\* Takes a handle out; those behind it move up.
FdClr(s, h) ==
  IF h \notin Elems(s) THEN s
  ELSE LET i == CHOOSE j \in DOMAIN s : s[j] = h
       IN  [j \in 1 .. Len(s) - 1 |-> IF j < i THEN s[j] ELSE s[j + 1]]

Suspend(h) ==
  /\ suspRd' = IF h \in Elems(waitRd) THEN suspRd \cup {h} ELSE suspRd
  /\ suspWr' = IF h \in Elems(waitWr) THEN suspWr \cup {h} ELSE suspWr
  /\ waitRd' = FdClr(waitRd, h)
  /\ waitWr' = FdClr(waitWr, h)

\* Mutant: resume_i forgets the WRITE bit.
ResumeRead(h) ==
  /\ waitRd' = IF h \in suspRd THEN FdSet(waitRd, h) ELSE waitRd
  /\ UNCHANGED waitWr
  /\ suspRd' = suspRd \ {h}
  /\ suspWr' = suspWr \ {h}

Resume(h) ==
  /\ waitRd' = IF h \in suspRd THEN FdSet(waitRd, h) ELSE waitRd
  /\ waitWr' = IF h \in suspWr THEN FdSet(waitWr, h) ELSE waitWr
  /\ suspRd' = suspRd \ {h}
  /\ suspWr' = suspWr \ {h}

\* Mutant: unbind clears the bits of the wait set only.
UnbindWaiting(h) ==
  /\ repo' = [repo EXCEPT ![h] = NoHandler]
  /\ waitRd' = FdClr(waitRd, h) /\ waitWr' = FdClr(waitWr, h)
  /\ UNCHANGED <<suspRd, suspWr>>

\* remove_handler with ALL_EVENTS_MASK: no bit is left, so the binding goes.
Unbind(h) ==
  /\ repo' = [repo EXCEPT ![h] = NoHandler]
  /\ waitRd' = FdClr(waitRd, h) /\ waitWr' = FdClr(waitWr, h)
  /\ suspRd' = suspRd \ {h} /\ suspWr' = suspWr \ {h}

-----------------------------------------------------------------------------
(* The turn of the reactor: select, dispatch, post process.                *)

ReadReady ==
  {sock[c] : c \in {d \in Conns : rx[d] > 0 \/ gone[d] \/ life[d] = "removed"}}
    \cup (IF backlog = <<>> THEN {} ELSE {Listener})
WriteReady == {sock[c] : c \in {d \in Conns : room[d] \/ gone[d]}}

\* select keeps the order of the array; the iterator takes its first handle.
FirstReady(s, ready, h) ==
  \E i \in DOMAIN s : /\ s[i] = h /\ h \in ready
                      /\ \A j \in 1 .. i - 1 : s[j] \notin ready

\* get_socket_event_info looks for output before input.
Selected(h, m) ==
  \/ m = "write" /\ FirstReady(waitWr, WriteReady, h)
  \/ /\ m = "read" /\ FirstReady(waitRd, ReadReady, h)
     /\ Elems(waitWr) \cap WriteReady = {}

Dispatch ==
  /\ cur = NoHandle
  /\ \E h \in AllHandles, m \in {"read", "write"} :
       /\ Selected(h, m)
       /\ cur' = h /\ eh' = repo[h] /\ mask' = m
       /\ Suspend(h)
  /\ status' = 1
  /\ UNCHANGED <<repo, life, sock, backlog, net, q>>

\* Mutant: the object goes and its registration stays.
DeleteOnly(c) ==
  /\ UNCHANGED <<repo, sets>>
  /\ sock' = [sock EXCEPT ![c] = NoHandle]
  /\ life' = [life EXCEPT ![c] = "absent"]
  /\ rx' = [rx EXCEPT ![c] = 0] /\ gone' = [gone EXCEPT ![c] = FALSE]
  /\ room' = [room EXCEPT ![c] = TRUE]
  /\ q' = [q EXCEPT ![c] = 0]

\* delete this, by way of handle_close and destroy: ~ACE_Svc_Handler
\* unregisters the handler and closes the socket.
Delete(c) ==
  /\ Unbind(sock[c])
  /\ sock' = [sock EXCEPT ![c] = NoHandle]
  /\ life' = [life EXCEPT ![c] = "absent"]
  /\ rx' = [rx EXCEPT ![c] = 0] /\ gone' = [gone EXCEPT ![c] = FALSE]
  /\ room' = [room EXCEPT ![c] = TRUE]
  /\ q' = [q EXCEPT ![c] = 0]

\* The handle is touched only while it is bound to the handler that ran.
PostProcess ==
  /\ cur # NoHandle /\ status <= 0
  /\ \/ /\ repo[cur] = eh /\ status < 0
        /\ Delete(eh)
     \/ /\ repo[cur] = eh /\ status = 0
        /\ Resume(cur)
        /\ UNCHANGED <<repo, sock, life, net, q>>
     \/ /\ repo[cur] # eh
        /\ UNCHANGED <<repo, sets, sock, life, net, q>>
  /\ cur' = NoHandle /\ eh' = NoHandler /\ mask' = "read" /\ status' = 0
  /\ UNCHANGED backlog

-----------------------------------------------------------------------------
(* The callbacks.  Called(c, m) is a call that has not returned.           *)

Called(e, m) == cur # NoHandle /\ eh = e /\ mask = m /\ status = 1

Return(r) == status' = r /\ UNCHANGED event

\* send to a socket that takes it all or fails, or to a full queue,
\* leaves no trace here.
SendDone(c) ==
  /\ (q[c] = 0 /\ (room[c] \/ gone[c])) \/ q[c] = MaxQueue
  /\ UNCHANGED <<q, room, suspWr>>

\* send to a socket without room, or behind other answers: it is queued and
\* schedule_wakeup sets the WRITE bit among the suspended ones.
SendQueued(c) ==
  /\ q[c] < MaxQueue
  /\ q' = [q EXCEPT ![c] = @ + 1]
  /\ room' = IF q[c] = 0 THEN [room EXCEPT ![c] = FALSE] ELSE room
  /\ suspWr' = suspWr \cup {sock[c]}

\* OnRead and the handlers it calls: nothing to answer yet, or an answer.
OnRead(c) == SendDone(c) \/ SendQueued(c) \/ UNCHANGED <<q, room, suspWr>>

\* recv would block.
InputNone(c) ==
  /\ Called(c, "read") /\ life[c] = "served"
  /\ rx[c] = 0 /\ ~gone[c]
  /\ Return(0)
  /\ UNCHANGED <<repo, sets, life, sock, backlog, net, q>>

\* End of stream or an error; after close_connection recv always fails.
InputEnd(c) ==
  /\ Called(c, "read")
  /\ life[c] = "removed" \/ (rx[c] = 0 /\ gone[c])
  /\ Return(-1)
  /\ UNCHANGED <<repo, sets, life, sock, backlog, net, q>>

\* A read: 1 when it filled the buffer (n == space), else 0.  When OnRead
\* leaves the full buffer as it is, the call that follows has no space and
\* takes the 0 bytes it reads for the end of the stream: -1.
InputData(c) ==
  /\ Called(c, "read") /\ life[c] = "served" /\ rx[c] > 0
  /\ rx' = [rx EXCEPT ![c] = @ - 1]
  /\ OnRead(c)
  /\ \E r \in {1, 0, -1} : Return(r)
  /\ UNCHANGED <<repo, waitRd, waitWr, suspRd, life, sock, backlog, gone>>

\* Mutant: close_connection leaves the handler registered.
InputShutDown(c) ==
  /\ Called(c, "read") /\ life[c] = "served" /\ rx[c] > 0
  /\ life' = [life EXCEPT ![c] = "removed"]
  /\ rx' = [rx EXCEPT ![c] = 0] /\ gone' = [gone EXCEPT ![c] = FALSE]
  /\ room' = [room EXCEPT ![c] = TRUE]
  /\ q' = [q EXCEPT ![c] = 0]
  /\ \E r \in {1, 0} : Return(r)
  /\ UNCHANGED <<repo, sets, sock, backlog>>

\* _HandleRealmList finds no account: close_connection shuts the socket down
\* and unregisters the handler; nobody will delete it.
InputClose(c) ==
  /\ Called(c, "read") /\ life[c] = "served" /\ rx[c] > 0
  /\ Unbind(sock[c])
  /\ life' = [life EXCEPT ![c] = "removed"]
  /\ rx' = [rx EXCEPT ![c] = 0] /\ gone' = [gone EXCEPT ![c] = FALSE]
  /\ room' = [room EXCEPT ![c] = TRUE]
  /\ q' = [q EXCEPT ![c] = 0]
  /\ \E r \in {1, 0} : Return(r)
  /\ UNCHANGED <<sock, backlog>>

\* Mutant: the wake-up is not cancelled.
OutputStays(c) ==
  /\ Called(c, "write") /\ q[c] = 0
  /\ Return(0)
  /\ UNCHANGED <<repo, sets, life, sock, backlog, net, q>>

\* handle_output on an empty queue: cancel_wakeup.
OutputNone(c) ==
  /\ Called(c, "write") /\ q[c] = 0
  /\ suspWr' = suspWr \ {sock[c]}
  /\ Return(0)
  /\ UNCHANGED <<repo, waitRd, waitWr, suspRd, life, sock, backlog, net, q>>

\* handle_output sends an answer, all of it (1: call again) or a part of it
\* (0; what stays in q then stands for the rest, too), and may fill the socket.
\* Behind answers that fill the queue the rest cannot be put back (-1).
\* Whether the last answer filled the socket shows at the next send.
OutputSent(c) ==
  /\ Called(c, "write") /\ q[c] > 0 /\ room[c]
  /\ q' = [q EXCEPT ![c] = @ - 1]
  /\ \/ Return(1) /\ UNCHANGED room
     \/ /\ q[c] > 1 /\ room' = [room EXCEPT ![c] = FALSE]
        /\ \E r \in {1, 0, -1} : Return(r)
  /\ UNCHANGED <<repo, sets, life, sock, backlog, rx, gone>>

\* The socket takes nothing: the answer goes back to the head of the queue, or is
\* released when the others fill it.
OutputBlocked(c) ==
  /\ Called(c, "write") /\ q[c] > 0 /\ ~room[c] /\ ~gone[c]
  /\ \/ Return(0) /\ UNCHANGED q
     \/ Return(-1) /\ q[c] > 1 /\ q' = [q EXCEPT ![c] = @ - 1]
  /\ UNCHANGED <<repo, sets, life, sock, backlog, net>>

\* The answer that could not be sent is released.
OutputError(c) ==
  /\ Called(c, "write") /\ q[c] > 0 /\ gone[c]
  /\ q' = [q EXCEPT ![c] = @ - 1]
  /\ Return(-1)
  /\ UNCHANGED <<repo, sets, life, sock, backlog, net>>

-----------------------------------------------------------------------------
(* The acceptor's handle_input: one action per turn of its loop.           *)

\* The system gives any handle that is not open.
FreeHandles == Handles \ {sock[c] : c \in Conns}

\* accept fails: nobody waits any more, or there is no handle.  The new
\* AuthServer is deleted; handle_accept_error keeps the acceptor registered.
AcceptFailed ==
  /\ Called(Acceptor, "read")
  /\ backlog = <<>> \/ FreeHandles = {}
  /\ Return(0)
  /\ UNCHANGED <<repo, sets, life, sock, backlog, net, q>>

\* register_handler: a new handle is not suspended, so it joins the wait set.
\* The loop goes on while connections are pending.
Accepted ==
  /\ Called(Acceptor, "read") /\ backlog # <<>>
  /\ LET c == Head(backlog) IN
     /\ \E h \in FreeHandles :
          /\ repo[h] = NoHandler
          /\ repo' = [repo EXCEPT ![h] = c]
          /\ sock' = [sock EXCEPT ![c] = h]
          /\ waitRd' = FdSet(waitRd, h)
     /\ life' = [life EXCEPT ![c] = "served"]
  /\ backlog' = Tail(backlog)
  /\ Return(IF backlog' = <<>> THEN 0 ELSE 1)
  /\ UNCHANGED <<waitWr, suspRd, suspWr, net, q>>

\* Mutant: the AuthServer goes and its socket stays open.
OpenFailedOpen ==
  /\ Called(Acceptor, "read") /\ backlog # <<>>
  /\ LET c == Head(backlog) IN
     /\ \E h \in FreeHandles : /\ repo[h] # NoHandler \/ gone[c]
                               /\ sock' = [sock EXCEPT ![c] = h]
     /\ life' = [life EXCEPT ![c] = "absent"]
     /\ gone' = [gone EXCEPT ![c] = FALSE]
  /\ backlog' = Tail(backlog)
  /\ Return(0)
  /\ UNCHANGED <<repo, sets, rx, room, q>>

\* open fails: register_handler finds another handler on the handle, or
\* get_remote_addr fails because the client has left.  The AuthServer is
\* deleted, with it whatever is registered for its handle, and its socket closed;
\* the other connections wait for a new turn.
OpenFailed ==
  /\ Called(Acceptor, "read") /\ backlog # <<>>
  /\ LET c == Head(backlog) IN
     /\ \E h \in FreeHandles :
          \/ repo[h] # NoHandler /\ Unbind(h)
          \/ repo[h] = NoHandler /\ gone[c] /\ UNCHANGED <<repo, sets>>
     /\ life' = [life EXCEPT ![c] = "absent"]
     /\ gone' = [gone EXCEPT ![c] = FALSE]
  /\ backlog' = Tail(backlog)
  /\ Return(0)
  /\ UNCHANGED <<sock, rx, room, q>>

-----------------------------------------------------------------------------
(* The clients.                                                            *)

Connect(c) ==
  /\ life[c] = "absent"
  /\ life' = [life EXCEPT ![c] = "pending"]
  /\ backlog' = Append(backlog, c)
  /\ UNCHANGED <<repo, sets, event, status, sock, net, q>>

ClientSend(c) ==
  /\ life[c] = "served" /\ ~gone[c] /\ rx[c] < MaxIn
  /\ rx' = [rx EXCEPT ![c] = @ + 1]
  /\ UNCHANGED <<repo, sets, event, status, life, sock, backlog, gone, room, q>>

ClientRead(c) ==
  /\ life[c] = "served" /\ ~gone[c] /\ ~room[c]
  /\ room' = [room EXCEPT ![c] = TRUE]
  /\ UNCHANGED <<repo, sets, event, status, life, sock, backlog, rx, gone, q>>

\* The client closes (what it sent can still be read) or resets.
ClientLeave(c) ==
  /\ life[c] \in {"pending", "served"} /\ ~gone[c]
  /\ gone' = [gone EXCEPT ![c] = TRUE]
  /\ rx' = [rx EXCEPT ![c] = 0] \/ UNCHANGED rx
  /\ UNCHANGED <<repo, sets, event, status, life, sock, backlog, room, q>>

Client(c) == Connect(c) \/ ClientSend(c) \/ ClientRead(c) \/ ClientLeave(c)

Upcall(c) ==
  \/ InputNone(c) \/ InputEnd(c) \/ InputData(c) \/ InputClose(c)
  \/ OutputNone(c) \/ OutputSent(c) \/ OutputBlocked(c) \/ OutputError(c)
Accept == AcceptFailed \/ Accepted \/ OpenFailed

Thread == Dispatch \/ PostProcess \/ Accept \/ \E c \in Conns : Upcall(c)

Next == Thread \/ \E c \in Conns : Client(c)

\* The thread runs; clients owe nothing.
Spec == Init /\ [][Next]_vars /\ WF_vars(Thread)
-----------------------------------------------------------------------------
(* Properties.                                                             *)

TypeOK ==
  /\ repo \in [AllHandles -> Handlers \cup {NoHandler}]
  /\ waitRd \in Seq(AllHandles) /\ waitWr \in Seq(AllHandles)
  /\ suspRd \in SUBSET AllHandles /\ suspWr \in SUBSET AllHandles
  /\ cur \in AllHandles \cup {NoHandle}
  /\ eh \in Handlers \cup {NoHandler}
  /\ mask \in {"read", "write"} /\ status \in {-1, 0, 1}
  /\ life \in [Conns -> {"absent", "pending", "served", "removed"}]
  /\ sock \in [Conns -> Handles \cup {NoHandle}]
  /\ backlog \in Seq(Conns)
  /\ rx \in [Conns -> 0 .. MaxIn] /\ gone \in [Conns -> BOOLEAN]
  /\ room \in [Conns -> BOOLEAN] /\ q \in [Conns -> 0 .. MaxQueue]

Watched == Elems(waitRd) \cup Elems(waitWr)
Suspended == suspRd \cup suspWr

\* No dangling handler: a handler bound to a handle is an object that exists
\* and whose socket has that handle, and a callback runs on such an object.
\* Handlers are plain pointers, objects delete themselves, and the system
\* gives handles again (post_process_socket_event, handle_close).
NoDangling ==
  /\ \A h \in Handles : repo[h] # NoHandler =>
       repo[h] \in Conns /\ life[repo[h]] = "served" /\ sock[repo[h]] = h
  /\ cur # NoHandle /\ status = 1 =>
       IF cur = Listener THEN eh = Acceptor
       ELSE eh \in Conns /\ life[eh] \in {"served", "removed"} /\ sock[eh] = cur

\* The reactor waits for bound handles only, and the suspended handle is the
\* one whose callback runs: no handle is left suspended when a turn ends, and
\* select never gets a socket that was closed (suspend_i, resume_i, unbind).
HandlesAccounted ==
  /\ \A h \in Watched \cup Suspended : repo[h] # NoHandler
  /\ Suspended \subseteq {cur}
  /\ Watched \cap Suspended = {}

Injective(s) == \A i, j \in DOMAIN s : s[i] = s[j] => i = j

\* Every bit stands for a bound handle and in one set only; the handle whose
\* callback runs is in no wait set.
SetsInv ==
  /\ Injective(waitRd) /\ Injective(waitWr)
  /\ \A h \in Watched \cup Suspended : repo[h] # NoHandler
  /\ Suspended \subseteq {cur}
  /\ cur \notin Watched

\* A handle is bound to the connection that is served on it, and no two
\* connections have the same one.
OwnedInv ==
  /\ repo[Listener] = Acceptor
  /\ \A h \in Handles : repo[h] # NoHandler =>
       repo[h] \in Conns /\ life[repo[h]] = "served" /\ sock[repo[h]] = h
  /\ \A c \in Conns : life[c] = "served" => repo[sock[c]] = c
  /\ \A c \in Conns : sock[c] # NoHandle <=> life[c] \in {"served", "removed"}
  /\ \A c, d \in Conns : sock[c] = sock[d] => c = d \/ sock[c] = NoHandle

\* The dispatched handler has the dispatched handle until the turn ends.
EventInv ==
  /\ cur = NoHandle => eh = NoHandler
  /\ cur = Listener => eh = Acceptor /\ status >= 0
  /\ cur \in Handles =>
       eh \in Conns /\ life[eh] \in {"served", "removed"} /\ sock[eh] = cur

\* A connection waits for accept once.
BacklogInv ==
  /\ Injective(backlog)
  /\ \A i \in DOMAIN backlog : life[backlog[i]] = "pending"

\* The inductive invariant of the proofs.
IInv == TypeOK /\ SetsInv /\ OwnedInv /\ EventInv /\ BacklogInv

\* As long as the handle sets have room for every socket, every connection
\* that is served is waited for, also for output when it has answers queued
\* (register_handler, schedule_wakeup, resume_i and a set_bit that does
\* nothing on a full set).
ServedWatched ==
  \A c \in Conns : life[c] = "served" =>
    /\ sock[c] \in Elems(waitRd) \cup suspRd
    /\ q[c] > 0 => sock[c] \in Elems(waitWr) \cup suspWr

\* "The Acceptor remains registered with the Reactor" (Acceptor.cpp:387):
\* between two turns the reactor waits for the acceptor's handle.
AcceptorListens == cur # Listener => Listener \in Elems(waitRd)

\* close_connection is final: no later turn of the reactor calls the handler
\* it removed, although its object and its handle still exist.
ClosedStaysQuiet ==
  [][\A c \in Conns : life[c] = "removed" /\ eh' = c => eh = c]_vars

\* Handles are leased to connections as ConnectionLife says.
Life == INSTANCE ConnectionLife
LeasesKept == Life!Spec

\* The place of a handle in an array.
Place(s, h) == CHOOSE i \in DOMAIN s : s[i] = h

\* No handle of one array is further back in the other.
NoneFallsBack(s, t) == \A h \in Elems(s) \cap Elems(t) : Place(t, h) <= Place(s, h)

\* The ready handles of one array are nearer to the start of the other, or gone.
ReadyMoveUp(s, t, ready) ==
  \A h \in Elems(s) \cap ready : h \in Elems(t) => Place(t, h) < Place(s, h)

\* Nobody is overtaken: while a handle stays in an array nothing gets in front of
\* it, whoever is resumed or accepted, and each turn the reactor gives to an array
\* brings all its handles that are ready nearer to the start.  So while a ready
\* handle stays, fewer turns of its array pass it over than its place says.
NeverOvertaken ==
  [][/\ NoneFallsBack(waitRd, waitRd') /\ NoneFallsBack(waitWr, waitWr')
     /\ cur = NoHandle /\ cur' # NoHandle =>
          IF mask' = "read" THEN ReadyMoveUp(waitRd, waitRd', ReadReady)
          ELSE ReadyMoveUp(waitWr, waitWr', WriteReady)]_vars

\* A turn that never ends: a connection whose handle_input goes on returning
\* 1 keeps the only thread.
Monopoly == <>[](cur # NoHandle)

\* Nobody starves: unless one connection keeps the thread, the input of every
\* other is read, and a connection whose client has left is deleted or was
\* removed, whatever the others do.  Output comes first and the arrays are
\* searched from the start, so this rests on suspend and resume moving a
\* handle to the end of its array.
InputServed ==
  Monopoly \/ \A c \in Conns :
    life[c] = "served" /\ (rx[c] > 0 \/ gone[c])
      ~> life[c] # "served" \/ (~gone[c] /\ eh = c /\ mask = "read")

\* A connection that waits for accept is accepted or given up, unless one
\* connection keeps the thread or all handles are in use.
PendingServed ==
  Monopoly \/ \A c \in Conns :
    life[c] = "pending" ~> life[c] # "pending" \/ FreeHandles = {}
=============================================================================
