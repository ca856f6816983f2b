---------------------------- MODULE ReactorProofs ----------------------------
(***************************************************************************)
(* Theorems about Reactor, for any clients, handles and sizes.              *)
(***************************************************************************)
EXTENDS Reactor, FiniteSetTheorems, SequenceTheorems, TLAPS

(* Lemmas on handle sets. *)

\* What set_bit does to an array without duplicates.
LEMMA FdSetFacts ==
  ASSUME NEW S, NEW s \in Seq(S), NEW h \in S, Injective(s)
  PROVE  /\ FdSet(s, h) \in Seq(S) /\ Injective(FdSet(s, h))
         /\ Elems(FdSet(s, h)) \subseteq Elems(s) \cup {h}
         /\ Elems(s) \subseteq Elems(FdSet(s, h))
         /\ ~(Len(s) >= SetSize) => h \in Elems(FdSet(s, h))
<1>1. CASE h \in Elems(s) \/ Len(s) >= SetSize
  BY <1>1 DEF FdSet
<1>2. CASE ~(h \in Elems(s) \/ Len(s) >= SetSize)
  <2> DEFINE t == Append(s, h)
  <2>1. FdSet(s, h) = t
    BY <1>2 DEF FdSet
  <2>2. /\ t \in Seq(S) /\ Len(t) = Len(s) + 1 /\ Len(s) \in Nat
        /\ t[Len(s) + 1] = h /\ \A i \in 1 .. Len(s) : t[i] = s[i]
        /\ DOMAIN t = 1 .. Len(s) + 1 /\ DOMAIN s = 1 .. Len(s)
    OBVIOUS
  <2> HIDE DEF t
  <2>3. \A i \in 1 .. Len(s) : s[i] # h
    BY <1>2, <2>2 DEF Elems
  <2>4. Injective(t)
    <3> SUFFICES ASSUME NEW i \in DOMAIN t, NEW j \in DOMAIN t, t[i] = t[j]
                 PROVE  i = j
      BY DEF Injective
    <3>1. CASE i \in 1 .. Len(s) /\ j \in 1 .. Len(s)
      BY <3>1, <2>2 DEF Injective
    <3>2. CASE i = Len(s) + 1 \/ j = Len(s) + 1
      BY <3>2, <2>2, <2>3
    <3>3. QED BY <3>1, <3>2, <2>2
  <2>5. Elems(t) = Elems(s) \cup {h}
    <3>1. \A x \in Elems(t) : x \in Elems(s) \cup {h}
      BY <2>2 DEF Elems
    <3>2. \A x \in Elems(s) : x \in Elems(t)
      BY <2>2 DEF Elems
    <3>3. h \in Elems(t)
      BY <2>2 DEF Elems
    <3>4. QED BY <3>1, <3>2, <3>3
  <2>6. QED BY <2>1, <2>2, <2>4, <2>5
<1>3. QED BY <1>1, <1>2

\* What clr_bit does to it.
LEMMA FdClrFacts ==
  ASSUME NEW S, NEW s \in Seq(S), NEW h, Injective(s)
  PROVE  /\ FdClr(s, h) \in Seq(S) /\ Injective(FdClr(s, h))
         /\ Elems(FdClr(s, h)) = Elems(s) \ {h}
<1>1. CASE h \notin Elems(s)
  BY <1>1 DEF FdClr
<1>2. CASE h \in Elems(s)
  <2>1. PICK k \in DOMAIN s : s[k] = h /\ k = CHOOSE j \in DOMAIN s : s[j] = h
    BY <1>2 DEF Elems
  <2> DEFINE t == [j \in 1 .. Len(s) - 1 |-> IF j < k THEN s[j] ELSE s[j + 1]]
  <2>2. FdClr(s, h) = t
    BY <1>2, <2>1 DEF FdClr
  <2>3. Len(s) \in Nat /\ DOMAIN s = 1 .. Len(s) /\ Len(s) - 1 \in Nat
        /\ k \in 1 .. Len(s)
    BY <2>1
  <2>4. \A j \in 1 .. Len(s) - 1 : j \in DOMAIN s /\ j + 1 \in DOMAIN s
    BY <2>3
  <2>5. \A i \in DOMAIN s : s[i] \in S
    OBVIOUS
  <2>6. t \in Seq(S) /\ DOMAIN t = 1 .. Len(s) - 1
    <3>1. \A j \in 1 .. Len(s) - 1 : (IF j < k THEN s[j] ELSE s[j + 1]) \in S
      BY <2>4, <2>5
    <3>2. t \in [1 .. Len(s) - 1 -> S]
      BY <3>1
    <3>3. QED BY <3>2, <2>3
  <2>7. \A j \in DOMAIN t : t[j] = IF j < k THEN s[j] ELSE s[j + 1]
    BY <2>6
  <2> HIDE DEF t
  <2>8. Injective(t)
    <3> SUFFICES ASSUME NEW i \in DOMAIN t, NEW j \in DOMAIN t, t[i] = t[j]
                 PROVE  i = j
      BY DEF Injective
    <3> DEFINE a == IF i < k THEN i ELSE i + 1
               b == IF j < k THEN j ELSE j + 1
    <3>1. a \in DOMAIN s /\ b \in DOMAIN s
      BY <2>4, <2>6
    <3>2. t[i] = s[a] /\ t[j] = s[b]
      BY <2>7
    <3>3. a = b
      BY <3>1, <3>2 DEF Injective
    <3>4. i \in Int /\ j \in Int /\ k \in Int
      BY <2>3, <2>6
    <3>5. QED BY <3>3, <3>4
  <2>9. Elems(t) \subseteq Elems(s) \ {h}
    <3> SUFFICES ASSUME NEW j \in DOMAIN t PROVE t[j] \in Elems(s) \ {h}
      BY DEF Elems
    <3> DEFINE a == IF j < k THEN j ELSE j + 1
    <3>1. a \in DOMAIN s /\ t[j] = s[a]
      BY <2>4, <2>6, <2>7
    <3>2. j \in Int /\ k \in Int
      BY <2>3, <2>6
    <3>3. a # k
      BY <3>2
    <3>4. QED BY <3>1, <3>3, <2>1 DEF Injective, Elems
  <2>10. Elems(s) \ {h} \subseteq Elems(t)
    <3> SUFFICES ASSUME NEW i \in DOMAIN s, s[i] # h PROVE s[i] \in Elems(t)
      BY DEF Elems
    <3>1. i \in Int /\ k \in Int /\ i # k /\ i \in 1 .. Len(s)
      BY <2>1, <2>3
    <3>2. CASE i < k
      <4>1. i \in DOMAIN t
        BY <3>1, <3>2, <2>3, <2>6
      <4>2. QED BY <4>1, <3>2, <2>7 DEF Elems
    <3>3. CASE i > k
      <4>1. i - 1 \in DOMAIN t /\ ~(i - 1 < k) /\ (i - 1) + 1 = i
        BY <3>1, <3>3, <2>3, <2>6
      <4>2. t[i - 1] = s[i]
        BY <4>1, <2>7
      <4>3. QED BY <4>1, <4>2 DEF Elems
    <3>4. QED BY <3>1, <3>2, <3>3
  <2>11. QED BY <2>2, <2>6, <2>8, <2>9, <2>10
<1>3. QED BY <1>1, <1>2

-----------------------------------------------------------------------------
(* What the helpers of the actions do to the handle sets.                  *)

SetTypes ==
  /\ waitRd \in Seq(AllHandles) /\ waitWr \in Seq(AllHandles)
  /\ suspRd \in SUBSET AllHandles /\ suspWr \in SUBSET AllHandles

LEMMA SuspendStep ==
  ASSUME SetTypes, SetsInv, cur = NoHandle, NEW h \in AllHandles, Suspend(h)
  PROVE  /\ SetTypes' /\ Injective(waitRd') /\ Injective(waitWr')
         /\ Watched' = Watched \ {h}
         /\ Suspended' \subseteq Suspended \cup {h}
         /\ Elems(waitRd') \cup suspRd' = Elems(waitRd) \cup suspRd
         /\ Elems(waitWr') \cup suspWr' = Elems(waitWr) \cup suspWr
<1>1. /\ waitRd' \in Seq(AllHandles) /\ Injective(waitRd')
      /\ Elems(waitRd') = Elems(waitRd) \ {h}
  BY FdClrFacts DEF SetTypes, SetsInv, Suspend
<1>2. /\ waitWr' \in Seq(AllHandles) /\ Injective(waitWr')
      /\ Elems(waitWr') = Elems(waitWr) \ {h}
  BY FdClrFacts DEF SetTypes, SetsInv, Suspend
<1>3. /\ suspRd' = IF h \in Elems(waitRd) THEN suspRd \cup {h} ELSE suspRd
      /\ suspWr' = IF h \in Elems(waitWr) THEN suspWr \cup {h} ELSE suspWr
  BY DEF Suspend
<1>4. SetTypes'
  BY <1>1, <1>2, <1>3 DEF SetTypes
<1>5. Watched' = Watched \ {h}
  BY <1>1, <1>2 DEF Watched
<1>6. Suspended' \subseteq Suspended \cup {h}
  BY <1>3 DEF Suspended
<1>7. /\ Elems(waitRd') \cup suspRd' = Elems(waitRd) \cup suspRd
      /\ Elems(waitWr') \cup suspWr' = Elems(waitWr) \cup suspWr
  BY <1>1, <1>2, <1>3
<1>8. QED BY <1>1, <1>2, <1>4, <1>5, <1>6, <1>7

LEMMA ResumeStep ==
  ASSUME SetTypes, SetsInv, NEW h \in AllHandles, Resume(h)
  PROVE  /\ SetTypes' /\ Injective(waitRd') /\ Injective(waitWr')
         /\ Watched' \subseteq Watched \cup Suspended
         /\ Suspended' = Suspended \ {h}
<1>1. /\ waitRd' \in Seq(AllHandles) /\ Injective(waitRd')
      /\ Elems(waitRd') \subseteq Elems(waitRd) \cup suspRd
  BY FdSetFacts DEF SetTypes, SetsInv, Resume
<1>2. /\ waitWr' \in Seq(AllHandles) /\ Injective(waitWr')
      /\ Elems(waitWr') \subseteq Elems(waitWr) \cup suspWr
  BY FdSetFacts DEF SetTypes, SetsInv, Resume
<1>3. suspRd' = suspRd \ {h} /\ suspWr' = suspWr \ {h}
  BY DEF Resume
<1>4. QED BY <1>1, <1>2, <1>3 DEF SetTypes, Watched, Suspended

LEMMA UnbindStep ==
  ASSUME SetTypes, SetsInv, NEW h, Unbind(h)
  PROVE  /\ SetTypes' /\ Injective(waitRd') /\ Injective(waitWr')
         /\ Elems(waitRd') = Elems(waitRd) \ {h}
         /\ Elems(waitWr') = Elems(waitWr) \ {h}
         /\ suspRd' = suspRd \ {h} /\ suspWr' = suspWr \ {h}
         /\ Watched' = Watched \ {h} /\ Suspended' = Suspended \ {h}
         /\ repo' = [repo EXCEPT ![h] = NoHandler]
<1>1. /\ waitRd' \in Seq(AllHandles) /\ Injective(waitRd')
      /\ Elems(waitRd') = Elems(waitRd) \ {h}
  BY FdClrFacts DEF SetTypes, SetsInv, Unbind
<1>2. /\ waitWr' \in Seq(AllHandles) /\ Injective(waitWr')
      /\ Elems(waitWr') = Elems(waitWr) \ {h}
  BY FdClrFacts DEF SetTypes, SetsInv, Unbind
<1>3. /\ suspRd' = suspRd \ {h} /\ suspWr' = suspWr \ {h}
      /\ repo' = [repo EXCEPT ![h] = NoHandler]
  BY DEF Unbind
<1>4. QED BY <1>1, <1>2, <1>3 DEF SetTypes, Watched, Suspended

-----------------------------------------------------------------------------
(* Steps preserve the invariant.                                           *)

\* The types of what each step may change, in one place.
EventTypes ==
  /\ cur \in AllHandles \cup {NoHandle}
  /\ eh \in Handlers \cup {NoHandler}
  /\ mask \in {"read", "write"} /\ status \in {-1, 0, 1}
LifeTypes ==
  /\ life \in [Conns -> {"absent", "pending", "served", "removed"}]
  /\ sock \in [Conns -> Handles \cup {NoHandle}]
NetTypes ==
  /\ rx \in [Conns -> 0 .. MaxIn] /\ gone \in [Conns -> BOOLEAN]
  /\ room \in [Conns -> BOOLEAN]
QueueType == q \in [Conns -> 0 .. MaxQueue]
RepoType == repo \in [AllHandles -> Handlers \cup {NoHandler}]
BacklogType == backlog \in Seq(Conns)

LEMMA TypesTogether ==
  /\ TypeOK <=> /\ RepoType /\ SetTypes /\ EventTypes /\ LifeTypes
                /\ BacklogType /\ NetTypes /\ QueueType
  /\ TypeOK' <=> /\ RepoType' /\ SetTypes' /\ EventTypes' /\ LifeTypes'
                 /\ BacklogType' /\ NetTypes' /\ QueueType'
BY DEF TypeOK, RepoType, SetTypes, EventTypes, LifeTypes, BacklogType, NetTypes,
       QueueType

\* Nothing but what is read, queued or returned changes.
LEMMA QuietStep ==
  ASSUME IInv, UNCHANGED <<repo, sets, event, life, sock, backlog>>,
         status' \in {-1, 0, 1}, cur = Listener => status' >= 0,
         NetTypes', QueueType'
  PROVE  IInv'
<1>1. RepoType' /\ SetTypes' /\ EventTypes' /\ LifeTypes' /\ BacklogType'
  BY TypesTogether
     DEF IInv, RepoType, SetTypes, EventTypes, LifeTypes, BacklogType, sets, event
<1>2. SetsInv'
  BY DEF IInv, SetsInv, Watched, Suspended, Elems, Injective, sets, event
<1>3. OwnedInv'
  BY DEF IInv, OwnedInv
<1>4. EventInv'
  BY DEF IInv, EventInv, event
<1>5. BacklogInv'
  BY DEF IInv, BacklogInv, Injective
<1>6. QED BY <1>1, <1>2, <1>3, <1>4, <1>5, TypesTogether DEF IInv

\* A callback that sets or clears the WRITE bit of its own handle.
LEMMA WakeupStep ==
  ASSUME IInv, NEW c \in Conns, cur # NoHandle, eh = c,
         UNCHANGED <<repo, waitRd, waitWr, suspRd, event, life, sock, backlog>>,
         suspWr' \subseteq suspWr \cup {sock[c]},
         life[c] = "served" \/ suspWr' \subseteq suspWr,
         status' \in {-1, 0, 1}, NetTypes', QueueType'
  PROVE  IInv'
<1>1. cur \in Handles /\ sock[c] = cur
  BY HandlersAssumption, TypesTogether
     DEF IInv, EventTypes, EventInv, AllHandles, Handlers
<1>2. RepoType' /\ EventTypes' /\ LifeTypes' /\ BacklogType'
  BY TypesTogether
     DEF IInv, RepoType, EventTypes, LifeTypes, BacklogType, event
<1>3. SetTypes'
  BY <1>1, TypesTogether DEF IInv, SetTypes, AllHandles
<1>4. SetsInv'
  <2>1. Watched' = Watched /\ Suspended' \subseteq Suspended \cup {sock[c]}
        /\ cur' = cur /\ repo' = repo
    BY DEF Watched, Suspended, Elems, event
  <2>2. Suspended' \subseteq {cur'}
    BY <2>1, <1>1 DEF IInv, SetsInv
  <2>3. life[c] = "served" \/ Suspended' \subseteq Suspended
    BY DEF Suspended
  <2>4. \A h \in Watched' \cup Suspended' : repo'[h] # NoHandler
    <3>1. \A h \in Watched \cup Suspended : repo[h] # NoHandler
      BY DEF IInv, SetsInv
    <3>2. life[c] = "served" => repo[sock[c]] = c
      BY DEF IInv, OwnedInv
    <3>3. c # NoHandler
      BY HandlersAssumption
    <3>4. QED BY <2>1, <2>3, <3>1, <3>2, <3>3
  <2>5. Injective(waitRd') /\ Injective(waitWr')
    BY DEF IInv, SetsInv, Injective
  <2>6. cur' \notin Watched'
    BY <2>1 DEF IInv, SetsInv
  <2>7. QED BY <2>2, <2>4, <2>5, <2>6 DEF SetsInv
<1>5. OwnedInv'
  BY DEF IInv, OwnedInv
<1>6. EventInv'
  BY <1>1, HandlesAssumption DEF IInv, EventInv, event
<1>7. BacklogInv'
  BY DEF IInv, BacklogInv, Injective
<1>8. QED BY <1>2, <1>3, <1>4, <1>5, <1>6, <1>7, TypesTogether DEF IInv

LEMMA DispatchStep ==
  ASSUME IInv, Dispatch
  PROVE  IInv'
<1>1. PICK h \in AllHandles, m \in {"read", "write"} :
        Selected(h, m) /\ cur' = h /\ eh' = repo[h] /\ mask' = m /\ Suspend(h)
  BY DEF Dispatch
<1>2. /\ cur = NoHandle /\ status' = 1
      /\ UNCHANGED <<repo, life, sock, backlog, net, q>>
  BY DEF Dispatch
<1>3. SetTypes /\ SetsInv /\ OwnedInv
  BY TypesTogether DEF IInv
<1>4. /\ SetTypes' /\ Injective(waitRd') /\ Injective(waitWr')
      /\ Watched' = Watched \ {h} /\ Suspended' \subseteq Suspended \cup {h}
  BY <1>1, <1>2, <1>3, SuspendStep
<1>5. h \in Watched
  BY <1>1 DEF Selected, FirstReady, Watched, Elems
<1>6. repo[h] # NoHandler
  BY <1>3, <1>5 DEF SetsInv
<1>7. Suspended = {}
  BY <1>2, <1>3, HandlesAssumption DEF SetsInv, SetTypes, Suspended, AllHandles
<1>8. RepoType' /\ EventTypes' /\ LifeTypes' /\ BacklogType' /\ NetTypes' /\ QueueType'
  <2>1. repo[h] \in Handlers \cup {NoHandler}
    BY TypesTogether DEF IInv, RepoType
  <2>2. QED BY <1>1, <1>2, <2>1, TypesTogether
            DEF IInv, RepoType, EventTypes, LifeTypes, BacklogType, NetTypes,
                QueueType, net
<1>9. SetsInv'
  <2>1. Suspended' \subseteq {h} /\ cur' = h /\ repo' = repo
    BY <1>1, <1>2, <1>4, <1>7
  <2>2. \A g \in Watched' \cup Suspended' : repo'[g] # NoHandler
    BY <2>1, <1>3, <1>4, <1>6 DEF SetsInv
  <2>3. QED BY <2>1, <2>2, <1>4 DEF SetsInv
<1>10. OwnedInv'
  BY <1>2, <1>3 DEF OwnedInv
<1>11. EventInv'
  <2>1. h # NoHandle
    BY HandlesAssumption DEF AllHandles
  <2>2. h = Listener => repo[h] = Acceptor
    BY <1>3 DEF OwnedInv
  <2>3. h \in Handles => /\ repo[h] \in Conns /\ life[repo[h]] = "served"
                         /\ sock[repo[h]] = h
    BY <1>3, <1>6 DEF OwnedInv
  <2>4. cur' = h /\ eh' = repo[h] /\ life' = life /\ sock' = sock /\ status' = 1
    BY <1>1, <1>2
  <2>5. QED BY <2>1, <2>2, <2>3, <2>4 DEF EventInv
<1>12. BacklogInv'
  BY <1>2 DEF IInv, BacklogInv, Injective
<1>13. QED BY <1>4, <1>8, <1>9, <1>10, <1>11, <1>12, TypesTogether DEF IInv

\* The handle of a connection that is deleted or removed is free of bits, and
\* the invariant of the sets and the table holds without it.
LEMMA UnboundSets ==
  ASSUME IInv, NEW c \in Conns, life[c] = "served", cur = sock[c],
         Unbind(sock[c])
  PROVE  /\ RepoType' /\ SetTypes'
         /\ Injective(waitRd') /\ Injective(waitWr')
         /\ \A h \in Watched' \cup Suspended' : repo'[h] # NoHandler
         /\ Suspended' = {} /\ sock[c] \notin Watched' /\ cur \in Handles
         /\ repo' = [repo EXCEPT ![cur] = NoHandler]
<1>1. SetTypes /\ SetsInv /\ OwnedInv /\ RepoType /\ LifeTypes
  BY TypesTogether DEF IInv
<1>2. /\ SetTypes' /\ Injective(waitRd') /\ Injective(waitWr')
      /\ Watched' = Watched \ {sock[c]} /\ Suspended' = Suspended \ {sock[c]}
      /\ repo' = [repo EXCEPT ![sock[c]] = NoHandler]
  BY <1>1, UnbindStep
<1>3. Suspended' = {}
  BY <1>1, <1>2 DEF SetsInv
<1>4. sock[c] \in Handles
  BY <1>1 DEF OwnedInv, LifeTypes
<1>5. RepoType'
  BY <1>1, <1>2 DEF RepoType
<1>6. \A h \in Watched' \cup Suspended' : repo'[h] # NoHandler
  <2> SUFFICES ASSUME NEW h \in Watched' PROVE repo'[h] # NoHandler
    BY <1>3
  <2>1. h \in Watched /\ h # sock[c] /\ repo[h] # NoHandler
    BY <1>1, <1>2 DEF SetsInv
  <2>2. h \in AllHandles
    <3>1. \A s \in Seq(AllHandles) : Elems(s) \subseteq AllHandles
      BY DEF Elems
    <3>2. QED BY <2>1, <3>1, <1>1 DEF Watched, SetTypes
  <2>3. repo'[h] = repo[h]
    BY <2>1, <2>2, <1>1, <1>2 DEF RepoType
  <2>4. QED BY <2>1, <2>3
<1>7. QED BY <1>2, <1>3, <1>4, <1>5, <1>6

LEMMA DeleteStep ==
  ASSUME IInv, cur # NoHandle, repo[cur] = eh, status < 0, Delete(eh),
         cur' = NoHandle, eh' = NoHandler, mask' = "read", status' = 0,
         UNCHANGED backlog
  PROVE  IInv' /\ eh \in Conns /\ life[eh] = "served"
<1> DEFINE c == eh
<1>1. OwnedInv /\ EventInv /\ EventTypes /\ LifeTypes /\ NetTypes /\ QueueType
      /\ BacklogType /\ BacklogInv
  BY TypesTogether DEF IInv
<1>2. cur \in Handles
  <2>1. ~(status >= 0)
    BY <1>1 DEF EventTypes
  <2>2. QED BY <2>1, <1>1 DEF EventInv, EventTypes, AllHandles
<1>3. c \in Conns /\ sock[c] = cur
  BY <1>1, <1>2 DEF EventInv
<1>4. life[c] = "served"
  <2>1. c # NoHandler
    BY <1>3, HandlersAssumption
  <2>2. QED BY <2>1, <1>1, <1>2 DEF OwnedInv
<1>5. Unbind(sock[c])
  BY DEF Delete
<1>6. /\ sock' = [sock EXCEPT ![c] = NoHandle]
      /\ life' = [life EXCEPT ![c] = "absent"]
      /\ NetTypes' /\ QueueType'
  <2>1. 0 \in 0 .. MaxIn /\ 0 \in 0 .. MaxQueue
    BY SizesAssumption
  <2>2. NetTypes'
    BY <2>1, <1>1 DEF Delete, NetTypes
  <2>3. QueueType'
    BY <2>1, <1>1 DEF Delete, QueueType
  <2>4. QED BY <2>2, <2>3 DEF Delete
<1> HIDE DEF c
<1>7. /\ RepoType' /\ SetTypes' /\ Injective(waitRd') /\ Injective(waitWr')
      /\ \A h \in Watched' \cup Suspended' : repo'[h] # NoHandler
      /\ Suspended' = {} /\ repo' = [repo EXCEPT ![cur] = NoHandler]
  BY <1>3, <1>4, <1>5, UnboundSets
<1>8. EventTypes' /\ LifeTypes' /\ BacklogType'
  BY <1>1, <1>6 DEF EventTypes, LifeTypes, BacklogType
<1>9. SetsInv'
  <2>1. NoHandle \notin Watched'
    <3>1. \A s \in Seq(AllHandles) : NoHandle \notin Elems(s)
      BY HandlesAssumption DEF Elems, AllHandles
    <3>2. QED BY <3>1, <1>7 DEF Watched, SetTypes
  <2>2. QED BY <2>1, <1>7 DEF SetsInv
<1>10. OwnedInv'
  <2>1. \A h \in AllHandles : repo'[h] = IF h = cur THEN NoHandler ELSE repo[h]
    BY <1>7, TypesTogether DEF IInv, RepoType
  <2>2. \A d \in Conns : /\ sock'[d] = IF d = c THEN NoHandle ELSE sock[d]
                         /\ life'[d] = IF d = c THEN "absent" ELSE life[d]
    BY <1>1, <1>6 DEF LifeTypes
  <2>3. repo'[Listener] = Acceptor
    BY <2>1, <1>1, <1>2, HandlesAssumption DEF OwnedInv, AllHandles
  <2>4. \A h \in Handles : repo'[h] # NoHandler =>
          repo'[h] \in Conns /\ life'[repo'[h]] = "served" /\ sock'[repo'[h]] = h
    <3> SUFFICES ASSUME NEW h \in Handles, repo'[h] # NoHandler
                 PROVE  /\ repo'[h] \in Conns /\ life'[repo'[h]] = "served"
                        /\ sock'[repo'[h]] = h
      OBVIOUS
    <3>1. h # cur /\ repo'[h] = repo[h]
      BY <2>1 DEF AllHandles
    <3>2. repo[h] \in Conns /\ life[repo[h]] = "served" /\ sock[repo[h]] = h
      BY <3>1, <1>1 DEF OwnedInv
    <3>3. repo[h] # c
      BY <3>1, <3>2, <1>3
    <3>4. QED BY <3>1, <3>2, <3>3, <2>2
  <2>5. \A d \in Conns : life'[d] = "served" => repo'[sock'[d]] = d
    <3> SUFFICES ASSUME NEW d \in Conns, life'[d] = "served"
                 PROVE  repo'[sock'[d]] = d
      OBVIOUS
    <3>1. d # c /\ life[d] = "served" /\ sock'[d] = sock[d]
      BY <2>2
    <3>2. repo[sock[d]] = d /\ sock[d] \in Handles
      BY <3>1, <1>1 DEF OwnedInv, LifeTypes
    <3>3. sock[d] # cur
      BY <3>1, <3>2, <1>3, <1>2, HandlesAssumption, <1>1 DEF OwnedInv
    <3>4. QED BY <3>1, <3>2, <3>3, <2>1 DEF AllHandles
  <2>6. \A d \in Conns : sock'[d] # NoHandle <=> life'[d] \in {"served", "removed"}
    BY <2>2, <1>1 DEF OwnedInv
  <2>7. \A d, e \in Conns : sock'[d] = sock'[e] => d = e \/ sock'[d] = NoHandle
    BY <2>2, <1>1 DEF OwnedInv
  <2>8. QED BY <2>3, <2>4, <2>5, <2>6, <2>7 DEF OwnedInv
<1>11. EventInv'
  BY HandlesAssumption DEF EventInv
<1>12. BacklogInv'
  <2>1. \A i \in DOMAIN backlog : backlog[i] \in Conns /\ life[backlog[i]] = "pending"
    BY <1>1 DEF BacklogInv, BacklogType
  <2>2. \A i \in DOMAIN backlog : life'[backlog[i]] = "pending"
    BY <2>1, <1>4, <1>6, <1>1 DEF LifeTypes
  <2>3. QED BY <2>2, <1>1 DEF BacklogInv, Injective
<1>13. IInv'
  BY <1>6, <1>7, <1>8, <1>9, <1>10, <1>11, <1>12, TypesTogether DEF IInv
<1>14. QED BY <1>3, <1>4, <1>13 DEF c

LEMMA PostProcessStep ==
  ASSUME IInv, PostProcess
  PROVE  IInv'
<1>1. /\ cur # NoHandle /\ status <= 0
      /\ cur' = NoHandle /\ eh' = NoHandler /\ mask' = "read" /\ status' = 0
      /\ UNCHANGED backlog
  BY DEF PostProcess
<1>2. SetTypes /\ SetsInv /\ OwnedInv /\ EventTypes /\ RepoType
  BY TypesTogether DEF IInv
<1>3. CASE repo[cur] = eh /\ status < 0 /\ Delete(eh)
  BY <1>1, <1>3, DeleteStep
<1>4. cur \in AllHandles
  BY <1>1, <1>2 DEF EventTypes
<1>5. \A s \in Seq(AllHandles) : NoHandle \notin Elems(s)
  BY HandlesAssumption DEF Elems, AllHandles
<1>6. ASSUME UNCHANGED <<repo, sock, life, net, q>>, SetTypes',
             Injective(waitRd'), Injective(waitWr'), Suspended' = {},
             \A h \in Watched' : repo[h] # NoHandler
      PROVE  IInv'
  <2>1. RepoType' /\ EventTypes' /\ LifeTypes' /\ BacklogType' /\ NetTypes'
        /\ QueueType'
    BY <1>1, <1>6, TypesTogether
       DEF IInv, RepoType, EventTypes, LifeTypes, BacklogType, NetTypes, QueueType,
           net
  <2>2. NoHandle \notin Watched'
    BY <1>5, <1>6 DEF SetTypes, Watched
  <2>3. SetsInv'
    BY <1>1, <1>6, <2>2 DEF SetsInv
  <2>4. OwnedInv'
    BY <1>2, <1>6 DEF OwnedInv
  <2>5. EventInv'
    BY <1>1, HandlesAssumption DEF EventInv
  <2>6. BacklogInv'
    BY <1>1, <1>6 DEF IInv, BacklogInv, Injective
  <2>7. QED BY <1>6, <2>1, <2>3, <2>4, <2>5, <2>6, TypesTogether DEF IInv
<1>7. CASE /\ repo[cur] = eh /\ status = 0 /\ Resume(cur)
           /\ UNCHANGED <<repo, sock, life, net, q>>
  <2>1. /\ SetTypes' /\ Injective(waitRd') /\ Injective(waitWr')
        /\ Watched' \subseteq Watched \cup Suspended
        /\ Suspended' = Suspended \ {cur}
    BY <1>2, <1>4, <1>7, ResumeStep
  <2>2. Suspended' = {} /\ \A h \in Watched' : repo[h] # NoHandler
    BY <2>1, <1>2 DEF SetsInv
  <2>3. QED BY <2>1, <2>2, <1>6, <1>7
<1>8. CASE repo[cur] # eh /\ UNCHANGED <<repo, sets, sock, life, net, q>>
  <2>1. /\ SetTypes' /\ Injective(waitRd') /\ Injective(waitWr')
        /\ Watched' = Watched /\ Suspended' = Suspended
    BY <1>2, <1>8
       DEF SetTypes, SetsInv, Injective, Watched, Suspended, Elems, sets
  <2>2. cur \notin Suspended
    <3>1. cur = Listener => repo[cur] = eh
      BY <1>2 DEF IInv, OwnedInv, EventInv
    <3>2. cur \in Handles => repo[cur] = NoHandler
      <4> SUFFICES ASSUME cur \in Handles, repo[cur] # NoHandler PROVE FALSE
        OBVIOUS
      <4>1. repo[cur] \in Conns /\ sock[repo[cur]] = cur
        BY <1>2 DEF OwnedInv
      <4>2. eh \in Conns /\ sock[eh] = cur
        BY DEF IInv, EventInv
      <4>3. QED BY <4>1, <4>2, <1>1, <1>2, <1>8 DEF OwnedInv
    <3>3. QED BY <3>1, <3>2, <1>2, <1>4, <1>8 DEF SetsInv, AllHandles
  <2>3. Suspended' = {} /\ \A h \in Watched' : repo[h] # NoHandler
    BY <2>1, <2>2, <1>2 DEF SetsInv
  <2>4. QED BY <2>1, <2>3, <1>6, <1>8
<1>9. QED BY <1>3, <1>7, <1>8 DEF PostProcess

LEMMA InputCloseStep ==
  ASSUME IInv, NEW c \in Conns, InputClose(c)
  PROVE  IInv' /\ life[c] = "served"
<1>1. /\ cur # NoHandle /\ eh = c /\ life[c] = "served" /\ Unbind(sock[c])
      /\ life' = [life EXCEPT ![c] = "removed"]
      /\ status' \in {1, 0} /\ UNCHANGED event /\ UNCHANGED <<sock, backlog>>
  BY DEF InputClose, Called, Return
<1>2. SetTypes /\ SetsInv /\ OwnedInv /\ EventInv /\ EventTypes /\ RepoType
      /\ LifeTypes /\ NetTypes /\ QueueType /\ BacklogType /\ BacklogInv
  BY TypesTogether DEF IInv
<1>3. cur \in Handles /\ sock[c] = cur
  BY <1>1, <1>2, HandlersAssumption DEF EventTypes, EventInv, AllHandles
<1>4. /\ RepoType' /\ SetTypes' /\ Injective(waitRd') /\ Injective(waitWr')
      /\ \A h \in Watched' \cup Suspended' : repo'[h] # NoHandler
      /\ Suspended' = {} /\ cur \notin Watched'
      /\ repo' = [repo EXCEPT ![cur] = NoHandler]
  BY <1>1, <1>3, UnboundSets
<1>5. NetTypes' /\ QueueType'
  <2>1. 0 \in 0 .. MaxIn /\ 0 \in 0 .. MaxQueue
    BY SizesAssumption
  <2>2. NetTypes'
    BY <2>1, <1>2 DEF InputClose, NetTypes
  <2>3. QueueType'
    BY <2>1, <1>2 DEF InputClose, QueueType
  <2>4. QED BY <2>2, <2>3
<1>6. EventTypes' /\ LifeTypes' /\ BacklogType'
  BY <1>1, <1>2 DEF EventTypes, LifeTypes, BacklogType, event
<1>7. SetsInv'
  BY <1>1, <1>4 DEF SetsInv, event
<1>8. \A d \in Conns : life'[d] = IF d = c THEN "removed" ELSE life[d]
  BY <1>1, <1>2 DEF LifeTypes
<1>9. OwnedInv'
  <2>1. \A h \in AllHandles : repo'[h] = IF h = cur THEN NoHandler ELSE repo[h]
    BY <1>4, <1>2 DEF RepoType
  <2>2. repo'[Listener] = Acceptor
    BY <2>1, <1>2, <1>3, HandlesAssumption DEF OwnedInv, AllHandles
  <2>3. \A h \in Handles : repo'[h] # NoHandler =>
          repo'[h] \in Conns /\ life'[repo'[h]] = "served" /\ sock'[repo'[h]] = h
    <3> SUFFICES ASSUME NEW h \in Handles, repo'[h] # NoHandler
                 PROVE  /\ repo'[h] \in Conns /\ life'[repo'[h]] = "served"
                        /\ sock'[repo'[h]] = h
      OBVIOUS
    <3>1. h # cur /\ repo'[h] = repo[h]
      BY <2>1 DEF AllHandles
    <3>2. repo[h] \in Conns /\ life[repo[h]] = "served" /\ sock[repo[h]] = h
      BY <3>1, <1>2 DEF OwnedInv
    <3>3. repo[h] # c
      BY <3>1, <3>2, <1>3
    <3>4. QED BY <3>1, <3>2, <3>3, <1>1, <1>8
  <2>4. \A d \in Conns : life'[d] = "served" => repo'[sock'[d]] = d
    <3> SUFFICES ASSUME NEW d \in Conns, life'[d] = "served"
                 PROVE  repo'[sock'[d]] = d
      OBVIOUS
    <3>1. d # c /\ life[d] = "served" /\ sock'[d] = sock[d]
      BY <1>1, <1>8
    <3>2. repo[sock[d]] = d /\ sock[d] \in Handles
      BY <3>1, <1>2 DEF OwnedInv, LifeTypes
    <3>3. sock[d] # cur
      BY <3>1, <3>2, <1>1, <1>2, <1>3 DEF OwnedInv
    <3>4. QED BY <3>1, <3>2, <3>3, <2>1 DEF AllHandles
  <2>5. \A d \in Conns : sock'[d] # NoHandle <=> life'[d] \in {"served", "removed"}
    BY <1>1, <1>2, <1>8 DEF OwnedInv
  <2>6. \A d, e \in Conns : sock'[d] = sock'[e] => d = e \/ sock'[d] = NoHandle
    BY <1>1, <1>2 DEF OwnedInv
  <2>7. QED BY <2>2, <2>3, <2>4, <2>5, <2>6 DEF OwnedInv
<1>10. EventInv'
  BY <1>1, <1>2, <1>3, <1>8, HandlesAssumption DEF EventInv, event
<1>11. BacklogInv'
  <2>1. \A i \in DOMAIN backlog : backlog[i] \in Conns /\ life[backlog[i]] = "pending"
    BY <1>2 DEF BacklogInv, BacklogType
  <2>2. \A i \in DOMAIN backlog : life'[backlog[i]] = "pending"
    BY <2>1, <1>1, <1>8
  <2>3. QED BY <2>2, <1>1, <1>2 DEF BacklogInv, Injective
<1>12. QED BY <1>1, <1>4, <1>5, <1>6, <1>7, <1>9, <1>10, <1>11, TypesTogether DEF IInv

\* While a connection's callback runs the acceptor's does not.
LEMMA CalledHandle ==
  ASSUME IInv, NEW c \in Conns, cur # NoHandle, eh = c
  PROVE  cur \in Handles /\ cur # Listener /\ sock[c] = cur
BY HandlersAssumption, HandlesAssumption, TypesTogether
   DEF IInv, EventTypes, EventInv, AllHandles

LEMMA InputDataStep ==
  ASSUME IInv, NEW c \in Conns, InputData(c)
  PROVE  IInv'
<1>1. /\ cur # NoHandle /\ eh = c /\ life[c] = "served" /\ rx[c] > 0
      /\ status' \in {1, 0, -1} /\ UNCHANGED event
      /\ rx' = [rx EXCEPT ![c] = @ - 1]
      /\ UNCHANGED <<repo, waitRd, waitWr, suspRd, life, sock, backlog, gone>>
      /\ OnRead(c)
  BY DEF InputData, Called, Return
<1>2. NetTypes /\ QueueType
  BY TypesTogether DEF IInv
<1>3. rx' \in [Conns -> 0 .. MaxIn]
  <2>1. rx[c] - 1 \in 0 .. MaxIn
    BY <1>1, <1>2, SizesAssumption DEF NetTypes
  <2>2. QED BY <2>1, <1>1, <1>2 DEF NetTypes
<1>4. CASE UNCHANGED <<q, room, suspWr>>
  <2>1. NetTypes' /\ QueueType'
    BY <1>1, <1>2, <1>3, <1>4 DEF NetTypes, QueueType
  <2>2. QED BY <1>1, <1>4, <2>1, WakeupStep
<1>5. CASE SendQueued(c)
  <2>1. /\ q' = [q EXCEPT ![c] = @ + 1] /\ q[c] < MaxQueue
        /\ room' = IF q[c] = 0 THEN [room EXCEPT ![c] = FALSE] ELSE room
        /\ suspWr' = suspWr \cup {sock[c]}
    BY <1>5 DEF SendQueued
  <2>2. q[c] + 1 \in 0 .. MaxQueue
    BY <2>1, <1>2, SizesAssumption DEF QueueType
  <2>3. QueueType'
    BY <2>1, <2>2, <1>2 DEF QueueType
  <2>4. NetTypes'
    BY <2>1, <1>1, <1>2, <1>3 DEF NetTypes
  <2>5. QED BY <1>1, <2>1, <2>3, <2>4, WakeupStep
<1>6. QED BY <1>1, <1>4, <1>5 DEF OnRead, SendDone

LEMMA OutputNoneStep ==
  ASSUME IInv, NEW c \in Conns, OutputNone(c)
  PROVE  IInv'
<1>1. /\ cur # NoHandle /\ eh = c /\ suspWr' \subseteq suspWr
      /\ status' = 0 /\ UNCHANGED event
      /\ UNCHANGED <<repo, waitRd, waitWr, suspRd, life, sock, backlog, net, q>>
  BY DEF OutputNone, Called, Return
<1>2. NetTypes' /\ QueueType'
  BY <1>1, TypesTogether DEF IInv, NetTypes, QueueType, net
<1>3. QED BY <1>1, <1>2, WakeupStep

LEMMA OutputStep ==
  ASSUME IInv, NEW c \in Conns,
         InputNone(c) \/ InputEnd(c) \/ OutputSent(c) \/ OutputBlocked(c)
           \/ OutputError(c)
  PROVE  IInv'
<1>1. NetTypes /\ QueueType
  BY TypesTogether DEF IInv
<1>2. /\ cur # NoHandle /\ eh = c /\ UNCHANGED event
      /\ UNCHANGED <<repo, sets, life, sock, backlog>>
      /\ status' \in {-1, 0, 1}
  BY DEF InputNone, InputEnd, OutputSent, OutputBlocked, OutputError, Called, Return
<1>3. QueueType'
  <2>1. q' = q \/ (q[c] > 0 /\ q' = [q EXCEPT ![c] = @ - 1])
    BY DEF InputNone, InputEnd, OutputSent, OutputBlocked, OutputError
  <2>2. q[c] > 0 => q[c] - 1 \in 0 .. MaxQueue
    BY <1>1, SizesAssumption DEF QueueType
  <2>3. QED BY <2>1, <2>2, <1>1 DEF QueueType
<1>4. NetTypes'
  <2>1. rx' = rx /\ gone' = gone /\ (room' = room \/ room' = [room EXCEPT ![c] = FALSE])
    BY DEF InputNone, InputEnd, OutputSent, OutputBlocked, OutputError, net
  <2>2. QED BY <2>1, <1>1 DEF NetTypes
<1>5. cur # Listener
  BY <1>2, CalledHandle
<1>6. QED BY <1>2, <1>3, <1>4, <1>5, QuietStep

LEMMA ClientStep ==
  ASSUME IInv, NEW c \in Conns, ClientSend(c) \/ ClientRead(c) \/ ClientLeave(c)
  PROVE  IInv'
<1>1. NetTypes /\ QueueType /\ EventTypes
  BY TypesTogether DEF IInv
<1>2. UNCHANGED <<repo, sets, event, status, life, sock, backlog, q>>
  BY DEF ClientSend, ClientRead, ClientLeave
<1>3. NetTypes'
  <2>1. CASE ClientSend(c)
    <3>1. rx[c] + 1 \in 0 .. MaxIn
      BY <2>1, <1>1, SizesAssumption DEF ClientSend, NetTypes
    <3>2. QED BY <3>1, <2>1, <1>1 DEF ClientSend, NetTypes
  <2>2. CASE ClientRead(c)
    BY <2>2, <1>1 DEF ClientRead, NetTypes
  <2>3. CASE ClientLeave(c)
    <3>1. 0 \in 0 .. MaxIn
      BY SizesAssumption
    <3>2. QED BY <3>1, <2>3, <1>1 DEF ClientLeave, NetTypes
  <2>4. QED BY <2>1, <2>2, <2>3
<1>4. QueueType'
  BY <1>1, <1>2 DEF QueueType
<1>5. cur = Listener => status' >= 0
  BY <1>2 DEF IInv, EventInv
<1>6. status' \in {-1, 0, 1}
  BY <1>1, <1>2 DEF EventTypes
<1>7. QED BY <1>2, <1>3, <1>4, <1>5, <1>6, QuietStep

LEMMA ConnectStep ==
  ASSUME IInv, NEW c \in Conns, Connect(c)
  PROVE  IInv'
<1>1. /\ life[c] = "absent" /\ life' = [life EXCEPT ![c] = "pending"]
      /\ backlog' = Append(backlog, c)
      /\ UNCHANGED <<repo, sets, event, status, sock, net, q>>
  BY DEF Connect
<1>2. /\ RepoType /\ SetTypes /\ EventTypes /\ LifeTypes /\ BacklogType
      /\ NetTypes /\ QueueType
  BY TypesTogether DEF IInv
<1>3. \A d \in Conns : life'[d] = IF d = c THEN "pending" ELSE life[d]
  BY <1>1, <1>2 DEF LifeTypes
<1>4. RepoType' /\ SetTypes' /\ EventTypes' /\ NetTypes' /\ QueueType'
  BY <1>1, <1>2
     DEF RepoType, SetTypes, EventTypes, NetTypes, QueueType, sets, event, net
<1>5. LifeTypes' /\ BacklogType'
  BY <1>1, <1>2 DEF LifeTypes, BacklogType
<1>6. SetsInv'
  BY <1>1 DEF IInv, SetsInv, Watched, Suspended, Elems, Injective, sets, event
<1>7. OwnedInv'
  BY <1>1, <1>3 DEF IInv, OwnedInv
<1>8. EventInv'
  BY <1>1, <1>3 DEF IInv, EventInv, event
<1>9. BacklogInv'
  <2>1. /\ Len(backlog) \in Nat /\ DOMAIN backlog = 1 .. Len(backlog)
        /\ DOMAIN backlog' = 1 .. Len(backlog) + 1
        /\ backlog'[Len(backlog) + 1] = c
        /\ \A i \in 1 .. Len(backlog) : backlog'[i] = backlog[i]
    BY <1>1, <1>2 DEF BacklogType
  <2>2. \A i \in 1 .. Len(backlog) :
          backlog[i] \in Conns /\ life[backlog[i]] = "pending" /\ backlog[i] # c
    BY <1>1, <1>2, <2>1 DEF IInv, BacklogInv, BacklogType
  <2>3. \A i \in DOMAIN backlog' : life'[backlog'[i]] = "pending"
    BY <1>3, <2>1, <2>2
  <2>4. Injective(backlog')
    <3> SUFFICES ASSUME NEW i \in DOMAIN backlog', NEW j \in DOMAIN backlog',
                        backlog'[i] = backlog'[j]
                 PROVE  i = j
      BY DEF Injective
    <3>1. CASE i \in 1 .. Len(backlog) /\ j \in 1 .. Len(backlog)
      BY <3>1, <2>1 DEF IInv, BacklogInv, Injective
    <3>2. CASE i = Len(backlog) + 1 \/ j = Len(backlog) + 1
      BY <3>2, <2>1, <2>2
    <3>3. QED BY <3>1, <3>2, <2>1
  <2>5. QED BY <2>3, <2>4 DEF BacklogInv
<1>10. QED BY <1>4, <1>5, <1>6, <1>7, <1>8, <1>9, TypesTogether DEF IInv

\* What is left when the first connection has been taken.
LEMMA TailFacts ==
  ASSUME IInv, backlog # <<>>
  PROVE  /\ Head(backlog) \in Conns /\ life[Head(backlog)] = "pending"
         /\ Tail(backlog) \in Seq(Conns) /\ Injective(Tail(backlog))
         /\ \A i \in DOMAIN Tail(backlog) :
              /\ Tail(backlog)[i] \in Conns \ {Head(backlog)}
              /\ life[Tail(backlog)[i]] = "pending"
<1>1. backlog \in Seq(Conns) /\ BacklogInv
  BY TypesTogether DEF IInv, BacklogType
<1>2. /\ Tail(backlog) \in Seq(Conns) /\ Len(backlog) \in Nat \ {0}
      /\ DOMAIN backlog = 1 .. Len(backlog)
      /\ DOMAIN Tail(backlog) = 1 .. Len(backlog) - 1
      /\ \A i \in 1 .. Len(backlog) - 1 : Tail(backlog)[i] = backlog[i + 1]
      /\ Head(backlog) = backlog[1] /\ backlog[1] \in Conns
  BY <1>1
<1> DEFINE t == Tail(backlog)
<1> HIDE DEF t
<1>3. \A i \in DOMAIN t : /\ i + 1 \in DOMAIN backlog /\ i + 1 # 1 /\ i \in Int
                          /\ t[i] = backlog[i + 1]
  BY <1>2 DEF t
<1>4. 1 \in DOMAIN backlog
  BY <1>2
<1>5. Injective(t)
  <2> SUFFICES ASSUME NEW i \in DOMAIN t, NEW j \in DOMAIN t, t[i] = t[j]
               PROVE  i = j
    BY DEF Injective
  <2>1. i + 1 = j + 1
    BY <1>1, <1>3 DEF BacklogInv, Injective
  <2>2. QED BY <2>1, <1>3
<1>6. \A i \in DOMAIN t : t[i] # backlog[1] /\ life[t[i]] = "pending"
  BY <1>1, <1>3, <1>4 DEF BacklogInv, Injective
<1>7. \A i \in DOMAIN t : t[i] \in Conns
  BY <1>1, <1>3
<1>8. life[Head(backlog)] = "pending"
  BY <1>1, <1>2, <1>4 DEF BacklogInv
<1>9. QED BY <1>2, <1>5, <1>6, <1>7, <1>8 DEF t

\* No handler is bound to a handle that is not open, so open fails only because the
\* client has left.
LEMMA OpenFailedGone ==
  ASSUME IInv, OpenFailed
  PROVE  UNCHANGED <<repo, sets>>
<1>1. \A h \in FreeHandles : repo[h] = NoHandler
  BY DEF IInv, OwnedInv, FreeHandles
<1>2. QED BY <1>1 DEF OpenFailed

LEMMA OpenFailedStep ==
  ASSUME IInv, OpenFailed
  PROVE  IInv' /\ life[Head(backlog)] = "pending" /\ Head(backlog) \in Conns
<1> DEFINE c == Head(backlog)
<1>1. /\ cur # NoHandle /\ eh = Acceptor /\ backlog # <<>>
      /\ life' = [life EXCEPT ![c] = "absent"]
      /\ gone' = [gone EXCEPT ![c] = FALSE]
      /\ backlog' = Tail(backlog)
      /\ status' = 0 /\ UNCHANGED event
      /\ UNCHANGED <<repo, sets, sock, rx, room, q>>
  BY OpenFailedGone DEF OpenFailed, Called, Return
<1>2. /\ RepoType /\ SetTypes /\ EventTypes /\ LifeTypes /\ BacklogType
      /\ NetTypes /\ QueueType
  BY TypesTogether DEF IInv
<1>3. /\ c \in Conns /\ life[c] = "pending"
      /\ Tail(backlog) \in Seq(Conns) /\ Injective(Tail(backlog))
      /\ \A i \in DOMAIN Tail(backlog) :
           Tail(backlog)[i] \in Conns \ {c} /\ life[Tail(backlog)[i]] = "pending"
  BY <1>1, TailFacts
<1> HIDE DEF c
<1>4. \A d \in Conns : life'[d] = IF d = c THEN "absent" ELSE life[d]
  BY <1>1, <1>2 DEF LifeTypes
<1>5. RepoType' /\ SetTypes' /\ EventTypes' /\ QueueType'
  BY <1>1, <1>2 DEF RepoType, SetTypes, EventTypes, QueueType, sets, event
<1>6. LifeTypes' /\ BacklogType' /\ NetTypes'
  BY <1>1, <1>2, <1>3 DEF LifeTypes, BacklogType, NetTypes
<1>7. SetsInv'
  BY <1>1 DEF IInv, SetsInv, Watched, Suspended, Elems, Injective, sets, event
<1>8. OwnedInv'
  BY <1>1, <1>3, <1>4 DEF IInv, OwnedInv
<1>9. EventInv'
  BY <1>1, <1>3, <1>4 DEF IInv, EventInv, event
<1>10. BacklogInv'
  BY <1>1, <1>3, <1>4 DEF BacklogInv
<1>11. IInv'
  BY <1>5, <1>6, <1>7, <1>8, <1>9, <1>10, TypesTogether DEF IInv
<1>12. QED BY <1>3, <1>11 DEF c

LEMMA AcceptedStep ==
  ASSUME IInv, Accepted
  PROVE  IInv' /\ life[Head(backlog)] = "pending" /\ Head(backlog) \in Conns
<1> DEFINE c == Head(backlog)
<1>1. PICK h \in FreeHandles :
        /\ repo[h] = NoHandler
        /\ repo' = [repo EXCEPT ![h] = c]
        /\ sock' = [sock EXCEPT ![c] = h]
        /\ waitRd' = FdSet(waitRd, h)
  BY DEF Accepted
<1>2. /\ cur # NoHandle /\ eh = Acceptor /\ backlog # <<>>
      /\ life' = [life EXCEPT ![c] = "served"]
      /\ backlog' = Tail(backlog)
      /\ status' \in {0, 1} /\ UNCHANGED event
      /\ UNCHANGED <<waitWr, suspRd, suspWr, net, q>>
  BY DEF Accepted, Called, Return
<1>3. /\ RepoType /\ SetTypes /\ EventTypes /\ LifeTypes /\ BacklogType
      /\ NetTypes /\ QueueType /\ SetsInv /\ OwnedInv
  BY TypesTogether DEF IInv
<1>4. /\ c \in Conns /\ life[c] = "pending"
      /\ Tail(backlog) \in Seq(Conns) /\ Injective(Tail(backlog))
      /\ \A i \in DOMAIN Tail(backlog) :
           Tail(backlog)[i] \in Conns \ {c} /\ life[Tail(backlog)[i]] = "pending"
  BY <1>2, TailFacts
<1>5. h \in Handles /\ h # NoHandle /\ h # Listener /\ c # NoHandler
      /\ \A d \in Conns : sock[d] # h
  BY <1>1, <1>4, HandlesAssumption, HandlersAssumption DEF FreeHandles
<1> HIDE DEF c
<1>6. /\ \A d \in Conns : /\ life'[d] = IF d = c THEN "served" ELSE life[d]
                          /\ sock'[d] = IF d = c THEN h ELSE sock[d]
      /\ \A g \in AllHandles : repo'[g] = IF g = h THEN c ELSE repo[g]
  BY <1>1, <1>2, <1>3 DEF LifeTypes, RepoType
<1>7. cur = Listener
  <2>1. cur \in Handles => eh \in Conns
    BY DEF IInv, EventInv
  <2>2. QED BY <2>1, <1>2, <1>3, HandlersAssumption DEF EventTypes, AllHandles
<1>8. /\ waitRd' \in Seq(AllHandles) /\ Injective(waitRd')
      /\ Elems(waitRd') \subseteq Elems(waitRd) \cup {h}
  BY <1>1, <1>3, <1>5, FdSetFacts DEF SetTypes, SetsInv, AllHandles
<1>9. RepoType' /\ SetTypes' /\ EventTypes' /\ QueueType'
  <2>1. RepoType'
    BY <1>1, <1>3, <1>4, <1>5 DEF RepoType, Handlers, AllHandles
  <2>2. SetTypes'
    BY <1>2, <1>3, <1>8 DEF SetTypes
  <2>3. EventTypes' /\ QueueType'
    BY <1>2, <1>3 DEF EventTypes, QueueType, event
  <2>4. QED BY <2>1, <2>2, <2>3
<1>10. LifeTypes' /\ BacklogType' /\ NetTypes'
  BY <1>1, <1>2, <1>3, <1>4, <1>5 DEF LifeTypes, BacklogType, NetTypes, net
<1>11. SetsInv'
  <2>1. /\ Watched' \subseteq Watched \cup {h} /\ Suspended' = Suspended
        /\ cur' = cur
    BY <1>2, <1>8 DEF Watched, Suspended, Elems, event
  <2>2. \A g \in Watched' \cup Suspended' : repo'[g] # NoHandler
    <3>1. Watched \cup Suspended \subseteq AllHandles
      <4>1. \A s \in Seq(AllHandles) : Elems(s) \subseteq AllHandles
        BY DEF Elems
      <4>2. QED BY <4>1, <1>3 DEF Watched, Suspended, SetTypes
    <3>2. QED BY <2>1, <3>1, <1>3, <1>5, <1>6 DEF SetsInv, AllHandles
  <2>3. Injective(waitWr')
    BY <1>2, <1>3 DEF SetsInv, Injective
  <2>4. cur' \notin Watched'
    BY <2>1, <1>3, <1>5, <1>7 DEF SetsInv
  <2>5. QED BY <2>1, <2>2, <2>3, <2>4, <1>3, <1>8 DEF SetsInv
<1>12. OwnedInv'
  <2>1. repo'[Listener] = Acceptor
    BY <1>3, <1>5, <1>6 DEF OwnedInv, AllHandles
  <2>2. \A g \in Handles : repo'[g] # NoHandler =>
          repo'[g] \in Conns /\ life'[repo'[g]] = "served" /\ sock'[repo'[g]] = g
    <3> SUFFICES ASSUME NEW g \in Handles, repo'[g] # NoHandler
                 PROVE  /\ repo'[g] \in Conns /\ life'[repo'[g]] = "served"
                        /\ sock'[repo'[g]] = g
      OBVIOUS
    <3>1. CASE g = h
      BY <3>1, <1>4, <1>6 DEF AllHandles
    <3>2. CASE g # h
      <4>1. repo'[g] = repo[g]
        BY <3>2, <1>6 DEF AllHandles
      <4>2. repo[g] \in Conns /\ life[repo[g]] = "served" /\ sock[repo[g]] = g
        BY <4>1, <1>3 DEF OwnedInv
      <4>3. repo[g] # c
        BY <4>2, <1>4
      <4>4. QED BY <4>1, <4>2, <4>3, <1>6
    <3>3. QED BY <3>1, <3>2
  <2>3. \A d \in Conns : life'[d] = "served" => repo'[sock'[d]] = d
    <3> SUFFICES ASSUME NEW d \in Conns, life'[d] = "served"
                 PROVE  repo'[sock'[d]] = d
      OBVIOUS
    <3>1. CASE d = c
      BY <3>1, <1>5, <1>6 DEF AllHandles
    <3>2. CASE d # c
      <4>1. life[d] = "served" /\ sock'[d] = sock[d]
        BY <3>2, <1>6
      <4>2. repo[sock[d]] = d /\ sock[d] \in Handles /\ sock[d] # h
        BY <4>1, <1>3, <1>5 DEF OwnedInv, LifeTypes
      <4>3. QED BY <4>1, <4>2, <1>6 DEF AllHandles
    <3>3. QED BY <3>1, <3>2
  <2>4. \A d \in Conns : sock'[d] # NoHandle <=> life'[d] \in {"served", "removed"}
    BY <1>3, <1>5, <1>6 DEF OwnedInv
  <2>5. \A d, e \in Conns : sock'[d] = sock'[e] => d = e \/ sock'[d] = NoHandle
    BY <1>3, <1>5, <1>6 DEF OwnedInv
  <2>6. QED BY <2>1, <2>2, <2>3, <2>4, <2>5 DEF OwnedInv
<1>13. EventInv'
  BY <1>2, <1>7, HandlesAssumption DEF EventInv, event
<1>14. BacklogInv'
  BY <1>2, <1>4, <1>6 DEF BacklogInv
<1>15. IInv'
  BY <1>9, <1>10, <1>11, <1>12, <1>13, <1>14, TypesTogether DEF IInv
<1>16. QED BY <1>4, <1>15 DEF c

\* Every step preserves the invariant.
LEMMA StepKeepsInv == ASSUME IInv, [Next]_vars PROVE IInv'
<1>1. NetTypes /\ QueueType /\ EventTypes
  BY TypesTogether DEF IInv
<1>2. CASE Dispatch
  BY <1>2, DispatchStep
<1>3. CASE PostProcess
  BY <1>3, PostProcessStep
<1>4. CASE AcceptFailed
  <2>1. UNCHANGED <<repo, sets, event, life, sock, backlog, net, q>> /\ status' = 0
    BY <1>4 DEF AcceptFailed, Return
  <2>2. NetTypes' /\ QueueType'
    BY <2>1, <1>1 DEF NetTypes, QueueType, net
  <2>3. QED BY <2>1, <2>2, QuietStep
<1>5. CASE Accepted
  BY <1>5, AcceptedStep
<1>6. CASE OpenFailed
  BY <1>6, OpenFailedStep
<1>7. ASSUME NEW c \in Conns, Upcall(c) PROVE IInv'
  BY <1>7, InputDataStep, InputCloseStep, OutputNoneStep, OutputStep DEF Upcall
<1>8. ASSUME NEW c \in Conns, Client(c) PROVE IInv'
  BY <1>8, ConnectStep, ClientStep DEF Client
<1>9. CASE UNCHANGED vars
  <2>1. /\ UNCHANGED <<repo, sets, event, life, sock, backlog, net, q>>
        /\ status' = status
    BY <1>9 DEF vars
  <2>2. NetTypes' /\ QueueType'
    BY <2>1, <1>1 DEF NetTypes, QueueType, net
  <2>3. status' \in {-1, 0, 1} /\ (cur = Listener => status' >= 0)
    BY <2>1, <1>1 DEF IInv, EventTypes, EventInv
  <2>4. QED BY <2>1, <2>2, <2>3, QuietStep
<1>10. QED BY <1>2, <1>3, <1>4, <1>5, <1>6, <1>7, <1>8, <1>9
           DEF Next, Thread, Accept

LEMMA InitInv == Init => IInv
<1> SUFFICES ASSUME Init PROVE IInv
  OBVIOUS
<1>1. Elems(<<Listener>>) = {Listener} /\ Elems(<<>>) = {}
  BY DEF Elems
<1>2. Listener \in AllHandles /\ Listener \notin Handles
  BY HandlesAssumption DEF AllHandles
<1>3. Injective(<<Listener>>) /\ Injective(<<>>)
  BY DEF Injective
<1>4. \A h \in AllHandles : repo[h] = IF h = Listener THEN Acceptor ELSE NoHandler
  BY DEF Init
<1>5. TypeOK
  <2>1. RepoType
    BY DEF Init, RepoType, Handlers
  <2>2. SetTypes
    BY <1>2 DEF Init, SetTypes
  <2>3. EventTypes /\ LifeTypes /\ BacklogType
    BY DEF Init, EventTypes, LifeTypes, BacklogType
  <2>4. 0 \in 0 .. MaxIn /\ 0 \in 0 .. MaxQueue
    BY SizesAssumption
  <2>5. NetTypes /\ QueueType
    BY <2>4 DEF Init, NetTypes, QueueType
  <2>6. QED BY <2>1, <2>2, <2>3, <2>5, TypesTogether
<1>6. SetsInv
  BY <1>1, <1>2, <1>3, <1>4, HandlersAssumption, HandlesAssumption
     DEF Init, SetsInv, Watched, Suspended
<1>7. OwnedInv
  BY <1>2, <1>4 DEF Init, OwnedInv, AllHandles
<1>8. EventInv
  BY HandlesAssumption DEF Init, EventInv
<1>9. BacklogInv
  BY <1>3 DEF Init, BacklogInv
<1>10. QED BY <1>5, <1>6, <1>7, <1>8, <1>9 DEF IInv

-----------------------------------------------------------------------------
(* Theorems.                                                               *)

\* The inductive invariant of the reactor holds in every reachable state.
THEOREM Invariance == Spec => []IInv
<1>1. IInv /\ [Next]_vars => IInv'
  BY StepKeepsInv
<1>2. QED BY InitInv, <1>1, PTL DEF Spec

\* The state has its types: no callback of a connection runs on the listening
\* handle, and no count leaves its bounds.
THEOREM TypeCorrect == Spec => []TypeOK
<1>1. IInv => TypeOK
  BY DEF IInv
<1>2. QED BY <1>1, Invariance, PTL

\* Callbacks run on objects that exist, and the table of handlers points to no
\* object that was deleted (handle_close, post_process_socket_event).
THEOREM HandlersAlive == Spec => []NoDangling
<1>1. IInv => NoDangling
  <2> SUFFICES ASSUME IInv PROVE NoDangling
    OBVIOUS
  <2>1. cur \in AllHandles \cup {NoHandle}
    BY TypesTogether DEF IInv, EventTypes
  <2>2. QED BY <2>1 DEF IInv, OwnedInv, EventInv, NoDangling, AllHandles
<1>2. QED BY <1>1, Invariance, PTL

\* The handle sets hold bound handles only, and only the dispatched handle is
\* suspended (suspend_i, resume_i, unbind).
THEOREM SetsAccounted == Spec => []HandlesAccounted
<1>1. IInv => HandlesAccounted
  BY DEF IInv, SetsInv, HandlesAccounted
<1>2. QED BY <1>1, Invariance, PTL

\* A handler that close_connection removed is not called in a later turn.
THEOREM Quiet == Spec => ClosedStaysQuiet
<1>1. ASSUME IInv, [Next]_vars, NEW c \in Conns, life[c] = "removed", eh' = c
      PROVE  eh = c
  <2>1. CASE Dispatch
    <3>1. PICK h \in AllHandles : eh' = repo[h]
      BY <2>1 DEF Dispatch
    <3>2. repo[Listener] = Acceptor /\ Acceptor \notin Conns /\ c # NoHandler
      BY <1>1, HandlersAssumption DEF IInv, OwnedInv
    <3>3. h \in Handles /\ repo[h] = c
      BY <1>1, <3>1, <3>2 DEF AllHandles
    <3>4. QED BY <1>1, <3>2, <3>3 DEF IInv, OwnedInv
  <2>2. CASE PostProcess
    BY <1>1, <2>2, HandlersAssumption DEF PostProcess
  <2>3. CASE UNCHANGED event
    BY <1>1, <2>3 DEF event
  <2>4. CASE Accept
    BY <2>3, <2>4 DEF Accept, AcceptFailed, Accepted, OpenFailed, Return
  <2>5. ASSUME NEW d \in Conns, Upcall(d) PROVE UNCHANGED event
    BY <2>5 DEF Upcall, InputNone, InputEnd, InputData, InputClose, OutputNone,
               OutputSent, OutputBlocked, OutputError, Return
  <2>6. ASSUME NEW d \in Conns, Client(d) PROVE UNCHANGED event
    BY <2>6 DEF Client, Connect, ClientSend, ClientRead, ClientLeave
  <2>7. CASE UNCHANGED vars
    BY <2>3, <2>7 DEF vars
  <2>8. QED BY <1>1, <2>1, <2>2, <2>3, <2>4, <2>5, <2>6, <2>7 DEF Next, Thread
<1>2. IInv /\ [Next]_vars =>
        [\A c \in Conns : life[c] = "removed" /\ eh' = c => eh = c]_vars
  BY <1>1
<1>3. QED BY <1>2, Invariance, PTL DEF Spec, ClosedStaysQuiet

-----------------------------------------------------------------------------
(* Places in the arrays: what set_bit, clr_bit and a turn do to them.      *)

LEMMA PlaceIs ==
  ASSUME NEW s, Injective(s), NEW i \in DOMAIN s
  PROVE  Place(s, s[i]) = i
<1>1. Place(s, s[i]) \in DOMAIN s /\ s[Place(s, s[i])] = s[i]
  BY DEF Place
<1>2. QED BY <1>1 DEF Injective

\* set_bit leaves everybody at its place.
LEMMA FdSetPlaces ==
  ASSUME NEW S, NEW s \in Seq(S), NEW h \in S, Injective(s)
  PROVE  NoneFallsBack(s, FdSet(s, h))
<1> SUFFICES ASSUME NEW x \in Elems(s)
             PROVE  Place(FdSet(s, h), x) <= Place(s, x)
  BY DEF NoneFallsBack
<1>1. PICK i \in DOMAIN s : s[i] = x
  BY DEF Elems
<1>2. i \in DOMAIN FdSet(s, h) /\ FdSet(s, h)[i] = x
  <2>1. CASE h \in Elems(s) \/ Len(s) >= SetSize
    BY <1>1, <2>1 DEF FdSet
  <2>2. CASE ~(h \in Elems(s) \/ Len(s) >= SetSize)
    <3>1. FdSet(s, h) = Append(s, h)
      BY <2>2 DEF FdSet
    <3>2. QED BY <1>1, <3>1
  <2>3. QED BY <2>1, <2>2
<1>3. Place(s, x) = i
  BY <1>1, PlaceIs
<1>4. Place(FdSet(s, h), x) = i
  BY <1>2, FdSetFacts, PlaceIs
<1>5. i \in Nat
  BY <1>1
<1>6. QED BY <1>3, <1>4, <1>5

\* clr_bit moves those behind its handle up and leaves those before it.
LEMMA FdClrPlaces ==
  ASSUME NEW S, NEW s \in Seq(S), NEW h, Injective(s),
         NEW i \in DOMAIN s, s[i] # h
  PROVE  /\ Place(s, s[i]) = i
         /\ Place(FdClr(s, h), s[i]) <= i
         /\ \A k \in DOMAIN s : s[k] = h /\ k < i => Place(FdClr(s, h), s[i]) < i
<1>1. Place(s, s[i]) = i /\ i \in 1 .. Len(s) /\ Len(s) \in Nat
  BY PlaceIs
<1>2. CASE h \notin Elems(s)
  <2>1. FdClr(s, h) = s
    BY <1>2 DEF FdClr
  <2>2. \A k \in DOMAIN s : s[k] # h
    BY <1>2 DEF Elems
  <2>3. QED BY <1>1, <2>1, <2>2
<1>3. CASE h \in Elems(s)
  <2>1. PICK k \in DOMAIN s : s[k] = h /\ k = CHOOSE j \in DOMAIN s : s[j] = h
    BY <1>3 DEF Elems
  <2> DEFINE t == [j \in 1 .. Len(s) - 1 |-> IF j < k THEN s[j] ELSE s[j + 1]]
  <2>2. FdClr(s, h) = t
    BY <1>3, <2>1 DEF FdClr
  <2>3. DOMAIN t = 1 .. Len(s) - 1
        /\ \A j \in DOMAIN t : t[j] = IF j < k THEN s[j] ELSE s[j + 1]
    OBVIOUS
  <2>4. k \in 1 .. Len(s) /\ k # i
    BY <2>1
  <2> HIDE DEF t
  <2>5. Injective(t)
    <3>1. Injective(FdClr(s, h))
      BY FdClrFacts
    <3>2. QED BY <2>2, <3>1
  <2>6. CASE i < k
    <3>1. i \in DOMAIN t /\ t[i] = s[i]
      BY <1>1, <2>4, <2>3, <2>6
    <3>2. Place(t, s[i]) = i
      BY <3>1, <2>5, PlaceIs
    <3>3. \A j \in DOMAIN s : s[j] = h => j = k
      BY <2>1 DEF Injective
    <3>4. QED BY <1>1, <2>2, <2>4, <2>6, <3>2, <3>3
  <2>7. CASE i > k
    <3>1. i - 1 \in DOMAIN t /\ t[i - 1] = s[i]
      <4>1. i - 1 \in 1 .. Len(s) - 1 /\ ~(i - 1 < k) /\ (i - 1) + 1 = i
        BY <1>1, <2>4, <2>7
      <4>2. QED BY <4>1, <2>3
    <3>2. Place(t, s[i]) = i - 1
      BY <3>1, <2>5, PlaceIs
    <3>3. QED BY <1>1, <2>2, <3>2
  <2>8. QED BY <1>1, <2>4, <2>6, <2>7
<1>4. QED BY <1>2, <1>3

LEMMA FdClrKeeps ==
  ASSUME NEW S, NEW s \in Seq(S), NEW h, Injective(s)
  PROVE  NoneFallsBack(s, FdClr(s, h))
<1> SUFFICES ASSUME NEW x \in Elems(s), x \in Elems(FdClr(s, h))
             PROVE  Place(FdClr(s, h), x) <= Place(s, x)
  BY DEF NoneFallsBack
<1>1. x # h
  BY FdClrFacts
<1>2. PICK i \in DOMAIN s : s[i] = x
  BY DEF Elems
<1>3. QED BY <1>1, <1>2, FdClrPlaces

\* The handle of a turn is before all others that are ready.
LEMMA TurnMovesUp ==
  ASSUME NEW S, NEW s \in Seq(S), Injective(s), NEW ready, NEW h,
         FirstReady(s, ready, h)
  PROVE  ReadyMoveUp(s, FdClr(s, h), ready)
<1> SUFFICES ASSUME NEW x \in Elems(s), x \in ready, x \in Elems(FdClr(s, h))
             PROVE  Place(FdClr(s, h), x) < Place(s, x)
  BY DEF ReadyMoveUp
<1>1. x # h
  BY FdClrFacts
<1>2. PICK i \in DOMAIN s : s[i] = x
  BY DEF Elems
<1>3. PICK k \in DOMAIN s : s[k] = h /\ \A j \in 1 .. k - 1 : s[j] \notin ready
  BY DEF FirstReady
<1>4. k < i
  <2>1. i \in 1 .. Len(s) /\ k \in 1 .. Len(s) /\ Len(s) \in Nat
    BY <1>2, <1>3
  <2>2. i # k
    BY <1>1, <1>2, <1>3
  <2>3. i \notin 1 .. k - 1
    BY <1>2, <1>3
  <2>4. QED BY <2>1, <2>2, <2>3
<1>5. Place(s, x) = i /\ Place(FdClr(s, h), x) < i
  BY <1>1, <1>2, <1>3, <1>4, FdClrPlaces
<1>6. QED BY <1>5

LEMMA StillPlaces ==
  ASSUME NEW S, NEW s \in Seq(S), Injective(s)
  PROVE  NoneFallsBack(s, s)
<1> SUFFICES ASSUME NEW x \in Elems(s) PROVE Place(s, x) <= Place(s, x)
  BY DEF NoneFallsBack
<1>1. PICK i \in DOMAIN s : s[i] = x
  BY DEF Elems
<1>2. Place(s, x) = i /\ i \in Nat
  BY <1>1, PlaceIs
<1>3. QED BY <1>2

\* No step puts a handle before another one: each leaves an array as it is, adds
\* a handle at its end or takes one out.
LEMMA PlacesStep ==
  ASSUME IInv, [Next]_vars
  PROVE  NoneFallsBack(waitRd, waitRd') /\ NoneFallsBack(waitWr, waitWr')
<1>0. /\ waitRd \in Seq(AllHandles) /\ waitWr \in Seq(AllHandles)
      /\ Injective(waitRd) /\ Injective(waitWr)
  BY DEF IInv, TypeOK, SetsInv
<1>1. CASE UNCHANGED <<waitRd, waitWr>>
  BY <1>0, <1>1, StillPlaces
<1>2. ASSUME NEW h, waitRd' = FdClr(waitRd, h), waitWr' = FdClr(waitWr, h)
      PROVE  NoneFallsBack(waitRd, waitRd') /\ NoneFallsBack(waitWr, waitWr')
  BY <1>0, <1>2, FdClrKeeps
<1>3. CASE Dispatch
  <2>1. PICK h \in AllHandles : Suspend(h)
    BY <1>3 DEF Dispatch
  <2>2. QED BY <1>2, <2>1 DEF Suspend
<1>4. CASE PostProcess
  <2>1. CASE Delete(eh)
    BY <1>2, <2>1 DEF Delete, Unbind
  <2>2. CASE Resume(cur) /\ cur # NoHandle
    <3>1. cur \in AllHandles
      BY <2>2 DEF IInv, TypeOK
    <3>2. NoneFallsBack(waitRd, waitRd')
      BY <1>0, <2>2, <3>1, FdSetPlaces, StillPlaces DEF Resume
    <3>3. NoneFallsBack(waitWr, waitWr')
      BY <1>0, <2>2, <3>1, FdSetPlaces, StillPlaces DEF Resume
    <3>4. QED BY <3>2, <3>3
  <2>3. CASE UNCHANGED sets
    BY <1>1, <2>3 DEF sets
  <2>4. QED BY <1>4, <2>1, <2>2, <2>3 DEF PostProcess
<1>5. CASE Accepted
  <2>1. PICK h \in FreeHandles : waitRd' = FdSet(waitRd, h) /\ waitWr' = waitWr
    BY <1>5 DEF Accepted
  <2>2. h \in AllHandles
    BY DEF FreeHandles, AllHandles
  <2>3. QED BY <1>0, <2>1, <2>2, FdSetPlaces, StillPlaces
<1>6. CASE AcceptFailed \/ OpenFailed
  BY <1>1, <1>6, OpenFailedGone DEF AcceptFailed, sets
<1>7. ASSUME NEW c \in Conns, Upcall(c)
      PROVE  NoneFallsBack(waitRd, waitRd') /\ NoneFallsBack(waitWr, waitWr')
  <2>1. CASE InputClose(c)
    BY <1>2, <2>1 DEF InputClose, Unbind
  <2>2. CASE ~InputClose(c)
    <3>1. UNCHANGED <<waitRd, waitWr>>
      BY <1>7, <2>2 DEF Upcall, InputNone, InputEnd, InputData, OutputNone,
                        OutputSent, OutputBlocked, OutputError, sets
    <3>2. QED BY <1>1, <3>1
  <2>3. QED BY <2>1, <2>2
<1>8. ASSUME NEW c \in Conns, Client(c)
      PROVE  NoneFallsBack(waitRd, waitRd') /\ NoneFallsBack(waitWr, waitWr')
  <2>1. UNCHANGED <<waitRd, waitWr>>
    BY <1>8 DEF Client, Connect, ClientSend, ClientRead, ClientLeave, sets
  <2>2. QED BY <1>1, <2>1
<1>9. CASE UNCHANGED vars
  BY <1>1, <1>9 DEF vars, sets
<1>10. QED BY <1>3, <1>4, <1>5, <1>6, <1>7, <1>8, <1>9 DEF Next, Thread, Accept

\* A step that picks a handle is the start of a turn.
LEMMA TurnStarts ==
  ASSUME [Next]_vars, cur = NoHandle, cur' # NoHandle
  PROVE  Dispatch
<1>1. ~PostProcess
  BY DEF PostProcess
<1>2. ~Accept
  BY DEF Accept, AcceptFailed, Accepted, OpenFailed, Called
<1>3. ASSUME NEW c \in Conns PROVE ~Upcall(c)
  BY DEF Upcall, InputNone, InputEnd, InputData, InputClose, OutputNone,
         OutputSent, OutputBlocked, OutputError, Called
<1>4. ASSUME NEW c \in Conns, Client(c) PROVE FALSE
  BY <1>4 DEF Client, Connect, ClientSend, ClientRead, ClientLeave, event
<1>5. ~UNCHANGED vars
  BY DEF vars, event
<1>6. QED BY <1>1, <1>2, <1>3, <1>4, <1>5 DEF Next, Thread

\* Nobody is overtaken in an array, and each turn brings the ready handles of its
\* array nearer to the start: the safety that InputServed and PendingServed rest
\* on, for any number of connections and handles.
THEOREM NoOvertaking == Spec => NeverOvertaken
<1> DEFINE A == /\ NoneFallsBack(waitRd, waitRd') /\ NoneFallsBack(waitWr, waitWr')
                /\ cur = NoHandle /\ cur' # NoHandle =>
                     IF mask' = "read" THEN ReadyMoveUp(waitRd, waitRd', ReadReady)
                     ELSE ReadyMoveUp(waitWr, waitWr', WriteReady)
<1>1. ASSUME IInv, [Next]_vars PROVE A
  <2>1. ASSUME cur = NoHandle, cur' # NoHandle
        PROVE  IF mask' = "read" THEN ReadyMoveUp(waitRd, waitRd', ReadReady)
               ELSE ReadyMoveUp(waitWr, waitWr', WriteReady)
    <3>1. Dispatch
      BY <1>1, <2>1, TurnStarts
    <3>2. PICK h \in AllHandles, m \in {"read", "write"} :
            Selected(h, m) /\ mask' = m /\ Suspend(h)
      BY <3>1 DEF Dispatch
    <3>3. /\ waitRd \in Seq(AllHandles) /\ waitWr \in Seq(AllHandles)
          /\ Injective(waitRd) /\ Injective(waitWr)
      BY <1>1 DEF IInv, TypeOK, SetsInv
    <3>4. waitRd' = FdClr(waitRd, h) /\ waitWr' = FdClr(waitWr, h)
      BY <3>2 DEF Suspend
    <3>5. CASE m = "read"
      <4>1. FirstReady(waitRd, ReadReady, h)
        BY <3>2, <3>5 DEF Selected
      <4>2. QED BY <3>2, <3>3, <3>4, <3>5, <4>1, TurnMovesUp
    <3>6. CASE m = "write"
      <4>1. FirstReady(waitWr, WriteReady, h)
        BY <3>2, <3>6 DEF Selected
      <4>2. QED BY <3>2, <3>3, <3>4, <3>6, <4>1, TurnMovesUp
    <3>7. QED BY <3>2, <3>5, <3>6
  <2>2. QED BY <1>1, <2>1, PlacesStep
<1>2. IInv /\ [Next]_vars => [A]_vars
  BY <1>1
<1>3. QED BY <1>2, Invariance, PTL DEF Spec, NeverOvertaken

-----------------------------------------------------------------------------
\* Every step of the reactor is a step of ConnectionLife or none: a handle is
\* leased to one connection from accept to close.
LEMMA LifeStep ==
  ASSUME IInv, [Next]_vars
  PROVE  [Life!Next]_(<<life, sock>>)
<1>1. CASE PostProcess
  <2>1. CASE repo[cur] = eh /\ status < 0 /\ Delete(eh)
    <3>1. eh \in Conns /\ life[eh] = "served"
      BY <1>1, <2>1, DeleteStep DEF PostProcess
    <3>2. /\ life' = [life EXCEPT ![eh] = "absent"]
          /\ sock' = [sock EXCEPT ![eh] = NoHandle]
      BY <2>1 DEF Delete
    <3>3. Life!Release(eh)
      BY <3>1, <3>2 DEF Life!Release, Life!Move
    <3>4. QED BY <3>1, <3>3 DEF Life!Next
  <2>2. CASE UNCHANGED <<sock, life>>
    BY <2>2
  <2>3. QED BY <1>1, <2>1, <2>2 DEF PostProcess
<1>2. CASE Accepted
  <2> DEFINE c == Head(backlog)
  <2>1. c \in Conns /\ life[c] = "pending"
    BY <1>2, AcceptedStep
  <2>2. life' = [life EXCEPT ![c] = "served"]
    BY <1>2 DEF Accepted
  <2>3. \E h \in FreeHandles : sock' = [sock EXCEPT ![c] = h]
    BY <1>2 DEF Accepted
  <2> HIDE DEF c
  <2>4. FreeHandles \subseteq Handles \ Life!Leased
    BY DEF FreeHandles, Life!Leased
  <2>5. Life!Serve(c)
    BY <2>1, <2>2, <2>3, <2>4 DEF Life!Serve, Life!Move
  <2>6. QED BY <2>1, <2>5 DEF Life!Next
<1>3. CASE OpenFailed
  <2> DEFINE c == Head(backlog)
  <2>1. c \in Conns /\ life[c] = "pending"
    BY <1>3, OpenFailedStep
  <2>2. life' = [life EXCEPT ![c] = "absent"] /\ sock' = sock
    BY <1>3 DEF OpenFailed
  <2> HIDE DEF c
  <2>3. Life!GiveUp(c)
    BY <2>1, <2>2 DEF Life!GiveUp, Life!Move
  <2>4. QED BY <2>1, <2>3 DEF Life!Next
<1>4. CASE UNCHANGED <<life, sock>>
  BY <1>4
<1>5. ASSUME NEW c \in Conns, InputClose(c) PROVE Life!Next
  <2>1. /\ life[c] = "served" /\ life' = [life EXCEPT ![c] = "removed"]
        /\ sock' = sock
    BY <1>5 DEF InputClose
  <2>2. Life!Remove(c)
    BY <2>1 DEF Life!Remove, Life!Move
  <2>3. QED BY <2>2 DEF Life!Next
<1>6. ASSUME NEW c \in Conns, Connect(c) PROVE Life!Next
  <2>1. /\ life[c] = "absent" /\ life' = [life EXCEPT ![c] = "pending"]
        /\ sock' = sock
    BY <1>6 DEF Connect
  <2>2. Life!Arrive(c)
    BY <2>1 DEF Life!Arrive, Life!Move
  <2>3. QED BY <2>2 DEF Life!Next
<1>7. ASSUME NEW c \in Conns,
             Upcall(c) \/ ClientSend(c) \/ ClientRead(c) \/ ClientLeave(c)
      PROVE  InputClose(c) \/ UNCHANGED <<life, sock>>
  BY <1>7 DEF Upcall, InputNone, InputEnd, InputData, OutputNone, OutputSent,
             OutputBlocked, OutputError, ClientSend, ClientRead, ClientLeave
<1>8. CASE Dispatch \/ AcceptFailed \/ UNCHANGED vars
  BY <1>8 DEF Dispatch, AcceptFailed, vars
<1>9. QED BY <1>1, <1>2, <1>3, <1>4, <1>5, <1>6, <1>7, <1>8
         DEF Next, Thread, Accept, Client

\* Connections and handles behave as ConnectionLife says: no two connections
\* share a handle, and what is accepted is deleted or removed once.
THEOREM Refinement == Spec => LeasesKept
<1>1. Init => Life!Init
  BY DEF Init, Life!Init
<1>2. IInv /\ [Next]_vars => [Life!Next]_(<<life, sock>>)
  BY LifeStep
<1>3. QED BY <1>1, <1>2, Invariance, PTL DEF Spec, LeasesKept, Life!Spec

-----------------------------------------------------------------------------
(* Sets with room for every handle.                                        *)

\* An array without duplicates that lacks a handle is not full.
LEMMA NotFull ==
  ASSUME Cardinality(AllHandles) <= SetSize,
         NEW s \in Seq(AllHandles), Injective(s),
         NEW h \in AllHandles, h \notin Elems(s)
  PROVE  ~(Len(s) >= SetSize)
<1> DEFINE others == AllHandles \ {h}
<1>1. IsFiniteSet(AllHandles) /\ Cardinality(AllHandles) \in Nat
  BY HandlesAssumption, FS_AddElement, FS_CardinalityType DEF AllHandles
<1>2. IsFiniteSet(others) /\ Cardinality(others) = Cardinality(AllHandles) - 1
  BY <1>1, FS_RemoveElement
<1>3. s \in Injection(1 .. Len(s), others)
  <2>1. Len(s) \in Nat /\ DOMAIN s = 1 .. Len(s)
    OBVIOUS
  <2>2. \A i \in 1 .. Len(s) : s[i] \in others
    BY <2>1 DEF Elems
  <2>3. s \in [1 .. Len(s) -> others]
    BY <2>1, <2>2
  <2>4. IsInjective(s)
    BY DEF Injective, IsInjective
  <2>5. QED BY <2>3, <2>4 DEF Injection
<1>4. Cardinality(1 .. Len(s)) <= Cardinality(others)
  BY <1>2, <1>3, FS_Injection
<1>5. Cardinality(1 .. Len(s)) = Len(s)
  <2>1. Len(s) \in Nat
    OBVIOUS
  <2>2. Cardinality(1 .. Len(s)) = IF 1 > Len(s) THEN 0 ELSE Len(s) - 1 + 1
    BY <2>1, FS_Interval
  <2>3. QED BY <2>1, <2>2
<1>6. Len(s) \in Nat /\ SetSize \in Nat
  BY SizesAssumption
<1> HIDE DEF others
<1>7. Len(s) <= Cardinality(AllHandles) - 1
  BY <1>2, <1>4, <1>5
<1>8. QED BY <1>1, <1>6, <1>7

\* Then set_bit does what it says.
LEMMA FdSetAdds ==
  ASSUME Cardinality(AllHandles) <= SetSize,
         NEW s \in Seq(AllHandles), Injective(s), NEW h \in AllHandles
  PROVE  Elems(FdSet(s, h)) = Elems(s) \cup {h}
<1>1. CASE h \in Elems(s)
  BY <1>1 DEF FdSet
<1>2. CASE h \notin Elems(s)
  BY <1>2, NotFull, FdSetFacts
<1>3. QED BY <1>1, <1>2

\* What is waited for, or will be when the turn ends.
WatchInv ==
  /\ Listener \in Elems(waitRd) \cup suspRd
  /\ \A c \in Conns : life[c] = "served" =>
       /\ sock[c] \in Elems(waitRd) \cup suspRd
       /\ q[c] > 0 => sock[c] \in Elems(waitWr) \cup suspWr
  /\ \A c \in Conns : life[c] # "served" => q[c] = 0

\* Nothing leaves both sets, and no connection gets answers or is served.
LEMMA WatchKept ==
  ASSUME WatchInv,
         Elems(waitRd) \cup suspRd \subseteq Elems(waitRd') \cup suspRd',
         Elems(waitWr) \cup suspWr \subseteq Elems(waitWr') \cup suspWr',
         sock' = sock,
         \A c \in Conns : (life'[c] = "served") = (life[c] = "served"),
         \A c \in Conns : q'[c] > 0 => q[c] > 0,
         QueueType, QueueType'
  PROVE  WatchInv'
<1>1. Listener \in Elems(waitRd') \cup suspRd'
  BY DEF WatchInv
<1>2. ASSUME NEW c \in Conns, life'[c] = "served"
      PROVE  /\ sock'[c] \in Elems(waitRd') \cup suspRd'
             /\ q'[c] > 0 => sock'[c] \in Elems(waitWr') \cup suspWr'
  BY <1>2 DEF WatchInv
<1>3. ASSUME NEW c \in Conns, life'[c] # "served" PROVE q'[c] = 0
  <2>1. q[c] = 0
    BY <1>3 DEF WatchInv
  <2>2. ~(q'[c] > 0) /\ q'[c] \in Nat
    BY <2>1, SizesAssumption DEF QueueType
  <2>3. QED BY <2>2
<1>4. QED BY <1>1, <1>2, <1>3 DEF WatchInv

\* A connection that goes takes its own handle with it and no other.
LEMMA WatchUnbound ==
  ASSUME IInv, WatchInv, NEW c \in Conns, life[c] = "served", cur = sock[c],
         Unbind(sock[c]), life'[c] # "served", q'[c] = 0,
         \A d \in Conns \ {c} :
           life'[d] = life[d] /\ sock'[d] = sock[d] /\ q'[d] = q[d]
  PROVE  WatchInv'
<1>1. SetTypes /\ SetsInv /\ OwnedInv /\ LifeTypes
  BY TypesTogether DEF IInv
<1>2. /\ Elems(waitRd') = Elems(waitRd) \ {cur} /\ suspRd' = suspRd \ {cur}
      /\ Elems(waitWr') = Elems(waitWr) \ {cur} /\ suspWr' = suspWr \ {cur}
  BY <1>1, UnbindStep
<1>3. cur # Listener /\ cur # NoHandle
  BY <1>1, HandlesAssumption DEF LifeTypes, OwnedInv
<1>4. Listener \in Elems(waitRd') \cup suspRd'
  BY <1>2, <1>3 DEF WatchInv
<1>5. ASSUME NEW d \in Conns, life'[d] = "served"
      PROVE  /\ sock'[d] \in Elems(waitRd') \cup suspRd'
             /\ q'[d] > 0 => sock'[d] \in Elems(waitWr') \cup suspWr'
  <2>1. d # c /\ life[d] = "served" /\ sock'[d] = sock[d] /\ q'[d] = q[d]
    BY <1>5
  <2>2. sock[d] # cur
    BY <2>1, <1>1, <1>3 DEF OwnedInv
  <2>3. QED BY <2>1, <2>2, <1>2 DEF WatchInv
<1>6. ASSUME NEW d \in Conns, life'[d] # "served" PROVE q'[d] = 0
  <2>1. CASE d = c
    BY <2>1
  <2>2. CASE d # c
    <3>1. life[d] # "served" /\ q'[d] = q[d]
      BY <1>6, <2>2
    <3>2. QED BY <3>1 DEF WatchInv
  <2>3. QED BY <2>1, <2>2
<1>7. QED BY <1>4, <1>5, <1>6 DEF WatchInv

LEMMA WatchPostProcess ==
  ASSUME Cardinality(AllHandles) <= SetSize, IInv, WatchInv, PostProcess, QueueType'
  PROVE  WatchInv'
<1>1. SetTypes /\ SetsInv /\ QueueType /\ EventTypes /\ LifeTypes
  BY TypesTogether DEF IInv
<1>2. CASE repo[cur] = eh /\ status < 0 /\ Delete(eh)
  <2>1. eh \in Conns /\ life[eh] = "served"
    BY <1>2, DeleteStep DEF PostProcess
  <2>2. cur = sock[eh]
    <3>1. eh # Acceptor
      BY <2>1, HandlersAssumption
    <3>2. cur \in Handles
      BY <3>1, <1>1 DEF PostProcess, EventTypes, AllHandles, IInv, EventInv
    <3>3. QED BY <3>2 DEF IInv, EventInv
  <2> DEFINE c == eh
  <2>3. /\ Unbind(sock[c]) /\ sock' = [sock EXCEPT ![c] = NoHandle]
        /\ life' = [life EXCEPT ![c] = "absent"] /\ q' = [q EXCEPT ![c] = 0]
    BY <1>2 DEF Delete
  <2>4. c \in Conns /\ life[c] = "served" /\ cur = sock[c]
    BY <2>1, <2>2
  <2> HIDE DEF c
  <2>5. /\ life'[c] = "absent" /\ q'[c] = 0
        /\ \A d \in Conns \ {c} :
             life'[d] = life[d] /\ sock'[d] = sock[d] /\ q'[d] = q[d]
    BY <2>3, <2>4, <1>1 DEF LifeTypes, QueueType
  <2>6. QED BY <2>3, <2>4, <2>5, WatchUnbound
<1>3. CASE /\ repo[cur] = eh /\ status = 0 /\ Resume(cur)
           /\ UNCHANGED <<repo, sock, life, net, q>>
  <2>1. cur \in AllHandles
    BY <1>1 DEF PostProcess, EventTypes
  <2>2. /\ Elems(FdSet(waitRd, cur)) = Elems(waitRd) \cup {cur}
        /\ Elems(FdSet(waitWr, cur)) = Elems(waitWr) \cup {cur}
    BY <1>1, <2>1, FdSetAdds DEF SetTypes, SetsInv
  <2>3. /\ waitRd' = IF cur \in suspRd THEN FdSet(waitRd, cur) ELSE waitRd
        /\ waitWr' = IF cur \in suspWr THEN FdSet(waitWr, cur) ELSE waitWr
        /\ suspRd' = suspRd \ {cur} /\ suspWr' = suspWr \ {cur}
    BY <1>3 DEF Resume
  <2>4. /\ Elems(waitRd) \cup suspRd \subseteq Elems(waitRd') \cup suspRd'
        /\ Elems(waitWr) \cup suspWr \subseteq Elems(waitWr') \cup suspWr'
    BY <2>2, <2>3
  <2>5. QED BY <2>4, <1>1, <1>3, WatchKept
<1>4. CASE repo[cur] # eh /\ UNCHANGED <<repo, sets, sock, life, net, q>>
  <2>1. UNCHANGED <<waitRd, waitWr, suspRd, suspWr, sock, life, q>>
    BY <1>4 DEF sets
  <2>2. Elems(waitRd') = Elems(waitRd) /\ Elems(waitWr') = Elems(waitWr)
    BY <2>1 DEF Elems
  <2>3. QED BY <2>1, <2>2, <1>1, WatchKept
<1>5. QED BY <1>2, <1>3, <1>4 DEF PostProcess

LEMMA WatchAccepted ==
  ASSUME Cardinality(AllHandles) <= SetSize, IInv, WatchInv, Accepted
  PROVE  WatchInv'
<1> DEFINE c == Head(backlog)
<1>1. PICK h \in FreeHandles :
        sock' = [sock EXCEPT ![c] = h] /\ waitRd' = FdSet(waitRd, h)
  BY DEF Accepted
<1>2. /\ life' = [life EXCEPT ![c] = "served"] /\ q' = q
      /\ waitWr' = waitWr /\ suspRd' = suspRd /\ suspWr' = suspWr
  BY DEF Accepted
<1>3. c \in Conns /\ life[c] = "pending"
  BY AcceptedStep
<1>4. SetTypes /\ SetsInv /\ LifeTypes
  BY TypesTogether DEF IInv
<1> HIDE DEF c
<1>5. h \in AllHandles
  BY DEF FreeHandles, AllHandles
<1>6. Elems(waitRd') = Elems(waitRd) \cup {h}
  BY <1>1, <1>4, <1>5, FdSetAdds DEF SetTypes, SetsInv
<1>7. Elems(waitWr') = Elems(waitWr)
  BY <1>2 DEF Elems
<1>8. \A d \in Conns : /\ life'[d] = IF d = c THEN "served" ELSE life[d]
                      /\ sock'[d] = IF d = c THEN h ELSE sock[d]
  BY <1>1, <1>2, <1>4 DEF LifeTypes
<1>9. Listener \in Elems(waitRd') \cup suspRd'
  BY <1>2, <1>6 DEF WatchInv
<1>10. ASSUME NEW d \in Conns, life'[d] = "served"
       PROVE  /\ sock'[d] \in Elems(waitRd') \cup suspRd'
              /\ q'[d] > 0 => sock'[d] \in Elems(waitWr') \cup suspWr'
  <2>1. CASE d = c
    <3>1. sock'[d] = h
      BY <2>1, <1>8
    <3>2. q[c] = 0
      BY <1>3 DEF WatchInv
    <3>3. ~(q'[d] > 0)
      BY <2>1, <3>2, <1>2
    <3>4. QED BY <3>1, <3>3, <1>6
  <2>2. CASE d # c
    <3>1. life[d] = "served" /\ sock'[d] = sock[d] /\ q'[d] = q[d]
      BY <1>2, <1>8, <1>10, <2>2
    <3>2. QED BY <3>1, <1>2, <1>6, <1>7 DEF WatchInv
  <2>3. QED BY <2>1, <2>2
<1>11. ASSUME NEW d \in Conns, life'[d] # "served" PROVE q'[d] = 0
  BY <1>2, <1>8, <1>11 DEF WatchInv
<1>12. QED BY <1>9, <1>10, <1>11 DEF WatchInv

LEMMA WatchInputData ==
  ASSUME IInv, WatchInv, NEW c \in Conns, InputData(c), QueueType'
  PROVE  WatchInv'
<1>1. /\ life[c] = "served" /\ OnRead(c)
      /\ UNCHANGED <<repo, waitRd, waitWr, suspRd, life, sock, backlog, gone>>
  BY DEF InputData
<1>2. Elems(waitRd') = Elems(waitRd) /\ Elems(waitWr') = Elems(waitWr)
  BY <1>1 DEF Elems
<1>3. QueueType
  BY TypesTogether DEF IInv
<1>4. CASE UNCHANGED <<q, room, suspWr>>
  BY <1>1, <1>2, <1>3, <1>4, WatchKept
<1>5. CASE SendQueued(c)
  <2>1. q' = [q EXCEPT ![c] = @ + 1] /\ suspWr' = suspWr \cup {sock[c]}
    BY <1>5 DEF SendQueued
  <2>2. \A d \in Conns \ {c} : q'[d] = q[d]
    BY <2>1, <1>3 DEF QueueType
  <2>3. Listener \in Elems(waitRd') \cup suspRd'
    BY <1>1, <1>2 DEF WatchInv
  <2>4. ASSUME NEW d \in Conns, life'[d] = "served"
        PROVE  /\ sock'[d] \in Elems(waitRd') \cup suspRd'
               /\ q'[d] > 0 => sock'[d] \in Elems(waitWr') \cup suspWr'
    <3>1. life[d] = "served" /\ sock'[d] = sock[d]
      BY <1>1, <2>4
    <3>2. sock'[d] \in Elems(waitRd') \cup suspRd'
      BY <3>1, <1>1, <1>2 DEF WatchInv
    <3>3. CASE d = c
      BY <3>1, <3>2, <3>3, <2>1
    <3>4. CASE d # c
      BY <3>1, <3>2, <3>4, <2>1, <2>2, <1>2 DEF WatchInv
    <3>5. QED BY <3>3, <3>4
  <2>5. ASSUME NEW d \in Conns, life'[d] # "served" PROVE q'[d] = 0
    <3>1. life[d] # "served" /\ d # c
      BY <1>1, <2>5
    <3>2. QED BY <3>1, <2>2 DEF WatchInv
  <2>6. QED BY <2>3, <2>4, <2>5 DEF WatchInv
<1>6. QED BY <1>1, <1>4, <1>5 DEF OnRead, SendDone

LEMMA WatchOutputNone ==
  ASSUME IInv, WatchInv, NEW c \in Conns, OutputNone(c)
  PROVE  WatchInv'
<1>1. /\ cur # NoHandle /\ eh = c /\ q[c] = 0
      /\ suspWr' = suspWr \ {sock[c]}
      /\ UNCHANGED <<waitRd, waitWr, suspRd, life, sock, q>>
  BY DEF OutputNone, Called
<1>2. Elems(waitRd') = Elems(waitRd) /\ Elems(waitWr') = Elems(waitWr)
  BY <1>1 DEF Elems
<1>3. sock[c] = cur
  BY <1>1, CalledHandle
<1>4. ASSUME NEW d \in Conns, life[d] = "served", q[d] > 0
      PROVE  sock[d] \in Elems(waitWr') \cup suspWr'
  <2>1. d # c
    BY <1>1, <1>4
  <2>2. sock[d] # sock[c]
    BY <2>1, <1>1, <1>3 DEF IInv, OwnedInv
  <2>3. QED BY <2>2, <1>1, <1>2, <1>4 DEF WatchInv
<1>5. QED BY <1>1, <1>2, <1>4 DEF WatchInv

LEMMA WatchInputClose ==
  ASSUME IInv, WatchInv, NEW c \in Conns, InputClose(c)
  PROVE  WatchInv'
<1>1. /\ cur # NoHandle /\ eh = c /\ life[c] = "served" /\ Unbind(sock[c])
      /\ life' = [life EXCEPT ![c] = "removed"] /\ q' = [q EXCEPT ![c] = 0]
      /\ sock' = sock
  BY DEF InputClose, Called
<1>2. LifeTypes /\ QueueType
  BY TypesTogether DEF IInv
<1>3. cur = sock[c]
  BY <1>1, CalledHandle
<1>4. /\ life'[c] = "removed" /\ q'[c] = 0
      /\ \A d \in Conns \ {c} :
           life'[d] = life[d] /\ sock'[d] = sock[d] /\ q'[d] = q[d]
  BY <1>1, <1>2 DEF LifeTypes, QueueType
<1>5. QED BY <1>1, <1>3, <1>4, WatchUnbound

LEMMA WatchStep ==
  ASSUME Cardinality(AllHandles) <= SetSize, IInv, IInv', WatchInv, [Next]_vars
  PROVE  WatchInv'
<1>1. QueueType /\ QueueType' /\ SetTypes /\ SetsInv /\ LifeTypes
  BY TypesTogether DEF IInv
<1>2. CASE Dispatch
  <2>1. PICK h \in AllHandles, m \in {"read", "write"} : Suspend(h)
    BY <1>2 DEF Dispatch
  <2>2. cur = NoHandle /\ UNCHANGED <<sock, life, q>>
    BY <1>2 DEF Dispatch
  <2>3. /\ Elems(waitRd') \cup suspRd' = Elems(waitRd) \cup suspRd
        /\ Elems(waitWr') \cup suspWr' = Elems(waitWr) \cup suspWr
    BY <1>1, <2>1, <2>2, SuspendStep
  <2>4. QED BY <1>1, <2>2, <2>3, WatchKept
<1>3. CASE PostProcess
  BY <1>1, <1>3, WatchPostProcess
<1>4. CASE Accepted
  BY <1>4, WatchAccepted
<1>5. ASSUME UNCHANGED <<sets, sock>>,
             \A c \in Conns : (life'[c] = "served") = (life[c] = "served"),
             \A c \in Conns : q'[c] > 0 => q[c] > 0
      PROVE  WatchInv'
  <2>1. /\ Elems(waitRd') = Elems(waitRd) /\ Elems(waitWr') = Elems(waitWr)
        /\ suspRd' = suspRd /\ suspWr' = suspWr
    BY <1>5 DEF Elems, sets
  <2>2. QED BY <2>1, <1>1, <1>5, WatchKept
<1>6. CASE OpenFailed
  <2>1. Head(backlog) \in Conns /\ life[Head(backlog)] = "pending"
    BY <1>6, OpenFailedStep
  <2>2. /\ life' = [life EXCEPT ![Head(backlog)] = "absent"]
        /\ UNCHANGED <<sets, sock, q>>
    BY <1>6, OpenFailedGone DEF OpenFailed
  <2>3. \A c \in Conns : (life'[c] = "served") = (life[c] = "served")
    BY <1>1, <2>1, <2>2 DEF LifeTypes
  <2>4. QED BY <1>5, <2>2, <2>3
<1>7. ASSUME NEW c \in Conns, Connect(c) PROVE WatchInv'
  <2>1. /\ life[c] = "absent" /\ life' = [life EXCEPT ![c] = "pending"]
        /\ UNCHANGED <<sets, sock, q>>
    BY <1>7 DEF Connect
  <2>2. \A d \in Conns : (life'[d] = "served") = (life[d] = "served")
    BY <1>1, <2>1 DEF LifeTypes
  <2>3. QED BY <1>5, <2>1, <2>2
<1>8. ASSUME NEW c \in Conns, OutputSent(c) \/ OutputBlocked(c) \/ OutputError(c)
      PROVE  WatchInv'
  <2>1. /\ q[c] > 0 /\ (UNCHANGED q \/ q' = [q EXCEPT ![c] = @ - 1])
        /\ UNCHANGED <<sets, sock, life>>
    BY <1>8 DEF OutputSent, OutputBlocked, OutputError
  <2>2. \A d \in Conns : q'[d] > 0 => q[d] > 0
    BY <1>1, <2>1 DEF QueueType
  <2>3. QED BY <1>5, <2>1, <2>2
<1>9. ASSUME NEW c \in Conns,
             InputNone(c) \/ InputEnd(c) \/ ClientSend(c) \/ ClientRead(c)
               \/ ClientLeave(c)
      PROVE  WatchInv'
  <2>1. UNCHANGED <<sets, sock, life, q>>
    BY <1>9 DEF InputNone, InputEnd, ClientSend, ClientRead, ClientLeave
  <2>2. QED BY <1>5, <2>1
<1>10. CASE AcceptFailed \/ UNCHANGED vars
  <2>1. UNCHANGED <<sets, sock, life, q>>
    BY <1>10 DEF AcceptFailed, vars
  <2>2. QED BY <1>5, <2>1
<1>11. ASSUME NEW c \in Conns, Upcall(c) PROVE WatchInv'
  BY <1>1, <1>8, <1>9, <1>11, WatchInputData, WatchOutputNone, WatchInputClose
     DEF Upcall
<1>12. ASSUME NEW c \in Conns, Client(c) PROVE WatchInv'
  BY <1>7, <1>9, <1>12 DEF Client
<1>13. QED BY <1>2, <1>3, <1>4, <1>6, <1>10, <1>11, <1>12 DEF Next, Thread, Accept

LEMMA Watching ==
  ASSUME Cardinality(AllHandles) <= SetSize
  PROVE  Spec => []WatchInv
<1>1. Init => WatchInv
  <2> SUFFICES ASSUME Init PROVE WatchInv
    OBVIOUS
  <2>1. Elems(<<Listener>>) = {Listener}
    BY DEF Elems
  <2>2. QED BY <2>1 DEF Init, WatchInv
<1>2. IInv /\ IInv' /\ WatchInv /\ [Next]_vars => WatchInv'
  BY WatchStep
<1>3. QED BY <1>1, <1>2, Invariance, PTL DEF Spec

\* If FD_SETSIZE is not below the number of sockets, every served connection is
\* waited for, also for output when answers are queued (register_handler,
\* schedule_wakeup, resume_i).
THEOREM WatchedWhileServed ==
  ASSUME Cardinality(AllHandles) <= SetSize
  PROVE  Spec => []ServedWatched
<1>1. WatchInv => ServedWatched
  BY DEF WatchInv, ServedWatched
<1>2. QED BY <1>1, Watching, PTL

\* And the reactor goes on listening between two turns (Acceptor.cpp:384).  The
\* run reactor_full shows that the hypothesis is needed.
THEOREM ListensForEver ==
  ASSUME Cardinality(AllHandles) <= SetSize
  PROVE  Spec => []AcceptorListens
<1>1. IInv /\ WatchInv => AcceptorListens
  BY DEF IInv, SetsInv, WatchInv, AcceptorListens, Suspended
<1>2. QED BY <1>1, Watching, Invariance, PTL
=============================================================================
