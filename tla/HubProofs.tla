------------------------------ MODULE HubProofs ------------------------------
(***************************************************************************)
(* What holds of Hub for any replicas, connections, queue size and number  *)
(* of events.                                                              *)
(***************************************************************************)
EXTENDS Hub, TLAPS

-----------------------------------------------------------------------------
(* Sequences of events. *)

Elems(s) == {s[i] : i \in 1..Len(s)}

Rising(s) == \A i, j \in 1..Len(s) : i < j => s[i] < s[j]

Below(S, T) == \A e \in S, f \in T : e < f

\* What Append, Head and Tail do to the elements and to their order.
LEMMA AppendElems ==
    ASSUME NEW S, NEW s \in Seq(S), NEW e \in S
    PROVE  Append(s, e) \in Seq(S) /\ Elems(Append(s, e)) = Elems(s) \union {e}
           /\ Len(Append(s, e)) = Len(s) + 1
<1>1. Len(Append(s, e)) = Len(s) + 1 /\ Append(s, e)[Len(s) + 1] = e
      /\ \A i \in 1..Len(s) : Append(s, e)[i] = s[i]
  OBVIOUS
<1>2. 1..(Len(s) + 1) = (1..Len(s)) \union {Len(s) + 1} /\ Len(s) \in Nat
  OBVIOUS
<1>3. QED
  BY <1>1, <1>2 DEF Elems

LEMMA AppendRising ==
    ASSUME NEW s \in Seq(Events), NEW e \in Events, Rising(s), Below(Elems(s), {e})
    PROVE  Rising(Append(s, e))
<1>1. Len(Append(s, e)) = Len(s) + 1 /\ Append(s, e)[Len(s) + 1] = e
      /\ \A i \in 1..Len(s) : Append(s, e)[i] = s[i]
  OBVIOUS
<1>2. \A i \in 1..Len(s) : s[i] < e
  BY DEF Below, Elems
<1>3. QED
  BY <1>1, <1>2 DEF Rising

LEMMA TailElems ==
    ASSUME NEW S, NEW s \in Seq(S), s # <<>>
    PROVE  /\ Tail(s) \in Seq(S) /\ Head(s) \in S /\ Head(s) \in Elems(s)
           /\ Elems(Tail(s)) \subseteq Elems(s)
           /\ Len(Tail(s)) <= Len(s)
<1>1. Len(s) >= 1 /\ Len(Tail(s)) = Len(s) - 1 /\ Head(s) = s[1] /\ Len(s) \in Nat
      /\ \A i \in 1..Len(Tail(s)) : Tail(s)[i] = s[i + 1]
  OBVIOUS
<1>2. QED
  BY <1>1 DEF Elems

LEMMA TailRising ==
    ASSUME NEW s \in Seq(Events), s # <<>>, Rising(s)
    PROVE  Rising(Tail(s)) /\ Below({Head(s)}, Elems(Tail(s)))
<1>1. Len(s) >= 1 /\ Len(Tail(s)) = Len(s) - 1 /\ Head(s) = s[1] /\ Len(s) \in Nat
      /\ \A i \in 1..Len(Tail(s)) : Tail(s)[i] = s[i + 1]
  OBVIOUS
<1>2. QED
  BY <1>1 DEF Rising, Below, Elems

LEMMA EmptyElems == Elems(<<>>) = {} /\ Rising(<<>>)
BY DEF Elems, Rising

LEMMA LastBelow ==
    ASSUME NEW s \in Seq(Events), NEW e \in Events, Below(Elems(s), {e})
    PROVE  LET Last0 == Promise!LastOf(s) IN Last0 < e
<1>1. CASE s = <<>>
  BY <1>1, HubAssumption DEF Promise!LastOf, Events
<1>2. CASE s # <<>>
  <2>1. s[Len(s)] \in Elems(s)
    BY <1>2 DEF Elems
  <2>2. QED
    BY <1>2, <2>1 DEF Promise!LastOf, Below
<1>3. QED
  BY <1>1, <1>2

-----------------------------------------------------------------------------
(* The inductive invariant: an event travels from the backlog of the session *)
(* through the broadcast, the queue and the writer, and is overtaken nowhere. *)

\* What was handed to a connection, written or not.
Held(c) ==
    Elems(got[c]) \union Elems(conn[c].queue)
      \union (IF conn[c].pc = "write" THEN {conn[c].event} ELSE {})

ConnOrder(c) ==
    /\ Rising(got[c]) /\ Rising(conn[c].queue)
    /\ Below(Elems(got[c]), Elems(conn[c].queue))
    /\ conn[c].pc = "write" =>
         /\ conn[c].event \in Events
         /\ Below(Elems(got[c]), {conn[c].event})
         /\ Below({conn[c].event}, Elems(conn[c].queue))
    /\ Below(Held(c), {sent + 1})

LoopOrder(r) ==
    /\ Rising(listener[r].backlog)
    /\ Below(Elems(listener[r].backlog), {sent + 1})
    /\ Locked(r) =>
         /\ listener[r].event \in Events /\ listener[r].event <= sent
         /\ Below({listener[r].event}, Elems(listener[r].backlog))
    /\ \A c \in hub[r] : Below(Held(c), Elems(listener[r].backlog))
    /\ \A c \in listener[r].todo : Locked(r) /\ Below(Held(c), {listener[r].event})

\* Who is registered is open, and at its own replica; who is not yet has nothing.
Registered ==
    /\ \A r \in Replicas : \A c \in hub[r] :
          ReplicaOf[c] = r /\ conn[c].pc \in {"select", "write", "leave"}
    /\ \A c \in Conns : conn[c].pc = "off" => conn[c].queue = <<>> /\ got[c] = <<>>

IInv ==
    /\ TypeOK
    /\ Registered
    /\ \A c \in Conns : ConnOrder(c)
    /\ \A r \in Replicas : LoopOrder(r)

LEMMA InitIInv == Init => IInv
<1> SUFFICES ASSUME Init PROVE IInv
  OBVIOUS
<1>1. TypeOK
  BY HubAssumption DEF Init, TypeOK, Down, Unconnected, Loop, Client
<1>2. Registered
  BY DEF Init, Registered, Unconnected
<1>3. \A c \in Conns : ConnOrder(c)
  BY EmptyElems DEF Init, ConnOrder, Unconnected, Held, Below
<1>4. \A r \in Replicas : LoopOrder(r)
  BY EmptyElems DEF Init, LoopOrder, Down, Held, Below, Locked
<1>5. QED
  BY <1>1, <1>2, <1>3, <1>4 DEF IInv

-----------------------------------------------------------------------------
(* Type correctness, step by step. *)

LEMMA PublishType == ASSUME TypeOK, Publish PROVE TypeOK'
<1>1. sent + 1 \in Events
  BY HubAssumption DEF TypeOK, Publish, Events
<1>2. listener' \in [Replicas -> Loop]
  <2>1. \A r \in Replicas : Append(listener[r].backlog, sent + 1) \in Seq(Events)
    BY <1>1, AppendElems DEF TypeOK, Loop
  <2>2. QED
    BY <2>1 DEF TypeOK, Publish, Loop
<1>3. \A r \in Replicas : listener'[r].todo = listener[r].todo
  BY DEF TypeOK, Publish, Loop
<1>4. QED
  BY <1>2, <1>3, HubAssumption DEF TypeOK, Publish

LEMMA LoopType ==
    ASSUME TypeOK, NEW r \in Replicas, Listen(r) \/ LoseConnection(r) \/ Broadcast(r) \/ Crash(r)
    PROVE  listener' \in [Replicas -> Loop]
<1>1. Down \in Loop
  BY DEF Down, Loop
<1>2. CASE Unlock(r)
  BY <1>2 DEF TypeOK, Loop, Unlock
<1>7. CASE Listen(r)
  BY <1>7 DEF TypeOK, Loop, Listen
<1>3. CASE LoseConnection(r) \/ Crash(r)
  BY <1>1, <1>3 DEF TypeOK, LoseConnection, Crash
<1>4. CASE Take(r)
  BY <1>4, TailElems DEF TypeOK, Take, Loop
<1>5. ASSUME NEW c \in Conns, Enqueue(r, c)
      PROVE  listener' \in [Replicas -> Loop]
  BY <1>5 DEF TypeOK, Loop, Enqueue, Served
<1>6. QED
  BY <1>2, <1>3, <1>4, <1>5, <1>7 DEF Broadcast

LEMMA ConnType ==
    ASSUME TypeOK, NEW c \in Conns,
           NEW pc \in {"off", "select", "write", "leave", "closed"}, NEW queue \in Seq(Events),
           NEW event \in Events \union {0}, Becomes(c, pc, queue, event)
    PROVE  /\ conn' \in [Conns -> Client]
           /\ conn'[c].pc = pc /\ conn'[c].queue = queue /\ conn'[c].event = event
           /\ \A d \in Conns : d # c => conn'[d] = conn[d]
BY DEF TypeOK, Client, Becomes

-----------------------------------------------------------------------------
(* The order of one connection and of one loop, over steps that leave them *)
(* alone or only take from what they hold.                                 *)

\* A connection whose queue, writer and output do not change keeps its order.
LEMMA QuietConn ==
    ASSUME TypeOK, NEW c \in Conns, ConnOrder(c), sent' \in {sent, sent + 1},
           got'[c] = got[c], conn'[c].queue = conn[c].queue, conn'[c].pc = conn[c].pc,
           conn'[c].event = conn[c].event
    PROVE  ConnOrder(c)' /\ Held(c)' = Held(c)
<1>1. Held(c)' = Held(c)
  BY DEF Held
<1>2. Held(c) \subseteq Events
  BY DEF Held, TypeOK, Client, ConnOrder, Elems
<1>3. Below(Held(c), {sent' + 1})
  BY <1>2, HubAssumption DEF ConnOrder, Below, TypeOK, Events
<1>4. QED
  BY <1>1, <1>3 DEF ConnOrder

\* So does one that writes nothing and whose queue loses events.
LEMMA EndingConn ==
    ASSUME TypeOK, NEW c \in Conns, ConnOrder(c), sent' = sent,
           got'[c] = got[c], conn'[c].pc # "write",
           conn'[c].queue = conn[c].queue \/ conn'[c].queue = <<>>
    PROVE  ConnOrder(c)' /\ Held(c)' \subseteq Held(c)
<1>1. Elems(conn'[c].queue) \subseteq Elems(conn[c].queue) /\ Rising(conn'[c].queue)
  BY EmptyElems DEF ConnOrder
<1>2. Held(c)' \subseteq Held(c)
  BY <1>1 DEF Held
<1>3. QED
  BY <1>1, <1>2 DEF ConnOrder, Below

\* A loop keeps its order when its clients hold no more than before and those who
\* join it hold nothing.
LEMMA QuietLoop ==
    ASSUME TypeOK, NEW r \in Replicas, LoopOrder(r), sent' = sent,
           listener'[r] = listener[r],
           \A c \in Conns : Held(c)' \subseteq Held(c),
           \A c \in hub'[r] : c \in Conns /\ (c \in hub[r] \/ Held(c)' = {})
    PROVE  LoopOrder(r)'
<1>1. \A c \in hub'[r] : Below(Held(c)', Elems(listener[r].backlog))
  BY DEF LoopOrder, Below
<1>2. \A c \in listener[r].todo : c \in Conns /\ Locked(r)
                                  /\ Below(Held(c)', {listener[r].event})
  BY DEF LoopOrder, Below, TypeOK
<1>3. QED
  BY <1>1, <1>2 DEF LoopOrder, Locked

-----------------------------------------------------------------------------
(* The invariant, step by step. *)

LEMMA PublishStep == ASSUME IInv, Publish PROVE IInv'
<1>1. TypeOK' /\ TypeOK
  BY PublishType DEF IInv
<1>2. Registered'
  BY DEF IInv, Registered, Publish
<1>3. \A c \in Conns : ConnOrder(c)' /\ Held(c)' = Held(c)
  BY QuietConn DEF IInv, Publish
<1>4. ASSUME NEW r \in Replicas PROVE LoopOrder(r)'
  <2> DEFINE b == listener[r].backlog
  <2>1. b \in Seq(Events) /\ sent + 1 \in Events /\ LoopOrder(r) /\ sent' = sent + 1
        /\ hub'[r] = hub[r] /\ hub[r] \subseteq Conns /\ listener[r].todo \subseteq hub[r]
        /\ sent \in Nat
    BY HubAssumption DEF IInv, TypeOK, Loop, Publish, Events
  <2>2. /\ listener'[r].pc = listener[r].pc /\ listener'[r].event = listener[r].event
        /\ listener'[r].todo = listener[r].todo
        /\ listener'[r].backlog = b \/ listener'[r].backlog = Append(b, sent + 1)
    BY DEF IInv, TypeOK, Loop, Publish
  <2>3. /\ Rising(Append(b, sent + 1))
        /\ Elems(Append(b, sent + 1)) = Elems(b) \union {sent + 1}
    BY <2>1, AppendElems, AppendRising DEF LoopOrder
  <2>4. Rising(listener'[r].backlog)
        /\ Elems(listener'[r].backlog) \subseteq Elems(b) \union {sent + 1}
    BY <2>1, <2>2, <2>3 DEF LoopOrder
  <2>5. Elems(b) \subseteq Events
    BY <2>1 DEF Elems
  <2>6. Below(Elems(listener'[r].backlog), {sent' + 1})
    BY <2>1, <2>4, <2>5 DEF LoopOrder, Below, Events
  <2>7. Locked(r) => Below({listener[r].event}, Elems(listener'[r].backlog))
                     /\ listener[r].event <= sent' /\ listener[r].event \in Events
    BY <2>1, <2>4 DEF LoopOrder, Below, Events
  <2>8. \A c \in hub[r] : Below(Held(c)', Elems(listener'[r].backlog))
    <3>1. \A c \in hub[r] : Held(c)' = Held(c) /\ Below(Held(c), {sent + 1})
                            /\ Below(Held(c), Elems(b))
      BY <1>3, <2>1 DEF IInv, ConnOrder, LoopOrder
    <3>2. QED
      BY <3>1, <2>4 DEF Below
  <2>9. \A c \in listener[r].todo : Locked(r) /\ Below(Held(c)', {listener[r].event})
    <3>1. \A c \in listener[r].todo : Held(c)' = Held(c)
      BY <1>3, <2>1
    <3>2. QED
      BY <3>1, <2>1 DEF LoopOrder
  <2>10. QED
    BY <2>1, <2>2, <2>4, <2>6, <2>7, <2>8, <2>9 DEF LoopOrder, Locked
<1>5. QED
  BY <1>1, <1>2, <1>3, <1>4 DEF IInv

\* The steps of a loop other than a send: what the connections hold stays.
LEMMA LoopStep ==
    ASSUME IInv, NEW r \in Replicas,
           Listen(r) \/ LoseConnection(r) \/ Take(r) \/ Unlock(r)
    PROVE  IInv'
<1>1. TypeOK /\ listener' \in [Replicas -> Loop] /\ sent' = sent /\ hub' = hub /\ got' = got
  BY LoopType DEF IInv, Broadcast, Listen, LoseConnection, Take, Unlock
<1>2. /\ conn' \in [Conns -> Client]
      /\ \A c \in Conns : /\ conn'[c].queue = conn[c].queue /\ conn'[c].pc = conn[c].pc
                          /\ conn'[c].event = conn[c].event
  <2>1. CASE conn' = conn
    BY <1>1, <2>1 DEF TypeOK
  <2>2. CASE conn' = Holed(hub[r])
    BY <1>1, <2>2 DEF TypeOK, Client, Holed
  <2>3. QED
    BY <2>1, <2>2 DEF Listen, LoseConnection, Take, Unlock
<1>3. \A q \in Replicas : q # r => listener'[q] = listener[q]
  BY <1>1 DEF TypeOK, Listen, LoseConnection, Take, Unlock
<1>4. /\ LoopOrder(r) /\ listener[r] \in Loop /\ sent \in Nat /\ hub[r] \subseteq Conns
      /\ listener[r].todo \subseteq hub[r]
  BY <1>1 DEF IInv, TypeOK
<1>5. \A c \in Conns : ConnOrder(c)' /\ Held(c)' = Held(c)
  BY <1>1, <1>2, QuietConn DEF IInv
<1>6. LoopOrder(r)' /\ listener'[r].todo \subseteq hub[r]
  <2>1. CASE Listen(r)
    <3>1. listener'[r].backlog = listener[r].backlog /\ listener'[r].todo = listener[r].todo
          /\ listener'[r].pc = "wait" /\ ~Locked(r)
      BY <1>1, <1>4, <2>1 DEF Listen, Listening, Locked, TypeOK, Loop
    <3>2. listener[r].todo = {}
      BY <3>1, <1>4 DEF LoopOrder
    <3>3. QED
      BY <3>1, <3>2, <1>1, <1>4, <1>5 DEF LoopOrder, Locked
  <2>2. CASE LoseConnection(r)
    <3>1. listener'[r] = Down
      BY <1>1, <2>2 DEF LoseConnection, TypeOK
    <3>2. QED
      BY <3>1, EmptyElems DEF Down, LoopOrder, Below, Locked
  <2>3. CASE Take(r)
    <3> DEFINE b == listener[r].backlog
    <3>1. /\ listener'[r] = [pc |-> "send", backlog |-> Tail(b), event |-> Head(b), todo |-> hub[r]]
          /\ b # <<>>
      BY <1>1, <2>3 DEF Take, TypeOK
    <3>2. b \in Seq(Events) /\ Rising(b)
      BY <1>4 DEF Loop, LoopOrder
    <3>3. /\ Rising(Tail(b)) /\ Below({Head(b)}, Elems(Tail(b)))
          /\ Elems(Tail(b)) \subseteq Elems(b) /\ Head(b) \in Elems(b) /\ Head(b) \in Events
      BY <3>1, <3>2, TailElems, TailRising
    <3>4. Below(Elems(Tail(b)), {sent + 1}) /\ Head(b) <= sent
      BY <1>4, <3>3 DEF LoopOrder, Below, Events
    <3>5. \A c \in hub[r] : /\ Below(Held(c)', Elems(Tail(b)))
                            /\ Below(Held(c)', {Head(b)})
      BY <1>4, <1>5, <3>3 DEF LoopOrder, Below
    <3>6. /\ listener'[r].pc = "send" /\ listener'[r].backlog = Tail(b)
          /\ listener'[r].event = Head(b) /\ listener'[r].todo = hub[r]
      BY <3>1
    <3> HIDE DEF b
    <3>7. QED
      BY <1>1, <3>3, <3>4, <3>5, <3>6 DEF LoopOrder, Locked
  <2>4. CASE Unlock(r)
    <3>1. listener'[r] = [pc |-> "wait", backlog |-> listener[r].backlog, event |-> 0, todo |-> {}]
      BY <1>1, <2>4 DEF Unlock, TypeOK
    <3>2. QED
      BY <3>1, <1>1, <1>4, <1>5 DEF LoopOrder, Locked
  <2>5. QED
    BY <2>1, <2>2, <2>3, <2>4
<1>7. \A q \in Replicas : LoopOrder(q)'
  <2>1. \A q \in Replicas : q # r => LoopOrder(q)'
    BY <1>1, <1>3, <1>5, QuietLoop DEF IInv, TypeOK
  <2>2. QED
    BY <1>6, <2>1
<1>8. TypeOK'
  BY <1>1, <1>2, <1>3, <1>6 DEF TypeOK
<1>9. Registered'
  BY <1>1, <1>2 DEF IInv, Registered, TypeOK
<1>10. QED
  BY <1>5, <1>7, <1>8, <1>9 DEF IInv

LEMMA EnqueueStep ==
    ASSUME IInv, NEW r \in Replicas, NEW c \in Conns, Enqueue(r, c)
    PROVE  IInv'
<1> DEFINE l == listener[r]
           q == conn[c].queue
<1>1. /\ TypeOK /\ listener' \in [Replicas -> Loop] /\ sent' = sent /\ hub' = hub /\ got' = got
      /\ listener'[r].pc = l.pc /\ listener'[r].backlog = l.backlog
      /\ listener'[r].event = l.event /\ listener'[r].todo = l.todo \ {c}
      /\ \A p \in Replicas : p # r => listener'[p] = listener[p]
  BY LoopType DEF IInv, Broadcast, Enqueue, Served, TypeOK, Loop
<1>2. /\ Locked(r) /\ c \in l.todo /\ c \in hub[r] /\ LoopOrder(r) /\ ConnOrder(c)
      /\ l.event \in Events /\ l.event <= sent /\ Below(Held(c), {l.event})
      /\ sent \in Nat /\ q \in Seq(Events) /\ Len(q) <= QueueSize
  <2>1. /\ Locked(r) /\ c \in l.todo /\ LoopOrder(r) /\ ConnOrder(c)
    BY DEF IInv, Enqueue
  <2>2. c \in hub[r] /\ sent \in Nat /\ q \in Seq(Events) /\ Len(q) <= QueueSize
    BY <2>1, <1>1 DEF TypeOK, Client
  <2>3. QED
    BY <2>1, <2>2 DEF LoopOrder
<1>3. \A d \in Conns : d # c => conn'[d] = conn[d]
  BY <1>1 DEF Enqueue, Holed, TypeOK
<1>4. /\ conn'[c].pc = conn[c].pc /\ conn'[c].event = conn[c].event
      /\ conn' \in [Conns -> Client] /\ Len(conn'[c].queue) <= QueueSize
      /\ conn'[c].queue = q \/ conn'[c].queue = Append(q, l.event)
  <2>1. CASE Len(q) < QueueSize
    <3>1. conn' = [conn EXCEPT ![c].queue = Append(@, l.event)]
      BY <2>1 DEF Enqueue
    <3>2. Append(q, l.event) \in Seq(Events) /\ Len(Append(q, l.event)) = Len(q) + 1
      BY <1>2, AppendElems
    <3>3. Len(q) + 1 <= QueueSize
      BY <2>1, <1>2, HubAssumption
    <3>4. QED
      BY <3>1, <3>2, <3>3, <1>1 DEF TypeOK, Client
  <2>2. CASE ~(Len(q) < QueueSize)
    <3>1. conn \in [Conns -> Client]
          /\ conn' = [d \in Conns |-> IF d \in {c} THEN [conn[d] EXCEPT !.holed = TRUE] ELSE conn[d]]
      BY <2>2, <1>1 DEF Enqueue, Holed, TypeOK
    <3>2. \A d \in Conns : [conn[d] EXCEPT !.holed = TRUE] \in Client
      BY <3>1 DEF Client
    <3>3. conn'[c] = [conn[c] EXCEPT !.holed = TRUE]
      BY <3>1
    <3>4. conn'[c].pc = conn[c].pc /\ conn'[c].event = conn[c].event /\ conn'[c].queue = q
      BY <3>1, <3>3 DEF Client
    <3>5. conn' \in [Conns -> Client]
      BY <3>1, <3>2
    <3>6. QED
      BY <3>4, <3>5, <1>2
  <2>3. QED
    BY <2>1, <2>2
<1>5. Below(Elems(got[c]), {l.event}) /\ Below(Elems(q), {l.event})
      /\ (conn[c].pc = "write" => Below({conn[c].event}, {l.event}))
  BY <1>2 DEF Held, Below
<1>6. /\ Rising(conn'[c].queue)
      /\ Elems(conn'[c].queue) \subseteq Elems(q) \union {l.event}
  <2>1. Rising(q) /\ Rising(Append(q, l.event))
    BY <1>2, <1>5, AppendRising DEF ConnOrder
  <2>2. Elems(Append(q, l.event)) = Elems(q) \union {l.event}
    BY <1>2, AppendElems
  <2>3. QED
    BY <1>4, <2>1, <2>2
<1>7. Held(c)' \subseteq Held(c) \union {l.event}
  BY <1>1, <1>4, <1>6 DEF Held
<1>8. ConnOrder(c)'
  <2>1. Below(Held(c)', {sent + 1})
    BY <1>2, <1>7 DEF ConnOrder, Below, Events
  <2>2. Below(Elems(got[c]), Elems(conn'[c].queue))
        /\ (conn[c].pc = "write" => Below({conn[c].event}, Elems(conn'[c].queue)))
    BY <1>2, <1>5, <1>6 DEF ConnOrder, Below
  <2>3. QED
    BY <1>1, <1>2, <1>4, <1>6, <2>1, <2>2 DEF ConnOrder
<1>9. \A d \in Conns : d # c => ConnOrder(d)' /\ Held(d)' = Held(d)
  BY <1>1, <1>3, QuietConn DEF IInv
<1>10. LoopOrder(r)'
  <2>1. \A d \in hub[r] : Below(Held(d)', Elems(l.backlog))
    <3>1. Below(Held(c)', Elems(l.backlog))
      BY <1>2, <1>7 DEF LoopOrder, Below
    <3>2. hub[r] \subseteq Conns
      BY <1>1 DEF TypeOK
    <3>3. QED
      BY <3>1, <3>2, <1>2, <1>9 DEF LoopOrder
  <2>2. \A d \in l.todo \ {c} : Below(Held(d)', {l.event})
    BY <1>1, <1>2, <1>9 DEF LoopOrder, TypeOK
  <2>3. QED
    BY <1>1, <1>2, <2>1, <2>2 DEF LoopOrder, Locked
<1>11. ASSUME NEW p \in Replicas, p # r PROVE LoopOrder(p)'
  <2>1. LoopOrder(p) /\ listener'[p] = listener[p] /\ hub[p] \subseteq Conns
        /\ listener[p].todo \subseteq hub[p]
    BY <1>1, <1>11 DEF IInv, TypeOK
  <2>2. c \notin hub[p]
    BY <1>2, <1>11 DEF IInv, Registered
  <2>3. \A d \in hub[p] : Held(d)' = Held(d)
    BY <1>9, <2>1, <2>2
  <2>4. QED
    BY <1>1, <2>1, <2>3 DEF LoopOrder, Locked
<1>12. TypeOK'
  <2>1. \A p \in Replicas : listener'[p].todo \subseteq hub'[p]
    BY <1>1 DEF TypeOK
  <2>2. \A d \in Conns : Len(conn'[d].queue) <= QueueSize
    BY <1>1, <1>3, <1>4 DEF TypeOK
  <2>3. QED
    BY <1>1, <1>4, <2>1, <2>2 DEF TypeOK
<1>13. Registered'
  <2>1. \A d \in Conns : conn'[d].pc = conn[d].pc
    BY <1>3, <1>4
  <2>2. conn[c].pc # "off"
    BY <1>2 DEF IInv, Registered
  <2>3. \A p \in Replicas : hub[p] \subseteq Conns
    BY <1>1 DEF TypeOK
  <2>4. QED
    BY <1>1, <1>3, <2>1, <2>2, <2>3 DEF IInv, Registered
<1>14. QED
  BY <1>8, <1>9, <1>10, <1>11, <1>12, <1>13 DEF IInv

\* The steps of a connection: its loop's order stays because it holds no more
\* than before, and nothing when it registers.
LEMMA ConnStep ==
    ASSUME IInv, NEW c \in Conns,
           Register(c) \/ Receive(c) \/ Write(c) \/ Leave(c) \/ Unregister(c)
    PROVE  IInv'
<1> DEFINE k == conn[c]
           r == ReplicaOf[c]
<1>1. TypeOK /\ sent' = sent /\ listener' = listener /\ sent \in Nat /\ r \in Replicas
      /\ ConnOrder(c) /\ LoopOrder(r) /\ k \in Client /\ got[c] \in Seq(Events)
      /\ Len(k.queue) <= QueueSize
  BY HubAssumption DEF IInv, TypeOK, Register, Receive, Write, Leave, Unregister
<1>2. /\ conn' \in [Conns -> Client] /\ got' \in [Conns -> Seq(Events)]
      /\ \A d \in Conns : d # c => conn'[d] = conn[d] /\ got'[d] = got[d]
      /\ Len(conn'[c].queue) <= QueueSize
      /\ ConnOrder(c)' /\ Held(c)' \subseteq Held(c)
      /\ conn'[c].pc # "off"
  <2>0. "off" \in {"off", "select", "write", "leave", "closed"}
        /\ <<>> \in Seq(Events) /\ 0 \in Events \union {0} /\ Len(<<>>) <= QueueSize
        /\ k.queue \in Seq(Events) /\ k.event \in Events \union {0}
        /\ got \in [Conns -> Seq(Events)]
    BY <1>1, HubAssumption DEF Client, TypeOK
  <2>1. CASE Register(c)
    BY <2>0, <2>1, <1>1, ConnType, EndingConn DEF Register
  <2>2. CASE Receive(c)
    <3>1. /\ k.queue # <<>> /\ k.pc = "select" /\ got' = got
          /\ Becomes(c, "write", Tail(k.queue), Head(k.queue))
      BY <2>2 DEF Receive
    <3>2. /\ Tail(k.queue) \in Seq(Events) /\ Head(k.queue) \in Events
          /\ Head(k.queue) \in Elems(k.queue) /\ Elems(Tail(k.queue)) \subseteq Elems(k.queue)
          /\ Len(Tail(k.queue)) <= Len(k.queue)
          /\ Rising(Tail(k.queue)) /\ Below({Head(k.queue)}, Elems(Tail(k.queue)))
      BY <2>0, <3>1, <1>1, TailElems, TailRising DEF ConnOrder
    <3>3. /\ conn' \in [Conns -> Client] /\ \A d \in Conns : d # c => conn'[d] = conn[d]
          /\ conn'[c].pc = "write" /\ conn'[c].queue = Tail(k.queue)
          /\ conn'[c].event = Head(k.queue)
      BY <3>1, <3>2, <1>1, ConnType
    <3>4. Held(c)' \subseteq Held(c)
      BY <3>1, <3>2, <3>3 DEF Held
    <3>5. Len(Tail(k.queue)) <= QueueSize
      BY <2>0, <3>2, <1>1, HubAssumption
    <3>6. ConnOrder(c)'
      BY <3>1, <3>2, <3>3, <3>4, <1>1 DEF ConnOrder, Below
    <3>7. QED
      BY <2>0, <3>1, <3>3, <3>4, <3>5, <3>6
  <2>3. CASE Write(c)
    <3>1. /\ k.pc = "write" /\ got' = [got EXCEPT ![c] = Append(@, k.event)]
          /\ Becomes(c, "select", k.queue, 0)
      BY <2>3 DEF Write
    <3>2. k.event \in Events /\ Below(Elems(got[c]), {k.event}) /\ Rising(got[c])
          /\ Below({k.event}, Elems(k.queue))
      BY <3>1, <1>1 DEF ConnOrder
    <3>3. /\ conn' \in [Conns -> Client] /\ \A d \in Conns : d # c => conn'[d] = conn[d]
          /\ conn'[c].pc = "select" /\ conn'[c].queue = k.queue
      BY <2>0, <3>1, <1>1, ConnType
    <3>4. /\ got'[c] = Append(got[c], k.event) /\ Append(got[c], k.event) \in Seq(Events)
          /\ Elems(got'[c]) = Elems(got[c]) \union {k.event} /\ Rising(got'[c])
      <4>1. got'[c] = Append(got[c], k.event)
        BY <2>0, <3>1
      <4>2. /\ Append(got[c], k.event) \in Seq(Events) /\ Rising(Append(got[c], k.event))
            /\ Elems(Append(got[c], k.event)) = Elems(got[c]) \union {k.event}
        BY <3>2, <1>1, AppendElems, AppendRising
      <4>3. QED
        BY <4>1, <4>2
    <3>5. got' \in [Conns -> Seq(Events)] /\ \A d \in Conns : d # c => got'[d] = got[d]
      BY <2>0, <3>1, <3>4
    <3>6. Held(c)' \subseteq Held(c)
      BY <3>1, <3>3, <3>4 DEF Held
    <3>7. ConnOrder(c)'
      BY <3>2, <3>3, <3>4, <3>6, <1>1 DEF ConnOrder, Below
    <3>8. QED
      BY <3>3, <3>5, <3>6, <3>7, <1>1
  <2>4. CASE Leave(c)
    BY <2>0, <2>4, <1>1, ConnType, EndingConn DEF Leave
  <2>5. CASE Unregister(c)
    BY <2>0, <2>5, <1>1, ConnType, EndingConn DEF Unregister
  <2>6. QED
    BY <2>1, <2>2, <2>3, <2>4, <2>5
<1>3. \A d \in Conns : d # c => ConnOrder(d)' /\ Held(d)' = Held(d)
  BY <1>1, <1>2, QuietConn DEF IInv
<1>4. /\ hub' \in [Replicas -> SUBSET Conns]
      /\ \A p \in Replicas : /\ p # r => hub'[p] = hub[p]
                             /\ listener[p].todo \subseteq hub'[p]
                             /\ \A d \in hub'[p] : d \in Conns /\ (d \in hub[p] \/ Held(d)' = {})
  <2>0. hub \in [Replicas -> SUBSET Conns] /\ \A p \in Replicas : listener[p].todo \subseteq hub[p]
    BY <1>1 DEF TypeOK
  <2>1. CASE Register(c)
    <3>1. got[c] = <<>> /\ got' = got /\ Becomes(c, "select", <<>>, 0)
          /\ hub' = [hub EXCEPT ![r] = @ \union {c}]
      BY <2>1, <1>1 DEF IInv, Registered, Register
    <3>2. Held(c)' = {}
      BY <3>1, <1>1, ConnType, EmptyElems DEF Held, TypeOK, Becomes
    <3>3. QED
      BY <2>0, <3>1, <3>2, <1>1
  <2>2. CASE Unregister(c)
    <3>1. ~Locked(r) /\ hub' = [hub EXCEPT ![r] = @ \ {c}]
      BY <2>2 DEF Unregister
    <3>2. listener[r].todo = {}
      BY <3>1, <1>1 DEF LoopOrder
    <3>3. QED
      BY <2>0, <3>1, <3>2, <1>1
  <2>3. CASE Receive(c) \/ Write(c) \/ Leave(c)
    BY <2>0, <2>3 DEF Receive, Write, Leave
  <2>4. QED
    BY <2>1, <2>2, <2>3
<1>5. \A d \in Conns : Held(d)' \subseteq Held(d)
  BY <1>2, <1>3
<1>6. \A p \in Replicas : LoopOrder(p)'
  BY <1>1, <1>4, <1>5, QuietLoop DEF IInv
<1>7. TypeOK'
  <2>1. \A d \in Conns : Len(conn'[d].queue) <= QueueSize
    BY <1>1, <1>2 DEF TypeOK
  <2>2. QED
    BY <1>1, <1>2, <1>4, <2>1 DEF TypeOK
<1>8. Registered'
  <2>1. \A d \in Conns : conn'[d].pc = "off" => conn'[d].queue = <<>> /\ got'[d] = <<>>
    BY <1>2 DEF IInv, Registered
  <2>2. \A p \in Replicas : \A d \in hub'[p] : d # c =>
            ReplicaOf[d] = p /\ conn'[d].pc \in {"select", "write", "leave"}
    <3>1. \A p \in Replicas : \A d \in hub'[p] : d # c => d \in hub[p] /\ d \in Conns
      BY <1>1 DEF Register, Receive, Write, Leave, Unregister, TypeOK
    <3>2. QED
      BY <3>1, <1>2 DEF IInv, Registered
  <2>3. \A p \in Replicas : c \in hub'[p] =>
            ReplicaOf[c] = p /\ conn'[c].pc \in {"select", "write", "leave"}
    <3>1. conn \in [Conns -> Client] /\ hub \in [Replicas -> SUBSET Conns]
      BY <1>1 DEF TypeOK
    <3>2. \A p \in Replicas : c \in hub[p] => p = r
      BY DEF IInv, Registered
    <3>3. CASE Register(c)
      BY <3>1, <3>2, <3>3, <1>1 DEF Register, Becomes
    <3>4. CASE Unregister(c)
      BY <3>1, <3>2, <3>4, <1>1 DEF Unregister
    <3>5. CASE Receive(c) \/ Write(c) \/ Leave(c)
      BY <3>1, <3>2, <3>5 DEF Receive, Write, Leave, Becomes
    <3>6. QED
      BY <3>3, <3>4, <3>5
  <2>4. QED
    BY <2>1, <2>2, <2>3 DEF Registered
<1>9. QED
  BY <1>2, <1>3, <1>6, <1>7, <1>8 DEF IInv

LEMMA CrashStep == ASSUME IInv, NEW r \in Replicas, Crash(r) PROVE IInv'
<1>1. /\ TypeOK /\ listener' \in [Replicas -> Loop] /\ sent' = sent /\ got' = got
      /\ listener'[r] = Down /\ hub'[r] = {} /\ hub' \in [Replicas -> SUBSET Conns]
      /\ \A p \in Replicas : p # r => listener'[p] = listener[p] /\ hub'[p] = hub[p]
  BY LoopType DEF IInv, Crash, TypeOK
<1>2. /\ conn' \in [Conns -> Client]
      /\ \A c \in Conns : /\ conn'[c].queue = conn[c].queue
                          /\ conn'[c].pc = IF c \in hub[r] THEN "closed" ELSE conn[c].pc
                          /\ conn'[c].event = conn[c].event
  <2>1. conn \in [Conns -> Client]
        /\ conn' = [c \in Conns |-> IF c \in hub[r] THEN [conn[c] EXCEPT !.pc = "closed"] ELSE conn[c]]
    BY <1>1 DEF Crash, TypeOK
  <2>2. QED
    BY <2>1 DEF Client
<1>3. \A c \in Conns : ConnOrder(c)' /\ Held(c)' \subseteq Held(c)
  <2>1. \A c \in hub[r] : conn'[c].pc # "write" \/ c \notin Conns
    BY <1>2
  <2>2. QED
    BY <1>1, <1>2, <2>1, QuietConn, EndingConn DEF IInv
<1>4. \A p \in Replicas : LoopOrder(p)'
  <2>1. LoopOrder(r)'
    BY <1>1, EmptyElems DEF Down, LoopOrder, Below, Locked
  <2>2. \A p \in Replicas : p # r => LoopOrder(p)'
    BY <1>1, <1>3, QuietLoop DEF IInv, TypeOK
  <2>3. QED
    BY <2>1, <2>2
<1>5. TypeOK'
  <2>1. \A c \in Conns : Len(conn'[c].queue) <= QueueSize
    BY <1>1, <1>2 DEF TypeOK
  <2>2. \A p \in Replicas : listener'[p].todo \subseteq hub'[p]
    BY <1>1 DEF TypeOK, Down
  <2>3. sent' \in 0..MaxEvents /\ got' \in [Conns -> Seq(Events)]
    BY <1>1 DEF TypeOK
  <2>4. QED
    BY <1>1, <1>2, <2>1, <2>2, <2>3 DEF TypeOK
<1>6. Registered'
  <2>1. \A c \in Conns : conn'[c].pc = "off" => conn[c].pc = "off"
    BY <1>2
  <2>2. \A c \in Conns : conn'[c].pc = "off" => conn'[c].queue = <<>> /\ got'[c] = <<>>
    BY <1>1, <1>2, <2>1 DEF IInv, Registered
  <2>3. \A p \in Replicas : \A c \in hub'[p] : c \in Conns /\ p # r /\ c \in hub[p]
    BY <1>1 DEF TypeOK
  <2>4. \A p \in Replicas : \A c \in hub'[p] : c \notin hub[r]
    BY <2>3 DEF IInv, Registered
  <2>5. QED
    BY <1>2, <2>2, <2>3, <2>4 DEF IInv, Registered
<1>7. QED
  BY <1>3, <1>4, <1>5, <1>6 DEF IInv

LEMMA StepIInv == IInv /\ [Next]_vars => IInv'
<1> SUFFICES ASSUME IInv, [Next]_vars PROVE IInv'
  OBVIOUS
<1>1. CASE Publish
  BY <1>1, PublishStep
<1>2. ASSUME NEW r \in Replicas, Listen(r) \/ LoseConnection(r) \/ Broadcast(r) \/ Crash(r)
      PROVE  IInv'
  BY <1>2, LoopStep, EnqueueStep, CrashStep DEF Broadcast
<1>3. ASSUME NEW c \in Conns,
             Register(c) \/ Receive(c) \/ Write(c) \/ Leave(c) \/ Unregister(c)
      PROVE  IInv'
  BY <1>3, ConnStep
<1>4. CASE UNCHANGED vars
  BY <1>4 DEF vars, IInv, TypeOK, Registered, ConnOrder, LoopOrder, Held, Locked
<1>5. QED
  BY <1>1, <1>2, <1>3, <1>4 DEF Next

LEMMA AlwaysIInv == Spec => []IInv
BY InitIInv, StepIInv, PTL DEF Spec

-----------------------------------------------------------------------------
(* The theorems. *)

\* The state of loops, clients and queues is well formed: no queue holds more than
\* QueueSize, and only registered clients are served.
THEOREM FeedTyped == Spec => []TypeOK
<1>1. IInv => TypeOK
  BY DEF IInv
<1>2. QED
  BY <1>1, AlwaysIInv, PTL

\* A broadcast never sends on the channel of a client that was unregistered, since
\* both hold the hub's lock: the replica does not panic.
THEOREM NoSendAfterClose == Spec => []NoSendOnClosed
<1>1. IInv => NoSendOnClosed
  BY DEF IInv, TypeOK, Registered, NoSendOnClosed
<1>2. QED
  BY <1>1, AlwaysIInv, PTL

\* For a step to be one of the abstract feed, what it writes must be new to the
\* connection and published.
LEMMA StepFeeds == IInv /\ [Next]_vars => [Promise!FeedNext]_<<sent, got>>
<1> SUFFICES ASSUME IInv, [Next]_vars PROVE [Promise!FeedNext]_<<sent, got>>
  OBVIOUS
<1>1. CASE Publish
  BY <1>1 DEF Publish, Promise!FeedNext, Promise!Send
<1>2. ASSUME NEW c \in Conns, Write(c) PROVE Promise!FeedNext
  <2> DEFINE e == conn[c].event
  <2>1. /\ e \in Events /\ Below(Elems(got[c]), {e}) /\ Below(Held(c), {sent + 1})
        /\ e \in Held(c)
    BY <1>2 DEF IInv, ConnOrder, Write, Held
  <2>2. got[c] \in Seq(Events) /\ sent \in Nat
    BY DEF IInv, TypeOK
  <2>3. Promise!LastOf(got[c]) < e
    BY <2>1, <2>2, LastBelow
  <2>4. e <= sent
    BY <2>1, <2>2 DEF Below, Events
  <2>5. Promise!Deliver(c, e)
    BY <1>2, <2>3, <2>4 DEF Write, Promise!Deliver
  <2>6. QED
    BY <2>1, <2>5 DEF Promise!FeedNext, Events
<1>3. ASSUME NEW r \in Replicas, Listen(r) \/ LoseConnection(r) \/ Broadcast(r) \/ Crash(r)
      PROVE  UNCHANGED <<sent, got>>
  BY <1>3 DEF Listen, LoseConnection, Broadcast, Take, Enqueue, Unlock, Crash
<1>4. ASSUME NEW c \in Conns, Register(c) \/ Receive(c) \/ Leave(c) \/ Unregister(c)
      PROVE  UNCHANGED <<sent, got>>
  BY <1>4 DEF Register, Receive, Leave, Unregister
<1>5. QED
  BY <1>1, <1>2, <1>3, <1>4 DEF Next, vars

\* The queues, the lock and the goroutines keep what the abstract feed promises:
\* every connection is sent published events in their order, none twice.
THEOREM FeedInOrder == Spec => ImplementsFeed
<1>1. Init => Promise!FeedInit
  BY DEF Init, Promise!FeedInit
<1>2. QED
  BY <1>1, AlwaysIInv, StepFeeds, PTL DEF Spec, ImplementsFeed, Promise!FeedSpec

-----------------------------------------------------------------------------
(* No gap without a reason.  The order of events is known from above.  What   *)
(* is added is which events a connection has yet to come to (Coming): with    *)
(* one of them, all later ones up to the last that was published.             *)

\* With an event, all that follow up to n; with two, all in between.
UpTo(S, n) == \A x \in S, z \in Events : x < z /\ z <= n => z \in S

Convex(S) == \A x, y \in S, z \in Events : x < z /\ z < y => z \in S

\* What was handed to a connection or is on its way there.
Coming(c) ==
    LET l == listener[ReplicaOf[c]]
    IN  Held(c) \union Elems(l.backlog) \union (IF c \in l.todo THEN {l.event} ELSE {})

Live(c) == conn[c].pc \in {"select", "write"}

Whole(c) ==
    /\ Convex(Elems(got[c]))
    /\ Live(c) => UpTo(Coming(c), sent) /\ (~Listening(ReplicaOf[c]) => Coming(c) = {})

\* The hub has every client that is not closed.
AllRegistered ==
    \A c \in Conns : conn[c].pc \in {"select", "write", "leave"} => c \in hub[ReplicaOf[c]]

BacklogWhole ==
    \A r \in Replicas : /\ UpTo(Elems(listener[r].backlog), sent)
                        /\ ~Listening(r) => listener[r].backlog = <<>>

GInv ==
    /\ AllRegistered
    /\ BacklogWhole
    /\ \A c \in Conns : ~conn[c].holed => Whole(c)

-----------------------------------------------------------------------------
LEMMA ElemsTyped == ASSUME NEW s \in Seq(Events) PROVE Elems(s) \subseteq Events
BY DEF Elems

LEMMA HeadElems ==
    ASSUME NEW s \in Seq(Events), s # <<>>
    PROVE  Elems(s) = {Head(s)} \union Elems(Tail(s))
<1>1. Len(s) >= 1 /\ Len(Tail(s)) = Len(s) - 1 /\ Head(s) = s[1] /\ Len(s) \in Nat
      /\ \A i \in 1..Len(Tail(s)) : Tail(s)[i] = s[i + 1]
  OBVIOUS
<1>2. \A i \in 2..Len(s) : i - 1 \in 1..Len(Tail(s)) /\ Tail(s)[i - 1] = s[i]
  BY <1>1
<1>3. Elems(s) \subseteq {Head(s)} \union Elems(Tail(s))
  BY <1>1, <1>2 DEF Elems
<1>4. {Head(s)} \union Elems(Tail(s)) \subseteq Elems(s)
  BY <1>1 DEF Elems
<1>5. QED
  BY <1>3, <1>4

\* In order and without gaps among all elements means that neighbours differ by one.
LEMMA ConvexSteps ==
    ASSUME NEW s \in Seq(Events), Rising(s), Convex(Elems(s)), NEW i \in 2..Len(s)
    PROVE  s[i] = s[i - 1] + 1
<1>1. /\ i \in 1..Len(s) /\ i - 1 \in 1..Len(s) /\ s[i] \in Events /\ s[i - 1] \in Events
      /\ s[i - 1] < s[i] /\ Len(s) \in Nat
  BY DEF Rising
<1>2. ASSUME s[i - 1] + 1 # s[i] PROVE FALSE
  <2>1. s[i - 1] + 1 \in Events /\ s[i - 1] + 1 < s[i]
    BY <1>1, <1>2, HubAssumption DEF Events
  <2>2. s[i - 1] + 1 \in Elems(s)
    <3>1. s[i - 1] \in Elems(s) /\ s[i] \in Elems(s) /\ s[i - 1] < s[i - 1] + 1
      BY <1>1 DEF Elems, Events
    <3>2. QED
      BY <2>1, <3>1 DEF Convex
  <2>3. PICK j \in 1..Len(s) : s[j] = s[i - 1] + 1
    BY <2>2 DEF Elems
  <2>4. i - 1 < j /\ j < i
    <3>1. ~(j < i - 1) /\ ~(i < j) /\ j # i - 1 /\ j # i
      BY <1>1, <2>1, <2>3 DEF Rising, Events
    <3>2. QED
      BY <1>1, <3>1
  <2>5. QED
    BY <1>1, <2>4
<1>3. QED
  BY <1>2

\* What is known of all that a connection may be handed.
LEMMA ComingTyped ==
    ASSUME IInv, NEW c \in Conns
    PROVE  /\ Coming(c) \subseteq Events /\ ReplicaOf[c] \in Replicas
           /\ Elems(got[c]) \subseteq Events
           /\ listener[ReplicaOf[c]] \in Loop /\ conn[c] \in Client
           /\ listener[ReplicaOf[c]].backlog \in Seq(Events) /\ conn[c].queue \in Seq(Events)
           /\ sent \in Nat
<1>1. /\ ReplicaOf[c] \in Replicas /\ conn[c] \in Client /\ listener[ReplicaOf[c]] \in Loop
      /\ got[c] \in Seq(Events) /\ conn[c].queue \in Seq(Events)
      /\ listener[ReplicaOf[c]].backlog \in Seq(Events) /\ sent \in Nat
  BY HubAssumption DEF IInv, TypeOK, Loop, Client
<1>2. Elems(got[c]) \subseteq Events /\ Elems(conn[c].queue) \subseteq Events
      /\ Elems(listener[ReplicaOf[c]].backlog) \subseteq Events
  BY <1>1 DEF Elems
<1>3. conn[c].pc = "write" => conn[c].event \in Events
  BY DEF IInv, ConnOrder
<1>4. c \in listener[ReplicaOf[c]].todo => listener[ReplicaOf[c]].event \in Events
  BY <1>1 DEF IInv, LoopOrder
<1>5. QED
  BY <1>1, <1>2, <1>3, <1>4 DEF Coming, Held

\* A connection that gets nothing written keeps what it has; if it is still live,
\* what is coming must be the same, and a loop that ends must have had nothing for it.
LEMMA WholeSame ==
    ASSUME NEW c \in Conns, Whole(c), got'[c] = got[c], sent' = sent,
           Live(c)' => /\ Live(c) /\ Coming(c)' = Coming(c)
                       /\ Listening(ReplicaOf[c]) => Listening(ReplicaOf[c])'
    PROVE  Whole(c)'
BY DEF Whole

-----------------------------------------------------------------------------
(* The registration of clients, and the backlogs. *)

LEMMA AllRegisteredStep == IInv /\ AllRegistered /\ [Next]_vars => AllRegistered'
<1> SUFFICES ASSUME IInv, AllRegistered, [Next]_vars, NEW c \in Conns,
                    conn'[c].pc \in {"select", "write", "leave"}
             PROVE  c \in hub'[ReplicaOf[c]]
  BY DEF AllRegistered
<1>1. /\ conn \in [Conns -> Client] /\ hub \in [Replicas -> SUBSET Conns]
      /\ ReplicaOf[c] \in Replicas
      /\ conn[c].pc \in {"select", "write", "leave"} => c \in hub[ReplicaOf[c]]
  BY HubAssumption DEF IInv, TypeOK, AllRegistered
<1>2. CASE UNCHANGED <<hub, conn>>
  BY <1>1, <1>2
<1>3. ASSUME NEW r \in Replicas, LoseConnection(r)
      PROVE  c \in hub'[ReplicaOf[c]]
  BY <1>1, <1>3 DEF LoseConnection, Holed, Client
<1>4. ASSUME NEW r \in Replicas, NEW d \in Conns, Enqueue(r, d)
      PROVE  c \in hub'[ReplicaOf[c]]
  <2>1. hub' = hub /\ conn'[c].pc = conn[c].pc
    BY <1>1, <1>4 DEF Enqueue, Holed, Client
  <2>2. QED
    BY <1>1, <2>1
<1>5. ASSUME NEW r \in Replicas, Crash(r)
      PROVE  c \in hub'[ReplicaOf[c]]
  <2>1. c \notin hub[r] /\ conn'[c] = conn[c]
    BY <1>1, <1>5 DEF Crash, Client
  <2>2. QED
    BY <1>1, <1>5, <2>1 DEF Crash
<1>6. ASSUME NEW d \in Conns, Register(d) \/ Receive(d) \/ Write(d) \/ Leave(d) \/ Unregister(d)
      PROVE  c \in hub'[ReplicaOf[c]]
  <2>1. CASE d # c
    <3>1. conn'[c] = conn[c]
      BY <1>1, <1>6, <2>1 DEF Register, Receive, Write, Leave, Unregister, Becomes
    <3>2. c \in hub[ReplicaOf[c]] => c \in hub'[ReplicaOf[c]]
      BY <1>1, <1>6, <2>1, HubAssumption DEF Register, Receive, Write, Leave, Unregister
    <3>3. QED
      BY <1>1, <3>1, <3>2
  <2>2. CASE d = c
    <3>1. CASE Register(c)
      BY <1>1, <3>1 DEF Register
    <3>2. CASE Receive(c) \/ Write(c) \/ Leave(c)
      BY <1>1, <3>2 DEF Receive, Write, Leave
    <3>3. CASE Unregister(c)
      BY <1>1, <3>3 DEF Unregister, Becomes
    <3>4. QED
      BY <1>6, <2>2, <3>1, <3>2, <3>3
  <2>3. QED
    BY <2>1, <2>2
<1>7. QED
  BY <1>2, <1>3, <1>4, <1>5, <1>6
     DEF Next, Publish, Listen, Broadcast, Take, Unlock, vars

\* The backlog only grows at its end, by the event that is published, and only
\* loses its head.
LEMMA BacklogMoves ==
    ASSUME IInv, [Next]_vars, NEW r \in Replicas
    PROVE  \/ Publish
           \/ sent' = sent /\ listener'[r].backlog = listener[r].backlog
                /\ (Listening(r) => Listening(r)')
           \/ sent' = sent /\ listener'[r] = Down
           \/ /\ sent' = sent /\ listener[r].backlog # <<>> /\ Listening(r)'
              /\ listener'[r].backlog = Tail(listener[r].backlog)
<1>1. listener \in [Replicas -> Loop]
  BY DEF IInv, TypeOK
<1>2. CASE UNCHANGED <<sent, listener>>
  BY <1>2 DEF Listening
<1>3. ASSUME NEW p \in Replicas, Listen(p)
      PROVE  sent' = sent /\ listener'[r].backlog = listener[r].backlog
               /\ (Listening(r) => Listening(r)')
  BY <1>1, <1>3 DEF Listen, Listening, Loop
<1>4. ASSUME NEW p \in Replicas, LoseConnection(p) \/ Crash(p)
      PROVE  sent' = sent /\ (listener'[r] = Down \/ listener'[r] = listener[r])
  BY <1>1, <1>4 DEF LoseConnection, Crash
<1>5. ASSUME NEW p \in Replicas, Take(p)
      PROVE  \/ sent' = sent /\ listener'[r] = listener[r]
             \/ /\ sent' = sent /\ listener[r].backlog # <<>> /\ Listening(r)'
                /\ listener'[r].backlog = Tail(listener[r].backlog)
  BY <1>1, <1>5 DEF Take, Listening
<1>6. ASSUME NEW p \in Replicas, NEW c \in Conns, Enqueue(p, c)
      PROVE  sent' = sent /\ listener'[r].backlog = listener[r].backlog
               /\ listener'[r].pc = listener[r].pc
  BY <1>1, <1>6 DEF Enqueue, Served, Loop
<1>7. ASSUME NEW p \in Replicas, Unlock(p)
      PROVE  sent' = sent /\ listener'[r].backlog = listener[r].backlog
               /\ (Listening(r) => Listening(r)')
  BY <1>1, <1>7 DEF Unlock, Listening, Loop
<1>8. QED
  BY <1>2, <1>3, <1>4, <1>5, <1>6, <1>7
     DEF Next, Broadcast, Listening, Register, Receive, Write, Leave, Unregister, vars

LEMMA BacklogWholeStep == IInv /\ BacklogWhole /\ [Next]_vars => BacklogWhole'
<1> SUFFICES ASSUME IInv, BacklogWhole, [Next]_vars, NEW r \in Replicas
             PROVE  /\ UpTo(Elems(listener'[r].backlog), sent')
                    /\ ~Listening(r)' => listener'[r].backlog = <<>>
  BY DEF BacklogWhole, UpTo
<1> DEFINE b == listener[r].backlog
<1>1. /\ listener \in [Replicas -> Loop] /\ b \in Seq(Events) /\ Elems(b) \subseteq Events
      /\ UpTo(Elems(b), sent) /\ Rising(b) /\ sent \in Nat
      /\ ~Listening(r) => b = <<>>
  <2>1. listener \in [Replicas -> Loop] /\ sent \in Nat /\ LoopOrder(r)
    BY DEF IInv, TypeOK
  <2>2. b \in Seq(Events)
    BY <2>1 DEF Loop
  <2>3. Elems(b) \subseteq Events
    BY <2>2, ElemsTyped
  <2>4. UpTo(Elems(b), sent) /\ (~Listening(r) => b = <<>>)
    BY DEF BacklogWhole
  <2>5. QED
    BY <2>1, <2>2, <2>3, <2>4 DEF LoopOrder
<1>2. CASE Publish
  <2>1. CASE Listening(r)
    <3>1. sent' = sent + 1 /\ sent + 1 \in Events /\ Listening(r)'
          /\ listener'[r].backlog = Append(b, sent + 1)
      BY <1>1, <1>2, <2>1, HubAssumption DEF Publish, Listening, Loop, Events
    <3>2. Elems(listener'[r].backlog) = Elems(b) \union {sent + 1}
      BY <1>1, <3>1, AppendElems
    <3>3. QED
      BY <1>1, <3>1, <3>2 DEF UpTo, Events
  <2>2. CASE ~Listening(r)
    <3>1. listener'[r] = listener[r] /\ b = <<>>
      BY <1>1, <1>2, <2>2 DEF Publish
    <3>2. QED
      BY <3>1, EmptyElems DEF UpTo
  <2>3. QED
    BY <2>1, <2>2
<1>3. CASE sent' = sent /\ listener'[r].backlog = b /\ (Listening(r) => Listening(r)')
  BY <1>1, <1>3
<1>4. CASE listener'[r] = Down
  BY <1>4, EmptyElems DEF Down, UpTo
<1>5. CASE sent' = sent /\ b # <<>> /\ Listening(r)' /\ listener'[r].backlog = Tail(b)
  <2>1. Elems(b) = {Head(b)} \union Elems(Tail(b)) /\ Below({Head(b)}, Elems(Tail(b)))
        /\ Head(b) \in Events
    BY <1>1, <1>5, HeadElems, TailRising, TailElems
  <2>2. UpTo(Elems(Tail(b)), sent)
    BY <1>1, <2>1 DEF UpTo, Below, Events
  <2>3. QED
    BY <1>5, <2>2
<1>6. QED
  BY <1>2, <1>3, <1>4, <1>5, BacklogMoves

-----------------------------------------------------------------------------
(* What is coming to a connection, step by step. *)

LEMMA PublishWhole ==
    ASSUME IInv, GInv, Publish, NEW c \in Conns, Whole(c)
    PROVE  Whole(c)'
<1> DEFINE r == ReplicaOf[c]
<1>1. /\ Coming(c) \subseteq Events /\ r \in Replicas /\ sent \in Nat
      /\ listener \in [Replicas -> Loop] /\ listener[r].backlog \in Seq(Events)
      /\ sent' = sent + 1 /\ sent + 1 \in Events /\ UNCHANGED <<conn, got>>
  BY ComingTyped, HubAssumption DEF IInv, TypeOK, Publish, Events
<1>2. CASE ~Listening(r)
  <2>1. listener'[r] = listener[r]
    BY <1>1, <1>2 DEF Publish
  <2>2. Coming(c)' = Coming(c)
    BY <1>1, <2>1 DEF Coming, Held
  <2>3. QED
    BY <1>1, <1>2, <2>1, <2>2 DEF Whole, Live, UpTo, Listening
<1>3. CASE Listening(r)
  <2>1. /\ listener'[r].backlog = Append(listener[r].backlog, sent + 1) /\ Listening(r)'
        /\ listener'[r].todo = listener[r].todo /\ listener'[r].event = listener[r].event
    BY <1>1, <1>3 DEF Publish, Loop, Listening
  <2>2. Elems(listener'[r].backlog) = Elems(listener[r].backlog) \union {sent + 1}
    BY <1>1, <2>1, AppendElems
  <2>3. Coming(c)' = Coming(c) \union {sent + 1}
    BY <1>1, <2>1, <2>2 DEF Coming, Held
  <2>4. UpTo(Coming(c), sent) => UpTo(Coming(c)', sent')
    BY <1>1, <2>3 DEF UpTo, Events
  <2>5. QED
    BY <1>1, <2>1, <2>4 DEF Whole, Live
<1>4. QED
  BY <1>2, <1>3

\* The steps of a loop: the event in hand was the head of the backlog, and is the
\* last in the queue afterwards.
LEMMA ListenWhole ==
    ASSUME IInv, NEW r \in Replicas, Listen(r), NEW c \in Conns, Whole(c)
    PROVE  Whole(c)'
<1>1. listener \in [Replicas -> Loop] /\ ReplicaOf[c] \in Replicas /\ UNCHANGED <<sent, conn, got>>
  BY ComingTyped DEF IInv, TypeOK, Listen
<1>2. /\ \A p \in Replicas : /\ listener'[p].backlog = listener[p].backlog
                             /\ listener'[p].todo = listener[p].todo
                             /\ listener'[p].event = listener[p].event
                             /\ Listening(p) => Listening(p)'
  BY <1>1 DEF Listen, Listening, Loop
<1>3. Coming(c)' = Coming(c)
  BY <1>1, <1>2 DEF Coming, Held
<1>4. QED
  BY <1>1, <1>2, <1>3, WholeSame DEF Live

LEMMA LoseWhole ==
    ASSUME IInv, GInv, NEW r \in Replicas, LoseConnection(r), NEW c \in Conns, Whole(c),
           ~conn'[c].holed
    PROVE  Whole(c)'
<1>1. /\ listener \in [Replicas -> Loop] /\ conn \in [Conns -> Client]
      /\ ReplicaOf[c] \in Replicas /\ UNCHANGED <<sent, got>>
  BY ComingTyped DEF IInv, TypeOK, LoseConnection
<1>2. c \notin hub[r] /\ conn'[c] = conn[c]
  BY <1>1 DEF LoseConnection, Holed, Client
<1>3. CASE ReplicaOf[c] = r
  <2>1. ~Live(c)'
    BY <1>2, <1>3 DEF GInv, AllRegistered, Live
  <2>2. QED
    BY <1>1, <2>1, WholeSame
<1>4. CASE ReplicaOf[c] # r
  <2>1. listener'[ReplicaOf[c]] = listener[ReplicaOf[c]]
    BY <1>1, <1>4 DEF LoseConnection
  <2>2. QED
    BY <1>1, <1>2, <2>1, WholeSame DEF Live, Coming, Held, Listening
<1>5. QED
  BY <1>3, <1>4

LEMMA TakeWhole ==
    ASSUME IInv, GInv, NEW r \in Replicas, Take(r), NEW c \in Conns, Whole(c)
    PROVE  Whole(c)'
<1>1. listener \in [Replicas -> Loop] /\ ReplicaOf[c] \in Replicas /\ UNCHANGED <<sent, conn, got>>
  BY ComingTyped DEF IInv, TypeOK, Take
<1>2. CASE ReplicaOf[c] = r /\ Live(c)
  <2> DEFINE b == listener[r].backlog
  <2>1. b \in Seq(Events) /\ b # <<>> /\ listener[r].todo = {}
    BY <1>1, ComingTyped, <1>2 DEF IInv, LoopOrder, Take, Locked
  <2>2. /\ listener'[r].pc = "send" /\ listener'[r].backlog = Tail(b)
        /\ listener'[r].event = Head(b) /\ listener'[r].todo = hub[r]
    BY <1>1 DEF Take
  <2>3. c \in hub[r]
    BY <1>2 DEF GInv, AllRegistered, Live
  <2>4. Elems(b) = {Head(b)} \union Elems(Tail(b))
    BY <2>1, HeadElems
  <2>5. Coming(c)' = Coming(c)
    BY <1>1, <1>2, <2>1, <2>2, <2>3, <2>4 DEF Coming, Held
  <2>6. QED
    BY <1>1, <1>2, <2>2, <2>5, WholeSame DEF Live, Listening
<1>3. CASE ~Live(c)
  BY <1>1, <1>3, WholeSame DEF Live
<1>4. CASE ReplicaOf[c] # r
  <2>1. listener'[ReplicaOf[c]] = listener[ReplicaOf[c]]
    BY <1>1, <1>4 DEF Take
  <2>2. QED
    BY <1>1, <2>1, WholeSame DEF Live, Coming, Held, Listening
<1>5. QED
  BY <1>2, <1>3, <1>4

LEMMA EnqueueWhole ==
    ASSUME IInv, NEW r \in Replicas, NEW d \in Conns, Enqueue(r, d), NEW c \in Conns, Whole(c),
           ~conn'[c].holed
    PROVE  Whole(c)'
<1>1. /\ listener \in [Replicas -> Loop] /\ conn \in [Conns -> Client]
      /\ ReplicaOf[c] \in Replicas /\ UNCHANGED <<sent, got>>
  BY ComingTyped DEF IInv, TypeOK, Enqueue
<1>2. d \in hub[r] /\ ReplicaOf[d] = r /\ d \in listener[r].todo
  BY DEF IInv, TypeOK, Registered, Enqueue
<1>3. \A p \in Replicas : /\ listener'[p].backlog = listener[p].backlog
                          /\ listener'[p].event = listener[p].event
                          /\ listener'[p].pc = listener[p].pc
                          /\ listener'[p].todo = IF p = r THEN listener[p].todo \ {d}
                                                 ELSE listener[p].todo
  BY <1>1 DEF Enqueue, Served, Loop
<1>4. CASE c = d
  <2>1. /\ conn'[c].queue = Append(conn[c].queue, listener[r].event)
        /\ conn'[c].pc = conn[c].pc /\ conn'[c].event = conn[c].event
    BY <1>1, <1>4 DEF Enqueue, Holed, Client
  <2>2. conn[c].queue \in Seq(Events) /\ listener[r].event \in Events
    BY <1>2, <1>4, ComingTyped DEF IInv, LoopOrder
  <2>3. Elems(conn'[c].queue) = Elems(conn[c].queue) \union {listener[r].event}
    BY <2>1, <2>2, AppendElems
  <2>4. Coming(c)' = Coming(c)
    BY <1>1, <1>2, <1>3, <1>4, <2>1, <2>3 DEF Coming, Held
  <2>5. QED
    BY <1>1, <1>3, <2>1, <2>4, WholeSame DEF Live, Listening
<1>5. CASE c # d
  <2>1. conn'[c] = conn[c]
    BY <1>1, <1>5 DEF Enqueue, Holed, Client
  <2>2. Coming(c)' = Coming(c)
    BY <1>1, <1>3, <1>5, <2>1 DEF Coming, Held
  <2>3. QED
    BY <1>1, <1>3, <2>1, <2>2, WholeSame DEF Live, Listening
<1>6. QED
  BY <1>4, <1>5

LEMMA UnlockWhole ==
    ASSUME IInv, NEW r \in Replicas, Unlock(r), NEW c \in Conns, Whole(c)
    PROVE  Whole(c)'
<1>1. listener \in [Replicas -> Loop] /\ ReplicaOf[c] \in Replicas /\ UNCHANGED <<sent, conn, got>>
  BY ComingTyped DEF IInv, TypeOK, Unlock
<1>2. CASE ReplicaOf[c] = r
  <2>1. listener[r].todo = {} /\ listener'[r].todo = {} /\ listener'[r].pc = "wait"
        /\ listener'[r].backlog = listener[r].backlog
    BY <1>1 DEF Unlock
  <2>2. Coming(c)' = Coming(c)
    BY <1>1, <1>2, <2>1 DEF Coming, Held
  <2>3. QED
    BY <1>1, <1>2, <2>1, <2>2, WholeSame DEF Live, Listening
<1>3. CASE ReplicaOf[c] # r
  <2>1. listener'[ReplicaOf[c]] = listener[ReplicaOf[c]]
    BY <1>1, <1>3 DEF Unlock
  <2>2. QED
    BY <1>1, <2>1, WholeSame DEF Live, Coming, Held, Listening
<1>4. QED
  BY <1>2, <1>3

LEMMA CrashWhole ==
    ASSUME IInv, GInv, NEW r \in Replicas, Crash(r), NEW c \in Conns, Whole(c)
    PROVE  Whole(c)'
<1>1. /\ listener \in [Replicas -> Loop] /\ conn \in [Conns -> Client]
      /\ ReplicaOf[c] \in Replicas /\ UNCHANGED <<sent, got>>
  BY ComingTyped DEF IInv, TypeOK, Crash
<1>2. CASE Live(c)'
  <2>1. c \notin hub[r] /\ conn'[c] = conn[c]
    BY <1>1, <1>2 DEF Crash, Live, Client
  <2>2. ReplicaOf[c] # r
    BY <1>2, <2>1 DEF GInv, AllRegistered, Live
  <2>3. listener'[ReplicaOf[c]] = listener[ReplicaOf[c]]
    BY <1>1, <2>2 DEF Crash
  <2>4. QED
    BY <1>1, <2>1, <2>3, WholeSame DEF Live, Coming, Held, Listening
<1>3. CASE ~Live(c)'
  BY <1>1, <1>3, WholeSame
<1>4. QED
  BY <1>2, <1>3

-----------------------------------------------------------------------------
(* The steps of the connection itself, and of others. *)

\* A new client is not served before the next event of the backlog.
LEMMA RegisterWhole ==
    ASSUME IInv, GInv, NEW c \in Conns, Register(c)
    PROVE  Whole(c)'
<1>1. /\ conn \in [Conns -> Client] /\ ReplicaOf[c] \in Replicas
      /\ UNCHANGED <<sent, listener, got>> /\ got[c] = <<>>
  BY ComingTyped DEF IInv, TypeOK, Registered, Register
<1>2. conn'[c].queue = <<>> /\ conn'[c].pc = "select"
  BY <1>1 DEF Register, Becomes
<1>3. c \notin listener[ReplicaOf[c]].todo
  BY <1>1 DEF IInv, LoopOrder, Register
<1>4. Coming(c)' = Elems(listener[ReplicaOf[c]].backlog)
  BY <1>1, <1>2, <1>3, EmptyElems DEF Coming, Held
<1>5. UpTo(Coming(c)', sent) /\ (~Listening(ReplicaOf[c]) => Coming(c)' = {})
  BY <1>1, <1>4, EmptyElems DEF GInv, BacklogWhole
<1>6. Convex(Elems(got'[c]))
  BY <1>1, EmptyElems DEF Convex
<1>7. QED
  BY <1>1, <1>5, <1>6 DEF Whole, UpTo, Listening

LEMMA ReceiveWhole ==
    ASSUME IInv, NEW c \in Conns, Receive(c), Whole(c)
    PROVE  Whole(c)'
<1>1. /\ conn \in [Conns -> Client] /\ ReplicaOf[c] \in Replicas
      /\ conn[c].queue \in Seq(Events) /\ conn[c].queue # <<>> /\ conn[c].pc = "select"
      /\ UNCHANGED <<sent, listener, got>>
  BY ComingTyped DEF IInv, TypeOK, Receive
<1>2. /\ conn'[c].pc = "write" /\ conn'[c].queue = Tail(conn[c].queue)
      /\ conn'[c].event = Head(conn[c].queue)
  BY <1>1 DEF Receive, Becomes
<1>3. Coming(c)' = Coming(c)
  BY <1>1, <1>2, HeadElems DEF Coming, Held
<1>4. QED
  BY <1>1, <1>3, WholeSame DEF Live, Listening

\* What is between an earlier event and the one written is coming, so it was
\* written, for all else that is coming is later.
LEMMA WriteWhole ==
    ASSUME IInv, GInv, NEW c \in Conns, Write(c), Whole(c)
    PROVE  Whole(c)'
<1> DEFINE e == conn[c].event
           r == ReplicaOf[c]
<1>1. /\ conn \in [Conns -> Client] /\ got \in [Conns -> Seq(Events)] /\ r \in Replicas
      /\ Coming(c) \subseteq Events /\ sent \in Nat /\ Elems(got[c]) \subseteq Events
      /\ conn[c].pc = "write" /\ UNCHANGED <<sent, listener>>
  BY ComingTyped DEF IInv, TypeOK, Write
<1>2. /\ e \in Events /\ Below({e}, Elems(conn[c].queue)) /\ e \in Held(c) /\ e <= sent
  <2>1. e \in Held(c) /\ e \in Events /\ Below(Held(c), {sent + 1})
        /\ Below({e}, Elems(conn[c].queue))
    BY <1>1 DEF IInv, ConnOrder, Held
  <2>2. QED
    BY <1>1, <2>1 DEF Below, Events
<1>3. /\ conn'[c].pc = "select" /\ conn'[c].queue = conn[c].queue
      /\ got'[c] = Append(got[c], e)
  BY <1>1 DEF Write, Becomes
<1>4. Elems(got'[c]) = Elems(got[c]) \union {e}
  <2>1. got[c] \in Seq(Events)
    BY <1>1
  <2>2. QED
    BY <1>2, <1>3, <2>1, AppendElems
<1>5. Coming(c)' = Coming(c)
  BY <1>1, <1>3, <1>4 DEF Coming, Held
<1>6. \A x \in Coming(c) : x \in Elems(got[c]) \/ e <= x
  <2>1. \A x \in Elems(conn[c].queue) : x \in Events /\ e < x
    BY <1>1, <1>2 DEF Below, Coming, Held
  <2>2. c \in listener[r].todo => e < listener[r].event
    BY <1>1, <1>2 DEF IInv, LoopOrder, Below
  <2>3. c \in hub[r]
    BY <1>1 DEF GInv, AllRegistered
  <2>4. \A x \in Elems(listener[r].backlog) : x \in Events /\ e < x
    BY <1>1, <1>2, <2>3 DEF IInv, LoopOrder, Below, Coming
  <2>5. QED
    BY <1>1, <1>2, <2>1, <2>2, <2>4 DEF Coming, Held, Events
<1>7. Convex(Elems(got'[c]))
  <2>1. Convex(Elems(got[c])) /\ UpTo(Coming(c), sent) /\ Below(Elems(got[c]), {e})
        /\ Elems(got[c]) \subseteq Coming(c)
    BY <1>1 DEF Whole, Live, IInv, ConnOrder, Coming, Held
  <2> SUFFICES ASSUME NEW x \in Elems(got[c]) \union {e}, NEW y \in Elems(got[c]) \union {e},
                      NEW z \in Events, x < z, z < y
               PROVE  z \in Elems(got[c]) \union {e}
    BY <1>4 DEF Convex
  <2>2. CASE y = e
    <3>1. x \in Elems(got[c])
      BY <1>2, <2>2 DEF Events
    <3>2. z \in Coming(c)
      BY <1>1, <1>2, <2>1, <2>2, <3>1 DEF UpTo, Events
    <3>3. QED
      BY <1>2, <1>6, <2>2, <3>2 DEF Events
  <2>3. CASE y \in Elems(got[c])
    <3>1. x \in Elems(got[c])
      BY <1>1, <1>2, <2>1, <2>3 DEF Below, Events
    <3>2. QED
      BY <2>1, <2>3, <3>1 DEF Convex
  <2>4. QED
    BY <2>2, <2>3
<1>8. QED
  BY <1>1, <1>5, <1>7 DEF Whole, Live, Listening

\* A connection that ends has what it has.
LEMMA EndWhole ==
    ASSUME IInv, NEW c \in Conns, Leave(c) \/ Unregister(c), Whole(c)
    PROVE  Whole(c)'
<1>1. /\ conn \in [Conns -> Client] /\ UNCHANGED <<sent, listener, got>>
      /\ conn'[c].pc \in {"leave", "closed"}
  BY DEF IInv, TypeOK, Leave, Unregister, Becomes
<1>2. QED
  BY <1>1, WholeSame DEF Live

LEMMA OtherWhole ==
    ASSUME IInv, NEW d \in Conns, NEW c \in Conns, c # d, Whole(c),
           Register(d) \/ Receive(d) \/ Write(d) \/ Leave(d) \/ Unregister(d)
    PROVE  Whole(c)'
<1>1. /\ conn'[c] = conn[c] /\ got'[c] = got[c] /\ UNCHANGED <<sent, listener>>
  BY DEF IInv, TypeOK, Register, Receive, Write, Leave, Unregister, Becomes
<1>2. Coming(c)' = Coming(c)
  BY <1>1 DEF Coming, Held
<1>3. QED
  BY <1>1, <1>2, WholeSame DEF Live, Listening

-----------------------------------------------------------------------------
\* Who has missed nothing after a step had missed nothing before it.
LEMMA HoledForGood ==
    ASSUME IInv, [Next]_vars, NEW c \in Conns, ~conn'[c].holed
    PROVE  ~conn[c].holed
<1>1. conn \in [Conns -> Client]
  BY DEF IInv, TypeOK
<1>2. CASE UNCHANGED conn
  BY <1>2
<1>3. ASSUME NEW r \in Replicas, LoseConnection(r) \/ Crash(r) \/ (\E d \in Conns : Enqueue(r, d))
      PROVE  ~conn[c].holed
  BY <1>1, <1>3 DEF LoseConnection, Crash, Enqueue, Holed, Client
<1>4. ASSUME NEW d \in Conns, Register(d) \/ Receive(d) \/ Write(d) \/ Leave(d) \/ Unregister(d)
      PROVE  ~conn[c].holed
  <2>1. PICK pc, queue, event : Becomes(d, pc, queue, event)
    BY <1>4 DEF Register, Receive, Write, Leave, Unregister
  <2>2. conn'[c].holed = conn[c].holed
    BY <1>1, <2>1 DEF Becomes
  <2>3. QED
    BY <2>2
<1>5. QED
  BY <1>2, <1>3, <1>4 DEF Next, Publish, Listen, Broadcast, Take, Unlock, vars

LEMMA StepGInv == IInv /\ GInv /\ [Next]_vars => GInv'
<1> SUFFICES ASSUME IInv, GInv, [Next]_vars PROVE GInv'
  OBVIOUS
<1>1. AllRegistered' /\ BacklogWhole'
  BY AllRegisteredStep, BacklogWholeStep DEF GInv
<1>2. ASSUME NEW c \in Conns, ~conn'[c].holed PROVE Whole(c)'
  <2>1. Whole(c)
    BY <1>2, HoledForGood DEF GInv
  <2>2. CASE Publish
    BY <2>1, <2>2, PublishWhole
  <2>3. ASSUME NEW r \in Replicas, Listen(r) \/ LoseConnection(r) \/ Broadcast(r) \/ Crash(r)
        PROVE  Whole(c)'
    BY <1>2, <2>1, <2>3, ListenWhole, LoseWhole, TakeWhole, EnqueueWhole, UnlockWhole, CrashWhole
       DEF Broadcast
  <2>4. ASSUME NEW d \in Conns,
               Register(d) \/ Receive(d) \/ Write(d) \/ Leave(d) \/ Unregister(d)
        PROVE  Whole(c)'
    BY <2>1, <2>4, OtherWhole, RegisterWhole, ReceiveWhole, WriteWhole, EndWhole
  <2>5. CASE UNCHANGED vars
    BY <2>1, <2>5, WholeSame DEF vars, Live, Coming, Held, Listening
  <2>6. QED
    BY <2>2, <2>3, <2>4, <2>5 DEF Next
<1>3. QED
  BY <1>1, <1>2 DEF GInv

LEMMA InitGInv == Init => GInv
<1> SUFFICES ASSUME Init PROVE GInv
  OBVIOUS
<1>1. \A c \in Conns : Whole(c)
  BY EmptyElems DEF Init, Whole, Live, Unconnected, Convex
<1>2. AllRegistered /\ BacklogWhole
  BY EmptyElems DEF Init, AllRegistered, BacklogWhole, Unconnected, Down, UpTo
<1>3. QED
  BY <1>1, <1>2 DEF GInv

\* A connection whose queue never overflowed and whose replica never lost the
\* database has every event from its first to its last.
THEOREM NoGapWithoutReason == Spec => []GapsHaveReasons
<1>1. IInv /\ GInv => GapsHaveReasons
  <2> SUFFICES ASSUME IInv, GInv, NEW c \in Conns, ~conn[c].holed, NEW i \in 2..Len(got[c])
               PROVE  got[c][i] = got[c][i - 1] + 1
    BY DEF GapsHaveReasons
  <2>1. got[c] \in Seq(Events) /\ Rising(got[c]) /\ Convex(Elems(got[c]))
    BY DEF IInv, GInv, TypeOK, ConnOrder, Whole
  <2>2. QED
    BY <2>1, ConvexSteps
<1>2. QED
  BY <1>1, InitGInv, StepGInv, AlwaysIInv, PTL DEF Spec
=============================================================================
