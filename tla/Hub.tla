-------------------------------- MODULE Hub --------------------------------
(***************************************************************************)
(* The event feed (internal/events and the LISTEN/NOTIFY half of           *)
(* internal/store): Publish notifies the database, the listen loop of each *)
(* replica takes the notifications from its own connection and puts them   *)
(* into the bounded queue of each client of that replica, and a goroutine  *)
(* per client writes them out.  Implements EventFeed.                      *)
(***************************************************************************)
EXTENDS Integers, Sequences, FiniteSets, SequencesExt

CONSTANTS Replicas, Conns,
          ReplicaOf,    \* connection -> the replica that accepted it
          QueueSize,    \* 16 in hub.go
          MaxEvents,    \* bound on the notifications of a behaviour
          Stuck         \* connections whose peer may stop reading

ASSUME HubAssumption ==
    /\ ReplicaOf \in [Conns -> Replicas]
    /\ QueueSize \in Nat \ {0} /\ MaxEvents \in Nat
    /\ Stuck \subseteq Conns

VARIABLES sent,         \* how many were published: an event is its number
          listener,     \* replica -> its listen loop and database connection
          hub,          \* replica -> the registered clients
          conn,         \* connection -> its client and ServeWS goroutine
          got           \* connection -> the events written to it

vars == <<sent, listener, hub, conn, got>>

\* "backlog" is what the database has sent to the session; "todo" the clients
\* that BroadcastRaw, which holds the hub's lock meanwhile, has yet to serve.
Down == [pc |-> "down", backlog |-> <<>>, event |-> 0, todo |-> {}]

\* "holed" is a history variable: an event was lost for this connection.
Unconnected == [pc |-> "off", queue |-> <<>>, event |-> 0, holed |-> FALSE]

Init ==
    /\ sent = 0
    /\ listener = [r \in Replicas |-> Down]
    /\ hub = [r \in Replicas |-> {}]
    /\ conn = [c \in Conns |-> Unconnected]
    /\ got = [c \in Conns |-> <<>>]

Listening(r) == listener[r].pc # "down"

Locked(r) == listener[r].pc = "send"

\* Publish: pg_notify reaches the sessions that listen when it commits.
Publish ==
    /\ sent < MaxEvents
    /\ sent' = sent + 1
    /\ listener' = [r \in Replicas |->
         IF Listening(r) THEN [listener[r] EXCEPT !.backlog = Append(@, sent + 1)]
                         ELSE listener[r]]
    /\ UNCHANGED <<hub, conn, got>>

-----------------------------------------------------------------------------
\* The listen loop.

\* Acquire a connection and LISTEN; while that fails the loop waits and retries.
Listen(r) ==
    /\ ~Listening(r)
    /\ listener' = [listener EXCEPT ![r].pc = "wait"]
    /\ UNCHANGED <<sent, hub, conn, got>>

Holed(S) == [c \in Conns |-> IF c \in S THEN [conn[c] EXCEPT !.holed = TRUE] ELSE conn[c]]

\* The connection is lost, with what it had not delivered; back-off follows.
LoseConnection(r) ==
    /\ listener[r].pc = "wait"
    /\ listener' = [listener EXCEPT ![r] = Down]
    /\ conn' = Holed(hub[r])
    /\ UNCHANGED <<sent, hub, got>>

\* Seeded defect: the backlog is handed over last event first.
TakeNewest(r) ==
    /\ listener[r].pc = "wait" /\ listener[r].backlog # <<>>
    /\ listener' = [listener EXCEPT ![r] = [pc |-> "send", backlog |-> Front(@.backlog),
                                            event |-> Last(@.backlog), todo |-> hub[r]]]
    /\ UNCHANGED <<sent, hub, conn, got>>

\* WaitForNotification returns; BroadcastRaw takes the lock.
Take(r) ==
    /\ listener[r].pc = "wait" /\ listener[r].backlog # <<>>
    /\ listener' = [listener EXCEPT ![r] = [pc |-> "send", backlog |-> Tail(@.backlog),
                                            event |-> Head(@.backlog), todo |-> hub[r]]]
    /\ UNCHANGED <<sent, hub, conn, got>>

Served(r, c) == listener' = [listener EXCEPT ![r].todo = @ \ {c}]

\* Seeded defects: the send waits for room in the queue; a full queue loses its
\* oldest event and nobody takes note.
EnqueueOrWait(r, c) ==
    /\ Locked(r) /\ c \in listener[r].todo
    /\ Len(conn[c].queue) < QueueSize
    /\ conn' = [conn EXCEPT ![c].queue = Append(@, listener[r].event)]
    /\ Served(r, c)
    /\ UNCHANGED <<sent, hub, got>>

EnqueueOverOldest(r, c) ==
    /\ Locked(r) /\ c \in listener[r].todo
    /\ conn' = [conn EXCEPT ![c].queue =
          Append(IF Len(@) < QueueSize THEN @ ELSE Tail(@), listener[r].event)]
    /\ Served(r, c)
    /\ UNCHANGED <<sent, hub, got>>

\* select { case c.send <- data: default: }
Enqueue(r, c) ==
    /\ Locked(r) /\ c \in listener[r].todo
    /\ conn' = IF Len(conn[c].queue) < QueueSize
                 THEN [conn EXCEPT ![c].queue = Append(@, listener[r].event)]
                 ELSE Holed({c})
    /\ Served(r, c)
    /\ UNCHANGED <<sent, hub, got>>

Unlock(r) ==
    /\ Locked(r) /\ listener[r].todo = {}
    /\ listener' = [listener EXCEPT ![r] = [pc |-> "wait", backlog |-> @.backlog, event |-> 0,
                                            todo |-> {}]]
    /\ UNCHANGED <<sent, hub, conn, got>>

-----------------------------------------------------------------------------
\* One connection: ServeWS.

Becomes(c, pc, queue, event) ==
    conn' = [conn EXCEPT ![c] = [pc |-> pc, queue |-> queue, event |-> event,
                                 holed |-> conn[c].holed]]

Register(c) ==
    /\ conn[c].pc = "off"
    /\ ~Locked(ReplicaOf[c])
    /\ hub' = [hub EXCEPT ![ReplicaOf[c]] = @ \union {c}]
    /\ Becomes(c, "select", <<>>, 0)
    /\ UNCHANGED <<sent, listener, got>>

Receive(c) ==
    /\ conn[c].pc = "select" /\ conn[c].queue # <<>>
    /\ Becomes(c, "write", Tail(conn[c].queue), Head(conn[c].queue))
    /\ UNCHANGED <<sent, listener, hub, got>>

Write(c) ==
    /\ conn[c].pc = "write"
    /\ got' = [got EXCEPT ![c] = Append(@, conn[c].event)]
    /\ Becomes(c, "select", conn[c].queue, 0)
    /\ UNCHANGED <<sent, listener, hub>>

\* The peer went away (ctx.Done), or a write failed or took over ten seconds.
Leave(c) ==
    /\ conn[c].pc \in {"select", "write"}
    /\ Becomes(c, "leave", conn[c].queue, 0)
    /\ UNCHANGED <<sent, listener, hub, got>>

\* Seeded defect: the client is removed without the lock.
UnregisterUnlocked(c) ==
    /\ conn[c].pc = "leave"
    /\ hub' = [hub EXCEPT ![ReplicaOf[c]] = @ \ {c}]
    /\ Becomes(c, "closed", <<>>, 0)
    /\ UNCHANGED <<sent, listener, got>>

\* Under the lock: delete the client and close its channel.
Unregister(c) ==
    /\ conn[c].pc = "leave"
    /\ ~Locked(ReplicaOf[c])
    /\ hub' = [hub EXCEPT ![ReplicaOf[c]] = @ \ {c}]
    /\ Becomes(c, "closed", <<>>, 0)
    /\ UNCHANGED <<sent, listener, got>>

\* A replica dies and starts again: its connections are gone.
Crash(r) ==
    /\ listener' = [listener EXCEPT ![r] = Down]
    /\ hub' = [hub EXCEPT ![r] = {}]
    /\ conn' = [c \in Conns |-> IF c \in hub[r] THEN [conn[c] EXCEPT !.pc = "closed"] ELSE conn[c]]
    /\ UNCHANGED <<sent, got>>

Broadcast(r) == Take(r) \/ (\E c \in Conns : Enqueue(r, c)) \/ Unlock(r)

Next ==
    \/ Publish
    \/ \E r \in Replicas : Listen(r) \/ LoseConnection(r) \/ Broadcast(r) \/ Crash(r)
    \/ \E c \in Conns : Register(c) \/ Receive(c) \/ Write(c) \/ Leave(c) \/ Unregister(c)

\* Goroutines that can run do; a write to a peer that reads comes to an end.
Fairness ==
    /\ \A r \in Replicas : WF_vars(Broadcast(r))
    /\ \A c \in Conns : WF_vars(Receive(c))
    /\ \A c \in Conns \ Stuck : WF_vars(Write(c))

Spec == Init /\ [][Next]_vars /\ Fairness
-----------------------------------------------------------------------------
Events == 1..MaxEvents

Loop == [pc : {"down", "wait", "send"}, backlog : Seq(Events), event : Events \union {0},
         todo : SUBSET Conns]

Client == [pc : {"off", "select", "write", "leave", "closed"}, queue : Seq(Events),
           event : Events \union {0}, holed : BOOLEAN]

\* The type invariant; only registered clients are served.
TypeOK ==
    /\ sent \in 0..MaxEvents
    /\ listener \in [Replicas -> Loop]
    /\ hub \in [Replicas -> SUBSET Conns]
    /\ conn \in [Conns -> Client]
    /\ got \in [Conns -> Seq(Events)]
    /\ \A c \in Conns : Len(conn[c].queue) <= QueueSize
    /\ \A r \in Replicas : listener[r].todo \subseteq hub[r]

\* BroadcastRaw never comes to a client whose channel has been closed: the send
\* would panic and take the replica down with all its connections.
NoSendOnClosed ==
    \A r \in Replicas : \A c \in listener[r].todo : conn[c].pc # "closed"

\* A connection has the events without a gap, unless its queue overflowed or its
\* replica lost the database: nothing else loses an event.
GapsHaveReasons ==
    \A c \in Conns : ~conn[c].holed =>
        \A i \in 2..Len(got[c]) : got[c][i] = got[c][i - 1] + 1

\* What clients see are published events, in order, none twice, on every replica.
Promise == INSTANCE EventFeed WITH
    Conns <- Conns, MaxEvents <- MaxEvents, sent <- sent, got <- got

ImplementsFeed == Promise!FeedSpec

Due(c, e) ==
    LET l == listener[ReplicaOf[c]]
    IN  /\ conn[c].pc \in {"select", "write"}
        /\ \/ Contains(l.backlog, e) \/ Contains(conn[c].queue, e)
           \/ l.event = e /\ c \in l.todo
           \/ conn[c].event = e

\* "Slow clients ... rather than stalling the broadcast for everyone else"
\* (hub.go:74): an event on its way to a connection that keeps reading arrives,
\* unless it is lost or the connection ends, although others have stopped reading.
NobodyStalls ==
    \A c \in Conns \ Stuck, e \in Events :
        Due(c, e) ~> \/ Contains(got[c], e)
                     \/ conn[c].holed \/ conn[c].pc \in {"leave", "closed"}
=============================================================================
