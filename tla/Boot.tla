-------------------------------- MODULE Boot --------------------------------
(***************************************************************************)
(* How replicas start and stop (cmd/cyberkube/main.go): several run the    *)
(* migrations of the one database at a time, agree on the world seed, wait *)
(* for the challenge cache, serve, and end on SIGTERM, when the pool is    *)
(* closed under the goroutines that still use it.  A replica that ended is *)
(* started again.                                                          *)
(***************************************************************************)
EXTENDS Integers, FiniteSets

CONSTANTS Replicas,
          Last,         \* migrations are numbered in filename order
          Seeds, NoSeed,
          MaxFaults     \* bound on the faults of a behaviour

ASSUME BootAssumption ==
    Last \in Nat \ {0} /\ NoSeed \notin Seeds /\ MaxFaults \in Nat

VARIABLES tables,       \* migrations whose script is committed
          versions,     \* rows of schema_migrations
          world,        \* the world_seed row of settings
          proc,         \* replica -> the goroutine of run
          told,         \* replica -> SIGTERM came: the context is done
          synced,       \* replica -> the informer has its first list
          listens,      \* replica -> the listen loop holds a connection
          busy,         \* replica -> a handler holds a connection
          shown,        \* history: the seeds replicas have served
          faults

db == <<tables, versions, world>>
env == <<told, synced, listens, busy>>
vars == <<db, proc, env, shown, faults>>

Migrations == 1..Last

Down == [pc |-> "down", at |-> 0, seed |-> NoSeed]

Init ==
    /\ tables = {} /\ versions = {} /\ world = NoSeed
    /\ proc = [r \in Replicas |-> Down]
    /\ told = [r \in Replicas |-> FALSE] /\ synced = told /\ listens = told /\ busy = told
    /\ shown = {} /\ faults = 0

At(r, pc) == proc[r].pc = pc
Goto(r, pc, at, seed) == proc' = [proc EXCEPT ![r] = [pc |-> pc, at |-> at, seed |-> seed]]

\* The process is gone, and with it its goroutines and open transaction.
Exit(r) ==
    /\ proc' = [proc EXCEPT ![r] = Down]
    /\ told' = [told EXCEPT ![r] = FALSE]
    /\ synced' = [synced EXCEPT ![r] = FALSE]
    /\ listens' = [listens EXCEPT ![r] = FALSE]
    /\ busy' = [busy EXCEPT ![r] = FALSE]

-----------------------------------------------------------------------------
\* store.New.  A call whose context is done fails.

\* Of two replicas that create schema_migrations at the same time one may fail, IF
\* NOT EXISTS notwithstanding, and ends: as if it had not started yet.
Start(r) ==
    /\ At(r, "down")
    /\ Goto(r, "check", 1, NoSeed)
    /\ UNCHANGED <<db, env, shown, faults>>

\* The version is recorded already, or a transaction begins.
Check(r) ==
    /\ At(r, "check") /\ ~told[r]
    /\ LET m == proc[r].at
       IN  IF m \notin versions THEN Goto(r, "apply", m, NoSeed)
           ELSE IF m < Last THEN Goto(r, "check", m + 1, NoSeed)
           ELSE Goto(r, "insert", m, NoSeed)
    /\ UNCHANGED <<db, env, shown, faults>>

\* CREATE TABLE waits for a transaction that creates the same one ...
Holds(r, m) == proc[r].pc = "commit" /\ proc[r].at = m
Free(m) == \A q \in Replicas : ~Holds(q, m)

\* Seeded defect: the script runs outside the transaction.
ApplyAtOnce(r) ==
    /\ At(r, "apply") /\ ~told[r]
    /\ Free(proc[r].at) /\ proc[r].at \notin tables
    /\ tables' = tables \union {proc[r].at}
    /\ Goto(r, "commit", proc[r].at, NoSeed)
    /\ UNCHANGED <<versions, world, env, shown, faults>>

\* The script and the row that records it, both in the transaction.
Apply(r) ==
    /\ At(r, "apply") /\ ~told[r]
    /\ Free(proc[r].at) /\ proc[r].at \notin tables
    /\ Goto(r, "commit", proc[r].at, NoSeed)
    /\ UNCHANGED <<db, env, shown, faults>>

\* ... and fails if that one was committed: the replica ends.
ApplyFails(r) ==
    /\ At(r, "apply")
    /\ Free(proc[r].at) /\ proc[r].at \in tables
    /\ Exit(r)
    /\ UNCHANGED <<db, shown, faults>>

Committed(m) == tables' = tables \union {m} /\ versions' = versions \union {m}

Commit(r) ==
    /\ At(r, "commit") /\ ~told[r]
    /\ Committed(proc[r].at)
    /\ IF proc[r].at < Last THEN Goto(r, "check", proc[r].at + 1, NoSeed)
                            ELSE Goto(r, "insert", Last, NoSeed)
    /\ UNCHANGED <<world, env, shown, faults>>

-----------------------------------------------------------------------------
\* resolveWorldSeed, when WORLD_SEED is not set.

InsertRow(s) == world' = IF world = NoSeed THEN s ELSE world

\* Seeded defect: the replica keeps the seed that it generated.
InsertAndKeep(r) ==
    /\ At(r, "insert") /\ ~told[r]
    /\ \E s \in Seeds : InsertRow(s) /\ Goto(r, "sync", Last, s)
    /\ UNCHANGED <<tables, versions, env, shown, faults>>

\* Seeded defect: the row is not read back.
InsertOnly(r) ==
    /\ At(r, "insert") /\ ~told[r]
    /\ \E s \in Seeds : InsertRow(s)
    /\ Goto(r, "sync", Last, NoSeed)
    /\ UNCHANGED <<tables, versions, env, shown, faults>>

\* INSERT ... ON CONFLICT DO NOTHING of a seed generated here.
InsertSeed(r) ==
    /\ At(r, "insert") /\ ~told[r]
    /\ \E s \in Seeds : InsertRow(s)
    /\ Goto(r, "read", Last, NoSeed)
    /\ UNCHANGED <<tables, versions, env, shown, faults>>

ReadSeed(r) ==
    /\ At(r, "read") /\ ~told[r]
    /\ Goto(r, "sync", Last, world)
    /\ UNCHANGED <<db, env, shown, faults>>

-----------------------------------------------------------------------------
\* StartInformer; then the listen loop starts, and the server.

\* The watch delivers the first list of challenges.
ListChallenges(r) ==
    /\ At(r, "sync") /\ ~synced[r] /\ ~told[r]
    /\ synced' = [synced EXCEPT ![r] = TRUE]
    /\ UNCHANGED <<db, proc, told, listens, busy, shown, faults>>

Serve(r) ==
    /\ Goto(r, "serve", Last, proc[r].seed)
    /\ shown' = shown \union {proc[r].seed}

\* Seeded defect: the time-out is taken for success.
SyncOrGoOn(r) ==
    /\ At(r, "sync")
    /\ Serve(r)
    /\ UNCHANGED <<db, env, faults>>

Sync(r) ==
    /\ At(r, "sync") /\ synced[r]
    /\ Serve(r)
    /\ UNCHANGED <<db, env, faults>>

\* ListenEvents: one connection of the pool for the lifetime of the loop.
Listen(r) ==
    /\ At(r, "serve") /\ ~listens[r] /\ ~told[r]
    /\ listens' = [listens EXCEPT ![r] = TRUE]
    /\ UNCHANGED <<db, proc, told, synced, busy, shown, faults>>

\* WaitForNotification ends with the context, and the connection is released.
ListenEnds(r) ==
    /\ listens[r] /\ told[r]
    /\ listens' = [listens EXCEPT ![r] = FALSE]
    /\ UNCHANGED <<db, proc, told, synced, busy, shown, faults>>

\* A request begins a query, and ends it.
Request(r) ==
    /\ At(r, "serve") /\ ~busy[r]
    /\ busy' = [busy EXCEPT ![r] = TRUE]
    /\ UNCHANGED <<db, proc, told, synced, listens, shown, faults>>

Answer(r) ==
    /\ busy[r]
    /\ busy' = [busy EXCEPT ![r] = FALSE]
    /\ UNCHANGED <<db, proc, told, synced, listens, shown, faults>>

-----------------------------------------------------------------------------
\* The end of a replica.

\* SIGTERM can come at any time of the life of a replica.
Signal(r) ==
    /\ ~At(r, "down") /\ ~told[r]
    /\ told' = [told EXCEPT ![r] = TRUE]
    /\ UNCHANGED <<db, proc, synced, listens, busy, shown, faults>>

\* Before it serves, run returns the error of the call that saw the context end.
StartUp == {"check", "apply", "commit", "insert", "read", "sync"}

\* Seeded defect: a call that fails is tried again, as in the listen loop.
TryAgain(r) ==
    /\ proc[r].pc \in StartUp /\ told[r]
    /\ Goto(r, proc[r].pc, proc[r].at, proc[r].seed)
    /\ UNCHANGED <<db, env, shown, faults>>

GiveUp(r) ==
    /\ proc[r].pc \in StartUp /\ told[r]
    /\ Exit(r)
    /\ UNCHANGED <<db, shown, faults>>

\* Shutdown makes ListenAndServe return at once, and run goes on to st.Close.
StopServing(r) ==
    /\ At(r, "serve") /\ told[r]
    /\ Goto(r, "close", Last, proc[r].seed)
    /\ UNCHANGED <<db, env, shown, faults>>

\* The pool waits until every connection has been returned.
Close(r) ==
    /\ At(r, "close") /\ ~listens[r] /\ ~busy[r]
    /\ Exit(r)
    /\ UNCHANGED <<db, shown, faults>>

-----------------------------------------------------------------------------
\* Faults: a call fails; a commit takes effect and fails; ListenAndServe fails
\* (the address is in use); the listen connection is lost; the replica dies.

Fault == faults < MaxFaults /\ faults' = faults + 1

CallFails(r) ==
    /\ Fault
    /\ proc[r].pc \in StartUp
    /\ Exit(r)
    /\ UNCHANGED <<db, shown>>

CommitAckLost(r) ==
    /\ Fault
    /\ At(r, "commit") /\ Committed(proc[r].at)
    /\ Exit(r)
    /\ UNCHANGED <<world, shown>>

InsertAckLost(r) ==
    /\ Fault
    /\ At(r, "insert") /\ \E s \in Seeds : InsertRow(s)
    /\ Exit(r)
    /\ UNCHANGED <<tables, versions, shown>>

ServeFails(r) ==
    /\ Fault
    /\ At(r, "serve") /\ ~told[r]
    /\ Goto(r, "close", Last, proc[r].seed)
    /\ UNCHANGED <<db, env, shown>>

LoseConnection(r) ==
    /\ Fault
    /\ listens[r]
    /\ listens' = [listens EXCEPT ![r] = FALSE]
    /\ UNCHANGED <<db, proc, told, synced, busy, shown>>

Crash(r) ==
    /\ Fault
    /\ ~At(r, "down")
    /\ Exit(r)
    /\ UNCHANGED <<db, shown>>

Step(r) ==
    \/ Start(r) \/ Check(r) \/ Apply(r) \/ ApplyFails(r) \/ Commit(r)
    \/ InsertSeed(r) \/ ReadSeed(r) \/ Sync(r)
    \/ GiveUp(r) \/ StopServing(r) \/ Close(r)

Next ==
    \E r \in Replicas :
      \/ Step(r) \/ ListChallenges(r) \/ Listen(r) \/ ListenEnds(r)
      \/ Request(r) \/ Answer(r) \/ Signal(r)
      \/ CallFails(r) \/ CommitAckLost(r) \/ InsertAckLost(r) \/ ServeFails(r)
      \/ LoseConnection(r) \/ Crash(r)

\* The goroutines of a replica run, a query ends, the watch delivers, and the
\* cluster starts a replica that ended; nothing asks a replica to end.
Fairness ==
    \A r \in Replicas : WF_vars(Step(r)) /\ WF_vars(ListChallenges(r))
                          /\ WF_vars(ListenEnds(r)) /\ WF_vars(Answer(r))

Spec == Init /\ [][Next]_vars /\ Fairness
-----------------------------------------------------------------------------
Serving(r) == At(r, "serve")

\* The type invariant.
TypeOK ==
    /\ tables \subseteq Migrations /\ versions \subseteq Migrations
    /\ world \in Seeds \union {NoSeed} /\ shown \subseteq Seeds
    /\ proc \in [Replicas -> [pc : StartUp \union {"down", "serve", "close"},
                              at : 0..Last, seed : Seeds \union {NoSeed}]]
    /\ told \in [Replicas -> BOOLEAN] /\ synced \in [Replicas -> BOOLEAN]
    /\ listens \in [Replicas -> BOOLEAN] /\ busy \in [Replicas -> BOOLEAN]
    /\ faults \in 0..MaxFaults

\* "Every replica and every restart converges on the same seed" (main.go:172): no
\* two seeds are ever served, whichever replicas race and die.
OneWorld == Cardinality(shown) <= 1

\* What is committed is a prefix of the migrations and exactly what is recorded:
\* no start finds a table it takes for missing, or misses one it takes for there.
SchemaIsWhole ==
    tables = versions /\ \A m \in tables : \A n \in 1..m : n \in tables

\* A replica serves on the full schema and with a challenge cache, never "silently
\* serves ErrCacheNotSynced forever" (main.go:37).
ServesReady == \A r \in Replicas : Serving(r) => tables = Migrations /\ synced[r]

\* A replica that got SIGTERM ends, whatever it was at: no goroutine keeps the pool
\* from closing.
EndsWhenTold == \A r \in Replicas : told[r] ~> At(r, "down")

\* "Fails fast" (main.go:36): a replica that cannot serve ends.
FailsFast == \A r \in Replicas : At(r, "close") ~> At(r, "down")

\* Once nobody is asked to end every replica comes up, although those who lose the
\* race for a migration end with an error, and whatever failures left in the
\* database; it may have failed to serve (FailsFast).
ReplicasComeUp ==
    <>[](\A r \in Replicas : ~told[r]) =>
        \A r \in Replicas : []<>(Serving(r) \/ At(r, "close"))
=============================================================================
