----------------------------- MODULE BootProofs -----------------------------
(***************************************************************************)
(* What holds of Boot for any replicas, migrations, seeds and faults.      *)
(***************************************************************************)
EXTENDS Boot, FiniteSetTheorems, TLAPS

\* What a replica has behind it: the migrations before the one it is at, then all
\* of them; a seed in the table, then that one in hand; then the cache.
Behind(r) ==
    /\ proc[r].pc \in {"check", "apply", "commit"} =>
         proc[r].at \in Migrations /\ \A n \in Migrations : n < proc[r].at => n \in versions
    /\ proc[r].pc \in {"insert", "read", "sync", "serve", "close"} => versions = Migrations
    /\ proc[r].pc = "read" => world # NoSeed
    /\ proc[r].pc \in {"sync", "serve", "close"} => world # NoSeed /\ proc[r].seed = world
    /\ Serving(r) => synced[r]

\* The inductive invariant.
IInv ==
    /\ TypeOK
    /\ SchemaIsWhole
    /\ \A r \in Replicas : Behind(r)
    /\ \A s \in shown : s = world

PCs == StartUp \union {"down", "serve", "close"}
Proc == [pc : PCs, at : 0..Last, seed : Seeds \union {NoSeed}]

LEMMA InitIInv == Init => IInv
BY BootAssumption DEF Init, IInv, TypeOK, SchemaIsWhole, Behind, Down, Serving, At, StartUp

-----------------------------------------------------------------------------
\* What a step of run does to the replicas' places.
LEMMA GotoType ==
    ASSUME TypeOK, NEW r \in Replicas, NEW pc \in PCs, NEW at \in 0..Last,
           NEW seed \in Seeds \union {NoSeed}, Goto(r, pc, at, seed)
    PROVE  /\ proc' \in [Replicas -> Proc]
           /\ proc'[r].pc = pc /\ proc'[r].at = at /\ proc'[r].seed = seed
           /\ \A q \in Replicas : q # r => proc'[q] = proc[q]
BY DEF TypeOK, Proc, PCs, Goto

\* A replica keeps what it has behind it while others migrate and insert the seed.
LEMMA BehindKept ==
    ASSUME TypeOK, NEW r \in Replicas, Behind(r), proc'[r] = proc[r], synced'[r] = synced[r],
           versions \subseteq versions', versions' \subseteq Migrations,
           world # NoSeed => world' = world
    PROVE  Behind(r)'
BY DEF Behind, Serving, At

\* A step that moves one replica on, to a place for which the tables are ready.
LEMMA GotoStep ==
    ASSUME IInv, NEW r \in Replicas, NEW pc \in PCs, NEW at \in 0..Last,
           NEW seed \in Seeds \union {NoSeed}, Goto(r, pc, at, seed),
           SchemaIsWhole', Behind(r)',
           versions \subseteq versions', versions' \subseteq Migrations,
           tables' \subseteq Migrations, world' \in Seeds \union {NoSeed},
           world # NoSeed => world' = world,
           UNCHANGED env, faults' \in 0..MaxFaults,
           shown' = shown \/ (shown' = shown \union {world} /\ world # NoSeed)
    PROVE  IInv'
<1>1. TypeOK /\ (\A q \in Replicas : Behind(q)) /\ (\A s \in shown : s = world)
  BY DEF IInv
<1>2. /\ proc' \in [Replicas -> Proc]
      /\ \A q \in Replicas : q # r => proc'[q] = proc[q]
  BY <1>1, GotoType
<1>3. \A q \in Replicas : Behind(q)'
  <2>1. \A q \in Replicas : synced'[q] = synced[q]
    BY DEF env
  <2>2. \A q \in Replicas : q # r => Behind(q)'
    BY <1>1, <1>2, <2>1, BehindKept
  <2>3. QED
    BY <2>2
<1>4. NoSeed \notin shown
  BY <1>1, BootAssumption DEF TypeOK
<1>5. \A s \in shown' : s = world'
  BY <1>1, <1>4
<1>6. shown' \subseteq Seeds
  BY <1>1 DEF TypeOK
<1>7. TypeOK'
  BY <1>1, <1>2, <1>6 DEF TypeOK, env, Proc, PCs
<1>8. QED
  BY <1>3, <1>5, <1>7 DEF IInv

\* A replica ends; it leaves the tables, perhaps with its last statement.
LEMMA ExitStep ==
    ASSUME IInv, NEW r \in Replicas, Exit(r), SchemaIsWhole',
           versions \subseteq versions', versions' \subseteq Migrations,
           tables' \subseteq Migrations, world' \in Seeds \union {NoSeed},
           world # NoSeed => world' = world,
           shown' = shown, faults' \in 0..MaxFaults
    PROVE  IInv'
<1>1. TypeOK /\ (\A q \in Replicas : Behind(q)) /\ (\A s \in shown : s = world)
  BY DEF IInv
<1>2. /\ proc'[r] = Down
      /\ \A q \in Replicas : q # r => proc'[q] = proc[q] /\ synced'[q] = synced[q]
  BY <1>1 DEF Exit, TypeOK
<1>3. \A q \in Replicas : Behind(q)'
  <2>1. Behind(r)'
    BY <1>2 DEF Behind, Down, Serving, At
  <2>2. \A q \in Replicas : q # r => Behind(q)'
    BY <1>1, <1>2, BehindKept
  <2>3. QED
    BY <2>1, <2>2
<1>4. \A s \in shown' : s = world'
  BY <1>1, BootAssumption DEF TypeOK
<1>5. TypeOK'
  <2>1. Down \in [pc : StartUp \union {"down", "serve", "close"},
                  at : 0..Last, seed : Seeds \union {NoSeed}]
    BY BootAssumption DEF Down
  <2>2. QED
    BY <1>1, <2>1 DEF TypeOK, Exit
<1>6. QED
  BY <1>3, <1>4, <1>5 DEF IInv

\* A goroutine or the watch changes the flags of a replica; the context and the
\* cache only ever come.
LEMMA FlagStep ==
    ASSUME IInv, UNCHANGED <<db, proc, shown>>, faults' \in 0..MaxFaults,
           told' \in [Replicas -> BOOLEAN], synced' \in [Replicas -> BOOLEAN],
           listens' \in [Replicas -> BOOLEAN], busy' \in [Replicas -> BOOLEAN],
           \A r \in Replicas : synced[r] => synced'[r]
    PROVE  IInv'
BY DEF IInv, TypeOK, db, SchemaIsWhole, Behind, Serving, At

\* The next migration is committed after those before it.
LEMMA CommittedWhole ==
    ASSUME IInv, NEW r \in Replicas, At(r, "commit"), Committed(proc[r].at)
    PROVE  /\ SchemaIsWhole' /\ versions \subseteq versions'
           /\ versions' \subseteq Migrations /\ tables' \subseteq Migrations
           /\ proc[r].at \in Migrations
           /\ \A n \in Migrations : n <= proc[r].at => n \in versions'
<1> DEFINE m == proc[r].at
<1>1. m \in Migrations /\ \A n \in Migrations : n < m => n \in versions
  BY DEF IInv, Behind, At
<1>2. tables = versions /\ tables \subseteq Migrations
      /\ \A k \in tables : \A n \in 1..k : n \in tables
  BY DEF IInv, TypeOK, SchemaIsWhole
<1>3. tables' = tables \union {m} /\ versions' = versions \union {m}
  BY DEF Committed
<1>4. \A n \in 1..m : n \in tables'
  BY <1>1, <1>2, <1>3, BootAssumption DEF Migrations
<1>5. \A k \in tables' : \A n \in 1..k : n \in tables'
  BY <1>2, <1>3, <1>4
<1>6. \A n \in Migrations : n <= m => n = m \/ n < m
  BY <1>1, BootAssumption DEF Migrations
<1>7. QED
  BY <1>1, <1>2, <1>3, <1>5, <1>6 DEF SchemaIsWhole

-----------------------------------------------------------------------------
(* The invariant, step by step. *)

LEMMA PlaceTypes == /\ "check" \in PCs /\ "apply" \in PCs /\ "commit" \in PCs /\ "insert" \in PCs
                    /\ "read" \in PCs /\ "sync" \in PCs /\ "serve" \in PCs /\ "close" \in PCs
BY DEF PCs, StartUp

LEMMA RunStep ==
    ASSUME IInv, NEW r \in Replicas,
           \/ Start(r) \/ Check(r) \/ Apply(r) \/ Commit(r) \/ InsertSeed(r) \/ ReadSeed(r)
           \/ Sync(r) \/ StopServing(r) \/ ServeFails(r)
    PROVE  IInv'
<1>1. /\ TypeOK /\ Behind(r) /\ SchemaIsWhole /\ NoSeed \in Seeds \union {NoSeed}
      /\ proc[r] \in Proc /\ Last \in 0..Last /\ Last \in Migrations
      /\ faults \in 0..MaxFaults /\ world \in Seeds \union {NoSeed}
      /\ versions \subseteq Migrations /\ tables \subseteq Migrations
  BY BootAssumption DEF IInv, TypeOK, Proc, PCs, Migrations
<1>2. \A n \in Migrations : n \in 0..Last /\ n \in Nat /\ n <= Last
  BY BootAssumption DEF Migrations
<1>3. CASE Start(r)
  <2>1. Goto(r, "check", 1, NoSeed) /\ UNCHANGED <<db, env, shown, faults>> /\ 1 \in Migrations
        /\ \A n \in Migrations : ~(n < 1)
    BY <1>3, BootAssumption DEF Start, Migrations
  <2>2. Behind(r)'
    BY <2>1, <1>1, <1>2, GotoType, PlaceTypes DEF Behind, Serving, At, db
  <2>3. QED
    BY <2>1, <2>2, <1>1, <1>2, GotoStep, PlaceTypes DEF db, SchemaIsWhole
<1>4. CASE Check(r)
  <2> DEFINE m == proc[r].at
  <2>1. /\ At(r, "check") /\ UNCHANGED <<db, env, shown, faults>>
        /\ m \in Migrations /\ \A n \in Migrations : n < m => n \in versions
    BY <1>1, <1>4 DEF Check, Behind, At
  <2>2. CASE m \notin versions
    <3>1. Goto(r, "apply", m, NoSeed)
      BY <1>4, <2>2 DEF Check
    <3>2. Behind(r)'
      BY <2>1, <3>1, <1>1, <1>2, GotoType, PlaceTypes DEF Behind, Serving, At, db
    <3>3. QED
      BY <2>1, <3>1, <3>2, <1>1, <1>2, GotoStep, PlaceTypes DEF db, SchemaIsWhole
  <2>3. CASE m \in versions /\ m < Last
    <3>1. Goto(r, "check", m + 1, NoSeed) /\ m + 1 \in Migrations
      BY <1>4, <2>1, <2>3, BootAssumption DEF Check, Migrations
    <3>2. \A n \in Migrations : n < m + 1 => n \in versions
      BY <2>1, <2>3, <1>2
    <3>3. Behind(r)'
      BY <2>1, <3>1, <3>2, <1>1, <1>2, GotoType, PlaceTypes DEF Behind, Serving, At, db
    <3>4. QED
      BY <2>1, <3>1, <3>3, <1>1, <1>2, GotoStep, PlaceTypes DEF db, SchemaIsWhole
  <2>4. CASE m \in versions /\ ~(m < Last)
    <3>1. Goto(r, "insert", m, NoSeed) /\ versions = Migrations
      BY <1>1, <1>2, <1>4, <2>1, <2>4, BootAssumption DEF Check
    <3>2. Behind(r)'
      BY <2>1, <3>1, <1>1, <1>2, GotoType, PlaceTypes DEF Behind, Serving, At, db
    <3>3. QED
      BY <2>1, <3>1, <3>2, <1>1, <1>2, GotoStep, PlaceTypes DEF db, SchemaIsWhole
  <2>5. QED
    BY <2>2, <2>3, <2>4
<1>5. CASE Apply(r)
  <2>1. /\ Goto(r, "commit", proc[r].at, NoSeed) /\ UNCHANGED <<db, env, shown, faults>>
        /\ proc[r].at \in Migrations
        /\ \A n \in Migrations : n < proc[r].at => n \in versions
    BY <1>1, <1>5 DEF Apply, Behind, At
  <2>2. Behind(r)'
    BY <2>1, <1>1, <1>2, GotoType, PlaceTypes DEF Behind, Serving, At, db
  <2>3. QED
    BY <2>1, <2>2, <1>1, <1>2, GotoStep, PlaceTypes DEF db, SchemaIsWhole
<1>6. CASE Commit(r)
  <2> DEFINE m == proc[r].at
  <2>1. At(r, "commit") /\ Committed(m) /\ UNCHANGED <<world, env, shown, faults>>
    BY <1>6 DEF Commit
  <2>2. /\ SchemaIsWhole' /\ versions \subseteq versions'
        /\ versions' \subseteq Migrations /\ tables' \subseteq Migrations
        /\ m \in Migrations /\ \A n \in Migrations : n <= m => n \in versions'
    BY <2>1, CommittedWhole
  <2>3. CASE m < Last
    <3>1. Goto(r, "check", m + 1, NoSeed) /\ m + 1 \in Migrations
      BY <1>6, <2>2, <2>3, BootAssumption DEF Commit, Migrations
    <3>2. \A n \in Migrations : n < m + 1 => n \in versions'
      BY <2>2, <1>2
    <3>3. Behind(r)'
      BY <3>1, <3>2, <1>1, <1>2, GotoType, PlaceTypes DEF Behind, Serving, At
    <3>4. QED
      BY <2>1, <2>2, <3>1, <3>3, <1>1, <1>2, GotoStep, PlaceTypes
  <2>4. CASE ~(m < Last)
    <3>1. Goto(r, "insert", Last, NoSeed) /\ versions' = Migrations
      BY <1>2, <1>6, <2>2, <2>4, BootAssumption DEF Commit
    <3>2. Behind(r)'
      BY <3>1, <1>1, GotoType, PlaceTypes DEF Behind, Serving, At
    <3>3. QED
      BY <2>1, <2>2, <3>1, <3>2, <1>1, <1>2, GotoStep, PlaceTypes
  <2>5. QED
    BY <2>3, <2>4
<1>7. CASE InsertSeed(r)
  <2>1. /\ At(r, "insert") /\ Goto(r, "read", Last, NoSeed)
        /\ world' \in Seeds /\ (world # NoSeed => world' = world)
        /\ UNCHANGED <<tables, versions, env, shown, faults>>
    BY <1>1, <1>7 DEF InsertSeed, InsertRow
  <2>2. versions = Migrations
    BY <1>1, <2>1 DEF Behind, At
  <2>3. Behind(r)'
    BY <2>1, <2>2, <1>1, GotoType, PlaceTypes, BootAssumption DEF Behind, Serving, At
  <2>4. QED
    BY <2>1, <2>3, <1>1, GotoStep, PlaceTypes DEF SchemaIsWhole
<1>8. CASE ReadSeed(r)
  <2>1. /\ Goto(r, "sync", Last, world) /\ UNCHANGED <<db, env, shown, faults>>
        /\ versions = Migrations /\ world # NoSeed
    BY <1>1, <1>8 DEF ReadSeed, Behind, At
  <2>2. Behind(r)'
    BY <2>1, <1>1, GotoType, PlaceTypes DEF Behind, Serving, At, db
  <2>3. QED
    BY <2>1, <2>2, <1>1, GotoStep, PlaceTypes DEF db, SchemaIsWhole
<1>9. CASE Sync(r)
  <2>1. /\ Goto(r, "serve", Last, world) /\ UNCHANGED <<db, env, faults>>
        /\ versions = Migrations /\ world # NoSeed /\ synced[r]
        /\ shown' = shown \union {world}
    BY <1>1, <1>9 DEF Sync, Serve, Behind, At
  <2>2. Behind(r)'
    BY <2>1, <1>1, GotoType, PlaceTypes DEF Behind, Serving, At, db, env
  <2>3. QED
    BY <2>1, <2>2, <1>1, GotoStep, PlaceTypes DEF db, SchemaIsWhole
<1>10. CASE StopServing(r) \/ ServeFails(r)
  <2>1. /\ Goto(r, "close", Last, world) /\ UNCHANGED <<db, env, shown>>
        /\ versions = Migrations /\ world # NoSeed /\ faults' \in 0..MaxFaults
    BY <1>1, <1>10, BootAssumption DEF StopServing, ServeFails, Fault, Behind, At
  <2>2. Behind(r)'
    BY <2>1, <1>1, GotoType, PlaceTypes DEF Behind, Serving, At, db
  <2>3. QED
    BY <2>1, <2>2, <1>1, GotoStep, PlaceTypes DEF db, SchemaIsWhole
<1>11. QED
  BY <1>3, <1>4, <1>5, <1>6, <1>7, <1>8, <1>9, <1>10

LEMMA EndStep ==
    ASSUME IInv, NEW r \in Replicas,
           \/ ApplyFails(r) \/ GiveUp(r) \/ Close(r) \/ CallFails(r) \/ CommitAckLost(r)
           \/ InsertAckLost(r) \/ Crash(r)
    PROVE  IInv'
<1>1. /\ TypeOK /\ SchemaIsWhole /\ faults \in 0..MaxFaults
      /\ world \in Seeds \union {NoSeed} /\ versions \subseteq Migrations
      /\ tables \subseteq Migrations
  BY DEF IInv, TypeOK
<1>2. Exit(r) /\ shown' = shown /\ faults' \in 0..MaxFaults
  BY <1>1, BootAssumption DEF ApplyFails, GiveUp, Close, CallFails, CommitAckLost, InsertAckLost,
     Crash, Fault
<1>3. CASE CommitAckLost(r)
  <2>1. At(r, "commit") /\ Committed(proc[r].at) /\ world' = world
    BY <1>3 DEF CommitAckLost
  <2>2. QED
    BY <1>1, <1>2, <2>1, CommittedWhole, ExitStep
<1>4. CASE InsertAckLost(r)
  <2>1. /\ tables' = tables /\ versions' = versions
        /\ world' \in Seeds \union {NoSeed} /\ (world # NoSeed => world' = world)
    BY <1>1, <1>4 DEF InsertAckLost, InsertRow
  <2>2. SchemaIsWhole'
    BY <1>1, <2>1 DEF SchemaIsWhole
  <2>3. QED
    BY <1>1, <1>2, <2>1, <2>2, ExitStep
<1>5. CASE ApplyFails(r) \/ GiveUp(r) \/ Close(r) \/ CallFails(r) \/ Crash(r)
  <2>1. UNCHANGED db
    BY <1>5 DEF ApplyFails, GiveUp, Close, CallFails, Crash
  <2>2. SchemaIsWhole'
    BY <1>1, <2>1 DEF SchemaIsWhole, db
  <2>3. QED
    BY <1>1, <1>2, <2>1, <2>2, ExitStep DEF db
<1>6. QED
  BY <1>3, <1>4, <1>5

LEMMA StepIInv == IInv /\ [Next]_vars => IInv'
<1> SUFFICES ASSUME IInv, [Next]_vars PROVE IInv'
  OBVIOUS
<1>1. TypeOK
  BY DEF IInv
<1>2. ASSUME NEW r \in Replicas, Step(r) PROVE IInv'
  BY <1>2, RunStep, EndStep DEF Step
<1>3. ASSUME NEW r \in Replicas,
             \/ ListChallenges(r) \/ Listen(r) \/ ListenEnds(r) \/ Request(r) \/ Answer(r)
             \/ Signal(r) \/ LoseConnection(r)
      PROVE  IInv'
  <2>1. UNCHANGED <<db, proc, shown>> /\ faults' \in 0..MaxFaults
    BY <1>1, <1>3, BootAssumption DEF TypeOK, ListChallenges, Listen, ListenEnds, Request, Answer,
       Signal, LoseConnection, Fault
  <2>2. /\ told' \in [Replicas -> BOOLEAN] /\ synced' \in [Replicas -> BOOLEAN]
        /\ listens' \in [Replicas -> BOOLEAN] /\ busy' \in [Replicas -> BOOLEAN]
        /\ \A q \in Replicas : synced[q] => synced'[q]
    BY <1>1, <1>3 DEF TypeOK, ListChallenges, Listen, ListenEnds, Request, Answer, Signal,
       LoseConnection
  <2>3. QED
    BY <2>1, <2>2, FlagStep
<1>4. ASSUME NEW r \in Replicas,
             \/ CallFails(r) \/ CommitAckLost(r) \/ InsertAckLost(r) \/ ServeFails(r) \/ Crash(r)
      PROVE  IInv'
  BY <1>4, RunStep, EndStep
<1>5. CASE UNCHANGED vars
  BY <1>5 DEF vars, db, env, IInv, TypeOK, SchemaIsWhole, Behind, Serving, At
<1>6. QED
  BY <1>2, <1>3, <1>4, <1>5 DEF Next

LEMMA AlwaysIInv == Spec => []IInv
BY InitIInv, StepIInv, PTL DEF Spec

-----------------------------------------------------------------------------
(* The theorems. *)

\* Processes, flags and tables stay typed.
THEOREM BootTyped == Spec => []TypeOK
<1>1. IInv => TypeOK
  BY DEF IInv
<1>2. QED
  BY <1>1, AlwaysIInv, PTL

\* The schema is a recorded prefix of the migrations, whoever races and dies.
THEOREM SchemaStaysWhole == Spec => []SchemaIsWhole
<1>1. IInv => SchemaIsWhole
  BY DEF IInv
<1>2. QED
  BY <1>1, AlwaysIInv, PTL

\* A replica that serves has the whole schema and a challenge cache.
THEOREM ServersAreReady == Spec => []ServesReady
<1>1. IInv => ServesReady
  BY DEF IInv, SchemaIsWhole, Behind, ServesReady, Serving, At
<1>2. QED
  BY <1>1, AlwaysIInv, PTL

\* All replicas and all restarts of them serve the one seed.
THEOREM SeedsConverge == Spec => []OneWorld
<1>1. IInv => OneWorld
  <2> SUFFICES ASSUME IInv PROVE Cardinality(shown) <= 1
    BY DEF OneWorld
  <2>1. shown \subseteq {world}
    BY DEF IInv
  <2>2. IsFiniteSet({world}) /\ Cardinality({world}) = 1
    BY FS_Singleton
  <2>3. Cardinality(shown) <= Cardinality({world})
    BY <2>1, <2>2, FS_Subset
  <2>4. QED
    BY <2>2, <2>3
<1>2. QED
  BY <1>1, AlwaysIInv, PTL
=============================================================================
