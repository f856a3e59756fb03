---------------------------- MODULE EngineProofs ----------------------------
(***************************************************************************)
(* What holds of Submission, and of Engine, in which it runs beside        *)
(* Launching, for any number of teams, challenges, requests and users.     *)
(*                                                                         *)
(* The first parts are about Submission alone, whose environment creates   *)
(* and deletes instances as it likes.  The last shows that launches do no  *)
(* more than that, so that the composition implements Submission; what is  *)
(* known of launches is taken from LaunchingProofs.                        *)
(***************************************************************************)
EXTENDS Engine, ScoringProofs, FiniteSetTheorems, TLAPS

LP == INSTANCE LaunchingProofs WITH Asks <- Asks, Claims <- Claims,
                                    ask <- ask, statusFeed <- statusFeed

-----------------------------------------------------------------------------
(* The cluster, as the proofs about Launching know it.                        *)

\* The constants are what Launching assumes of them.
LEMMA Assumed == LP!ClusterAssumption /\ LP!LaunchingAssumption
BY ClusterAssumption, EngineAssumption DEF LP!ClusterAssumption, LP!LaunchingAssumption

\* Both modules speak of the same names, objects and calls.
LEMMA SameCluster ==
    /\ LP!ClusterTypeOK = ClusterTypeOK /\ LP!ClusterTypeOK' = ClusterTypeOK'
    /\ LP!ClusterNext = ClusterNext
    /\ LP!Names = Names /\ LP!Object = Object
    /\ \A n : /\ LP!CreateObject(n) = CreateObject(n) /\ LP!DeleteObject(n) = DeleteObject(n)
              /\ LP!ValidateObject(n) = ValidateObject(n) /\ LP!Exists(n) = Exists(n)
<1>1. LP!Names = Names /\ LP!Object = Object /\ LP!CrStates = CrStates
  BY DEF LP!Names, Names, LP!Sources, Sources, LP!Object, Object, LP!CrStates, CrStates
<1>2. LP!ClusterTypeOK = ClusterTypeOK /\ LP!ClusterTypeOK' = ClusterTypeOK'
  BY <1>1 DEF LP!ClusterTypeOK, ClusterTypeOK
<1>3. ASSUME NEW n
      PROVE  /\ LP!Exists(n) = Exists(n) /\ LP!DeleteObject(n) = DeleteObject(n)
             /\ LP!CreateObject(n) = CreateObject(n) /\ LP!ValidateObject(n) = ValidateObject(n)
  BY DEF LP!Exists, Exists, LP!DeleteObject, DeleteObject, LP!Absent, Absent,
     LP!CreateObject, CreateObject, LP!Created, Created, LP!ValidateObject, ValidateObject
<1>4. LP!ClusterNext = ClusterNext
  BY <1>1, <1>3 DEF LP!ClusterNext, ClusterNext, LP!EditChallenge, EditChallenge, LP!CanBe,
     CanBe, LP!Deploy, Deploy, LP!Expire, Expire, LP!Reap, Reap
<1>5. QED
  BY <1>1, <1>2, <1>3, <1>4

\* What Launching's lemmas say of the calls.
LEMMA ObjectCalls ==
    ASSUME ClusterTypeOK, NEW n \in Names
    PROVE  /\ CreateObject(n) => inst' \in [Names -> Object] /\ minted' \in Seq(Names)
           /\ DeleteObject(n) => inst' \in [Names -> Object]
           /\ ValidateObject(n) => inst' \in [Names -> Object]
           /\ CreateObject(n) => LP!Moves
           /\ DeleteObject(n) /\ minted' = minted => LP!Moves
           /\ ValidateObject(n) /\ minted' = minted => LP!KeepsUids
BY LP!ObjectCalls, LP!ObjectMoves, SameCluster, Assumed DEF LP!Moves

\* ... and of the events.
LEMMA ClusterStep ==
    ASSUME ClusterTypeOK, ClusterNext
    PROVE  ClusterTypeOK' /\ LP!Moves
<1>1. LP!ClusterTypeOK /\ LP!ClusterNext
  BY SameCluster
<1>2. ClusterTypeOK'
  BY <1>1, LP!ClusterStepType, SameCluster, Assumed
<1>3. QED
  BY <1>1, <1>2, LP!ClusterMoves, Assumed DEF LP!Moves

-----------------------------------------------------------------------------
(* The type invariant. *)

Inv0 == TypeOK /\ IsFiniteSet(solves)

LEMMA CountType ==
    ASSUME IsFiniteSet(solves), NEW c
    PROVE  /\ IsFiniteSet(Ledger!SolvesOf(c))
           /\ CountSolves(c) \in Nat
           /\ Cardinality(solves) \in Nat
           /\ CountSolves(c) <= Cardinality(solves)
<1>1. Ledger!SolvesOf(c) \subseteq solves
  BY DEF Ledger!SolvesOf
<1>2. QED
  BY <1>1, FS_Subset, FS_CardinalityType DEF CountSolves

LEMMA InitInv0 == Init => Inv0
<1> SUFFICES ASSUME Init PROVE Inv0
  OBVIOUS
<1>1. ClusterTypeOK
  BY DEF Init, ClusterInit, ClusterTypeOK, Absent, Object
<1>2. IsFiniteSet(solves)
  BY FS_EmptySet DEF Init
<1>3. req \in [Requests -> [pc : PCs, correct : BOOLEAN, count : Nat, points : Int,
                            status : Statuses, dropped : BOOLEAN]]
  BY DEF Init, Fresh, PCs, Statuses
<1>4. QED
  BY <1>1, <1>2, <1>3 DEF Init, Inv0, TypeOK, Fresh

ReqType == [pc : PCs, correct : BOOLEAN, count : Nat, points : Int,
            status : Statuses, dropped : BOOLEAN]

\* An instance name is a name of the cluster for a sender with a team.
LEMMA TargetType ==
    ASSUME TypeOK, NEW r \in Requests, call[r].team \in Teams
    PROVE  Target(r) \in Names
BY SubmissionAssumption DEF TypeOK, Call, Target, InstanceName, SourceID, Names, Sources

\* What a request carries is typed, and past the early returns it has a team.
LEMMA CallType ==
    ASSUME TypeOK, NEW r \in Requests
    PROVE  /\ call[r] \in Call
           /\ call[r].user \in Users /\ call[r].challenge \in Challenges
           /\ call[r].flag \in Flags
           /\ call[r].team \in Teams \union {NoTeam}
           /\ req[r] \in ReqType
           /\ req[r].pc \notin {"idle", "replied"} => call[r].team \in Teams
           /\ Refusal(call[r]) = 0 => call[r].team \in Teams
BY SubmissionAssumption DEF TypeOK, Call, Refusal, ReqType

\* The rows and events a request writes are rows and events.
LEMMA RowType ==
    ASSUME Inv0, NEW r \in Requests, call[r].team \in Teams
    PROVE  /\ SubmissionRow(r) \in SubmissionRows
           /\ SolveRow(r) \in Ledger!Row
           /\ SolvedEvent(r) \in Event
           /\ ScoreboardEvent(r) \in Event
<1>1. TypeOK /\ Cardinality(solves) \in Nat
  BY CountType DEF Inv0
<1>2. /\ call[r].user \in Users /\ call[r].challenge \in Challenges /\ call[r].flag \in Flags
      /\ req[r].correct \in BOOLEAN /\ req[r].points \in Int
  BY <1>1, CallType DEF ReqType
<1>3. SubmissionRow(r) \in SubmissionRows
  BY <1>2 DEF SubmissionRow, SubmissionRows
<1>4. SolveRow(r) \in Ledger!Row
  BY <1>1, <1>2 DEF SolveRow, Ledger!Row
<1>5. SolvedEvent(r) \in Event /\ ScoreboardEvent(r) \in Event
  BY <1>2 DEF SolvedEvent, ScoreboardEvent, Event
<1>6. QED
  BY <1>3, <1>4, <1>5

\* An insert adds one row of the right kind at most.
LEMMA InsertType ==
    ASSUME Inv0, NEW r \in Requests, call[r].team \in Teams, InsertSolve(r)
    PROVE  solves' \subseteq Ledger!Row /\ IsFiniteSet(solves')
<1>1. solves' = solves \/ solves' = solves \union {SolveRow(r)}
  BY DEF InsertSolve
<1>2. IsFiniteSet(solves \union {SolveRow(r)})
  BY FS_AddElement DEF Inv0
<1>3. solves \subseteq Ledger!Row /\ IsFiniteSet(solves)
  BY DEF Inv0, TypeOK
<1>4. SolveRow(r) \in Ledger!Row
  BY RowType
<1>5. QED
  BY <1>1, <1>2, <1>3, <1>4

-----------------------------------------------------------------------------
(* One step keeps every variable typed.  TypeOK is the conjunction of TabOK,  *)
(* about the tables and the cluster, and ReqOK, about the handlers.           *)

TabOK ==
    /\ ClusterTypeOK
    /\ solves \subseteq Ledger!Row
    /\ IsFiniteSet(solves)
    /\ submissions \subseteq SubmissionRows
    /\ published \in Seq(Event)

ReqOK ==
    /\ call \in [Requests -> Calls]
    /\ req \in [Requests -> ReqType]
    /\ \A r \in Requests : req[r].pc \notin {"idle", "replied"} => call[r].team \in Teams

LEMMA Inv0Parts == Inv0 <=> TabOK /\ ReqOK
BY DEF Inv0, TypeOK, TabOK, ReqOK, ReqType

\* Whatever a handler makes of its own entry, it stays typed if the new entry is
\* and if only a request with a team is past its early returns.
LEMMA ReqMoves ==
    ASSUME ReqOK, NEW r \in Requests, NEW v \in ReqType,
           req' = [req EXCEPT ![r] = v], call' = call,
           v.pc \in {"idle", "replied"} \/ call[r].team \in Teams
    PROVE  ReqOK'
BY DEF ReqOK

\* An entry with one field changed is an entry.
LEMMA ReqEdit ==
    ASSUME NEW q \in ReqType
    PROVE  /\ \A pc \in PCs : [q EXCEPT !.pc = pc] \in ReqType
           /\ \A b \in BOOLEAN : [q EXCEPT !.correct = b] \in ReqType
           /\ \A n \in Nat : [q EXCEPT !.count = n] \in ReqType
           /\ \A i \in Int : [q EXCEPT !.points = i] \in ReqType
           /\ \A s \in Statuses : [q EXCEPT !.status = s] \in ReqType
           /\ \A b \in BOOLEAN : [q EXCEPT !.dropped = b] \in ReqType
<1> USE DEF ReqType, Statuses
<1>1. \A pc \in PCs : [q EXCEPT !.pc = pc] \in ReqType
  OBVIOUS
<1>2. \A b \in BOOLEAN : [q EXCEPT !.correct = b] \in ReqType
  OBVIOUS
<1>3. \A n \in Nat : [q EXCEPT !.count = n] \in ReqType
  OBVIOUS
<1>4. \A i \in Int : [q EXCEPT !.points = i] \in ReqType
  OBVIOUS
<1>5. \A s \in Statuses : [q EXCEPT !.status = s] \in ReqType
  OBVIOUS
<1>6. \A b \in BOOLEAN : [q EXCEPT !.dropped = b] \in ReqType
  OBVIOUS
<1>7. QED
  BY <1>1, <1>2, <1>3, <1>4, <1>5, <1>6

\* The edits the actions make: one field after the other.
LEMMA Edit2 ==
    ASSUME NEW q \in ReqType, NEW pc \in PCs, NEW b \in BOOLEAN
    PROVE  [q EXCEPT !.pc = pc, !.correct = b] \in ReqType
<1>1. [[q EXCEPT !.pc = pc] EXCEPT !.correct = b] \in ReqType
  BY ReqEdit
<1>2. QED
  BY <1>1

LEMMA Edit3 ==
    ASSUME NEW q \in ReqType, NEW pc \in PCs, NEW n \in Nat, NEW i \in Int
    PROVE  [q EXCEPT !.pc = pc, !.count = n, !.points = i] \in ReqType
<1>1. [[[q EXCEPT !.pc = pc] EXCEPT !.count = n] EXCEPT !.points = i] \in ReqType
  BY ReqEdit
<1>2. QED
  BY <1>1

LEMMA Edit4 ==
    ASSUME NEW q \in ReqType, NEW pc \in PCs, NEW s \in Statuses, NEW i \in Int
    PROVE  [q EXCEPT !.pc = pc, !.status = s, !.points = i] \in ReqType
<1>1. [[[q EXCEPT !.pc = pc] EXCEPT !.status = s] EXCEPT !.points = i] \in ReqType
  BY ReqEdit
<1>2. QED
  BY <1>1

LEMMA Edit5 ==
    ASSUME NEW q \in ReqType, NEW pc \in PCs, NEW i \in Int
    PROVE  [q EXCEPT !.pc = pc, !.points = i, !.dropped = TRUE] \in ReqType
<1>1. [[[q EXCEPT !.pc = pc] EXCEPT !.points = i] EXCEPT !.dropped = TRUE] \in ReqType
  BY ReqEdit
<1>2. QED
  BY <1>1

LEMMA Edit6 ==
    ASSUME NEW q \in ReqType, NEW pc \in PCs, NEW s \in Statuses
    PROVE  [q EXCEPT !.dropped = TRUE, !.pc = pc, !.status = s] \in ReqType
<1>1. [[[q EXCEPT !.dropped = TRUE] EXCEPT !.pc = pc] EXCEPT !.status = s] \in ReqType
  BY ReqEdit
<1>2. QED
  BY <1>1

\* The answer of a handler that gives up although its insert may be there.
LEMMA FailureType ==
    ASSUME NEW q \in ReqType
    PROVE  [q EXCEPT !.pc = "replied", !.status = 500, !.points = 0, !.dropped = TRUE] \in ReqType
<1>1. "replied" \in PCs /\ 500 \in Statuses /\ 0 \in Int /\ TRUE \in BOOLEAN
  BY DEF PCs, Statuses
<1>2. \A a \in ReqType : [a EXCEPT !.pc = "replied"] \in ReqType
  BY <1>1, ReqEdit
<1>3. \A a \in ReqType : [a EXCEPT !.status = 500] \in ReqType
  BY <1>1, ReqEdit
<1>4. \A a \in ReqType : [a EXCEPT !.points = 0] \in ReqType
  BY <1>1, ReqEdit
<1>5. \A a \in ReqType : [a EXCEPT !.dropped = TRUE] \in ReqType
  BY <1>1, ReqEdit
<1> DEFINE a == [q EXCEPT !.pc = "replied"]
           b == [a EXCEPT !.status = 500]
           c == [b EXCEPT !.points = 0]
<1>6. a \in ReqType
  BY <1>2
<1>7. b \in ReqType
  BY <1>3, <1>6
<1>8. c \in ReqType
  BY <1>4, <1>7
<1>9. [c EXCEPT !.dropped = TRUE] \in ReqType
  BY <1>5, <1>8
<1>10. QED
  BY <1>9

LEMMA GotoType ==
    ASSUME ReqOK, NEW r \in Requests, NEW pc \in PCs, Goto(r, pc), call' = call,
           call[r].team \in Teams
    PROVE  ReqOK'
<1> DEFINE v == [req[r] EXCEPT !.pc = pc]
<1>1. v \in ReqType /\ req' = [req EXCEPT ![r] = v]
  BY DEF Goto, Become, ReqOK, ReqType
<1>2. QED
  BY <1>1, ReqMoves

LEMMA ReplyType ==
    ASSUME ReqOK, NEW r \in Requests, NEW points \in Int,
           NEW status \in Statuses,
           Reply(r, status, points), call' = call
    PROVE  ReqOK'
<1> DEFINE v == [req[r] EXCEPT !.pc = "replied", !.status = status, !.points = points]
<1>1. req[r] \in ReqType /\ "replied" \in PCs /\ status \in Statuses
  BY DEF ReqOK, PCs
<1>2. v \in ReqType
  BY <1>1, Edit4
<1>3. v.pc = "replied"
  BY <1>1 DEF ReqType
<1>4. req' = [req EXCEPT ![r] = v]
  BY DEF Reply, Become
<1>5. QED
  BY <1>2, <1>3, <1>4, ReqMoves

\* A step of a handler gives its request another value of the type, and gets past
\* the early returns only with a team.
LEMMA HandlerType ==
    ASSUME Inv0, NEW r \in Requests, Receive(r) \/ Step(r) \/ Fault(r)
    PROVE  ReqOK'
<1>1. ReqOK /\ call' = call
  BY Inv0Parts DEF Receive, Refuse, AcceptStatic, AcceptDynamic, Step, CheckInstance, Record,
     Count, Insert, Mark, Announce, Refresh, Fault, CallFails, RecordAckLost, InsertAckLost,
     LoggedFailure, Crash
<1>2. /\ req[r] \in ReqType /\ call[r].challenge \in Challenges
      /\ Refusal(call[r]) = 0 => call[r].team \in Teams
      /\ Refusal(call[r]) \in Statuses
      /\ req[r].pc \notin {"idle", "replied"} => call[r].team \in Teams
      /\ req[r].points \in Int
      /\ 0 \in Int /\ 200 \in Statuses /\ 500 \in Statuses
      /\ "record" \in PCs /\ "insert" \in PCs /\ "replied" \in PCs
      /\ TRUE \in BOOLEAN
  BY CallType DEF Inv0, Refusal, ReqType, Statuses, PCs
<1>3. CASE Refuse(r)
  BY <1>1, <1>2, <1>3, ReplyType DEF Refuse
<1>4. CASE AcceptStatic(r)
  <2> DEFINE v == [req[r] EXCEPT !.pc = "record", !.correct = (call[r].flag = 1)]
  <2>1. v \in ReqType
    BY <1>2, Edit2
  <2>2. req' = [req EXCEPT ![r] = v] /\ call[r].team \in Teams
    BY <1>2, <1>4 DEF AcceptStatic, Become
  <2>3. QED
    BY <1>1, <2>1, <2>2, ReqMoves
<1>5. CASE AcceptDynamic(r)
  BY <1>1, <1>2, <1>5, GotoType DEF AcceptDynamic, PCs
<1>6. CASE CheckInstance(r)
  <2> DEFINE v == [req[r] EXCEPT !.pc = "record", !.correct = HasFlag(Target(r), call[r].flag)]
  <2>1. HasFlag(Target(r), call[r].flag) \in BOOLEAN
    <3>1. Target(r) \in Names
      BY <1>2, <1>6, TargetType DEF CheckInstance, At, Inv0
    <3>2. inst[Target(r)].ready \in BOOLEAN
      BY <3>1 DEF Inv0, TypeOK, ClusterTypeOK, Object
    <3>3. QED
      BY <3>2 DEF HasFlag, Exists
  <2>2. v \in ReqType
    BY <1>2, <2>1, Edit2
  <2>3. req' = [req EXCEPT ![r] = v] /\ call[r].team \in Teams
    BY <1>2, <1>6 DEF CheckInstance, At, Become
  <2>4. QED
    BY <1>1, <2>2, <2>3, ReqMoves
<1>7. CASE Record(r)
  BY <1>1, <1>2, <1>7, GotoType, ReplyType DEF Record, At, PCs
<1>8. CASE Count(r)
  <2> DEFINE n == CountSolves(call[r].challenge)
             p == CurrentValue(SchemeOf[call[r].challenge], n)
             v == [req[r] EXCEPT !.pc = "insert", !.count = n, !.points = p]
  <2>1. n \in Nat /\ p \in Int
    BY <1>2, CountType, ValueType, SubmissionAssumption DEF Inv0
  <2>2. v \in ReqType
    BY <1>2, <2>1, Edit3
  <2>3. req' = [req EXCEPT ![r] = v] /\ call[r].team \in Teams
    BY <1>2, <1>8 DEF Count, At, Become
  <2>4. QED
    BY <1>1, <2>2, <2>3, ReqMoves
<1>9. CASE Insert(r)
  BY <1>1, <1>2, <1>9, GotoType, ReplyType DEF Insert, AfterAward, At, PCs
<1>10. CASE Mark(r) \/ Announce(r)
  BY <1>1, <1>2, <1>10, GotoType DEF Mark, Announce, At, PCs
<1>11. CASE Refresh(r)
  BY <1>1, <1>2, <1>11, ReplyType DEF Refresh
<1>12. CASE CallFails(r) \/ RecordAckLost(r)
  BY <1>1, <1>2, <1>12, ReplyType DEF CallFails, RecordAckLost
<1>13. CASE InsertAckLost(r)
  <2> DEFINE v == [req[r] EXCEPT !.pc = "replied", !.status = 500, !.points = 0,
                     !.dropped = TRUE]
  <2>1. v \in ReqType
    BY <1>2, FailureType
  <2>2. req' = [req EXCEPT ![r] = v] /\ v.pc = "replied"
    BY <1>2, <1>13 DEF InsertAckLost, Become, ReqType
  <2>3. QED
    BY <1>1, <2>1, <2>2, ReqMoves
<1>14. CASE LoggedFailure(r)
  <2> DEFINE pc == CASE req[r].pc = "mark" -> "announce"
                     [] req[r].pc = "announce" -> "refresh"
                     [] req[r].pc = "refresh" -> "replied"
             status == IF At(r, "refresh") THEN 200 ELSE req[r].status
             v == [req[r] EXCEPT !.dropped = TRUE, !.pc = pc, !.status = status]
  <2>1. pc \in PCs /\ status \in Statuses
    BY <1>2, <1>14 DEF LoggedFailure, PCs, Statuses, ReqType
  <2>2. v \in ReqType
    BY <1>2, <2>1, Edit6
  <2>3. req' = [req EXCEPT ![r] = v]
    BY <1>14 DEF LoggedFailure, Become
  <2>4. call[r].team \in Teams
    BY <1>2, <1>14 DEF LoggedFailure
  <2>5. QED
    BY <1>1, <2>2, <2>3, <2>4, ReqMoves
<1>15. CASE Crash(r)
  <2> DEFINE v == [req[r] EXCEPT !.pc = "replied", !.points = 0, !.dropped = TRUE]
  <2>1. v \in ReqType
    BY <1>2, Edit5
  <2>2. req' = [req EXCEPT ![r] = v] /\ v.pc = "replied"
    BY <1>2, <1>15 DEF Crash, Become, ReqType
  <2>3. QED
    BY <1>1, <2>1, <2>2, ReqMoves
<1>16. QED
  BY <1>3, <1>4, <1>5, <1>6, <1>7, <1>8, <1>9, <1>10, <1>11, <1>12, <1>13, <1>14, <1>15
  DEF Receive, Step, Fault

\* It writes rows and events of the right kind, and patches objects as objects.
LEMMA HandlerTables ==
    ASSUME Inv0, NEW r \in Requests, Receive(r) \/ Step(r) \/ Fault(r)
    PROVE  TabOK'
<1>1. TabOK
  BY Inv0Parts
<1>2. req[r].pc \notin {"idle", "replied"} =>
        call[r].team \in Teams /\ Target(r) \in Names
  BY CallType, TargetType DEF Inv0
<1>3. ASSUME UNCHANGED <<clusterVars, solves, submissions, published>> PROVE TabOK'
  BY <1>1, <1>3 DEF TabOK, ClusterTypeOK, clusterVars
<1>4. ASSUME UNCHANGED <<clusterVars, solves, published>>, req[r].pc \notin {"idle", "replied"},
             submissions' = submissions \union {SubmissionRow(r)}
      PROVE  TabOK'
  BY <1>1, <1>2, <1>4, RowType DEF TabOK, ClusterTypeOK, clusterVars
<1>5. ASSUME UNCHANGED <<clusterVars, submissions, published>>,
             req[r].pc \notin {"idle", "replied"}, InsertSolve(r)
      PROVE  TabOK'
  BY <1>1, <1>2, <1>5, InsertType DEF TabOK, ClusterTypeOK, clusterVars
<1>6. ASSUME UNCHANGED <<clusterVars, solves, submissions>>, req[r].pc \notin {"idle", "replied"},
             NEW e \in Event, published' = Append(published, e)
      PROVE  TabOK'
  BY <1>1, <1>2, <1>6 DEF TabOK, ClusterTypeOK, clusterVars
<1>7. CASE Mark(r)
  BY <1>1, <1>2, <1>7, ObjectCalls DEF Mark, At, TabOK, ClusterTypeOK
<1>8. CASE Record(r) \/ RecordAckLost(r)
  BY <1>4, <1>8 DEF Record, RecordAckLost, At
<1>9. CASE Insert(r) \/ InsertAckLost(r)
  BY <1>5, <1>9 DEF Insert, InsertAckLost, At
<1>10. CASE Announce(r) \/ Refresh(r)
  BY <1>2, <1>6, <1>10, RowType DEF Announce, Refresh, At
<1>11. CASE Receive(r) \/ CheckInstance(r) \/ Count(r) \/ CallFails(r) \/ LoggedFailure(r)
            \/ Crash(r)
  BY <1>3, <1>11 DEF Receive, Refuse, AcceptStatic, AcceptDynamic, CheckInstance, Count,
     CallFails, LoggedFailure, Crash
<1>12. QED
  BY <1>7, <1>8, <1>9, <1>10, <1>11 DEF Step, Fault

\* The environment changes nothing but objects and challenges.
LEMMA EnvironmentType == ASSUME Inv0, Environment PROVE Inv0'
<1>1. TabOK /\ ReqOK
  BY Inv0Parts
<1>2. UNCHANGED <<solves, submissions, published, call, req>>
  BY DEF Environment, LaunchElsewhere
<1>3. ClusterTypeOK'
  <2>1. ASSUME NEW c \in Challenges, NEW u \in Users, NEW t \in Teams,
               LaunchElsewhere(InstanceName(c, u, t))
        PROVE  ClusterTypeOK'
    <3>1. InstanceName(c, u, t) \in Names
      BY DEF InstanceName, SourceID, Names, Sources
    <3>2. QED
      BY <1>1, <2>1, <3>1, ObjectCalls DEF LaunchElsewhere, TabOK, ClusterTypeOK
  <2>2. QED
    BY <1>1, <2>1, ClusterStep DEF Environment, TabOK
<1>4. TabOK' /\ ReqOK'
  BY <1>1, <1>2, <1>3 DEF TabOK, ReqOK
<1>5. QED
  BY <1>4, Inv0Parts, PTL

LEMMA StepInv0 == Inv0 /\ [Next]_vars => Inv0'
<1> SUFFICES ASSUME Inv0, [Next]_vars PROVE Inv0'
  OBVIOUS
<1>1. CASE SubmitNext
  <2>1. PICK r \in Requests : Receive(r) \/ Step(r) \/ Fault(r)
    BY <1>1 DEF SubmitNext
  <2>2. ReqOK' /\ TabOK'
    BY <2>1, HandlerType, HandlerTables
  <2>3. QED
    BY <2>2, Inv0Parts, PTL
<1>2. CASE Environment
  BY <1>2, EnvironmentType
<1>3. CASE UNCHANGED vars
  BY <1>3 DEF vars, Inv0, TypeOK, ClusterTypeOK
<1>4. QED
  BY <1>1, <1>2, <1>3 DEF Next

\* Every reachable state is well typed: whatever fails and however the requests
\* interleave, only a submission with a team claim writes a row or an event.
THEOREM TypeCorrect == Spec => []TypeOK
<1>1. Inv0 => TypeOK
  BY DEF Inv0
<1>2. QED
  BY <1>1, InitInv0, StepInv0, PTL DEF Spec

-----------------------------------------------------------------------------
(* The inductive invariant.  A request past its early returns carries what    *)
(* makes its later writes legitimate: the correct submission it recorded, a   *)
(* price the ledger knew, and, once its insert took effect, the row it won.   *)

Pursues(r) == req[r].pc \in {"count", "insert", "mark", "announce", "refresh"}

Proves(b, r) == b.team = call[r].team /\ b.challenge = call[r].challenge /\ b.correct

Backed == \A r \in Requests : Pursues(r) => \E b \in submissions : Proves(b, r)

PricedAt(r) ==
    \E n \in 0..Cardinality(Ledger!SolvesOf(call[r].challenge)) :
        req[r].points = CurrentValue(SchemeOf[call[r].challenge], n)

Priced == \A r \in Requests : At(r, "insert") => PricedAt(r)

\* The insert of r took effect, and r has not been told otherwise.
Winner(r) ==
    \/ req[r].pc \in {"mark", "announce", "refresh"}
    \/ At(r, "replied") /\ req[r].points # 0

Won(r) ==
    \E s \in solves : /\ s.team = call[r].team
                      /\ s.challenge = call[r].challenge
                      /\ s.points = req[r].points

Rivals(r, q) == call[q].team = call[r].team /\ call[q].challenge = call[r].challenge

Paid == \A r \in Requests : Winner(r) => Won(r)

OneWinner ==
    \A r, q \in Requests : Winner(r) /\ Winner(q) /\ Rivals(r, q) => q = r

Pending(r) == req[r].pc \in {"mark", "announce"}

Unannounced == \A r \in Requests : Pending(r) => ~Announced(call[r].team, call[r].challenge)

IInv ==
    /\ Inv0
    /\ Backed
    /\ SolveBacked
    /\ Priced
    /\ Paid
    /\ OneWinner
    /\ Unannounced
    /\ AnnouncedOnce

-----------------------------------------------------------------------------
(* What one step of a handler amounts to: nothing for the ledger and the      *)
(* events, a row, a challenge.solved, or a scoreboard.updated.                *)

Others(r) == call' = call /\ \A q \in Requests \ {r} : req'[q] = req[q]

Quiet(r) ==
    /\ solves' = solves /\ published' = published
    /\ submissions \subseteq submissions'
    /\ Pursues(r)' => Pursues(r) \/ \E b \in submissions' : Proves(b, r)
    /\ At(r, "insert")' => PricedAt(r)'
    /\ Winner(r)' => Winner(r) /\ req'[r].points = req[r].points
    /\ Pending(r)' => Pending(r)

Wins(r) ==
    /\ At(r, "insert")
    /\ ~Ledger!HasSolved(call[r].team, call[r].challenge)
    /\ solves' = solves \union {SolveRow(r)}
    /\ UNCHANGED <<submissions, published>>
    /\ ~At(r, "insert")'
    /\ Winner(r)' => req'[r].points = req[r].points

Tells(r) ==
    /\ At(r, "announce")
    /\ UNCHANGED <<solves, submissions>>
    /\ published' = Append(published, SolvedEvent(r))
    /\ At(r, "refresh")' /\ req'[r].points = req[r].points

Refreshes(r) ==
    /\ At(r, "refresh")
    /\ UNCHANGED <<solves, submissions>>
    /\ published' = Append(published, ScoreboardEvent(r))
    /\ At(r, "replied")' /\ req'[r].points = req[r].points

LEMMA BecomeOthers ==
    ASSUME Inv0, NEW r \in Requests, NEW v, Become(r, v), call' = call
    PROVE  Others(r) /\ req'[r] = v
BY DEF Inv0, TypeOK, Become, Others

LEMMA HandlerOthers ==
    ASSUME Inv0, NEW r \in Requests, Receive(r) \/ Step(r) \/ Fault(r)
    PROVE  Others(r)
BY BecomeOthers DEF Receive, Refuse, AcceptStatic, AcceptDynamic, Step, CheckInstance, Record,
   Count, Insert, Mark, Announce, Refresh, Fault, CallFails, RecordAckLost, InsertAckLost,
   LoggedFailure, Crash, Goto, Reply

\* What a step of a handler does to its request and the tables is one of four things.
LEMMA HandlerEffect ==
    ASSUME Inv0, NEW r \in Requests, Receive(r) \/ Step(r) \/ Fault(r)
    PROVE  Quiet(r) \/ Wins(r) \/ Tells(r) \/ Refreshes(r)
<1>1. req[r] \in ReqType /\ call' = call
  BY CallType, HandlerOthers DEF Inv0, Others
<1>2. ASSUME NEW pc, Goto(r, pc)
      PROVE  req'[r].pc = pc /\ req'[r].points = req[r].points
  BY <1>1, <1>2, BecomeOthers DEF Goto, ReqType
<1>3. ASSUME NEW status, NEW points, Reply(r, status, points)
      PROVE  req'[r].pc = "replied" /\ req'[r].points = points
  <2> DEFINE v == [req[r] EXCEPT !.pc = "replied", !.status = status, !.points = points]
  <2>1. req'[r] = v
    BY <1>1, <1>3, BecomeOthers DEF Reply
  <2>2. v.pc = "replied" /\ v.points = points
    BY <1>1 DEF ReqType
  <2>3. QED
    BY <2>1, <2>2
<1>4. CASE Refuse(r) \/ CallFails(r)
  BY <1>1, <1>3, <1>4 DEF Refuse, CallFails, Quiet, Pursues, Winner, Pending, At
<1>5. CASE AcceptStatic(r) \/ CheckInstance(r)
  <2> DEFINE v(b) == [req[r] EXCEPT !.pc = "record", !.correct = b]
  <2>1. req'[r] = v(call[r].flag = 1) \/ req'[r] = v(HasFlag(Target(r), call[r].flag))
    BY <1>1, <1>5, BecomeOthers DEF AcceptStatic, CheckInstance
  <2>2. \A b : v(b).pc = "record"
    BY <1>1 DEF ReqType
  <2>3. req'[r].pc = "record"
    BY <2>1, <2>2
  <2>4. QED
    BY <1>5, <2>3 DEF AcceptStatic, CheckInstance, Quiet, Pursues, Winner, Pending, At
<1>6. CASE AcceptDynamic(r)
  BY <1>1, <1>2, <1>6 DEF AcceptDynamic, Quiet, Pursues, Winner, Pending, At
<1>7. CASE Record(r)
  <2>1. \/ req'[r].pc = "replied" /\ req'[r].points = 0
        \/ req[r].correct /\ req'[r].pc = "count"
    <3>1. CASE req[r].correct
      BY <1>2, <1>7, <3>1 DEF Record
    <3>2. CASE ~req[r].correct
      <4>1. Reply(r, 200, 0)
        BY <1>7, <3>2 DEF Record
      <4>2. QED
        BY <4>1, <1>3
    <3>3. QED
      BY <3>1, <3>2
  <2>2. req[r].correct => Proves(SubmissionRow(r), r)
    BY <1>1 DEF Proves, SubmissionRow
  <2>3. QED
    BY <1>7, <2>1, <2>2 DEF Record, Quiet, Pursues, Winner, Pending, At
<1>8. CASE Count(r)
  <2> DEFINE c == call[r].challenge
             n == CountSolves(c)
             p == CurrentValue(SchemeOf[c], n)
             v == [req[r] EXCEPT !.pc = "insert", !.count = n, !.points = p]
  <2>1. req'[r].pc = "insert" /\ req'[r].points = p
    <3>1. req'[r] = v
      BY <1>1, <1>8, BecomeOthers DEF Count
    <3>2. v.pc = "insert" /\ v.points = p
      BY <1>1 DEF ReqType
    <3>3. QED
      BY <3>1, <3>2
  <2>2. n = Cardinality(Ledger!SolvesOf(c)) /\ n \in Nat
    BY CountType DEF CountSolves, Inv0
  <2>3. UNCHANGED <<solves, submissions, published>> /\ At(r, "count")
    BY <1>8 DEF Count
  <2>4. PricedAt(r)'
    <3>1. Ledger!SolvesOf(c)' = Ledger!SolvesOf(c)
      BY <1>1, <2>3 DEF Ledger!SolvesOf
    <3>2. n \in 0..Cardinality(Ledger!SolvesOf(c)')
      BY <2>2, <3>1
    <3>3. QED
      BY <1>1, <2>1, <3>2 DEF PricedAt
  <2>5. QED
    BY <2>1, <2>3, <2>4 DEF Quiet, Pursues, Winner, Pending, At
<1>9. CASE Insert(r)
  <2>1. CASE Ledger!HasSolved(call[r].team, call[r].challenge)
    BY <1>3, <1>9, <2>1 DEF Insert, InsertSolve, Quiet, Pursues, Winner, Pending, At
  <2>2. CASE ~Ledger!HasSolved(call[r].team, call[r].challenge)
    <3>1. req'[r].pc \in {"mark", "announce"} /\ req'[r].points = req[r].points
      BY <1>2, <1>9, <2>2 DEF Insert, AfterAward
    <3>2. QED
      BY <1>9, <2>2, <3>1 DEF Insert, InsertSolve, Wins, At
  <2>3. QED
    BY <2>1, <2>2
<1>10. CASE Mark(r)
  BY <1>2, <1>10 DEF Mark, Quiet, Pursues, Winner, Pending, At
<1>11. CASE Announce(r)
  BY <1>2, <1>11 DEF Announce, Tells, At
<1>12. CASE Refresh(r)
  BY <1>3, <1>12 DEF Refresh, Refreshes, At
<1>13. CASE RecordAckLost(r)
  BY <1>3, <1>13 DEF RecordAckLost, Quiet, Pursues, Winner, Pending, At
<1>14. CASE InsertAckLost(r)
  <2> DEFINE v == [req[r] EXCEPT !.pc = "replied", !.status = 500, !.points = 0,
                     !.dropped = TRUE]
  <2>1. req'[r].pc = "replied" /\ req'[r].points = 0
    <3>1. req'[r] = v
      BY <1>1, <1>14, BecomeOthers DEF InsertAckLost
    <3>2. v.pc = "replied" /\ v.points = 0
      BY <1>1 DEF ReqType
    <3>3. QED
      BY <3>1, <3>2
  <2>2. QED
    BY <1>14, <2>1 DEF InsertAckLost, InsertSolve, Quiet, Wins, Pursues, Winner, Pending, At
<1>15. CASE LoggedFailure(r)
  <2>1. /\ req'[r].points = req[r].points
        /\ \/ req[r].pc = "mark" /\ req'[r].pc = "announce"
           \/ req[r].pc = "announce" /\ req'[r].pc = "refresh"
           \/ req[r].pc = "refresh" /\ req'[r].pc = "replied"
    <3> DEFINE pc == CASE req[r].pc = "mark" -> "announce"
                       [] req[r].pc = "announce" -> "refresh"
                       [] req[r].pc = "refresh" -> "replied"
               status == IF At(r, "refresh") THEN 200 ELSE req[r].status
               v == [req[r] EXCEPT !.dropped = TRUE, !.pc = pc, !.status = status]
    <3>1. req'[r] = v
      BY <1>1, <1>15, BecomeOthers DEF LoggedFailure
    <3>2. v.pc = pc /\ v.points = req[r].points
      BY <1>1 DEF ReqType
    <3>3. req[r].pc \in {"mark", "announce", "refresh"}
      BY <1>15 DEF LoggedFailure
    <3>4. QED
      BY <3>1, <3>2, <3>3
  <2>2. QED
    BY <1>15, <2>1 DEF LoggedFailure, Quiet, Pursues, Winner, Pending, At
<1>16. CASE Crash(r)
  <2> DEFINE v == [req[r] EXCEPT !.pc = "replied", !.points = 0, !.dropped = TRUE]
  <2>1. req'[r].pc = "replied" /\ req'[r].points = 0
    <3>1. req'[r] = v
      BY <1>1, <1>16, BecomeOthers DEF Crash
    <3>2. v.pc = "replied" /\ v.points = 0
      BY <1>1 DEF ReqType
    <3>3. QED
      BY <3>1, <3>2
  <2>2. QED
    BY <1>16, <2>1 DEF Crash, Quiet, Pursues, Winner, Pending, At
<1>17. QED
  BY <1>4, <1>5, <1>6, <1>7, <1>8, <1>9, <1>10, <1>11, <1>12, <1>13, <1>14, <1>15, <1>16
  DEF Receive, Step, Fault

-----------------------------------------------------------------------------
(* Each kind of step keeps the invariant. *)

\* Rows that are only added keep the earlier ones, their counts and what rests on
\* them.
LEMMA RowsGrow ==
    ASSUME Inv0, Inv0', solves \subseteq solves'
    PROVE  \A c : Cardinality(Ledger!SolvesOf(c)) <= Cardinality(Ledger!SolvesOf(c)')
<1> SUFFICES ASSUME NEW c
             PROVE  Cardinality(Ledger!SolvesOf(c)) <= Cardinality(Ledger!SolvesOf(c)')
  OBVIOUS
<1>1. Ledger!SolvesOf(c) \subseteq Ledger!SolvesOf(c)' /\ Ledger!SolvesOf(c)' \subseteq solves'
  BY DEF Ledger!SolvesOf
<1>2. IsFiniteSet(Ledger!SolvesOf(c)')
  BY <1>1, FS_Subset DEF Inv0
<1>3. QED
  BY <1>1, <1>2, FS_Subset

LEMMA PriceKept ==
    ASSUME Inv0, Inv0', solves \subseteq solves', NEW q \in Requests, PricedAt(q),
           call' = call, req'[q] = req[q]
    PROVE  PricedAt(q)'
<1> DEFINE c == call[q].challenge
<1>1. PICK n \in 0..Cardinality(Ledger!SolvesOf(c)) : req[q].points = CurrentValue(SchemeOf[c], n)
  BY DEF PricedAt
<1>2. /\ Cardinality(Ledger!SolvesOf(c)) \in Nat
      /\ Cardinality(Ledger!SolvesOf(c)') \in Nat
      /\ Cardinality(Ledger!SolvesOf(c)) <= Cardinality(Ledger!SolvesOf(c)')
  <2>1. Ledger!SolvesOf(c) \subseteq solves /\ Ledger!SolvesOf(c)' \subseteq solves'
    BY DEF Ledger!SolvesOf
  <2>2. QED
    BY <2>1, RowsGrow, FS_Subset, FS_CardinalityType DEF Inv0
<1>3. n \in 0..Cardinality(Ledger!SolvesOf(c)')
  BY <1>2
<1>4. QED
  BY <1>1, <1>3 DEF PricedAt

LEMMA QuietKeeps ==
    ASSUME IInv, Inv0', NEW r \in Requests, Others(r), Quiet(r)
    PROVE  IInv'
<1> USE DEF IInv, Others, Quiet
<1>1. Backed'
  BY DEF Backed, Pursues, Proves
<1>2. SolveBacked'
  BY DEF SolveBacked
<1>3. Priced'
  <2>1. ASSUME NEW q \in Requests, q # r, At(q, "insert")' PROVE PricedAt(q)'
    BY <2>1, PriceKept DEF Priced, At
  <2>2. QED
    BY <2>1 DEF Priced
<1>4. ASSUME NEW q \in Requests, Winner(q)'
      PROVE  Winner(q) /\ req'[q].points = req[q].points
  BY <1>4 DEF Winner, At
<1>5. Paid'
  BY <1>4 DEF Paid, Won
<1>6. OneWinner'
  BY <1>4 DEF OneWinner, Rivals
<1>7. Unannounced'
  BY DEF Unannounced, Pending, Announced, SolvedEvents
<1>8. AnnouncedOnce'
  BY DEF AnnouncedOnce, SolvedEvents
<1>9. QED
  BY <1>1, <1>2, <1>3, <1>5, <1>6, <1>7, <1>8

\* A request that inserts a row becomes the winner.
LEMMA WinsKeeps ==
    ASSUME IInv, Inv0', NEW r \in Requests, Others(r), Wins(r)
    PROVE  IInv'
<1> USE DEF IInv, Others, Wins
<1>1. /\ SolveRow(r).team = call[r].team /\ SolveRow(r).challenge = call[r].challenge
      /\ SolveRow(r).points = req[r].points
      /\ SolveRow(r) \in solves' /\ solves \subseteq solves'
  BY DEF SolveRow
<1>2. Backed'
  BY DEF Backed, Pursues, Proves, At
<1>3. SolveBacked'
  <2>1. \E b \in submissions : Proves(b, r)
    BY DEF Backed, Pursues, At
  <2>2. QED
    BY <1>1, <2>1 DEF SolveBacked, Proves
<1>4. Priced'
  <2>1. ASSUME NEW q \in Requests, q # r, At(q, "insert")' PROVE PricedAt(q)'
    BY <1>1, <2>1, PriceKept DEF Priced, At
  <2>2. QED
    BY <2>1 DEF Priced
<1>5. ASSUME NEW q \in Requests, q # r, Winner(q)'
      PROVE  Winner(q) /\ Won(q) /\ req'[q] = req[q]
  BY <1>5 DEF Winner, At, Paid
<1>6. Paid'
  <2>1. ASSUME NEW q \in Requests, q # r, Winner(q)' PROVE Won(q)'
    BY <1>1, <1>5, <2>1 DEF Won
  <2>2. Winner(r)' => Won(r)'
    BY <1>1 DEF Won
  <2>3. QED
    BY <2>1, <2>2 DEF Paid
<1>7. ASSUME NEW q \in Requests, q # r, Winner(q)' PROVE ~Rivals(r, q) /\ ~Rivals(q, r)
  BY <1>5, <1>7 DEF Won, Rivals, Ledger!HasSolved
<1>8. OneWinner'
  <2>1. ASSUME NEW q1 \in Requests, NEW q2 \in Requests, Winner(q1)', Winner(q2)',
               Rivals(q1, q2)', q1 # q2
        PROVE  FALSE
    <3>1. q1 # r /\ q2 # r
      BY <2>1, <1>7 DEF Rivals
    <3>2. QED
      BY <2>1, <3>1, <1>5 DEF OneWinner, Rivals
  <2>2. QED
    BY <2>1 DEF OneWinner
<1>9. Unannounced'
  <2>1. ~Announced(call[r].team, call[r].challenge)
    BY DEF Announced, AnnouncedOnce, Ledger!HasSolved
  <2>2. QED
    BY <2>1 DEF Unannounced, Pending, Announced, SolvedEvents
<1>10. AnnouncedOnce'
  BY <1>1 DEF AnnouncedOnce, SolvedEvents
<1>11. QED
  BY <1>2, <1>3, <1>4, <1>6, <1>8, <1>9, <1>10

\* An event appended leaves the earlier ones where they are.
LEMMA EventAppended ==
    ASSUME published \in Seq(Event), NEW e \in Event, published' = Append(published, e)
    PROVE  /\ DOMAIN published = 1..Len(published)
           /\ DOMAIN published' = 1..(Len(published) + 1)
           /\ Len(published) \in Nat
           /\ \A i \in DOMAIN published : published'[i] = published[i]
           /\ published'[Len(published) + 1] = e
           /\ SolvedEvents' = SolvedEvents \union
                 (IF e.type = "challenge.solved" THEN {Len(published) + 1} ELSE {})
<1>1. /\ DOMAIN published = 1..Len(published)
      /\ DOMAIN published' = 1..(Len(published) + 1)
      /\ Len(published) \in Nat
      /\ \A i \in DOMAIN published : published'[i] = published[i]
      /\ published'[Len(published) + 1] = e
  OBVIOUS
<1>2. QED
  BY <1>1 DEF SolvedEvents

\* A step that leaves rows and submissions alone and makes no winner keeps what
\* does not mention the events.
LEMMA EventStepKeeps ==
    ASSUME IInv, Inv0', NEW r \in Requests, Others(r), UNCHANGED <<solves, submissions>>,
           Winner(r), req'[r].points = req[r].points, ~At(r, "insert")', Pursues(r)
    PROVE  Backed' /\ SolveBacked' /\ Priced' /\ Paid' /\ OneWinner'
<1> USE DEF IInv, Others
<1>1. Backed' /\ SolveBacked'
  BY DEF Backed, Pursues, Proves, SolveBacked
<1>2. Priced'
  <2>1. ASSUME NEW q \in Requests, q # r, At(q, "insert")' PROVE PricedAt(q)'
    BY <2>1, PriceKept DEF Priced, At
  <2>2. QED
    BY <2>1 DEF Priced
<1>3. ASSUME NEW q \in Requests, Winner(q)'
      PROVE  Winner(q) /\ req'[q].points = req[q].points
  BY <1>3 DEF Winner, At
<1>4. Paid'
  BY <1>3 DEF Paid, Won
<1>5. OneWinner'
  BY <1>3 DEF OneWinner, Rivals
<1>6. QED
  BY <1>1, <1>2, <1>4, <1>5

LEMMA TellsKeeps ==
    ASSUME IInv, Inv0', NEW r \in Requests, Others(r), Tells(r)
    PROVE  IInv'
<1> DEFINE e == SolvedEvent(r)
           k == Len(published) + 1
<1>1. /\ e.type = "challenge.solved" /\ e.team = call[r].team
      /\ e.challenge = call[r].challenge /\ e.points = req[r].points
  BY DEF SolvedEvent
<1>2. e \in Event /\ published \in Seq(Event)
  <2>1. call[r].team \in Teams
    BY CallType DEF IInv, Inv0, Tells, At
  <2>2. QED
    BY <2>1, RowType DEF IInv, Inv0, TypeOK
<1>3. /\ \A i \in SolvedEvents : published'[i] = published[i]
      /\ published'[k] = e /\ SolvedEvents' = SolvedEvents \union {k} /\ k \notin SolvedEvents
  <2> HIDE DEF e
  <2>1. published' = Append(published, e)
    BY DEF Tells, e
  <2>2. /\ Len(published) \in Nat /\ DOMAIN published = 1..Len(published)
        /\ \A i \in DOMAIN published : published'[i] = published[i]
        /\ published'[k] = e /\ SolvedEvents' = SolvedEvents \union {k}
    BY <1>1, <1>2, <2>1, EventAppended
  <2>3. QED
    BY <2>2 DEF SolvedEvents
<1> HIDE DEF e, k
<1>4. Winner(r) /\ Pending(r) /\ Pursues(r)
  BY DEF Tells, Winner, Pending, Pursues, At
<1>5. Backed' /\ SolveBacked' /\ Priced' /\ Paid' /\ OneWinner'
  BY <1>4, EventStepKeeps DEF Tells, At
<1>6. Unannounced'
  <2>1. ASSUME NEW q \in Requests, Pending(q)'
        PROVE  ~Announced(call[q].team, call[q].challenge)'
    <3>1. q # r /\ req'[q] = req[q] /\ call' = call
      BY <2>1 DEF Tells, Others, Pending, At
    <3>2. Pending(q) /\ Winner(q)
      BY <2>1, <3>1 DEF Pending, Winner
    <3>3. ~Rivals(r, q)
      BY <1>4, <3>1, <3>2 DEF IInv, OneWinner
    <3>4. ~Announced(call[q].team, call[q].challenge)
      BY <3>2 DEF IInv, Unannounced
    <3>5. QED
      BY <1>1, <1>3, <3>1, <3>3, <3>4 DEF Announced, Rivals
  <2>2. QED
    BY <2>1 DEF Unannounced, Others
<1>7. AnnouncedOnce'
  <2>1. Won(r) /\ ~Announced(call[r].team, call[r].challenge)
    BY <1>4 DEF IInv, Paid, Unannounced
  <2>2. solves' = solves
    BY DEF Tells
  <2>3. QED
    BY <1>1, <1>3, <2>1, <2>2 DEF IInv, AnnouncedOnce, Won, Announced
<1>8. QED
  BY <1>5, <1>6, <1>7 DEF IInv

LEMMA RefreshesKeeps ==
    ASSUME IInv, Inv0', NEW r \in Requests, Others(r), Refreshes(r)
    PROVE  IInv'
<1> DEFINE e == ScoreboardEvent(r)
<1>1. e \in Event /\ e.type # "challenge.solved" /\ published \in Seq(Event)
  <2>1. call[r].team \in Teams
    BY CallType DEF IInv, Inv0, Refreshes, At
  <2>2. QED
    BY <2>1, RowType DEF IInv, Inv0, TypeOK, ScoreboardEvent
<1>2. SolvedEvents' = SolvedEvents /\ \A i \in SolvedEvents : published'[i] = published[i]
  <2> HIDE DEF e
  <2>1. published' = Append(published, e)
    BY DEF Refreshes, e
  <2>2. QED
    BY <1>1, <2>1, EventAppended DEF SolvedEvents
<1>3. Winner(r) /\ Pursues(r)
  BY DEF Refreshes, Winner, Pursues, At
<1>4. Backed' /\ SolveBacked' /\ Priced' /\ Paid' /\ OneWinner'
  BY <1>3, EventStepKeeps DEF Refreshes, At
<1>5. Unannounced'
  BY <1>2 DEF IInv, Unannounced, Pending, Announced, Others, Refreshes, At
<1>6. AnnouncedOnce'
  <2>1. AnnouncedOnce /\ solves' = solves
    BY DEF IInv, Refreshes
  <2>2. QED
    BY <1>2, <2>1 DEF AnnouncedOnce
<1>7. QED
  BY <1>4, <1>5, <1>6 DEF IInv

LEMMA StepIInv == IInv /\ [Next]_vars => IInv'
<1> SUFFICES ASSUME IInv, [Next]_vars PROVE IInv'
  OBVIOUS
<1>1. Inv0'
  BY StepInv0 DEF IInv
<1>2. CASE SubmitNext
  <2>1. PICK r \in Requests : Receive(r) \/ Step(r) \/ Fault(r)
    BY <1>2 DEF SubmitNext
  <2>2. Others(r) /\ (Quiet(r) \/ Wins(r) \/ Tells(r) \/ Refreshes(r))
    BY <2>1, HandlerOthers, HandlerEffect DEF IInv
  <2>3. QED
    BY <1>1, <2>2, QuietKeeps, WinsKeeps, TellsKeeps, RefreshesKeeps
<1>3. CASE Environment \/ UNCHANGED vars
  <2>1. UNCHANGED <<solves, submissions, published, call, req>>
    BY <1>3 DEF Environment, LaunchElsewhere, vars
  <2>2. QED
    BY <1>1, <2>1 DEF IInv, Backed, Pursues, Proves, SolveBacked, Priced, At, PricedAt,
       Ledger!SolvesOf, Paid, Winner, Won, OneWinner, Rivals, Unannounced, Pending, Announced,
       SolvedEvents, AnnouncedOnce
<1>4. QED
  BY <1>2, <1>3 DEF Next

LEMMA InitIInv == Init => IInv
<1> SUFFICES ASSUME Init PROVE IInv
  OBVIOUS
<1>1. solves = {} /\ published = <<>> /\ \A r \in Requests : req[r].pc = "idle"
  BY DEF Init, Fresh
<1>2. QED
  BY <1>1, InitInv0 DEF IInv, Backed, Pursues, SolveBacked, Priced, At, Paid, Winner, OneWinner,
     Unannounced, Pending, AnnouncedOnce, SolvedEvents, Init

-----------------------------------------------------------------------------
(* The theorems. *)

LEMMA AlwaysIInv == Spec => []IInv
BY InitIInv, StepIInv, PTL DEF Spec

\* No interleaving, failure, crash or retry pays a team for a challenge it has no
\* recorded correct submission for.
THEOREM SolvesAreBacked == Spec => []SolveBacked
<1>1. IInv => SolveBacked
  BY DEF IInv
<1>2. QED
  BY <1>1, AlwaysIInv, PTL

\* challenge.solved is sent once for a team and a challenge at most, after the row
\* and with its points, whoever else submits at the same time.
THEOREM SolvesAreAnnouncedOnce == Spec => []AnnouncedOnce
<1>1. IInv => AnnouncedOnce
  BY DEF IInv
<1>2. QED
  BY <1>1, AlwaysIInv, PTL

\* Winners are told their points, and there is one winner among rivals.
LEMMA WinnersArePaid == IInv => PaidAnswerOnce
<1> SUFFICES ASSUME IInv, NEW r \in Requests, At(r, "replied"), req[r].points # 0
             PROVE  /\ Won(r)
                    /\ \A q \in Requests \ {r} :
                         At(q, "replied") /\ Rivals(r, q) => req[q].points = 0
  BY DEF PaidAnswerOnce, Won, Rivals
<1>1. Winner(r)
  BY DEF Winner
<1>2. Won(r)
  BY <1>1 DEF IInv, Paid
<1>3. ASSUME NEW q \in Requests \ {r}, At(q, "replied"), Rivals(r, q), req[q].points # 0
      PROVE  FALSE
  BY <1>1, <1>3 DEF IInv, OneWinner, Winner
<1>4. QED
  BY <1>2, <1>3

\* One answer at most of those a team gets for a challenge has points, and they are
\* the points of its row.
THEOREM PaidAnswers == Spec => []PaidAnswerOnce
BY WinnersArePaid, AlwaysIInv, PTL

\* Both modules speak of the same cardinalities and the same values.
LEMMA SameCardinality == \A S : Ledger!Cardinality(S) = Cardinality(S)
BY DEF Cardinality, Ledger!Cardinality

\* The abstract ledger computes the same values.
LEMMA SameValue ==
    ASSUME NEW s, NEW n
    PROVE  Ledger!CurrentValue(s, n) = CurrentValue(s, n)
<1>1. Ledger!Initial(s) = Initial(s) /\ Ledger!Floor(s) = Floor(s)
  BY DEF Initial, Ledger!Initial, Floor, Ledger!Floor
<1>2. Ledger!Decays(s, n) = Decays(s, n)
  BY <1>1 DEF Decays, Ledger!Decays
<1>3. Ledger!BelowFloor(s, n) = BelowFloor(s, n)
  BY <1>1, Zenon DEF BelowFloor, Ledger!BelowFloor, Power, Ledger!Power
<1>4. Ledger!LogLoss(s, n) = LogLoss(s, n)
  BY <1>1, SameCardinality, Zenon DEF LogLoss, Ledger!LogLoss, Power, Ledger!Power
<1>5. Ledger!Loss(s, n) = Loss(s, n)
  BY <1>4, Zenon DEF Loss, Ledger!Loss
<1>6. QED
  BY <1>1, <1>2, <1>3, <1>5, Zenon DEF CurrentValue, Ledger!CurrentValue

\* A step of the pipeline is an award the ledger allows, or leaves it alone.
LEMMA StepIsAward == IInv /\ [Next]_vars => [Ledger!LedgerNext]_solves
<1> SUFFICES ASSUME IInv, [Next]_vars PROVE [Ledger!LedgerNext]_solves
  OBVIOUS
<1>1. CASE SubmitNext
  <2>1. PICK r \in Requests : Receive(r) \/ Step(r) \/ Fault(r)
    BY <1>1 DEF SubmitNext
  <2>2. CASE Wins(r)
    <3> DEFINE t == call[r].team
               c == call[r].challenge
    <3>1. t \in Teams /\ c \in Challenges
      BY <2>2, CallType DEF IInv, Inv0, Wins, At
    <3>2. PICK n \in 0..Cardinality(Ledger!SolvesOf(c)) :
                 req[r].points = CurrentValue(SchemeOf[c], n)
      BY <2>2 DEF IInv, Priced, PricedAt, Wins
    <3> DEFINE row == [team |-> t, challenge |-> c,
                       points |-> Ledger!CurrentValue(SchemeOf[c], n),
                       at |-> Ledger!Cardinality(solves)]
    <3>3. SolveRow(r) = row
      BY <3>2, SameValue, SameCardinality DEF SolveRow
    <3>4. /\ n \in 0..Ledger!Cardinality(Ledger!SolvesOf(c))
          /\ Ledger!Award(t, c, n)
      BY <2>2, <3>2, <3>3, SameCardinality DEF Wins, Ledger!Award
    <3>5. QED
      BY <3>1, <3>4 DEF Ledger!LedgerNext
  <2>3. CASE Quiet(r) \/ Tells(r) \/ Refreshes(r)
    BY <2>3 DEF Quiet, Tells, Refreshes
  <2>4. QED
    BY <2>1, <2>2, <2>3, HandlerEffect DEF IInv
<1>2. CASE Environment \/ UNCHANGED vars
  BY <1>2 DEF Environment, LaunchElsewhere, vars
<1>3. QED
  BY <1>1, <1>2 DEF Next

\* The submit pipeline implements the ledger of solves: a team is paid once, a row
\* is final, and its points are the value for a number of solvers not above the
\* number there is.
THEOREM PipelineImplementsLedger == Spec => ImplementsLedger
<1>1. Init => Ledger!LedgerInit
  BY DEF Init, Ledger!LedgerInit
<1>2. QED
  BY <1>1, AlwaysIInv, StepIsAward, PTL DEF Spec, ImplementsLedger, Ledger!LedgerSpec

-----------------------------------------------------------------------------
(* What a team is paid for.  The count a request pays by may be stale when it *)
(* inserts its row; the rows there are by then are those ranked before it,     *)
(* because "at" grows with the table.                                          *)

Ranked(s) ==
    /\ s.at < Cardinality(solves)
    /\ \E n \in 0..Rank(s) : s.points = CurrentValue(SchemeOf[s.challenge], n)

RInv ==
    /\ IsFiniteSet(solves)
    /\ solves \subseteq Ledger!Row
    /\ \A s \in solves : Ranked(s)

\* An award leaves the rank of every earlier row alone.
LEMMA AwardKeepsRanks == RInv /\ [Ledger!LedgerNext]_solves => RInv'
<1> SUFFICES ASSUME RInv, [Ledger!LedgerNext]_solves PROVE RInv'
  OBVIOUS
<1>1. CASE solves' = solves
  BY <1>1 DEF RInv, Ranked, Rank, Ledger!SolvesOf
<1>2. ASSUME NEW t \in Teams, NEW c \in Challenges, NEW n, Ledger!Award(t, c, n)
      PROVE  RInv'
  <2>0. PICK row, size :
          /\ size = Cardinality(solves)
          /\ row = [team |-> t, challenge |-> c, points |-> CurrentValue(SchemeOf[c], n),
                    at |-> size]
    OBVIOUS
  <2>1. /\ solves' = solves \union {row}
        /\ n \in 0..Cardinality(Ledger!SolvesOf(c))
    <3>1. /\ solves' = solves \union {[team |-> t, challenge |-> c,
                                       points |-> Ledger!CurrentValue(SchemeOf[c], n),
                                       at |-> Ledger!Cardinality(solves)]}
          /\ n \in 0..Ledger!Cardinality(Ledger!SolvesOf(c))
      BY <1>2 DEF Ledger!Award
    <3>2. QED
      BY <2>0, <3>1, SameValue, SameCardinality
  <2>2. /\ row.team = t /\ row.challenge = c /\ row.at = size
        /\ row.points = CurrentValue(SchemeOf[c], n)
    BY <2>0
  <2>3. /\ IsFiniteSet(solves) /\ size \in Nat
        /\ \A s \in solves : s \in Ledger!Row /\ s.at < size /\ s.at \in Nat
    BY <2>0, FS_CardinalityType DEF RInv, Ranked, Ledger!Row
  <2>4. row \notin solves
    BY <2>2, <2>3
  <2>5. IsFiniteSet(solves') /\ Cardinality(solves') = size + 1
    BY <2>0, <2>1, <2>3, <2>4, FS_AddElement
  <2>6. solves' \subseteq Ledger!Row
    <3>1. n \in Nat
      BY <2>1, <2>3, CountType DEF CountSolves
    <3>2. row \in Ledger!Row
      BY <2>0, <2>3, <3>1, ValueType, SubmissionAssumption DEF Ledger!Row
    <3>3. QED
      BY <2>1, <2>3, <3>2
  <2>7. ASSUME NEW s \in solves PROVE Ranked(s)'
    <3>1. {o \in Ledger!SolvesOf(s.challenge)' : o.at < s.at}
            = {o \in Ledger!SolvesOf(s.challenge) : o.at < s.at}
      BY <2>1, <2>2, <2>3 DEF Ledger!SolvesOf
    <3>2. Rank(s)' = Rank(s)
      BY <3>1 DEF Rank, Ledger!SolvesOf
    <3>3. Ranked(s) /\ s.at < Cardinality(solves')
      BY <2>3, <2>5 DEF RInv
    <3>4. QED
      BY <3>2, <3>3 DEF Ranked
  <2>8. Ranked(row)'
    <3>1. Ledger!SolvesOf(c) = {o \in Ledger!SolvesOf(c)' : o.at < size}
      BY <2>1, <2>2, <2>3 DEF Ledger!SolvesOf
    <3>2. Rank(row)' = Cardinality(Ledger!SolvesOf(c))
      BY <2>2, <3>1 DEF Rank, Ledger!SolvesOf
    <3>3. (\E k \in 0..Rank(row) : row.points = CurrentValue(SchemeOf[row.challenge], k))'
      BY <2>1, <2>2, <3>2
    <3>4. (row.at < Cardinality(solves))'
      BY <2>2, <2>3, <2>5
    <3>5. QED
      BY <3>3, <3>4 DEF Ranked
  <2>9. QED
    BY <2>1, <2>5, <2>6, <2>7, <2>8 DEF RInv
<1>3. QED
  BY <1>1, <1>2 DEF Ledger!LedgerNext

LEMMA InitRInv == Init => RInv
BY FS_EmptySet DEF Init, RInv

\* The value for a count that was taken early is no less than that at the rank.
LEMMA RanksPay == RInv => NeverUnderpaid
<1> SUFFICES ASSUME RInv, NEW s \in solves,
                    Floor(SchemeOf[s.challenge]) <= Initial(SchemeOf[s.challenge])
             PROVE  s.points >= CurrentValue(SchemeOf[s.challenge], Rank(s))
  BY DEF NeverUnderpaid
<1> DEFINE scheme == SchemeOf[s.challenge]
<1>1. scheme \in Scheme
  BY SubmissionAssumption DEF RInv, Ledger!Row
<1>2. Rank(s) \in Nat
  <2>1. {o \in Ledger!SolvesOf(s.challenge) : o.at < s.at} \subseteq solves
    BY DEF Ledger!SolvesOf
  <2>2. QED
    BY <2>1, FS_Subset, FS_CardinalityType DEF RInv, Rank
<1>3. PICK n \in 0..Rank(s) : s.points = CurrentValue(scheme, n)
  BY DEF RInv, Ranked
<1>4. n \in Nat /\ n <= Rank(s)
  BY <1>2, <1>3
<1>5. CurrentValue(scheme, Rank(s)) <= CurrentValue(scheme, n)
  BY <1>1, <1>2, <1>4, ValueFalls
<1>6. CurrentValue(scheme, Rank(s)) \in Int /\ CurrentValue(scheme, n) \in Int
  BY <1>1, <1>2, <1>4, ValueType
<1>7. QED
  BY <1>3, <1>5, <1>6

\* A team is never paid less than the value at its own rank, however stale the count
\* was that its points were computed from.
THEOREM NobodyUnderpaid == Spec => []NeverUnderpaid
BY InitRInv, RanksPay, AwardKeepsRanks, PipelineImplementsLedger, PTL
   DEF ImplementsLedger, Ledger!LedgerSpec, Spec

-----------------------------------------------------------------------------
(* Whose instance a correct flag came from.  An object has the uid under      *)
(* which its name was minted, and what was minted is never taken back: a      *)
(* match found at the check stays one of the sender's own when it is          *)
(* recorded, whatever has become of the object in between.                    *)

MatchedOwn ==
    \A r \in Requests :
        At(r, "record") /\ req[r].correct /\ ~IsStatic(r) => LP!MintedFor(call[r].flag, Target(r))

RecordedOwn ==
    \A b \in submissions :
        b.correct /\ Mode[b.challenge] = "dynamic" =>
            LP!MintedFor(b.flag, InstanceName(b.challenge, b.user, b.team))

OInv ==
    /\ Inv0
    /\ LP!ObjectsMinted
    /\ MatchedOwn
    /\ RecordedOwn

\* What may happen to a handler and to the submissions table.
KeepsMatches ==
    /\ call' = call
    /\ \A r \in Requests :
         At(r, "record")' /\ req'[r].correct /\ ~IsStatic(r) =>
             \/ At(r, "record") /\ req[r].correct
             \/ HasFlag(Target(r), call[r].flag) /\ Target(r) \in Names
    /\ \A b \in submissions' \ submissions :
         \E r \in Requests : At(r, "record") /\ b = SubmissionRow(r)

\* The environment only creates, keeps or removes.
LEMMA EnvironmentObjects == ASSUME Inv0, Environment PROVE LP!Moves
<1>1. ClusterTypeOK
  BY DEF Inv0, TypeOK
<1>2. ASSUME NEW c \in Challenges, NEW u \in Users, NEW t \in Teams,
             LaunchElsewhere(InstanceName(c, u, t))
      PROVE  LP!Moves
  <2>1. InstanceName(c, u, t) \in Names
    BY DEF InstanceName, SourceID, Names, Sources
  <2>2. QED
    BY <1>1, <1>2, <2>1, ObjectCalls DEF LaunchElsewhere, LP!Moves
<1>3. QED
  BY <1>1, <1>2, ClusterStep DEF Environment, LP!Moves

\* A handler creates nothing.
LEMMA HandlerObjects ==
    ASSUME Inv0, NEW r \in Requests, Receive(r) \/ Step(r) \/ Fault(r)
    PROVE  LP!KeepsUids
<1>1. CASE Mark(r)
  <2>1. Target(r) \in Names
    BY <1>1, CallType, TargetType DEF Inv0, Mark, At
  <2>2. QED
    BY <1>1, <2>1, ObjectCalls DEF Mark, LP!KeepsUids, Inv0, TypeOK
<1>2. CASE ~Mark(r)
  BY <1>2 DEF Receive, Refuse, AcceptStatic, AcceptDynamic, Step, CheckInstance, Record,
     Count, Insert, Announce, Refresh, Fault, CallFails, RecordAckLost, InsertAckLost,
     LoggedFailure, Crash, clusterVars, LP!KeepsUids
<1>3. QED
  BY <1>1, <1>2

\* It comes to the recording step with a flag found correct only from the check.
LEMMA HandlerMatches ==
    ASSUME Inv0, NEW r \in Requests, Receive(r) \/ Step(r) \/ Fault(r)
    PROVE  KeepsMatches
<1>1. Others(r) /\ call' = call
  BY HandlerOthers DEF Others
<1>2. req[r] \in ReqType
  BY CallType DEF Inv0
<1>3. \A b \in submissions' \ submissions : At(r, "record") /\ b = SubmissionRow(r)
  BY DEF Receive, Refuse, AcceptStatic, AcceptDynamic, Step, CheckInstance, Record,
     Count, Insert, Mark, Announce, Refresh, Fault, CallFails, RecordAckLost, InsertAckLost,
     LoggedFailure, Crash
<1>4. At(r, "record")' /\ req'[r].correct /\ ~IsStatic(r) =>
          HasFlag(Target(r), call[r].flag) /\ Target(r) \in Names
  <2>1. CASE AcceptStatic(r)
    BY <2>1 DEF AcceptStatic
  <2>2. CASE CheckInstance(r)
    <3> DEFINE v == [req[r] EXCEPT !.pc = "record",
                       !.correct = HasFlag(Target(r), call[r].flag)]
    <3>1. req'[r] = v /\ v.correct = HasFlag(Target(r), call[r].flag)
      <4>1. req'[r] = v
        BY <1>1, <2>2, BecomeOthers DEF CheckInstance
      <4>2. v.correct = HasFlag(Target(r), call[r].flag)
        BY <1>2 DEF ReqType
      <4>3. QED
        BY <4>1, <4>2
    <3>2. Target(r) \in Names
      BY <2>2, CallType, TargetType DEF Inv0, CheckInstance, At
    <3>3. QED
      BY <3>1, <3>2
  <2>3. CASE ~AcceptStatic(r) /\ ~CheckInstance(r)
    <3>1. Quiet(r) \/ Wins(r) \/ Tells(r) \/ Refreshes(r)
      BY HandlerEffect
    <3>2. ~At(r, "record")'
      <4>1. ASSUME NEW pc, Goto(r, pc) PROVE req'[r].pc = pc
        BY <1>1, <1>2, <4>1, BecomeOthers DEF Goto, ReqType
      <4>2. ASSUME NEW status, NEW points, Reply(r, status, points)
            PROVE  req'[r].pc = "replied"
        <5> DEFINE v == [req[r] EXCEPT !.pc = "replied", !.status = status,
                           !.points = points]
        <5>1. req'[r] = v
          BY <1>1, <4>2, BecomeOthers DEF Reply
        <5>2. v.pc = "replied"
          BY <1>2 DEF ReqType
        <5>3. QED
          BY <5>1, <5>2
      <4>3. CASE Refuse(r) \/ AcceptDynamic(r) \/ Record(r) \/ Insert(r) \/ Mark(r)
                 \/ Announce(r) \/ Refresh(r) \/ CallFails(r) \/ RecordAckLost(r)
        BY <4>1, <4>2, <4>3 DEF Refuse, AcceptDynamic, Record, Insert, AfterAward, Mark,
           Announce, Refresh, CallFails, RecordAckLost, At
      <4>4. CASE Count(r)
        <5> DEFINE n == CountSolves(call[r].challenge)
                   v == [req[r] EXCEPT !.pc = "insert", !.count = n,
                           !.points = CurrentValue(SchemeOf[call[r].challenge], n)]
        <5>1. req'[r] = v
          BY <1>1, <4>4, BecomeOthers DEF Count
        <5>2. v.pc = "insert"
          BY <1>2 DEF ReqType
        <5>3. QED
          BY <5>1, <5>2 DEF At
      <4>5. CASE InsertAckLost(r)
        <5> DEFINE v == [req[r] EXCEPT !.pc = "replied", !.status = 500, !.points = 0,
                           !.dropped = TRUE]
        <5>1. req'[r] = v
          BY <1>1, <4>5, BecomeOthers DEF InsertAckLost
        <5>2. v.pc = "replied"
          BY <1>2 DEF ReqType
        <5>3. QED
          BY <5>1, <5>2 DEF At
      <4>6. CASE LoggedFailure(r)
        <5> DEFINE pc == CASE req[r].pc = "mark" -> "announce"
                           [] req[r].pc = "announce" -> "refresh"
                           [] req[r].pc = "refresh" -> "replied"
                   status == IF At(r, "refresh") THEN 200 ELSE req[r].status
                   v == [req[r] EXCEPT !.dropped = TRUE, !.pc = pc, !.status = status]
        <5>1. req'[r] = v
          BY <1>1, <4>6, BecomeOthers DEF LoggedFailure
        <5>2. v.pc = pc
          BY <1>2 DEF ReqType
        <5>3. req[r].pc \in {"mark", "announce", "refresh"}
          BY <4>6 DEF LoggedFailure
        <5>4. QED
          BY <5>1, <5>2, <5>3 DEF At
      <4>7. CASE Crash(r)
        <5> DEFINE v == [req[r] EXCEPT !.pc = "replied", !.points = 0, !.dropped = TRUE]
        <5>1. req'[r] = v
          BY <1>1, <4>7, BecomeOthers DEF Crash
        <5>2. v.pc = "replied"
          BY <1>2 DEF ReqType
        <5>3. QED
          BY <5>1, <5>2 DEF At
      <4>8. QED
        BY <2>3, <4>3, <4>4, <4>5, <4>6, <4>7 DEF Receive, Step, Fault
    <3>3. QED
      BY <3>2
  <2>4. QED
    BY <2>1, <2>2, <2>3
<1>5. ASSUME NEW q \in Requests, q # r, At(q, "record")', req'[q].correct
      PROVE  At(q, "record") /\ req[q].correct
  BY <1>1, <1>5 DEF Others, At
<1>6. QED
  BY <1>1, <1>3, <1>4, <1>5 DEF KeepsMatches

\* Between them: objects, matches and rows stay those of their senders.
LEMMA OwnKept ==
    ASSUME OInv, Inv0', KeepsMatches, LP!Moves
    PROVE  OInv'
<1> USE DEF OInv
<1>1. LP!ObjectsMinted' /\ \A f, m : LP!MintedFor(f, m) => LP!MintedFor(f, m)'
  BY LP!MintedObjects, LP!MintedStays, SameCluster, Assumed DEF Inv0, TypeOK
<1>2. \A f, m : LP!MintedFor(f, m) => LP!MintedFor(f, m)'
  BY <1>1
<1>3. MatchedOwn'
  <2>1. ASSUME NEW r \in Requests, At(r, "record")', req'[r].correct, ~IsStatic(r)
        PROVE  LP!MintedFor(call[r].flag, Target(r))
    <3>1. CASE At(r, "record") /\ req[r].correct
      BY <2>1, <3>1 DEF MatchedOwn
    <3>2. CASE HasFlag(Target(r), call[r].flag) /\ Target(r) \in Names
      BY <3>2, SameCluster DEF HasFlag, LP!ObjectsMinted
    <3>3. QED
      BY <2>1, <3>1, <3>2 DEF KeepsMatches
  <2>2. ASSUME NEW r \in Requests, At(r, "record")', req'[r].correct, ~IsStatic(r)
        PROVE  LP!MintedFor(call[r].flag, Target(r))'
    <3>1. LP!MintedFor(call[r].flag, Target(r)) /\ call' = call
      BY <2>1, <2>2 DEF KeepsMatches
    <3>2. QED
      BY <1>2, <3>1 DEF LP!MintedFor, Target
  <2>3. QED
    BY <2>2 DEF MatchedOwn, IsStatic, KeepsMatches
<1>4. RecordedOwn'
  <2>1. ASSUME NEW b \in submissions', b.correct, Mode[b.challenge] = "dynamic"
        PROVE  LP!MintedFor(b.flag, InstanceName(b.challenge, b.user, b.team))
    <3>1. CASE b \in submissions
      BY <2>1, <3>1 DEF RecordedOwn
    <3>2. CASE b \notin submissions
      <4>1. PICK r \in Requests : At(r, "record") /\ b = SubmissionRow(r)
        BY <2>1, <3>2 DEF KeepsMatches
      <4>2. LP!MintedFor(call[r].flag, Target(r))
        BY <2>1, <4>1 DEF MatchedOwn, SubmissionRow, IsStatic
      <4>3. QED
        BY <4>1, <4>2 DEF SubmissionRow, Target
    <3>3. QED
      BY <3>1, <3>2
  <2>2. ASSUME NEW b \in submissions', b.correct, Mode[b.challenge] = "dynamic"
        PROVE  LP!MintedFor(b.flag, InstanceName(b.challenge, b.user, b.team))'
    BY <1>2, <2>1, <2>2 DEF LP!MintedFor
  <2>3. QED
    BY <2>2 DEF RecordedOwn
<1>5. QED
  BY <1>1, <1>3, <1>4

LEMMA StepOInv == OInv /\ [Next]_vars => OInv'
<1> SUFFICES ASSUME OInv, [Next]_vars PROVE OInv'
  OBVIOUS
<1>1. Inv0'
  BY StepInv0 DEF OInv
<1>2. CASE SubmitNext
  <2>1. PICK r \in Requests : Receive(r) \/ Step(r) \/ Fault(r)
    BY <1>2 DEF SubmitNext
  <2>2. QED
    BY <1>1, <2>1, HandlerObjects, HandlerMatches, OwnKept DEF OInv, LP!Moves
<1>3. CASE Environment
  <2>1. KeepsMatches
    BY <1>3 DEF Environment, LaunchElsewhere, KeepsMatches, At
  <2>2. QED
    BY <1>1, <1>3, <2>1, EnvironmentObjects, OwnKept DEF OInv
<1>4. CASE UNCHANGED vars
  <2>1. KeepsMatches /\ LP!Moves
    BY <1>4 DEF vars, clusterVars, KeepsMatches, LP!Moves, LP!KeepsUids, At
  <2>2. QED
    BY <1>1, <2>1, OwnKept
<1>5. QED
  BY <1>2, <1>3, <1>4 DEF Next

LEMMA InitOInv == Init => OInv
<1> SUFFICES ASSUME Init PROVE OInv
  OBVIOUS
<1>1. LP!ObjectsMinted
  BY SameCluster DEF Init, ClusterInit, LP!ObjectsMinted, Exists, Absent
<1>2. MatchedOwn /\ RecordedOwn
  BY DEF Init, Fresh, MatchedOwn, RecordedOwn, At
<1>3. QED
  BY <1>1, <1>2, InitInv0 DEF OInv

\* A dynamic flag is recorded correct only if it came from an instance created
\* under the sender's own source, for any number of launches, deletions and
\* replacements between the check and the record.
THEOREM OwnInstances == Spec => []OwnInstanceOnly
<1>1. OInv => OwnInstanceOnly
  BY DEF OInv, RecordedOwn, LP!MintedFor, OwnInstanceOnly
<1>2. QED
  BY <1>1, InitOInv, StepOInv, PTL DEF Spec

-----------------------------------------------------------------------------
(* The engine: submissions and launches together.  The launches have their    *)
(* own inductive invariant, which a submission disturbs no more than the       *)
(* cluster does: it marks objects and creates none.  Two facts join the       *)
(* halves: only what is dynamic is launched, and a deleted object leaves       *)
(* nothing behind, so that deleting it again changes nothing.                  *)

Blank == \A n \in Names : ~Exists(n) => inst[n] = Absent

\* A handler that is past the check of the mode.
Launching(q) == ask[q].pc \in {"get", "delete", "create", "reget"}

LaunchesDynamic == \A q \in Asks : Launching(q) => Mode[ask[q].challenge] = "dynamic"

EInv ==
    /\ Inv0
    /\ LP!IInv
    /\ Blank
    /\ LaunchesDynamic

\* Both instances of Launching take the same steps.
LEMMA SameLaunch == Launch!Init = LP!Init /\ Launch!LaunchNext = LP!LaunchNext
<1>1. Launch!Init = LP!Init
  BY DEF Launch!Init, LP!Init, Launch!ClusterInit, LP!ClusterInit, Launch!CrStates,
     LP!CrStates, Launch!CanBe, LP!CanBe, Launch!Names, LP!Names, Launch!Sources,
     LP!Sources, Launch!Absent, LP!Absent, Launch!NoAnswer, LP!NoAnswer
<1>2. \A q, c : Launch!AskLaunch(q, c) = LP!AskLaunch(q, c)
                /\ Launch!AskStatus(q, c) = LP!AskStatus(q, c)
  BY DEF Launch!AskLaunch, LP!AskLaunch, Launch!AskStatus, LP!AskStatus, Launch!Ask, LP!Ask,
     Launch!At, LP!At, Launch!Visible, LP!Visible, Launch!NoAnswer, LP!NoAnswer,
     Launch!clusterVars, LP!clusterVars
<1>3. \A q : Launch!Step(q) = LP!Step(q)
  BY DEF Launch!Step, LP!Step, Launch!InstanceStatus, LP!InstanceStatus, Launch!Get, LP!Get,
     Launch!Delete, LP!Delete, Launch!Create, LP!Create, Launch!Reget, LP!Reget,
     Launch!Publish, LP!Publish, Launch!At, LP!At, Launch!Goto, LP!Goto, Launch!Answer,
     LP!Answer, Launch!Target, LP!Target, Launch!InstanceName, LP!InstanceName,
     Launch!SourceID, LP!SourceID, Launch!Exists, LP!Exists, Launch!Created, LP!Created,
     Launch!CreateObject, LP!CreateObject, Launch!DeleteObject, LP!DeleteObject,
     Launch!Absent, LP!Absent, Launch!clusterVars, LP!clusterVars
<1>4. \A q : Launch!Fault(q) = LP!Fault(q)
  BY DEF Launch!Fault, LP!Fault, Launch!CallFails, LP!CallFails, Launch!PublishFails,
     LP!PublishFails, Launch!DeleteAckLost, LP!DeleteAckLost, Launch!CreateAckLost,
     LP!CreateAckLost, Launch!At, LP!At, Launch!Goto, LP!Goto, Launch!Answer, LP!Answer,
     Launch!Target, LP!Target, Launch!InstanceName, LP!InstanceName, Launch!SourceID,
     LP!SourceID, Launch!Exists, LP!Exists, Launch!Created, LP!Created, Launch!CreateObject,
     LP!CreateObject, Launch!DeleteObject, LP!DeleteObject, Launch!Absent, LP!Absent,
     Launch!clusterVars, LP!clusterVars
<1>5. QED
  BY <1>1, <1>2, <1>3, <1>4 DEF Launch!LaunchNext, LP!LaunchNext

\* What a launch does to the cluster: nothing, or one call for the dynamic challenge
\* and the team of its user.
LEMMA LaunchEffect ==
    ASSUME EInv, LP!LaunchNext
    PROVE  \/ UNCHANGED clusterVars
           \/ \E q \in Asks :
                 /\ Launching(q) /\ ask[q].challenge \in Challenges /\ Claims[q].team \in Teams
                 /\ crs' = crs
                 /\ \/ CreateObject(LP!Target(q))
                    \/ DeleteObject(LP!Target(q)) /\ minted' = minted
<1>1. ASSUME NEW q \in Asks, LP!Delete(q) \/ LP!DeleteAckLost(q) \/ LP!Create(q)
                              \/ LP!CreateAckLost(q)
      PROVE  /\ Launching(q) /\ ask[q].challenge \in Challenges /\ Claims[q].team \in Teams
             /\ crs' = crs
             /\ \/ CreateObject(LP!Target(q))
                \/ DeleteObject(LP!Target(q)) /\ minted' = minted
                \/ UNCHANGED clusterVars
  <2>1. Launching(q) /\ ~LP!At(q, "idle")
    BY <1>1 DEF LP!Delete, LP!DeleteAckLost, LP!Create, LP!CreateAckLost, LP!At, Launching
  <2>2. ask[q].challenge \in Challenges /\ Claims[q].team \in Teams
    BY <2>1 DEF EInv, LP!IInv, LP!AskOK, LP!AskType, LP!Entitled
  <2>3. QED
    BY <1>1, <2>1, <2>2, SameCluster DEF LP!Delete, LP!DeleteAckLost, LP!Create,
       LP!CreateAckLost, clusterVars
<1>2. ASSUME NEW q \in Asks, NEW c \in Challenges, LP!AskLaunch(q, c) \/ LP!AskStatus(q, c)
      PROVE  UNCHANGED clusterVars
  BY <1>2 DEF LP!AskLaunch, LP!AskStatus, LP!Ask, LP!clusterVars, clusterVars
<1>3. ASSUME NEW q \in Asks, LP!InstanceStatus(q) \/ LP!Get(q) \/ LP!Reget(q)
                              \/ LP!Publish(q) \/ LP!CallFails(q) \/ LP!PublishFails(q)
      PROVE  UNCHANGED clusterVars
  BY <1>3 DEF LP!InstanceStatus, LP!Get, LP!Reget, LP!Publish, LP!CallFails,
     LP!PublishFails, LP!clusterVars, clusterVars
<1>4. QED
  BY <1>1, <1>2, <1>3 DEF LP!LaunchNext, LP!Step, LP!Fault

\* A launch is a step of Submission's environment, or none at all.
LEMMA LaunchIsEnvironment == ASSUME EInv, Launches PROVE [Next]_vars
<1>1. LP!LaunchNext /\ UNCHANGED submitVars
  BY SameLaunch DEF Launches
<1>2. CASE UNCHANGED clusterVars
  BY <1>1, <1>2 DEF submitVars, clusterVars, vars
<1>3. ASSUME NEW q \in Asks, Launching(q), ask[q].challenge \in Challenges,
             Claims[q].team \in Teams, crs' = crs,
             CreateObject(LP!Target(q)) \/ (DeleteObject(LP!Target(q)) /\ minted' = minted)
      PROVE  [Next]_vars
  <2> DEFINE c == ask[q].challenge
             n == InstanceName(c, Claims[q].user, Claims[q].team)
  <2>0. Claims[q].user \in Users
    BY EngineAssumption
  <2>1. LP!Target(q) = n /\ n \in Names /\ Mode[c] = "dynamic"
    BY <1>3, <2>0 DEF LP!Target, LP!InstanceName, InstanceName, LP!SourceID, SourceID, Names,
       Sources, EInv, LaunchesDynamic
  <2>2. CASE CreateObject(n) \/ (Exists(n) /\ DeleteObject(n) /\ minted' = minted)
    <3>1. LaunchElsewhere(n)
      BY <1>1, <1>3, <2>2 DEF LaunchElsewhere, submitVars
    <3>2. QED
      BY <1>3, <2>0, <2>1, <3>1 DEF Next, Environment
  <2>3. CASE ~Exists(n) /\ DeleteObject(n) /\ minted' = minted
    <3>1. inst[n] = Absent /\ inst \in [Names -> Object]
      BY <2>1, <2>3 DEF EInv, Blank, Inv0, TypeOK, ClusterTypeOK
    <3>2. inst' = inst
      BY <2>1, <2>3, <3>1 DEF DeleteObject
    <3>3. QED
      BY <1>1, <1>3, <2>3, <3>2 DEF submitVars, vars
  <2>4. QED
    BY <1>3, <2>1, <2>2, <2>3
<1>4. QED
  BY <1>1, <1>2, <1>3, LaunchEffect

\* A submission ages the objects, as the cluster does.
LEMMA SubmissionAges ==
    ASSUME Inv0, SubmitNext
    PROVE  LP!Ages /\ LP!Moves /\ minted' = minted
<1>1. PICK r \in Requests : Receive(r) \/ Step(r) \/ Fault(r)
  BY DEF SubmitNext
<1>2. inst \in [Names -> Object] /\ \A n \in Names : inst[n] \in Object
  BY DEF Inv0, TypeOK, ClusterTypeOK
<1>3. LP!Moves /\ minted' = minted
  BY <1>1, HandlerObjects DEF LP!Moves, LP!KeepsUids
<1>0. Len(minted) <= Len(minted')
  BY <1>3 DEF Inv0, TypeOK, ClusterTypeOK
<1>4. CASE inst' = inst
  BY <1>0, <1>2, <1>3, <1>4, SameCluster DEF LP!Ages, Object
<1>5. ASSUME NEW n, ValidateObject(n) PROVE LP!Ages
  BY <1>0, <1>2, <1>5, SameCluster DEF ValidateObject, Exists, LP!Ages, Object
<1>6. QED
  BY <1>1, <1>3, <1>4, <1>5 DEF Receive, Refuse, AcceptStatic, AcceptDynamic, Step,
     CheckInstance, Record, Count, Insert, Mark, Announce, Refresh, Fault, CallFails,
     RecordAckLost, InsertAckLost, LoggedFailure, Crash, clusterVars

\* An engine step is one of Submission's, and keeps the launches' invariant.
LEMMA EngineIsSubmission == ASSUME EInv, [EngineNext]_engineVars PROVE [Next]_vars
<1>1. CASE Launches
  BY <1>1, LaunchIsEnvironment
<1>2. CASE Submits
  BY <1>2 DEF Submits, Next
<1>3. CASE Cluster
  BY <1>3 DEF Cluster, Next, Environment, submitVars
<1>4. CASE UNCHANGED engineVars
  BY <1>4 DEF engineVars
<1>5. QED
  BY <1>1, <1>2, <1>3, <1>4 DEF EngineNext

\* What Launching knows holds whichever of the two takes a step.
LEMMA LaunchesStayTyped == ASSUME EInv, Inv0', [EngineNext]_engineVars PROVE LP!IInv'
<1>1. ClusterTypeOK /\ LP!ClusterTypeOK'
  BY SameCluster DEF EInv, Inv0, TypeOK
<1>2. CASE Launches
  BY <1>2, SameLaunch, LP!StepIInv, Assumed DEF Launches, EInv, LP!Next
<1>3. CASE Submits
  <2>1. LP!Ages /\ LP!Moves /\ minted' = minted /\ UNCHANGED LP!launchVars
    BY <1>3, SubmissionAges DEF Submits, EInv, launchVars, LP!launchVars
  <2>2. QED
    BY <1>1, <2>1, LP!ObjectsAge, Assumed DEF EInv
<1>4. CASE Cluster
  <2>1. LP!ClusterNext /\ UNCHANGED LP!launchVars
    BY <1>4, SameCluster DEF Cluster, launchVars, LP!launchVars
  <2>2. QED
    BY <2>1, LP!ClusterKeeps, Assumed DEF EInv
<1>5. CASE UNCHANGED engineVars
  <2>1. UNCHANGED LP!vars
    BY <1>5 DEF engineVars, vars, launchVars, LP!vars, LP!launchVars, LP!clusterVars
  <2>2. QED
    BY <2>1, LP!StepIInv, Assumed DEF EInv
<1>6. QED
  BY <1>2, <1>3, <1>4, <1>5 DEF EngineNext

\* What is removed leaves nothing behind.
LEMMA StaysBlank == ASSUME ClusterTypeOK, Blank, [Next]_vars PROVE Blank'
<1>1. inst \in [Names -> Object]
  BY DEF ClusterTypeOK
<1>2. ASSUME NEW n, \/ CreateObject(n) /\ Len(minted) \in Nat
                    \/ DeleteObject(n) \/ ValidateObject(n) \/ Deploy(n) \/ Expire(n)
      PROVE  Blank'
  BY <1>1, <1>2 DEF Blank, CreateObject, Created, DeleteObject, ValidateObject, Deploy,
     Expire, Exists, Object
<1>3. CASE inst' = inst
  BY <1>3 DEF Blank, Exists
<1>4. CASE ClusterNext
  BY <1>2, <1>3, <1>4 DEF ClusterNext, EditChallenge, Reap
<1>5. CASE SubmitNext
  BY <1>2, <1>3, <1>5 DEF SubmitNext, Receive, Refuse, AcceptStatic, AcceptDynamic, Step,
     CheckInstance, Record, Count, Insert, Mark, Announce, Refresh, Fault, CallFails,
     RecordAckLost, InsertAckLost, LoggedFailure, Crash, clusterVars
<1>6. Len(minted) \in Nat
  BY DEF ClusterTypeOK
<1>7. ASSUME NEW n, LaunchElsewhere(n) PROVE Blank'
  BY <1>2, <1>6, <1>7 DEF LaunchElsewhere
<1>8. QED
  BY <1>3, <1>4, <1>5, <1>7 DEF Next, Environment, vars

\* A handler that is past the check of the mode keeps its challenge.
LEMMA StaysDynamic == ASSUME EInv, [EngineNext]_engineVars PROVE LaunchesDynamic'
<1>1. CASE ask' = ask
  BY <1>1 DEF EInv, LaunchesDynamic, Launching
<1>2. ASSUME NEW q \in Asks, NEW x, ask' = [ask EXCEPT ![q] = x],
             x.pc \in {"get", "delete", "create", "reget"} =>
                 Mode[x.challenge] = "dynamic"
      PROVE  LaunchesDynamic'
  BY <1>2 DEF EInv, LaunchesDynamic, Launching, LP!IInv
<1>3. ASSUME NEW q \in Asks, NEW c, LP!AskLaunch(q, c) \/ LP!AskStatus(q, c)
      PROVE  LaunchesDynamic'
  <2>1. PICK pc \in {"get", "look"} : LP!Ask(q, c, pc) /\ (pc = "get" => Mode[c] = "dynamic")
    BY <1>3 DEF LP!AskLaunch, LP!AskStatus
  <2> DEFINE x == [pc |-> pc, challenge |-> c, answer |-> LP!NoAnswer,
                   known |-> Len(minted)]
  <2>2. ask' = [ask EXCEPT ![q] = x]
    BY <2>1 DEF LP!Ask
  <2>3. x.pc = pc /\ x.challenge = c
    OBVIOUS
  <2> HIDE DEF x
  <2>4. QED
    BY <1>2, <2>1, <2>2, <2>3
<1>4. ASSUME NEW q \in Asks, LP!Step(q) \/ LP!Fault(q)
      PROVE  LaunchesDynamic'
  <2>1. ask[q] \in LP!AskType /\ (Launching(q) => Mode[ask[q].challenge] = "dynamic")
    BY DEF EInv, LP!IInv, LP!AskOK, LaunchesDynamic
  <2>2. ASSUME NEW pc, LP!Goto(q, pc), Launching(q) \/ pc = "idle" PROVE LaunchesDynamic'
    <3> DEFINE x == [pc |-> pc, challenge |-> ask[q].challenge, answer |-> ask[q].answer,
                     known |-> ask[q].known]
    <3>1. ask' = [ask EXCEPT ![q] = x]
      BY <2>2, LP!EntryEdit, Assumed DEF EInv
    <3>2. x.pc = pc /\ x.challenge = ask[q].challenge
      OBVIOUS
    <3> HIDE DEF x
    <3>3. QED
      BY <1>2, <2>1, <2>2, <3>1, <3>2
  <2>3. ASSUME NEW pc \in {"idle", "publish"}, NEW status, NEW uid,
               LP!Answer(q, pc, status, uid)
        PROVE  LaunchesDynamic'
    <3> DEFINE x == [pc |-> pc, challenge |-> ask[q].challenge,
                     answer |-> [status |-> status, uid |-> uid], known |-> ask[q].known]
    <3>1. ask' = [ask EXCEPT ![q] = x]
      BY <2>3, LP!EntryEdit, Assumed DEF EInv
    <3>2. x.pc = pc
      OBVIOUS
    <3> HIDE DEF x
    <3>3. QED
      BY <1>2, <3>1, <3>2
  <2>4. QED
    BY <1>4, <2>2, <2>3 DEF LP!Step, LP!InstanceStatus, LP!Get, LP!Delete, LP!Create,
       LP!Reget, LP!Publish, LP!Fault, LP!CallFails, LP!PublishFails, LP!DeleteAckLost,
       LP!CreateAckLost, LP!At, Launching
<1>5. CASE Launches
  BY <1>3, <1>4, <1>5, SameLaunch DEF Launches, LP!LaunchNext
<1>6. QED
  BY <1>1, <1>5 DEF EngineNext, Submits, Cluster, launchVars, engineVars

\* Every step of the engine keeps what both halves know.
LEMMA StepEInv == EInv /\ [EngineNext]_engineVars => EInv'
<1> SUFFICES ASSUME EInv, [EngineNext]_engineVars PROVE EInv'
  OBVIOUS
<1>1. [Next]_vars
  BY EngineIsSubmission
<1>2. Inv0'
  BY <1>1, StepInv0 DEF EInv
<1>3. Blank'
  BY <1>1, StaysBlank DEF EInv, Inv0, TypeOK
<1>4. QED
  BY <1>2, <1>3, LaunchesStayTyped, StaysDynamic DEF EInv

LEMMA InitEInv == EngineInit => EInv
<1> SUFFICES ASSUME EngineInit PROVE EInv
  OBVIOUS
<1>1. Inv0 /\ LP!IInv
  BY InitInv0, SameLaunch, LP!InitIInv, Assumed DEF EngineInit
<1>2. Blank
  BY DEF EngineInit, Init, ClusterInit, Blank
<1>3. LaunchesDynamic
  <2>1. \A q \in Asks : ask[q].pc = "idle"
    BY SameLaunch DEF EngineInit, LP!Init
  <2>2. QED
    BY <2>1 DEF LaunchesDynamic, Launching
<1>4. QED
  BY <1>1, <1>2, <1>3 DEF EInv

LEMMA AlwaysEInv == EngineSpec => []EInv
BY InitEInv, StepEInv, PTL DEF EngineSpec

\* Submissions and launches together keep the types of both: none of the two writes
\* a row, an event, an object or an answer of a kind the other does not expect.
THEOREM EngineIsTyped == EngineSpec => []EngineTypeOK
<1>1. EInv => EngineTypeOK
  <2> SUFFICES ASSUME EInv PROVE TypeOK /\ LP!TypeOK
    BY DEF EngineTypeOK, Launch!TypeOK, LP!TypeOK, Launch!ClusterTypeOK, LP!ClusterTypeOK,
       Launch!CrStates, LP!CrStates, Launch!Names, LP!Names, Launch!Sources, LP!Sources,
       Launch!Object, LP!Object, Launch!Target, LP!Target, Launch!InstanceName,
       LP!InstanceName, Launch!SourceID, LP!SourceID
  <2>1. LP!IInv => LP!TypeOK
    BY DEF LP!IInv, LP!AskOK, LP!AskType, LP!AskPCs, LP!AnswerType, LP!AnswerOwn,
       LP!MintedFor, LP!TypeOK
  <2>2. QED
    BY <2>1 DEF EInv, Inv0
<1>2. QED
  BY <1>1, AlwaysEInv, PTL

\* The launch handlers do nothing to a submission that its environment does not do:
\* every behaviour of the engine is one of Submission's, launches being the
\* creations and deletions that Submission leaves open.
THEOREM EngineImplementsSubmission == EngineSpec => ImplementsSubmission
<1>1. EngineInit => Init
  BY DEF EngineInit
<1>2. EInv /\ [EngineNext]_engineVars => [Next]_vars
  BY EngineIsSubmission
<1>3. QED
  BY <1>1, <1>2, AlwaysEInv, PTL DEF EngineSpec, ImplementsSubmission

\* So what was proved of submissions alone holds with every launch handler running
\* beside them: rows are backed, announced once and paid in one answer, no rank is
\* underpaid, and a flag counts only from an instance of one's own.
THEOREM EngineKeepsPromises ==
    EngineSpec => [](/\ SolveBacked /\ AnnouncedOnce /\ PaidAnswerOnce
                     /\ NeverUnderpaid /\ OwnInstanceOnly)
<1>1. IInv => SolveBacked /\ AnnouncedOnce /\ PaidAnswerOnce
  BY WinnersArePaid DEF IInv
<1>2. OInv => OwnInstanceOnly
  BY DEF OInv, RecordedOwn, LP!MintedFor, OwnInstanceOnly
<1>3. EngineSpec => Init /\ [][Next]_vars
  BY EngineImplementsSubmission DEF ImplementsSubmission
<1>4. Init /\ [][Next]_vars => []IInv
  BY InitIInv, StepIInv, PTL
<1>5. Init /\ [][Next]_vars => []OInv
  BY InitOInv, StepOInv, PTL
<1>6. Init /\ [][Next]_vars => []RInv
  BY <1>4, InitRInv, StepIsAward, AwardKeepsRanks, PTL
<1>7. QED
  BY <1>1, <1>2, <1>3, <1>4, <1>5, <1>6, RanksPay, PTL

\* What was proved of launches alone holds with every submission running beside them:
\* marking an instance as solved takes none away that is in use, and one that is in use
\* is safe from every launch asked after it was created.
THEOREM EngineKeepsInstances == EngineSpec => Launch!InUseKept
<1> DEFINE Kept == \A n \in Names : LP!Live(n) /\ inst'[n].uid # inst[n].uid
                                      => LP!LostToOlderLaunch(n)
<1>1. ASSUME EInv, [EngineNext]_engineVars PROVE [Kept]_inst
  <2>1. CASE [LP!Next]_LP!vars
    BY <1>1, <2>1, SameCluster, LP!StepKeepsInUse, Assumed DEF EInv
  <2>2. CASE Submits
    <3>1. inst \in [Names -> Object]
      BY <1>1 DEF EInv, Inv0, TypeOK, ClusterTypeOK
    <3>2. inst' = inst \/ \E n : ValidateObject(n)
      BY <2>2 DEF Submits, SubmitNext, Receive, Refuse, AcceptStatic, AcceptDynamic, Step,
         CheckInstance, Record, Count, Insert, Mark, Announce, Refresh, Fault, CallFails,
         RecordAckLost, InsertAckLost, LoggedFailure, Crash, clusterVars
    <3>3. QED
      BY <3>1, <3>2 DEF ValidateObject, Object
  <2>3. CASE Cluster
    BY <2>1, <2>3, SameCluster DEF Cluster, launchVars, LP!Next, LP!launchVars
  <2>4. CASE Launches
    BY <2>1, <2>4, SameLaunch DEF Launches, LP!Next
  <2>5. CASE UNCHANGED engineVars
    BY <2>5 DEF engineVars, vars
  <2>6. QED
    BY <1>1, <2>2, <2>3, <2>4, <2>5 DEF EngineNext
<1>2. Launch!InUseKept <=> [][Kept]_inst
  BY DEF Launch!InUseKept, Launch!Live, LP!Live, Launch!Names, Names, Launch!Sources,
     Sources, Launch!Exists, LP!Exists, Launch!LostToOlderLaunch, LP!LostToOlderLaunch,
     Launch!At, LP!At, Launch!Target, LP!Target, Launch!InstanceName, LP!InstanceName,
     Launch!SourceID, LP!SourceID
<1>3. QED
  BY <1>1, <1>2, AlwaysEInv, PTL DEF EngineSpec
=============================================================================
