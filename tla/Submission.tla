---------------------------- MODULE Submission ----------------------------
(***************************************************************************)
(* POST /api/challenges/{name}/submit (internal/engine/handlers.go).       *)
(*                                                                         *)
(* Any number of submissions are in flight on any number of replicas.  The *)
(* handler holds no lock and no transaction: each call to the store, to    *)
(* the API server or to the event channel is a step of its own, and the    *)
(* steps of all requests interleave.  A call may fail, its answer may be   *)
(* lost after it took effect, and a replica may die between two calls.     *)
(***************************************************************************)
EXTENDS Cluster, Scoring

CONSTANTS SchemeOf,    \* spec.value and spec.scoring of each challenge
          Requests,    \* the HTTP requests of a behaviour
          Calls        \* what a request may carry: its token and its body

Call == [user : Users, team : Teams \union {NoTeam}, challenge : Challenges, flag : Flags]

ASSUME SubmissionAssumption ==
    /\ SchemeOf \in [Challenges -> Scheme]
    /\ Calls \subseteq Call

VARIABLES solves,       \* the solves table
          submissions,  \* the submissions table
          published,    \* the notifications sent for submissions, in commit order
          call,         \* request -> what it carries, fixed when it is sent
          req           \* request -> where its handler stands

Ledger == INSTANCE SolveLedger WITH
    Teams <- Teams, Challenges <- Challenges, SchemeOf <- SchemeOf, solves <- solves

vars == <<crs, inst, minted, solves, submissions, published, call, req>>

Fresh == [pc |-> "idle", correct |-> FALSE, count |-> 0, points |-> 0,
          status |-> 0, dropped |-> FALSE]

Init ==
    /\ ClusterInit
    /\ solves = {}
    /\ submissions = {}
    /\ published = <<>>
    /\ call \in [Requests -> Calls]
    /\ req = [r \in Requests |-> Fresh]

-----------------------------------------------------------------------------
At(r, pc) == req[r].pc = pc

Become(r, v) == req' = [req EXCEPT ![r] = v]

Goto(r, pc) == Become(r, [req[r] EXCEPT !.pc = pc])

Reply(r, status, points) ==
    Become(r, [req[r] EXCEPT !.pc = "replied", !.status = status, !.points = points])

Target(r) == InstanceName(call[r].challenge, call[r].user, call[r].team)

IsStatic(r) == Mode[call[r].challenge] = "static"

\* Seeded defect: the team claim is not looked at.
RefusalWithoutTeam(k) ==
    IF ~Visible(k.challenge) THEN 404
    ELSE IF k.flag = 0 THEN 400
    ELSE IF crs[k.challenge] = "sealed" THEN 409
    ELSE 0

\* The early returns: no team, not visible, empty flag, flag not decrypted.
Refusal(k) ==
    IF k.team = NoTeam THEN 403
    ELSE IF ~Visible(k.challenge) THEN 404
    ELSE IF k.flag = 0 THEN 400
    ELSE IF crs[k.challenge] = "sealed" THEN 409
    ELSE 0

\* Or GetChallenge fails, as it does until the cache is filled.
Refuse(r) ==
    /\ At(r, "idle")
    /\ \/ Refusal(call[r]) # 0 /\ Reply(r, Refusal(call[r]), 0)
       \/ call[r].team # NoTeam /\ Reply(r, 500, 0)
    /\ UNCHANGED <<clusterVars, solves, submissions, published, call>>

AcceptStatic(r) ==
    /\ At(r, "idle")
    /\ Refusal(call[r]) = 0
    /\ IsStatic(r)
    /\ Become(r, [req[r] EXCEPT !.pc = "record", !.correct = (call[r].flag = 1)])
    /\ UNCHANGED <<clusterVars, solves, submissions, published, call>>

\* Nobody sends the flag of an instance that does not exist yet.
AcceptDynamic(r) ==
    /\ At(r, "idle")
    /\ Refusal(call[r]) = 0
    /\ ~IsStatic(r)
    /\ call[r].flag <= Len(minted)
    /\ Goto(r, "check")
    /\ UNCHANGED <<clusterVars, solves, submissions, published, call>>

\* Seeded defect: any instance of the challenge will do.
CheckAnyInstance(r) ==
    /\ At(r, "check")
    /\ Become(r, [req[r] EXCEPT !.pc = "record",
                    !.correct = \E n \in Names : n[1] = call[r].challenge
                                                 /\ HasFlag(n, call[r].flag)])
    /\ UNCHANGED <<clusterVars, solves, submissions, published, call>>

\* GetInstance: an instance that is not found has no flag to match, and one
\* that has expired is compared all the same.
CheckInstance(r) ==
    /\ At(r, "check")
    /\ Become(r, [req[r] EXCEPT !.pc = "record", !.correct = HasFlag(Target(r), call[r].flag)])
    /\ UNCHANGED <<clusterVars, solves, submissions, published, call>>

SubmissionRow(r) ==
    [team |-> call[r].team, user |-> call[r].user, challenge |-> call[r].challenge,
     flag |-> call[r].flag, correct |-> req[r].correct]

\* Seeded defect: no return after an incorrect flag was recorded.
RecordAndGoOn(r) ==
    /\ At(r, "record")
    /\ submissions' = submissions \union {SubmissionRow(r)}
    /\ Goto(r, "count")
    /\ UNCHANGED <<clusterVars, solves, published, call>>

Record(r) ==
    /\ At(r, "record")
    /\ submissions' = submissions \union {SubmissionRow(r)}
    /\ IF req[r].correct THEN Goto(r, "count") ELSE Reply(r, 200, 0)
    /\ UNCHANGED <<clusterVars, solves, published, call>>

\* Seeded defect: the count forgets its WHERE clause.
CountAllSolves(c) == Cardinality(solves)

CountSolves(c) == Cardinality(Ledger!SolvesOf(c))

Count(r) ==
    /\ At(r, "count")
    /\ LET n == CountSolves(call[r].challenge)
       IN  Become(r, [req[r] EXCEPT !.pc = "insert", !.count = n,
                        !.points = CurrentValue(SchemeOf[call[r].challenge], n)])
    /\ UNCHANGED <<clusterVars, solves, submissions, published, call>>

SolveRow(r) ==
    [team |-> call[r].team, challenge |-> call[r].challenge, points |-> req[r].points,
     at |-> Cardinality(solves)]

\* Seeded defect: ON CONFLICT DO UPDATE.
Upsert(r) ==
    solves' = {s \in solves : s.team # call[r].team \/ s.challenge # call[r].challenge}
                \union {SolveRow(r)}

\* INSERT ... ON CONFLICT (team_id, challenge) DO NOTHING
InsertSolve(r) ==
    solves' = IF Ledger!HasSolved(call[r].team, call[r].challenge)
                THEN solves ELSE solves \union {SolveRow(r)}

AfterAward(r) ==
    IF ~IsStatic(r) /\ DestroyOnFlag[call[r].challenge] THEN "mark" ELSE "announce"

\* Seeded defects: the answer of the insert is ignored; an unpaid winner of the
\* race is told the points all the same.
InsertUnchecked(r) ==
    /\ At(r, "insert")
    /\ InsertSolve(r)
    /\ Goto(r, AfterAward(r))
    /\ UNCHANGED <<clusterVars, submissions, published, call>>

InsertAnswersPoints(r) ==
    /\ At(r, "insert")
    /\ InsertSolve(r)
    /\ IF Ledger!HasSolved(call[r].team, call[r].challenge)
         THEN Reply(r, 200, req[r].points) ELSE Goto(r, AfterAward(r))
    /\ UNCHANGED <<clusterVars, submissions, published, call>>

Insert(r) ==
    /\ At(r, "insert")
    /\ InsertSolve(r)
    /\ IF Ledger!HasSolved(call[r].team, call[r].challenge)
         THEN Reply(r, 200, 0) ELSE Goto(r, AfterAward(r))
    /\ UNCHANGED <<clusterVars, submissions, published, call>>

\* Seeded defects: a failed patch ends the request; the patch is forgotten.
MarkOrGiveUp(r) ==
    /\ At(r, "mark")
    /\ IF Exists(Target(r)) THEN ValidateObject(Target(r)) /\ Goto(r, "announce")
                            ELSE Reply(r, 500, 0) /\ UNCHANGED inst
    /\ UNCHANGED <<crs, minted, solves, submissions, published, call>>

MarkNothing(r) ==
    /\ At(r, "mark")
    /\ Goto(r, "announce")
    /\ UNCHANGED <<clusterVars, solves, submissions, published, call>>

\* The patch fails, and the failure is only logged, when the object is gone.
Mark(r) ==
    /\ At(r, "mark")
    /\ ValidateObject(Target(r)) \/ (~Exists(Target(r)) /\ UNCHANGED inst)
    /\ Goto(r, "announce")
    /\ UNCHANGED <<crs, minted, solves, submissions, published, call>>

SolvedEvent(r) ==
    [type |-> "challenge.solved", team |-> call[r].team, challenge |-> call[r].challenge,
     points |-> req[r].points]

\* scoreboard.updated has no payload: only its type means anything.
ScoreboardEvent(r) ==
    [type |-> "scoreboard.updated", team |-> call[r].team, challenge |-> call[r].challenge,
     points |-> 0]

Announce(r) ==
    /\ At(r, "announce")
    /\ published' = Append(published, SolvedEvent(r))
    /\ Goto(r, "refresh")
    /\ UNCHANGED <<clusterVars, solves, submissions, call>>

Refresh(r) ==
    /\ At(r, "refresh")
    /\ published' = Append(published, ScoreboardEvent(r))
    /\ Reply(r, 200, req[r].points)
    /\ UNCHANGED <<clusterVars, solves, submissions, call>>

-----------------------------------------------------------------------------
\* Failures.

\* A call returns an error and has had no effect: the handler answers 500.
CallFails(r) ==
    /\ req[r].pc \in {"check", "record", "count", "insert"}
    /\ Reply(r, 500, 0)
    /\ UNCHANGED <<clusterVars, solves, submissions, published, call>>

\* The statement commits but the handler sees an error (connection lost, client
\* gone): it answers 500 and goes no further.
RecordAckLost(r) ==
    /\ At(r, "record")
    /\ submissions' = submissions \union {SubmissionRow(r)}
    /\ Reply(r, 500, 0)
    /\ UNCHANGED <<clusterVars, solves, published, call>>

InsertAckLost(r) ==
    /\ At(r, "insert")
    /\ InsertSolve(r)
    /\ Become(r, [req[r] EXCEPT !.pc = "replied", !.status = 500, !.points = 0,
                    !.dropped = TRUE])
    /\ UNCHANGED <<clusterVars, submissions, published, call>>

\* Marking and publishing fail with no more than a log line.
LoggedFailure(r) ==
    /\ req[r].pc \in {"mark", "announce", "refresh"}
    /\ Become(r, [req[r] EXCEPT !.dropped = TRUE,
                    !.pc = CASE @ = "mark" -> "announce"
                             [] @ = "announce" -> "refresh"
                             [] @ = "refresh" -> "replied",
                    !.status = IF At(r, "refresh") THEN 200 ELSE @])
    /\ UNCHANGED <<clusterVars, solves, submissions, published, call>>

\* The replica dies: nobody gets an answer.
Crash(r) ==
    /\ req[r].pc \notin {"idle", "replied"}
    /\ Become(r, [req[r] EXCEPT !.pc = "replied", !.points = 0, !.dropped = TRUE])
    /\ UNCHANGED <<clusterVars, solves, submissions, published, call>>

-----------------------------------------------------------------------------
\* Seeded defect: an environment without replacement of expired instances.
CreateElsewhere(n) ==
    CreateObject(n) /\ UNCHANGED <<crs, solves, submissions, published, call, req>>

\* Launch requests of other handlers, as they act on the objects: Launching
\* models them in full.
LaunchElsewhere(n) ==
    /\ CreateObject(n) \/ (Exists(n) /\ DeleteObject(n) /\ UNCHANGED minted)
    /\ UNCHANGED <<crs, solves, submissions, published, call, req>>

Environment ==
    \/ ClusterNext /\ UNCHANGED <<solves, submissions, published, call, req>>
    \/ \E c \in Challenges, u \in Users, t \in Teams :
          Mode[c] = "dynamic" /\ LaunchElsewhere(InstanceName(c, u, t))

Step(r) ==
    \/ CheckInstance(r) \/ Record(r) \/ Count(r) \/ Insert(r)
    \/ Mark(r) \/ Announce(r) \/ Refresh(r)

Fault(r) ==
    CallFails(r) \/ RecordAckLost(r) \/ InsertAckLost(r) \/ LoggedFailure(r) \/ Crash(r)

Receive(r) == Refuse(r) \/ AcceptStatic(r) \/ AcceptDynamic(r)

SubmitNext == \E r \in Requests : Receive(r) \/ Step(r) \/ Fault(r)

Next == SubmitNext \/ Environment

\* A handler that has been entered runs on; nothing obliges a client to call.
Fairness == \A r \in Requests : WF_vars(Step(r))

Spec == Init /\ [][Next]_vars /\ Fairness
-----------------------------------------------------------------------------
PCs == {"idle", "check", "record", "count", "insert", "mark", "announce", "refresh", "replied"}

Statuses == {0, 200, 400, 403, 404, 409, 500}

SubmissionRows ==
    [team : Teams, user : Users, challenge : Challenges, flag : Flags, correct : BOOLEAN]

Event == [type : {"challenge.solved", "scoreboard.updated"}, team : Teams,
          challenge : Challenges, points : Int]

\* The type invariant: among others, only a request with a team claim ever gets
\* past its early returns, so that no row and no event is without a team.
TypeOK ==
    /\ ClusterTypeOK
    /\ solves \subseteq Ledger!Row
    /\ submissions \subseteq SubmissionRows
    /\ published \in Seq(Event)
    /\ call \in [Requests -> Calls]
    /\ req \in [Requests -> [pc : PCs, correct : BOOLEAN, count : Nat, points : Int,
                             status : Statuses, dropped : BOOLEAN]]
    /\ \A r \in Requests : req[r].pc \notin {"idle", "replied"} => call[r].team \in Teams

-----------------------------------------------------------------------------
\* A row of the solves table is backed by a correct submission of the same team
\* for the same challenge: no interleaving, failure or retry pays for an attempt
\* that was not recorded as correct.
SolveBacked ==
    \A s \in solves : \E b \in submissions :
        b.team = s.team /\ b.challenge = s.challenge /\ b.correct

SolvedEvents == {i \in DOMAIN published : published[i].type = "challenge.solved"}

\* What challenge.solved says was committed before it was sent, with the very
\* points of the row, and it is said once: racing or repeated submissions of a
\* team produce one notification between them.
AnnouncedOnce ==
    \A i \in SolvedEvents :
        /\ \E s \in solves : /\ s.team = published[i].team
                             /\ s.challenge = published[i].challenge
                             /\ s.points = published[i].points
        /\ \A j \in SolvedEvents :
             published[i].team = published[j].team
               /\ published[i].challenge = published[j].challenge => i = j

\* "points is present and non-zero only the first time a team solves"
\* (openapi.yaml): of all the answers a team gets for a challenge one at most
\* has points, and they are the points of its row.
PaidAnswerOnce ==
    \A r \in Requests : At(r, "replied") /\ req[r].points # 0 =>
        /\ \E s \in solves : /\ s.team = call[r].team
                             /\ s.challenge = call[r].challenge
                             /\ s.points = req[r].points
        /\ \A q \in Requests \ {r} :
             At(q, "replied") /\ call[q].team = call[r].team
               /\ call[q].challenge = call[r].challenge => req[q].points = 0

Rank(s) == Cardinality({o \in Ledger!SolvesOf(s.challenge) : o.at < s.at})

\* The count and the insert are two statements, so a count may be stale when it
\* is used; a team is then paid for an earlier rank than its own, never a later,
\* and an earlier one is worth no less, unless the floor is above the initial value.
NeverUnderpaid ==
    \A s \in solves :
        LET scheme == SchemeOf[s.challenge]
        IN  Floor(scheme) <= Initial(scheme) => s.points >= CurrentValue(scheme, Rank(s))

\* "only the requesting team's own instance counts" (handlers.go:272): a dynamic
\* flag is recorded correct only if it came from an instance created under the
\* submitter's own source.  Instances are replaced under a fixed name while
\* submissions are in flight.
OwnInstanceOnly ==
    \A b \in submissions :
        b.correct /\ Mode[b.challenge] = "dynamic" =>
            minted[b.flag] = InstanceName(b.challenge, b.user, b.team)

\* The pipeline implements the ledger: whatever happens to a request, the solves
\* table changes only by awards the ledger allows.
ImplementsLedger == Ledger!LedgerSpec

Announced(t, c) ==
    \E i \in SolvedEvents : published[i].team = t /\ published[i].challenge = c

DroppedFor(t, c) ==
    \E r \in Requests : req[r].dropped /\ call[r].team = t /\ call[r].challenge = c

\* Every solve is announced in the end, unless a failure hit a request of the
\* team for the challenge; that the instance vanished meanwhile is no excuse.
SolveAnnounced ==
    \A t \in Teams, c \in Challenges :
        Ledger!HasSolved(t, c) ~> Announced(t, c) \/ DroppedFor(t, c)
=============================================================================
