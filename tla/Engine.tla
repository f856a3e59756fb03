------------------------------- MODULE Engine -------------------------------
(***************************************************************************)
(* The challenge engine as a whole: submissions and launches of the same   *)
(* users, running concurrently against one cluster and one database.       *)
(***************************************************************************)
EXTENDS Submission

CONSTANTS Asks,         \* launches and status requests in flight at once
          Claims        \* their tokens

ASSUME EngineAssumption ==
    Claims \in [Asks -> [user : Users, team : Teams \union {NoTeam}]]

VARIABLES ask, statusFeed

Launch == INSTANCE Launching WITH Asks <- Asks, Claims <- Claims,
                                  ask <- ask, statusFeed <- statusFeed

launchVars == <<ask, statusFeed>>
submitVars == <<solves, submissions, published, call, req>>
engineVars == <<vars, launchVars>>

EngineInit == Init /\ Launch!Init

Submits == SubmitNext /\ UNCHANGED launchVars
Launches == Launch!LaunchNext /\ UNCHANGED submitVars
Cluster == ClusterNext /\ UNCHANGED <<launchVars, submitVars>>

EngineNext == Submits \/ Launches \/ Cluster

\* Handlers that were entered go on, and the janitor of the operator, which the
\* engine relies on to act upon flagValidated, visits every instance.
EngineFairness ==
    /\ \A r \in Requests : WF_engineVars(Step(r) /\ UNCHANGED launchVars)
    /\ \A n \in Names : WF_engineVars(Reap(n) /\ UNCHANGED <<launchVars, submitVars>>)

EngineSpec == EngineInit /\ [][EngineNext]_engineVars /\ EngineFairness
-----------------------------------------------------------------------------
\* The type invariant of the composition is that of its two halves.
EngineTypeOK == TypeOK /\ Launch!TypeOK

\* Submission was written against an environment that creates and deletes objects
\* at will; the launch handlers do nothing that environment does not do, so what
\* holds of Submission holds here.
ImplementsSubmission == Init /\ [][Next]_vars

\* A submission that won its team the points of a destroyOnFlag challenge gets
\* the instance it was solved on removed, unless a failure hit that submission.
SolvedInstanceReaped ==
    \A r \in Requests :
        At(r, "mark") ~> req[r].dropped \/ inst[Target(r)].uid # call[r].flag
=============================================================================
