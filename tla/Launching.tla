----------------------------- MODULE Launching -----------------------------
(***************************************************************************)
(* POST /api/challenges/{name}/launch and GET .../instance                 *)
(* (internal/engine/handlers.go): reuse, replace or create the instance of *)
(* a player or a team.                                                     *)
(*                                                                         *)
(* Requests run at once, on any replicas, and nothing keeps one user from  *)
(* having several in flight: a panel closed and opened again, or a second  *)
(* tab, asks anew.  The handler reads, deletes and creates the object in   *)
(* separate calls to the API server, addressed by name.                    *)
(***************************************************************************)
EXTENDS Cluster

CONSTANTS Asks,         \* the requests that may be in flight at once
          Claims        \* request -> the user and the team of the token it carries

ASSUME LaunchingAssumption ==
    Claims \in [Asks -> [user : Users, team : Teams \union {NoTeam}]]

VARIABLES ask,          \* request -> its handler, and the answer to the last one
          statusFeed    \* the instances announced by instance.status

launchVars == <<ask, statusFeed>>
vars == <<clusterVars, launchVars>>

\* An answer is a status code and the instance it shows, 0 for none.
NoAnswer == [status |-> 0, uid |-> 0]

Init ==
    /\ ClusterInit
    /\ ask \in [Asks -> [pc : {"idle"}, challenge : Challenges, answer : {NoAnswer},
                         known : {0}]]
    /\ statusFeed = {}

At(q, pc) == ask[q].pc = pc

Goto(q, pc) == ask' = [ask EXCEPT ![q].pc = pc]

Target(q) == InstanceName(ask[q].challenge, Claims[q].user, Claims[q].team)

Answer(q, pc, status, uid) ==
    ask' = [ask EXCEPT ![q].pc = pc, ![q].answer = [status |-> status, uid |-> uid]]

\* Past the early returns, which change nothing: the token has a team and the
\* challenge is visible; a launch is for dynamic challenges only.  The history in
\* "known" is the number of instances created so far.
Ask(q, c, pc) ==
    /\ At(q, "idle")
    /\ Claims[q].team # NoTeam
    /\ Visible(c)
    /\ ask' = [ask EXCEPT ![q] = [pc |-> pc, challenge |-> c, answer |-> NoAnswer,
                                   known |-> Len(minted)]]
    /\ UNCHANGED <<clusterVars, statusFeed>>

AskLaunch(q, c) == Mode[c] = "dynamic" /\ Ask(q, c, "get")
AskStatus(q, c) == Ask(q, c, "look")

\* InstanceStatus: what is found is the answer.
InstanceStatus(q) ==
    /\ At(q, "look")
    /\ Answer(q, "idle", 200, inst[Target(q)].uid)
    /\ UNCHANGED <<clusterVars, statusFeed>>

\* Seeded defect: an instance is replaced as soon as a launch finds it.
GetAndReplace(q) ==
    /\ At(q, "get")
    /\ IF Exists(Target(q)) THEN Goto(q, "delete") ELSE Goto(q, "create")
    /\ UNCHANGED <<clusterVars, statusFeed>>

\* Launch: reuse an instance that has not expired, replace one that has.
Get(q) ==
    /\ At(q, "get")
    /\ LET obj == inst[Target(q)]
       IN  \/ ~Exists(Target(q)) /\ Goto(q, "create")
           \/ Exists(Target(q)) /\ obj.expired /\ Goto(q, "delete")
           \/ Exists(Target(q)) /\ ~obj.expired /\ Answer(q, "idle", 200, obj.uid)
    /\ UNCHANGED <<clusterVars, statusFeed>>

Delete(q) ==
    /\ At(q, "delete")
    /\ DeleteObject(Target(q))
    /\ Goto(q, "create")
    /\ UNCHANGED <<crs, minted, statusFeed>>

\* Seeded defect: the answer numbers the instance before it is created.
CreateMiscounted(q) ==
    /\ At(q, "create")
    /\ \/ CreateObject(Target(q)) /\ Answer(q, "publish", 202, Len(minted))
       \/ Exists(Target(q)) /\ Goto(q, "reget") /\ UNCHANGED <<inst, minted>>
    /\ UNCHANGED <<crs, statusFeed>>

\* AlreadyExists sends the client back to a GET of the same name.
Create(q) ==
    /\ At(q, "create")
    /\ \/ CreateObject(Target(q)) /\ Answer(q, "publish", 202, Created(Target(q)).uid)
       \/ Exists(Target(q)) /\ Goto(q, "reget") /\ UNCHANGED <<inst, minted>>
    /\ UNCHANGED <<crs, statusFeed>>

\* The object that stood in the way may be gone by now: that is a 500.
Reget(q) ==
    /\ At(q, "reget")
    /\ IF Exists(Target(q)) THEN Answer(q, "publish", 202, inst[Target(q)].uid)
                            ELSE Answer(q, "idle", 500, 0)
    /\ UNCHANGED <<clusterVars, statusFeed>>

Publish(q) ==
    /\ At(q, "publish")
    /\ statusFeed' = statusFeed \union {ask[q].answer.uid}
    /\ Goto(q, "idle")
    /\ UNCHANGED clusterVars

-----------------------------------------------------------------------------
\* A call fails without effect: 500.  A failed notification is only logged.
CallFails(q) ==
    /\ ask[q].pc \in {"look", "get", "delete", "create", "reget"}
    /\ Answer(q, "idle", 500, 0)
    /\ UNCHANGED <<clusterVars, statusFeed>>

PublishFails(q) ==
    /\ At(q, "publish")
    /\ Goto(q, "idle")
    /\ UNCHANGED <<clusterVars, statusFeed>>

\* The write takes effect, but the handler sees an error, or its replica dies.
DeleteAckLost(q) ==
    /\ At(q, "delete")
    /\ DeleteObject(Target(q))
    /\ Answer(q, "idle", 500, 0)
    /\ UNCHANGED <<crs, minted, statusFeed>>

CreateAckLost(q) ==
    /\ At(q, "create")
    /\ CreateObject(Target(q))
    /\ Answer(q, "idle", 500, 0)
    /\ UNCHANGED <<crs, statusFeed>>

Step(q) ==
    InstanceStatus(q) \/ Get(q) \/ Delete(q) \/ Create(q) \/ Reget(q) \/ Publish(q)

Fault(q) == CallFails(q) \/ PublishFails(q) \/ DeleteAckLost(q) \/ CreateAckLost(q)

LaunchNext ==
    \E q \in Asks :
        \/ \E c \in Challenges : AskLaunch(q, c) \/ AskStatus(q, c)
        \/ Step(q)
        \/ Fault(q)

Next == LaunchNext \/ (ClusterNext /\ UNCHANGED launchVars)

Fairness == \A q \in Asks : WF_vars(Step(q))

Spec == Init /\ [][Next]_vars /\ Fairness
-----------------------------------------------------------------------------
\* The type invariant: among others, an instance shown or announced to a user is
\* one that was created under that user's name for the challenge.
TypeOK ==
    /\ ClusterTypeOK
    /\ ask \in [Asks -> [pc : {"idle", "look", "get", "delete", "create", "reget", "publish"},
                         challenge : Challenges,
                         answer : [status : {0, 200, 202, 500}, uid : Nat],
                         known : Nat]]
    /\ \A q \in Asks : ask[q].answer.uid # 0 => minted[ask[q].answer.uid] = Target(q)
    /\ statusFeed \subseteq DOMAIN minted

Live(n) == Exists(n) /\ ~inst[n].expired /\ ~inst[n].validated

\* "Reuse an existing, non-expired instance instead of duplicating"
\* (handlers.go:356): an instance that is neither expired nor solved stays until
\* it is one or the other; no launch, of its owner or of a teammate, replaces it.
LiveInstanceKept ==
    [][\A n \in Names : Live(n) => inst'[n].uid = inst[n].uid]_inst

\* A launch under its name was about to delete what it had found there, and has been
\* under way since before the instance was created.
LostToOlderLaunch(n) ==
    \E q \in Asks : At(q, "delete") /\ Target(q) = n /\ ask[q].known < inst[n].uid

\* An instance in use is safe from every launch that is asked once it is there, and
\* from every launch for another name: launches that overtake each other may only
\* cost what one of them has created meanwhile.
InUseKept ==
    [][\A n \in Names :
          Live(n) /\ inst'[n].uid # inst[n].uid => LostToOlderLaunch(n)]_inst
=============================================================================
