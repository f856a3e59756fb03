------------------------------ MODULE Cluster ------------------------------
(***************************************************************************)
(* The Kubernetes side of the engine: the Challenge resources as the       *)
(* informer cache of internal/k8s/client.go shows them, and the            *)
(* ChallengeInstance objects that client.go creates, reads, marks and      *)
(* deletes by name.  The operator and its janitor live outside the         *)
(* repository; they appear as the environment actions at the end.          *)
(***************************************************************************)
EXTENDS Integers, Sequences

CONSTANTS Challenges,    \* names of Challenge resources
          Teams, Users,
          NoTeam,        \* the empty team claim
          Mode,          \* Challenge -> "static" or "dynamic" (spec.mode)
          Shared,        \* Challenge -> BOOLEAN: one instance for the whole team
          DestroyOnFlag, \* Challenge -> BOOLEAN: reap the instance once solved
          MaxInstances   \* bound on the instances created in a behaviour

ASSUME ClusterAssumption ==
    /\ NoTeam \notin Teams
    /\ Mode \in [Challenges -> {"static", "dynamic"}]
    /\ Shared \in [Challenges -> BOOLEAN]
    /\ DestroyOnFlag \in [Challenges -> BOOLEAN]
    /\ MaxInstances \in Nat

VARIABLES crs,      \* Challenge -> what the cache says of it
          inst,     \* instance name -> the object of that name
          minted    \* the name of every object ever created, by uid

clusterVars == <<crs, inst, minted>>

Sources == Teams \union Users
Names == Challenges \X Sources

\* Challenge-and-source names an instance (the hash of sourceID is one-to-one).
SourceID(c, user, team) == IF Shared[c] THEN team ELSE user
InstanceName(c, user, team) == <<c, SourceID(c, user, team)>>

\* uid 0 stands for no object; the flags of an object are published when the
\* operator reports it ready, and are known by the object's uid.
Object == [uid : Nat, ready : BOOLEAN, expired : BOOLEAN, validated : BOOLEAN]
Absent == [uid |-> 0, ready |-> FALSE, expired |-> FALSE, validated |-> FALSE]

Exists(n) == inst[n].uid # 0

\* The flag values: 0 is the empty string, -1 a string that is nobody's flag,
\* 1 the flag of a static challenge, u >= 1 the flag of instance u.
Flags == {-1, 0, 1} \union (1..MaxInstances)

HasFlag(n, f) == Exists(n) /\ inst[n].ready /\ inst[n].uid = f

\* What the cache may show of a challenge: hidden (or no such challenge), a
\* static one whose flag is not decrypted, or one that can be played.
CrStates == {"hidden", "sealed", "open"}

CanBe(c, v) == v = "sealed" => Mode[c] = "static"

Visible(c) == crs[c] # "hidden"

-----------------------------------------------------------------------------
\* The calls of client.go.

Created(n) ==
    [uid |-> Len(minted) + 1, ready |-> FALSE, expired |-> FALSE, validated |-> FALSE]

CreateObject(n) ==
    /\ ~Exists(n)
    /\ Len(minted) < MaxInstances
    /\ inst' = [inst EXCEPT ![n] = Created(n)]
    /\ minted' = Append(minted, n)

\* NotFound is success; no precondition on the uid is sent.
DeleteObject(n) == inst' = [inst EXCEPT ![n] = Absent]

\* A merge patch of status.flagValidated, addressed by name.
ValidateObject(n) == Exists(n) /\ inst' = [inst EXCEPT ![n].validated = TRUE]

-----------------------------------------------------------------------------
\* The environment.

ClusterInit ==
    /\ crs \in {f \in [Challenges -> CrStates] : \A c \in Challenges : CanBe(c, f[c])}
    /\ inst = [n \in Names |-> Absent]
    /\ minted = <<>>

\* An operator hides or shows a challenge, or its sealed flag gets decrypted.
EditChallenge(c) ==
    /\ \E v \in CrStates \ {crs[c]} : CanBe(c, v) /\ crs' = [crs EXCEPT ![c] = v]
    /\ UNCHANGED <<inst, minted>>

Deploy(n) ==
    /\ Exists(n) /\ ~inst[n].ready
    /\ inst' = [inst EXCEPT ![n].ready = TRUE]
    /\ UNCHANGED <<crs, minted>>

Expire(n) ==
    /\ Exists(n) /\ ~inst[n].expired
    /\ inst' = [inst EXCEPT ![n].expired = TRUE]
    /\ UNCHANGED <<crs, minted>>

\* The janitor removes what has expired or has been validated.
Reap(n) ==
    /\ Exists(n) /\ (inst[n].expired \/ inst[n].validated)
    /\ DeleteObject(n)
    /\ UNCHANGED <<crs, minted>>

ClusterNext ==
    \/ \E c \in Challenges : EditChallenge(c)
    \/ \E n \in Names : Deploy(n) \/ Expire(n) \/ Reap(n)

ClusterTypeOK ==
    /\ crs \in [Challenges -> CrStates]
    /\ inst \in [Names -> Object]
    /\ minted \in Seq(Names)
=============================================================================
