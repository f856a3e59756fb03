-------------------------- MODULE LaunchingProofs --------------------------
(***************************************************************************)
(* What holds of Cluster and of Launching for any teams, users, challenges *)
(* (shared or not), requests in flight and number of instances.            *)
(***************************************************************************)
EXTENDS Launching, TLAPS

-----------------------------------------------------------------------------
(* What the calls of the client and the events of the cluster do to the       *)
(* objects.                                                                   *)

\* Objects are created, changed and removed as objects.
LEMMA ObjectCalls ==
    ASSUME ClusterTypeOK, NEW n \in Names
    PROVE  /\ CreateObject(n) => inst' \in [Names -> Object] /\ minted' \in Seq(Names)
           /\ DeleteObject(n) => inst' \in [Names -> Object]
           /\ ValidateObject(n) => inst' \in [Names -> Object]
<1> USE DEF ClusterTypeOK, Object
<1>1. Absent \in Object
  BY DEF Absent
<1>2. Created(n) \in Object
  BY DEF Created
<1>3. CreateObject(n) => inst' \in [Names -> Object] /\ minted' \in Seq(Names)
  BY <1>2 DEF CreateObject
<1>4. DeleteObject(n) => inst' \in [Names -> Object]
  BY <1>1 DEF DeleteObject
<1>5. ValidateObject(n) => inst' \in [Names -> Object]
  BY DEF ValidateObject
<1>6. QED
  BY <1>3, <1>4, <1>5

\* Whatever the operator, the janitor and the clock do, the cluster stays typed.
LEMMA ClusterStepType == ClusterTypeOK /\ ClusterNext => ClusterTypeOK'
<1> SUFFICES ASSUME ClusterTypeOK, ClusterNext PROVE ClusterTypeOK'
  OBVIOUS
<1>1. ASSUME NEW c \in Challenges, EditChallenge(c) PROVE ClusterTypeOK'
  BY <1>1 DEF ClusterTypeOK, EditChallenge
<1>2. ASSUME NEW n \in Names, Deploy(n) PROVE ClusterTypeOK'
  BY <1>2 DEF ClusterTypeOK, Deploy, Object
<1>3. ASSUME NEW n \in Names, Expire(n) PROVE ClusterTypeOK'
  BY <1>3 DEF ClusterTypeOK, Expire, Object
<1>4. ASSUME NEW n \in Names, Reap(n) PROVE ClusterTypeOK'
  BY <1>4, ObjectCalls DEF ClusterTypeOK, Reap
<1>5. QED
  BY <1>1, <1>2, <1>3, <1>4 DEF ClusterNext

-----------------------------------------------------------------------------
(* An object has the uid under which its name was minted, and what was minted *)
(* is never taken back.                                                       *)

MintedFor(f, n) == f \in DOMAIN minted /\ minted[f] = n

ObjectsMinted == \A n \in Names : Exists(n) => MintedFor(inst[n].uid, n)

\* What may happen to the objects: one is created under the next uid, or objects
\* keep their uids or go.
Mints(n) == inst' = [inst EXCEPT ![n] = Created(n)] /\ minted' = Append(minted, n)

KeepsUids ==
    /\ minted' = minted
    /\ \A n \in Names : inst'[n].uid = inst[n].uid \/ inst'[n].uid = 0

Moves == KeepsUids \/ \E n \in Names : Mints(n)

\* A uid stays minted for the name it was minted for.
LEMMA MintedStays ==
    ASSUME ClusterTypeOK, Moves
    PROVE  \A f, m : MintedFor(f, m) => MintedFor(f, m)'
<1>1. CASE KeepsUids
  BY <1>1 DEF KeepsUids, MintedFor
<1>2. ASSUME NEW n \in Names, Mints(n)
      PROVE  \A f, m : MintedFor(f, m) => MintedFor(f, m)'
  BY <1>2 DEF ClusterTypeOK, Mints, MintedFor
<1>3. QED
  BY <1>1, <1>2 DEF Moves

\* An object that is created has its own uid, and the others keep theirs.
LEMMA MintsKeeps ==
    ASSUME ClusterTypeOK, ObjectsMinted, NEW n \in Names, Mints(n)
    PROVE  ObjectsMinted'
<1>1. minted \in Seq(Names) /\ inst \in [Names -> Object]
  BY DEF ClusterTypeOK
<1>2. MintedFor(inst[n].uid, n)'
  <2>1. inst'[n].uid = Len(minted) + 1
    BY <1>1 DEF Mints, Created
  <2>2. /\ Len(minted) + 1 \in DOMAIN minted'
        /\ minted'[Len(minted) + 1] = n
    BY <1>1 DEF Mints
  <2>3. QED
    BY <2>1, <2>2 DEF MintedFor
<1>3. \A m \in Names \ {n} : inst'[m] = inst[m]
  BY <1>1 DEF Mints
<1>4. \A f, m : MintedFor(f, m) => MintedFor(f, m)'
  BY MintedStays DEF Moves
<1>5. ASSUME NEW m \in Names, inst'[m].uid # 0
      PROVE  MintedFor(inst[m].uid, m)'
  <2>1. CASE m = n
    BY <1>2, <2>1 DEF MintedFor
  <2>2. CASE m # n
    <3>1. inst'[m] = inst[m] /\ MintedFor(inst[m].uid, m)
      BY <1>3, <1>5, <2>2 DEF ObjectsMinted, Exists
    <3>2. QED
      BY <1>4, <3>1 DEF MintedFor
  <2>3. QED
    BY <2>1, <2>2
<1>6. QED
  BY <1>5 DEF ObjectsMinted, Exists

\* Every object has a uid that was minted for its name, however objects come and go.
LEMMA MintedObjects == ASSUME ClusterTypeOK, ObjectsMinted, Moves PROVE ObjectsMinted'
<1>1. CASE KeepsUids
  BY <1>1 DEF ObjectsMinted, KeepsUids, Exists, MintedFor
<1>2. QED
  BY <1>1, MintsKeeps DEF Moves

\* The calls of the client and the events of the cluster, one by one.
LEMMA ObjectMoves ==
    ASSUME ClusterTypeOK, NEW n \in Names
    PROVE  /\ CreateObject(n) => Mints(n)
           /\ DeleteObject(n) /\ minted' = minted => KeepsUids
           /\ ValidateObject(n) /\ minted' = minted => KeepsUids
           /\ Deploy(n) \/ Expire(n) \/ Reap(n) => KeepsUids
<1>1. inst \in [Names -> Object]
  BY DEF ClusterTypeOK
<1>2. \A m \in Names : inst[m] \in Object
  BY <1>1
<1>3. CreateObject(n) => Mints(n)
  BY DEF CreateObject, Mints
<1>4. DeleteObject(n) /\ minted' = minted => KeepsUids
  BY <1>1 DEF DeleteObject, KeepsUids, Absent
<1>5. ValidateObject(n) /\ minted' = minted => KeepsUids
  BY <1>1, <1>2 DEF ValidateObject, KeepsUids, Object
<1>6. Deploy(n) \/ Expire(n) => KeepsUids
  BY <1>1, <1>2 DEF Deploy, Expire, KeepsUids, Object
<1>7. Reap(n) => KeepsUids
  BY <1>4 DEF Reap
<1>8. QED
  BY <1>3, <1>4, <1>5, <1>6, <1>7

\* The operator, the janitor and the clock create nothing.
LEMMA ClusterMoves == ASSUME ClusterTypeOK, ClusterNext PROVE KeepsUids
<1>1. ASSUME NEW c \in Challenges, EditChallenge(c) PROVE KeepsUids
  BY <1>1 DEF EditChallenge, KeepsUids
<1>2. QED
  BY <1>1, ObjectMoves DEF ClusterNext

-----------------------------------------------------------------------------
(* The inductive invariant of the launches.                                   *)

AskPCs == {"idle", "look", "get", "delete", "create", "reget", "publish"}

AnswerType == [status : {0, 200, 202, 500}, uid : Nat]

AskType == [pc : AskPCs, challenge : Challenges, answer : AnswerType, known : Nat]

\* Only a token with a team gets past the early returns.
Entitled(q) == Claims[q].team \in Teams

NameOf(q, c) == InstanceName(c, Claims[q].user, Claims[q].team)

\* What a request was shown or has announced was created for the name it stands for.
AnswerOwn(q) == ask[q].answer.uid # 0 => MintedFor(ask[q].answer.uid, Target(q))

\* What a launch that was asked when "known" instances had been created may delete.
Deletable(n, known) == inst[n].uid = 0 \/ inst[n].expired \/ known < inst[n].uid

\* The handler that is about to delete found an expired object, and if there is now
\* another, it was created since.
DeletesExpired(q) == At(q, "delete") => Deletable(Target(q), ask[q].known)

AskOK(q) ==
    /\ ask[q] \in AskType
    /\ ~At(q, "idle") => Entitled(q)
    /\ At(q, "publish") => ask[q].answer.uid # 0
    /\ ask[q].known <= Len(minted)
    /\ AnswerOwn(q)
    /\ DeletesExpired(q)

IInv ==
    /\ ClusterTypeOK
    /\ ObjectsMinted
    /\ DOMAIN ask = Asks
    /\ ask = [q \in Asks |-> ask[q]]
    /\ \A q \in Asks : AskOK(q)
    /\ statusFeed \subseteq DOMAIN minted

-----------------------------------------------------------------------------
\* The name of a request with a team is a name of the cluster.
LEMMA TargetType ==
    ASSUME NEW q \in Asks, ask[q] \in AskType, Entitled(q)
    PROVE  Target(q) \in Names
<1>1. Claims[q].user \in Users
  BY LaunchingAssumption
<1>2. QED
  BY <1>1 DEF AskType, Entitled, Target, InstanceName, SourceID, Names, Sources

\* A typed function with one entry changed.
LEMMA AskEdit ==
    ASSUME IInv, NEW q \in Asks, NEW x, ask' = [ask EXCEPT ![q] = x]
    PROVE  /\ ask'[q] = x /\ DOMAIN ask' = Asks /\ ask' = [p \in Asks |-> ask'[p]]
           /\ \A p \in Asks \ {q} : ask'[p] = ask[p]
BY DEF IInv

\* What a handler makes of its own entry.
LEMMA EntryEdit ==
    ASSUME IInv, NEW q \in Asks
    PROVE  /\ ask[q] \in AskType
           /\ \A pc : Goto(q, pc) =>
                ask' = [ask EXCEPT ![q] = [pc |-> pc, challenge |-> ask[q].challenge,
                                           answer |-> ask[q].answer, known |-> ask[q].known]]
           /\ \A pc, status, uid : Answer(q, pc, status, uid) =>
                ask' = [ask EXCEPT ![q] = [pc |-> pc, challenge |-> ask[q].challenge,
                                           answer |-> [status |-> status, uid |-> uid],
                                           known |-> ask[q].known]]
<1>1. ask[q] \in AskType /\ q \in DOMAIN ask
  BY DEF IInv, AskOK
<1>2. ASSUME NEW pc, Goto(q, pc)
      PROVE  ask' = [ask EXCEPT ![q] = [pc |-> pc, challenge |-> ask[q].challenge,
                                        answer |-> ask[q].answer, known |-> ask[q].known]]
  <2>1. [ask[q] EXCEPT !.pc = pc] = [pc |-> pc, challenge |-> ask[q].challenge,
                                     answer |-> ask[q].answer, known |-> ask[q].known]
    BY <1>1 DEF AskType
  <2>2. ask' = [ask EXCEPT ![q] = [ask[q] EXCEPT !.pc = pc]]
    BY <1>2 DEF Goto
  <2>3. QED
    BY <2>1, <2>2
<1>3. ASSUME NEW pc, NEW status, NEW uid, Answer(q, pc, status, uid)
      PROVE  ask' = [ask EXCEPT ![q] = [pc |-> pc, challenge |-> ask[q].challenge,
                                        answer |-> [status |-> status, uid |-> uid],
                                        known |-> ask[q].known]]
  <2> DEFINE a == [status |-> status, uid |-> uid]
  <2>1. [ask[q] EXCEPT !.pc = pc, !.answer = a]
          = [pc |-> pc, challenge |-> ask[q].challenge, answer |-> a, known |-> ask[q].known]
    <3> HIDE DEF a
    <3> DEFINE b == [pc |-> pc, challenge |-> ask[q].challenge, answer |-> ask[q].answer,
                     known |-> ask[q].known]
    <3>1. [ask[q] EXCEPT !.pc = pc] = b
      BY <1>1 DEF AskType
    <3>2. [b EXCEPT !.answer = a] = [pc |-> pc, challenge |-> ask[q].challenge, answer |-> a,
                                     known |-> ask[q].known]
      OBVIOUS
    <3>3. QED
      BY <3>1, <3>2
  <2>2. ask' = [ask EXCEPT ![q] = [ask[q] EXCEPT !.pc = pc, !.answer = a]]
    BY <1>3 DEF Answer
  <2>3. QED
    BY <2>1, <2>2
<1>4. QED
  BY <1>1, <1>2, <1>3

\* What may happen to an object: it goes, another is created under its name, or it
\* stays, and stays expired if it is.
Ages ==
    /\ Len(minted) <= Len(minted')
    /\ \A n \in Names :
          \/ inst'[n].uid = 0
          \/ Len(minted) < inst'[n].uid
          \/ inst'[n].uid = inst[n].uid /\ (inst[n].expired => inst'[n].expired)

\* None of this makes an object one that an older launch may not delete.
LEMMA StaysDeletable ==
    ASSUME ClusterTypeOK, ClusterTypeOK', Ages, NEW n \in Names,
           NEW known \in Nat, known <= Len(minted),
           Deletable(n, known)
    PROVE  inst'[n].uid = 0 \/ inst'[n].expired \/ known < inst'[n].uid
<1>1. Len(minted) \in Nat /\ inst'[n] \in Object
  BY DEF ClusterTypeOK
<1>2. CASE Len(minted) < inst'[n].uid
  BY <1>1, <1>2 DEF Object
<1>3. QED
  BY <1>2 DEF Ages, Deletable

\* What is created is no older than any request.
LEMMA MintsAge ==
    ASSUME ClusterTypeOK, NEW n \in Names, Mints(n)
    PROVE  Ages
<1>1. minted \in Seq(Names) /\ inst \in [Names -> Object]
  BY DEF ClusterTypeOK
<1>2. inst'[n].uid = Len(minted) + 1 /\ \A m \in Names \ {n} : inst'[m] = inst[m]
  BY <1>1 DEF Mints, Created
<1>3. Len(minted) \in Nat /\ Len(minted') = Len(minted) + 1
  BY <1>1 DEF Mints
<1>4. QED
  BY <1>2, <1>3 DEF Ages

\* A request whose entry does not move stays as it was.
LEMMA BystanderKept ==
    ASSUME IInv, ClusterTypeOK', Moves, Ages,
           NEW p \in Asks, ask'[p] = ask[p]
    PROVE  AskOK(p)'
<1>1. AskOK(p) /\ Target(p)' = Target(p)
  BY DEF IInv, Target
<1>2. AnswerOwn(p)'
  BY <1>1, MintedStays DEF AskOK, AnswerOwn, IInv
<1>3. DeletesExpired(p)'
  <2> SUFFICES ASSUME At(p, "delete")
               PROVE  \/ inst'[Target(p)].uid = 0 \/ inst'[Target(p)].expired
                      \/ ask[p].known < inst'[Target(p)].uid
    BY <1>1 DEF DeletesExpired, Deletable, At
  <2>1. Target(p) \in Names /\ ask[p].known \in Nat /\ ask[p].known <= Len(minted)
    BY <1>1, TargetType DEF AskOK, At, AskType
  <2>2. Deletable(Target(p), ask[p].known)
    BY <1>1 DEF AskOK, DeletesExpired
  <2>3. QED
    BY <2>1, <2>2, StaysDeletable DEF IInv
<1>4. ask[p].known <= Len(minted')
  <2>1. /\ ask[p].known \in Nat /\ ask[p].known <= Len(minted)
        /\ Len(minted) \in Nat /\ Len(minted') \in Nat
    BY <1>1 DEF AskOK, AskType, IInv, ClusterTypeOK
  <2>2. QED
    BY <2>1 DEF Ages
<1>5. QED
  BY <1>1, <1>2, <1>3, <1>4 DEF AskOK, At

\* A request's step and the others: what is left to show of it.
LEMMA StepKeeps ==
    ASSUME IInv, ClusterTypeOK', Moves, Ages,
           NEW q \in Asks, NEW x, ask' = [ask EXCEPT ![q] = x], AskOK(q)',
           statusFeed' \subseteq DOMAIN minted'
    PROVE  IInv'
<1>1. ObjectsMinted'
  BY MintedObjects DEF IInv
<1>2. DOMAIN ask' = Asks /\ ask' = [p \in Asks |-> ask'[p]]
  BY AskEdit
<1>3. ASSUME NEW p \in Asks, p # q PROVE AskOK(p)'
  <2>1. ask'[p] = ask[p]
    BY <1>3, AskEdit
  <2>2. QED
    BY <2>1, BystanderKept
<1>4. QED
  BY <1>1, <1>2, <1>3 DEF IInv

\* A step that leaves the objects alone.
LEMMA SameObjects ==
    ASSUME IInv, UNCHANGED <<inst, minted>>
    PROVE  Moves /\ Ages /\ \A f, n : MintedFor(f, n) => MintedFor(f, n)'
BY DEF IInv, ClusterTypeOK, Moves, KeepsUids, Ages, MintedFor

\* A step that deletes an object.
LEMMA Deletion ==
    ASSUME IInv, NEW n \in Names, DeleteObject(n), minted' = minted
    PROVE  Moves /\ Ages
<1>1. inst \in [Names -> Object]
  BY DEF IInv, ClusterTypeOK
<1>2. KeepsUids
  BY ObjectMoves DEF IInv
<1>3. Ages
  BY <1>1 DEF DeleteObject, Absent, Ages, Object
<1>4. QED
  BY <1>2, <1>3 DEF Moves

\* An entry that is fine by its fields.
LEMMA EntryOK ==
    ASSUME NEW q \in Asks, NEW pc \in AskPCs, NEW c \in Challenges, NEW a \in AnswerType,
           NEW k \in Nat, k <= Len(minted'),
           ask'[q] = [pc |-> pc, challenge |-> c, answer |-> a, known |-> k],
           pc # "idle" => Entitled(q),
           pc = "publish" => a.uid # 0,
           a.uid # 0 => MintedFor(a.uid, NameOf(q, c))',
           pc = "delete" => Deletable(NameOf(q, c), k)'
    PROVE  AskOK(q)'
BY DEF AskOK, AskType, At, AnswerOwn, DeletesExpired, Deletable, Target, NameOf, MintedFor

-----------------------------------------------------------------------------
(* One lemma per kind of step. *)

LEMMA AskKeeps ==
    ASSUME IInv, NEW q \in Asks, NEW c \in Challenges, AskLaunch(q, c) \/ AskStatus(q, c)
    PROVE  IInv'
<1>1. PICK pc \in {"get", "look"} : Ask(q, c, pc)
  BY DEF AskLaunch, AskStatus
<1> DEFINE x == [pc |-> pc, challenge |-> c, answer |-> NoAnswer, known |-> Len(minted)]
<1>2. Entitled(q)
  BY <1>1, LaunchingAssumption DEF Ask, AskLaunch, AskStatus, Entitled
<1>3. ask' = [ask EXCEPT ![q] = x] /\ UNCHANGED <<clusterVars, statusFeed>>
  BY <1>1 DEF Ask
<1>4. NoAnswer \in AnswerType /\ NoAnswer.uid = 0 /\ pc \in AskPCs
  BY DEF NoAnswer, AnswerType, AskPCs
<1>5. ask'[q] = x
  BY <1>3, AskEdit
<1>6. AskOK(q)'
  <2>1. PICK k \in Nat : k = Len(minted) /\ k <= Len(minted')
    BY <1>3 DEF IInv, ClusterTypeOK, clusterVars
  <2>2. ask'[q] = [pc |-> pc, challenge |-> c, answer |-> NoAnswer, known |-> k]
    BY <1>5, <2>1
  <2>3. pc # "delete" /\ pc # "publish"
    OBVIOUS
  <2>4. QED
    BY <1>2, <1>4, <2>1, <2>2, <2>3, EntryOK
<1>7. ClusterTypeOK' /\ Moves /\ Ages /\ statusFeed' \subseteq DOMAIN minted'
  BY <1>3, SameObjects DEF IInv, ClusterTypeOK, clusterVars
<1>8. QED
  BY <1>3, <1>6, <1>7, StepKeeps

\* A step of the handler that touches no object.
Reads(q) ==
    InstanceStatus(q) \/ Get(q) \/ Reget(q) \/ Publish(q) \/ CallFails(q) \/ PublishFails(q)
    \/ (Create(q) /\ UNCHANGED <<inst, minted>>)

\* Where such a step takes the handler: on, with what was answered before, or to an
\* answer about the object of the user's name.
LEMMA ReadEffect ==
    ASSUME IInv, NEW q \in Asks, Reads(q)
    PROVE  /\ UNCHANGED clusterVars
           /\ statusFeed' = statusFeed \/ (At(q, "publish")
                                          /\ statusFeed' = statusFeed \union {ask[q].answer.uid})
           /\ \/ \E pc \in {"idle", "create", "reget"} :
                   Goto(q, pc) /\ (pc # "idle" => ~At(q, "idle"))
              \/ ~At(q, "idle") /\ Goto(q, "delete") /\ inst[Target(q)].expired
              \/ \E status \in {200, 500} : Answer(q, "idle", status, 0)
              \/ ~At(q, "idle") /\ Answer(q, "idle", 200, inst[Target(q)].uid)
              \/ /\ ~At(q, "idle") /\ Exists(Target(q))
                 /\ Answer(q, "publish", 202, inst[Target(q)].uid)
<1>1. CASE InstanceStatus(q) \/ Get(q)
  BY <1>1 DEF InstanceStatus, Get, At
<1>2. CASE Reget(q) \/ CallFails(q)
  BY <1>2 DEF Reget, CallFails, At
<1>3. CASE Publish(q) \/ PublishFails(q)
  BY <1>3 DEF Publish, PublishFails
<1>4. CASE Create(q) /\ UNCHANGED <<inst, minted>>
  <2>1. ~CreateObject(Target(q))
    BY <1>4 DEF CreateObject, IInv, ClusterTypeOK
  <2>2. QED
    BY <1>4, <2>1 DEF Create, At, clusterVars
<1>5. QED
  BY <1>1, <1>2, <1>3, <1>4 DEF Reads

LEMMA ReadKeeps == ASSUME IInv, NEW q \in Asks, Reads(q) PROVE IInv'
<1>0. PICK c \in Challenges, n \in {Target(q)}, k \in Nat :
        /\ c = ask[q].challenge /\ n = Target(q) /\ n = NameOf(q, c)
        /\ k = ask[q].known /\ k <= Len(minted)
  BY DEF IInv, AskOK, AskType, Target, NameOf
<1>1. ask[q] \in AskType /\ AskOK(q) /\ ask[q].answer \in AnswerType
  BY DEF IInv, AskOK, AskType, Target
<1>2. /\ UNCHANGED clusterVars /\ ClusterTypeOK' /\ Moves /\ Ages
      /\ \A f, m : MintedFor(f, m) => MintedFor(f, m)'
  BY ReadEffect, SameObjects DEF IInv, ClusterTypeOK, clusterVars
<1>3. ~At(q, "idle") => Entitled(q) /\ n \in Names
  BY <1>0, <1>1, TargetType DEF AskOK
<1>4. ~At(q, "idle") => inst[n] \in Object /\ (inst[n].uid # 0 => MintedFor(inst[n].uid, n))
  BY <1>3 DEF IInv, ClusterTypeOK, ObjectsMinted, Exists
<1>5. statusFeed' \subseteq DOMAIN minted'
  <2>1. CASE statusFeed' = statusFeed
    BY <1>2, <2>1 DEF IInv, clusterVars
  <2>2. CASE At(q, "publish") /\ statusFeed' = statusFeed \union {ask[q].answer.uid}
    BY <1>0, <1>1, <1>2, <2>2 DEF IInv, AskOK, AnswerOwn, MintedFor, clusterVars
  <2>3. QED
    BY <2>1, <2>2, ReadEffect
<1>6. PICK pc \in AskPCs, a \in AnswerType :
        /\ ask' = [ask EXCEPT ![q] = [pc |-> pc, challenge |-> c, answer |-> a, known |-> k]]
        /\ pc # "idle" => Entitled(q)
        /\ pc = "publish" => a.uid # 0
        /\ a.uid # 0 => MintedFor(a.uid, n)
        /\ pc = "delete" => inst[n].expired
  <2>1. CASE \E pc \in {"idle", "create", "reget"} :
               Goto(q, pc) /\ (pc # "idle" => ~At(q, "idle"))
    BY <1>0, <1>1, <1>3, <2>1, EntryEdit DEF AskPCs, AskOK, AnswerOwn
  <2>2. CASE ~At(q, "idle") /\ Goto(q, "delete") /\ inst[n].expired
    BY <1>0, <1>1, <1>3, <2>2, EntryEdit DEF AskPCs, AskOK, AnswerOwn
  <2>3. CASE \E status \in {200, 500} : Answer(q, "idle", status, 0)
    <3>1. PICK status \in {200, 500} : Answer(q, "idle", status, 0)
      BY <2>3
    <3> DEFINE a == [status |-> status, uid |-> 0]
    <3>2. a \in AnswerType /\ a.uid = 0
      BY DEF AnswerType
    <3>3. QED
      BY <1>0, <3>1, <3>2, EntryEdit DEF AskPCs
  <2>4. CASE ~At(q, "idle") /\ \/ Answer(q, "idle", 200, inst[n].uid)
                               \/ Exists(n) /\ Answer(q, "publish", 202, inst[n].uid)
    <3>1. PICK pc \in {"idle", "publish"}, status \in {200, 202} :
            Answer(q, pc, status, inst[n].uid) /\ (pc = "publish" => inst[n].uid # 0)
      BY <2>4 DEF Exists
    <3> DEFINE a == [status |-> status, uid |-> inst[n].uid]
    <3>2. a \in AnswerType /\ a.uid = inst[n].uid
      BY <1>4, <2>4 DEF AnswerType, Object
    <3>3. ask' = [ask EXCEPT ![q] = [pc |-> pc, challenge |-> c, answer |-> a, known |-> k]]
      BY <1>0, <3>1, EntryEdit
    <3>4. a.uid # 0 => MintedFor(a.uid, n)
      BY <1>0, <1>4, <2>4, <3>2
    <3>5. Entitled(q) /\ pc \in AskPCs /\ pc # "delete" /\ (pc = "publish" => a.uid # 0)
      BY <1>0, <1>3, <2>4, <3>1, <3>2 DEF AskPCs
    <3> HIDE DEF a
    <3>6. QED
      BY <3>2, <3>3, <3>4, <3>5
  <2>5. QED
    BY <1>0, <2>1, <2>2, <2>3, <2>4, ReadEffect
<1>7. ask'[q] = [pc |-> pc, challenge |-> c, answer |-> a, known |-> k]
  BY <1>6, AskEdit
<1>8. inst' = inst /\ minted' = minted
  BY <1>2 DEF clusterVars
<1>9. AskOK(q)'
  <2>1. a.uid # 0 => MintedFor(a.uid, NameOf(q, c))'
    BY <1>0, <1>1, <1>2, <1>6
  <2>2. pc = "delete" => Deletable(NameOf(q, c), k)'
    BY <1>0, <1>6, <1>8 DEF Deletable
  <2>3. QED
    BY <1>0, <1>1, <1>6, <1>7, <1>8, <2>1, <2>2, EntryOK
<1>10. QED
  BY <1>0, <1>2, <1>5, <1>6, <1>9, StepKeeps

\* The delete: the handler goes on to create, or has answered 500.
LEMMA DeleteKeeps ==
    ASSUME IInv, NEW q \in Asks, Delete(q) \/ DeleteAckLost(q)
    PROVE  IInv'
<1>0. PICK c \in Challenges, n \in {Target(q)}, k \in Nat :
        /\ c = ask[q].challenge /\ n = Target(q) /\ n = NameOf(q, c)
        /\ k = ask[q].known /\ k <= Len(minted)
  BY DEF IInv, AskOK, AskType, Target, NameOf
<1>1. /\ ask[q] \in AskType /\ AskOK(q) /\ ask[q].answer \in AnswerType
      /\ Entitled(q) /\ n \in Names
  BY <1>0, TargetType DEF IInv, AskOK, AskType, Target, At, Delete, DeleteAckLost
<1>2. DeleteObject(n) /\ UNCHANGED <<crs, minted, statusFeed>>
  BY <1>0 DEF Delete, DeleteAckLost
<1>3. /\ ClusterTypeOK' /\ Moves /\ Ages /\ statusFeed' \subseteq DOMAIN minted'
      /\ \A f, m : MintedFor(f, m) => MintedFor(f, m)'
  <2>1. ClusterTypeOK'
    BY <1>0, <1>1, <1>2, ObjectCalls DEF IInv, ClusterTypeOK
  <2>2. Moves /\ Ages
    BY <1>0, <1>1, <1>2, Deletion
  <2>3. QED
    BY <1>2, <2>1, <2>2, MintedStays DEF IInv
<1>4. PICK pc \in AskPCs, a \in AnswerType :
        /\ ask' = [ask EXCEPT ![q] = [pc |-> pc, challenge |-> c, answer |-> a, known |-> k]]
        /\ pc \notin {"publish", "delete"}
        /\ a.uid # 0 => MintedFor(a.uid, n)
  <2>1. CASE Delete(q)
    BY <1>0, <1>1, <2>1, EntryEdit DEF Delete, AskPCs, AskOK, AnswerOwn
  <2>2. CASE DeleteAckLost(q)
    <3> DEFINE a == [status |-> 500, uid |-> 0]
    <3>1. a \in AnswerType /\ a.uid = 0
      BY DEF AnswerType
    <3>2. QED
      BY <1>0, <2>2, <3>1, EntryEdit DEF DeleteAckLost, AskPCs
  <2>3. QED
    BY <2>1, <2>2
<1>5. AskOK(q)'
  <2>1. ask'[q] = [pc |-> pc, challenge |-> c, answer |-> a, known |-> k]
    BY <1>4, AskEdit
  <2>2. a.uid # 0 => MintedFor(a.uid, NameOf(q, c))'
    BY <1>0, <1>1, <1>3, <1>4
  <2>3. QED
    BY <1>0, <1>1, <1>2, <1>4, <2>1, <2>2, EntryOK
<1>6. QED
  BY <1>0, <1>2, <1>3, <1>4, <1>5, StepKeeps

\* The create that takes effect: what is answered is the object of the name.
LEMMA CreateKeeps ==
    ASSUME IInv, NEW q \in Asks, CreateObject(Target(q)), UNCHANGED <<crs, statusFeed>>,
           \/ At(q, "create") /\ Answer(q, "publish", 202, Created(Target(q)).uid)
           \/ At(q, "create") /\ Answer(q, "idle", 500, 0)
    PROVE  IInv'
<1>0. PICK c \in Challenges, n \in {Target(q)}, k \in Nat :
        /\ c = ask[q].challenge /\ n = Target(q) /\ n = NameOf(q, c)
        /\ k = ask[q].known /\ k <= Len(minted)
  BY DEF IInv, AskOK, AskType, Target, NameOf
<1>1. ask[q] \in AskType /\ AskOK(q) /\ Entitled(q) /\ n \in Names
  BY <1>0, TargetType DEF IInv, AskOK, AskType, Target, At
<1>2. Mints(n) /\ minted \in Seq(Names) /\ Len(minted) \in Nat
  BY <1>0, <1>1, ObjectMoves DEF IInv, ClusterTypeOK
<1>3. Moves /\ Ages /\ k <= Len(minted')
  <2>1. Ages
    BY <1>1, <1>2, MintsAge DEF IInv
  <2>2. Len(minted') \in Nat
    BY <1>1, <1>2 DEF Mints
  <2>3. QED
    BY <1>0, <1>1, <1>2, <2>1, <2>2 DEF Moves, Ages
<1>4. ClusterTypeOK' /\ statusFeed' \subseteq DOMAIN minted'
  <2>1. ClusterTypeOK'
    BY <1>0, <1>1, ObjectCalls DEF IInv, ClusterTypeOK
  <2>2. statusFeed' \subseteq DOMAIN minted'
    BY <1>2 DEF IInv, Mints
  <2>3. QED
    BY <2>1, <2>2
<1>5. Created(n).uid = Len(minted) + 1
  BY DEF Created
<1>6. PICK pc \in AskPCs, a \in AnswerType :
        /\ ask' = [ask EXCEPT ![q] = [pc |-> pc, challenge |-> c, answer |-> a, known |-> k]]
        /\ pc # "delete"
        /\ pc = "publish" => a.uid # 0
        /\ a.uid # 0 => a.uid = Len(minted) + 1
  <2>1. CASE Answer(q, "publish", 202, Created(n).uid)
    <3> DEFINE a == [status |-> 202, uid |-> Len(minted) + 1]
    <3>1. a \in AnswerType /\ a.uid = Len(minted) + 1 /\ a.uid # 0
      BY <1>2 DEF AnswerType
    <3>2. ask' = [ask EXCEPT ![q] = [pc |-> "publish", challenge |-> c, answer |-> a,
                                     known |-> k]]
      BY <1>0, <1>5, <2>1, EntryEdit
    <3>3. QED
      BY <3>1, <3>2 DEF AskPCs
  <2>2. CASE Answer(q, "idle", 500, 0)
    <3> DEFINE a == [status |-> 500, uid |-> 0]
    <3>1. a \in AnswerType /\ a.uid = 0
      BY DEF AnswerType
    <3>2. QED
      BY <1>0, <2>2, <3>1, EntryEdit DEF AskPCs
  <2>3. QED
    BY <1>0, <2>1, <2>2
<1>7. AskOK(q)'
  <2>1. ask'[q] = [pc |-> pc, challenge |-> c, answer |-> a, known |-> k]
    BY <1>6, AskEdit
  <2>2. \A f : f = Len(minted) + 1 => MintedFor(f, NameOf(q, c))'
    BY <1>0, <1>1, <1>2 DEF MintedFor, Mints
  <2>3. a.uid # 0 => MintedFor(a.uid, NameOf(q, c))'
    BY <1>6, <2>2
  <2>4. QED
    BY <1>0, <1>1, <1>3, <1>6, <2>1, <2>3, EntryOK
<1>8. QED
  BY <1>0, <1>1, <1>2, <1>3, <1>4, <1>6, <1>7, StepKeeps

\* Objects are marked or removed by someone else: nobody's entry moves.
LEMMA ObjectsAge ==
    ASSUME IInv, ClusterTypeOK', Moves, Ages, minted' = minted, UNCHANGED launchVars
    PROVE  IInv'
<1>1. ask' = ask /\ statusFeed' = statusFeed
  BY DEF launchVars
<1>2. \A q \in Asks : AskOK(q)'
  BY <1>1, BystanderKept
<1>3. ObjectsMinted'
  BY MintedObjects DEF IInv
<1>4. QED
  BY <1>1, <1>2, <1>3 DEF IInv

\* The operator, the janitor and the clock do no more than that.
LEMMA ClusterKeeps == ASSUME IInv, ClusterNext, UNCHANGED launchVars PROVE IInv'
<1>1. ClusterTypeOK' /\ Moves
  BY ClusterStepType, ClusterMoves DEF IInv, Moves
<1>2. minted' = minted
  BY DEF ClusterNext, EditChallenge, Deploy, Expire, Reap
<1>3. Ages
  <2>1. inst \in [Names -> Object]
    BY DEF IInv, ClusterTypeOK
  <2>2. Len(minted) <= Len(minted')
    BY <1>2 DEF IInv, ClusterTypeOK
  <2>3. ASSUME NEW c \in Challenges, EditChallenge(c) PROVE Ages
    BY <2>1, <2>2, <2>3 DEF EditChallenge, Ages
  <2>4. ASSUME NEW n \in Names, Deploy(n) \/ Expire(n) PROVE Ages
    BY <2>1, <2>2, <2>4 DEF Deploy, Expire, Exists, Ages, Object
  <2>5. ASSUME NEW n \in Names, Reap(n) PROVE Ages
    BY <2>5, Deletion DEF Reap
  <2>6. QED
    BY <2>3, <2>4, <2>5 DEF ClusterNext
<1>4. QED
  BY <1>1, <1>2, <1>3, ObjectsAge

LEMMA StepIInv == IInv /\ [Next]_vars => IInv'
<1> SUFFICES ASSUME IInv, [Next]_vars PROVE IInv'
  OBVIOUS
<1>1. ASSUME NEW q \in Asks, NEW c \in Challenges, AskLaunch(q, c) \/ AskStatus(q, c)
      PROVE  IInv'
  BY <1>1, AskKeeps
<1>2. ASSUME NEW q \in Asks, Step(q) \/ Fault(q) PROVE IInv'
  <2>1. CASE Reads(q)
    BY <2>1, ReadKeeps
  <2>2. CASE Delete(q) \/ DeleteAckLost(q)
    BY <2>2, DeleteKeeps
  <2>3. CASE Create(q) /\ ~Reads(q)
    BY <2>3, CreateKeeps DEF Create, Reads
  <2>4. CASE CreateAckLost(q)
    BY <2>4, CreateKeeps DEF CreateAckLost
  <2>5. QED
    BY <1>2, <2>1, <2>2, <2>3, <2>4 DEF Step, Fault, Reads
<1>3. CASE ClusterNext /\ UNCHANGED launchVars
  BY <1>3, ClusterKeeps
<1>4. CASE UNCHANGED vars
  <2>1. UNCHANGED <<clusterVars, ask, statusFeed>>
    BY <1>4 DEF vars, launchVars
  <2>2. \A q \in Asks : AskOK(q)'
    BY <2>1 DEF IInv, AskOK, At, AnswerOwn, MintedFor, DeletesExpired, Deletable, Target,
       clusterVars
  <2>3. QED
    BY <2>1, <2>2 DEF IInv, ClusterTypeOK, ObjectsMinted, Exists, MintedFor, clusterVars
<1>5. QED
  BY <1>1, <1>2, <1>3, <1>4 DEF Next, LaunchNext

LEMMA InitIInv == Init => IInv
<1> SUFFICES ASSUME Init PROVE IInv
  OBVIOUS
<1>1. ClusterTypeOK /\ ObjectsMinted
  BY DEF Init, ClusterInit, ClusterTypeOK, ObjectsMinted, Exists, Absent, Object
<1>2. ASSUME NEW q \in Asks PROVE AskOK(q)
  <2>1. /\ ask[q] \in [pc : {"idle"}, challenge : Challenges, answer : {NoAnswer}, known : {0}]
        /\ Len(minted) = 0
    BY DEF Init, ClusterInit
  <2>2. NoAnswer \in AnswerType /\ NoAnswer.uid = 0
    BY DEF NoAnswer, AnswerType
  <2>3. QED
    BY <2>1, <2>2 DEF AskOK, AskType, AskPCs, At, AnswerOwn, DeletesExpired
<1>3. QED
  BY <1>1, <1>2 DEF IInv, Init

LEMMA AlwaysIInv == Spec => []IInv
BY InitIInv, StepIInv, PTL DEF Spec

-----------------------------------------------------------------------------
(* The theorems. *)

\* An instance shown or announced in answer to a request was created under the name
\* that its token and its challenge stand for, whoever deletes and creates objects of
\* that name meanwhile.
THEOREM LaunchesAreTyped == Spec => []TypeOK
<1>1. IInv => TypeOK
  BY DEF IInv, AskOK, AskType, AskPCs, AnswerType, AnswerOwn, MintedFor, TypeOK
<1>2. QED
  BY <1>1, AlwaysIInv, PTL

\* What a step takes away is expired, or solved, or lost to a launch older than it.
LEMMA StepKeepsInUse ==
    ASSUME IInv, [Next]_vars, NEW n \in Names, Live(n), inst'[n].uid # inst[n].uid
    PROVE  LostToOlderLaunch(n)
<1>1. inst \in [Names -> Object] /\ inst[n].uid # 0 /\ ~inst[n].expired /\ ~inst[n].validated
  BY DEF IInv, ClusterTypeOK, Live, Exists
<1>2. ASSUME NEW q \in Asks, DeleteObject(Target(q)), At(q, "delete")
      PROVE  LostToOlderLaunch(n)
  <2>1. Target(q) = n
    BY <1>1, <1>2 DEF DeleteObject
  <2>2. Deletable(n, ask[q].known)
    BY <1>2, <2>1 DEF IInv, AskOK, DeletesExpired
  <2>3. QED
    BY <1>1, <1>2, <2>1, <2>2 DEF Deletable, LostToOlderLaunch
<1>3. ASSUME NEW m PROVE ~CreateObject(m)
  BY <1>1, <1>3 DEF CreateObject, Exists
<1>4. ASSUME NEW m \in Names PROVE ~(Deploy(m) \/ Expire(m) \/ Reap(m))
  <2>1. ~(Deploy(m) \/ Expire(m))
    BY <1>1 DEF Deploy, Expire, Object
  <2>2. ~Reap(m)
    BY <1>1 DEF Reap, DeleteObject
  <2>3. QED
    BY <2>1, <2>2
<1>5. inst' # inst
  OBVIOUS
<1>6. QED
  BY <1>2, <1>3, <1>4, <1>5 DEF Next, LaunchNext, ClusterNext, AskLaunch, AskStatus, Ask, Step,
     Fault, InstanceStatus, Get, Delete, Create, Reget, Publish, CallFails, PublishFails,
     DeleteAckLost, CreateAckLost, EditChallenge, clusterVars, vars

\* An instance in use is safe from every launch asked after it was created and from
\* every launch for another name, for any number of requests of the same and of other
\* users that launch, look and fail at once.
THEOREM InstancesInUse == Spec => InUseKept
<1>1. IInv /\ [Next]_vars =>
        [\A n \in Names : Live(n) /\ inst'[n].uid # inst[n].uid => LostToOlderLaunch(n)]_inst
  BY StepKeepsInUse
<1>2. QED
  BY <1>1, AlwaysIInv, PTL DEF Spec, InUseKept
=============================================================================
