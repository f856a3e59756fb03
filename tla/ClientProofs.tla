---------------------------- MODULE ClientProofs ----------------------------
(***************************************************************************)
(* Proofs about the browser: about Client, for any number of challenges,   *)
(* overlays and requests under way, and about Chunks, for any radii, cache *)
(* and budget and any world.                                               *)
(*                                                                         *)
(* For Client the strengthening says of each load that what was confirmed before it   *)
(* is solved, and is in the list it was answered, if it was.  Both hold of *)
(* a load on its own, so that it does not matter in which order they end.  *)
(* A solve that is about to be confirmed is one.                           *)
(*                                                                         *)
(* For Chunks it says that the scene is in order, the cache included, and  *)
(* every step of a frame, a chunk that leaves and a chunk that comes up,   *)
(* keeps a scene in order.  Its operators are recursive functions, so      *)
(* there is an induction under each: over the numbers up to a bound.       *)
(***************************************************************************)
EXTENDS Client, Chunks, SequenceTheorems, TLAPS

Numbers == INSTANCE ScoringProofs

LoadSound(k) ==
    /\ k.since \subseteq confirmed
    /\ Listed(k) => k.since \subseteq k.said

LoadsSound == \A k \in DOMAIN loads : LoadSound(k)

WorldSound == shown # Nothing => shown.since \subseteq shown.list

CallsSound ==
    \A k \in DOMAIN calls :
        k.kind = "submit" /\ k.said = "correct" => k.ch \in server.solved

IInv == TypeOK /\ LoadsSound /\ CallsSound /\ WorldSound /\ ControlsReturn

-----------------------------------------------------------------------------
\* Bags

\* A member more makes a bag of a bag.
LEMMA BagAddBag ==
    ASSUME NEW B, NEW x, IsABag(B)
    PROVE  IsABag(BagAdd(B, x)) /\ DOMAIN BagAdd(B, x) = DOMAIN B \union {x}
  <1>1. CASE x \in DOMAIN B
    <2>1. BagAdd(B, x) = [e \in DOMAIN B |-> IF e = x THEN B[e] + 1 ELSE B[e]]
      BY <1>1 DEF BagAdd
    <2>2. \A e \in DOMAIN B : B[e] \in Nat /\ B[e] > 0
      BY DEF IsABag
    <2>3. DOMAIN BagAdd(B, x) = DOMAIN B
      BY <2>1
    <2>4. \A e \in DOMAIN B : (IF e = x THEN B[e] + 1 ELSE B[e]) \in {n \in Nat : n > 0}
      BY <2>2
    <2> QED  BY <1>1, <2>1, <2>3, <2>4 DEF IsABag
  <1>2. CASE x \notin DOMAIN B
    BY <1>2 DEF IsABag, BagAdd
  <1> QED  BY <1>1, <1>2

\* So does a member less, and what is left was there before.
LEMMA BagRemoveBag ==
    ASSUME NEW B, NEW x, IsABag(B)
    PROVE  IsABag(BagRemove(B, x)) /\ DOMAIN BagRemove(B, x) \subseteq DOMAIN B
  <1>1. CASE x \notin DOMAIN B
    BY <1>1 DEF BagRemove
  <1>2. CASE x \in DOMAIN B /\ B[x] = 1
    BY <1>2 DEF IsABag, BagRemove
  <1>3. CASE x \in DOMAIN B /\ B[x] # 1
    BY <1>3 DEF IsABag, BagRemove
  <1> QED  BY <1>1, <1>2, <1>3

\* Only the new member is new after a change.
LEMMA ChangeBag ==
    ASSUME NEW B, NEW x, NEW y, IsABag(B)
    PROVE  IsABag(Change(B, x, y)) /\ DOMAIN Change(B, x, y) \subseteq DOMAIN B \union {y}
  <1> DEFINE less == BagRemove(B, x)
  <1>1. IsABag(less) /\ DOMAIN less \subseteq DOMAIN B
    BY BagRemoveBag
  <1>2. IsABag(BagAdd(less, y)) /\ DOMAIN BagAdd(less, y) = DOMAIN less \union {y}
    BY <1>1, BagAddBag
  <1> QED  BY <1>1, <1>2 DEF Change

LEMMA OneMemberBag ==
    ASSUME NEW x
    PROVE  IsABag(SetToBag({x})) /\ DOMAIN SetToBag({x}) = {x}
  BY DEF IsABag, SetToBag

LEMMA EmptyBagBag == IsABag(EmptyBag) /\ DOMAIN EmptyBag = {}
  BY DEF IsABag, EmptyBag, SetToBag

-----------------------------------------------------------------------------
\* Types

LEMMA LoadTyped ==
    ASSUME NEW phase \in {"world", "list"}, NEW since \in SUBSET Challenges,
           NEW seeded \in BOOLEAN,
           NEW said \in {Nothing, Failure, Bare} \union SUBSET Challenges
    PROVE  Load(phase, since, seeded, said) \in LoadSet
  BY DEF Load, LoadSet

LEMMA SubmitTyped ==
    ASSUME NEW w \in Windows, NEW c \in Challenges,
           NEW said \in {Nothing, Failure, "correct"}
    PROVE  Call("submit", w, c, said) \in CallSet
  BY DEF Call, CallSet

LEMMA CallTyped ==
    ASSUME NEW kind \in {"poll", "launch", "timer"}, NEW w \in Windows, NEW c \in Dynamic,
           NEW said \in {Nothing, Failure} \union Statuses
    PROVE  Call(kind, w, c, said) \in CallSet
  BY DEF Call, CallSet

LEMMA PanelTyped ==
    ASSUME NEW c \in Challenges, NEW shows \in {"blank", "spinner", "connection", "error"},
           NEW hidden \in BOOLEAN, NEW off \in BOOLEAN
    PROVE  Overlay("panel", c, shows, hidden, off) \in OverlaySet
  BY DEF Overlay, OverlaySet

LEMMA BoardTyped == Board \in OverlaySet
  BY DEF Board, Overlay, OverlaySet

\* What there is to know of the members of the two bags and of the overlays.
LEMMA CallFields ==
    ASSUME NEW k \in CallSet
    PROVE  /\ k.win \in Windows /\ k.ch \in Challenges
           /\ k.kind = "submit" => k.said \in {Nothing, Failure, "correct"}
           /\ k.kind # "submit" => /\ k.kind \in {"poll", "launch", "timer"}
                                   /\ k.ch \in Dynamic
                                   /\ k.said \in {Nothing, Failure} \union Statuses
  BY ClientAssumption DEF CallSet

LEMMA LoadFields ==
    ASSUME NEW k \in LoadSet
    PROVE  /\ k.phase \in {"world", "list"} /\ k.since \in SUBSET Challenges
           /\ k.seeded \in BOOLEAN
           /\ k.said \in {Nothing, Failure, Bare} \union SUBSET Challenges
           /\ Listed(k) => k.said \in SUBSET Challenges
  BY DEF LoadSet, Listed

LEMMA PanelFields ==
    ASSUME NEW w \in Windows, windows[w] \in {Nothing} \union OverlaySet, PanelAt(w)
    PROVE  windows[w].ch \in Challenges /\ windows[w].hidden \in BOOLEAN
             /\ windows[w].off \in BOOLEAN
  BY DEF PanelAt, OverlaySet

-----------------------------------------------------------------------------
\* The parts that most steps leave alone

\* Loads: none new but with what a load of before, or nobody, was told.
LEMMA WorldSame ==
    ASSUME WorldSound, UNCHANGED <<challenges, shown>>
    PROVE  WorldSound'
  BY DEF WorldSound

LEMMA LoadsSame ==
    ASSUME LoadsSound, DOMAIN loads' \subseteq DOMAIN loads, confirmed \subseteq confirmed'
    PROVE  LoadsSound'
  BY DEF LoadsSound, LoadSound, Listed

LEMMA ControlsSame ==
    ASSUME ControlsReturn, UNCHANGED <<windows, paused>>
    PROVE  ControlsReturn'
  BY DEF ControlsReturn

\* A load is answered, or a new request of it is made.
LEMMA LoadMoves ==
    ASSUME IInv, NEW k \in DOMAIN loads, NEW k2 \in LoadSet, k2.since = k.since,
           Listed(k2) => confirmed \subseteq k2.said,
           loads' = Change(loads, k, k2),
           UNCHANGED <<server, calls, pageVars>>
    PROVE  IInv'
  <1> USE DEF IInv
  <1>1. IsABag(loads') /\ DOMAIN loads' \subseteq DOMAIN loads \union {k2}
    BY ChangeBag DEF TypeOK
  <1>2. TypeOK'
    BY <1>1 DEF TypeOK, pageVars
  <1>3. LoadsSound'
    <2> SUFFICES ASSUME NEW j \in DOMAIN loads'
                 PROVE  LoadSound(j)'
      BY DEF LoadsSound
    <2>1. LoadSound(k)
      BY DEF LoadsSound
    <2>2. CASE j \in DOMAIN loads
      BY <2>2 DEF LoadsSound, LoadSound, Listed, pageVars
    <2>3. CASE j = k2
      BY <2>1, <2>3 DEF LoadSound, Listed, pageVars
    <2> QED  BY <1>1, <2>2, <2>3
  <1>4. WorldSound' /\ ControlsReturn' /\ CallsSound'
    BY WorldSame, ControlsSame DEF pageVars, CallsSound
  <1> QED  BY <1>2, <1>3, <1>4

\* A panel waits for something else, or for nothing any more, and may show something else.
LEMMA CallMoves ==
    ASSUME IInv, IsABag(calls'), DOMAIN calls' \subseteq CallSet, CallsSound',
           windows' \in [Windows -> {Nothing} \union OverlaySet],
           \A w \in Windows : windows[w] # Nothing => windows'[w] # Nothing,
           server' \in [solved : SUBSET Challenges, inst : [Dynamic -> Statuses]],
           server.solved \subseteq server'.solved,
           UNCHANGED <<loads, challenges, shown, paused, ready, confirmed>>
    PROVE  IInv'
  <1> USE DEF IInv
  <1>1. TypeOK'
    BY DEF TypeOK
  <1>2. LoadsSound' /\ WorldSound'
    BY LoadsSame, WorldSame
  <1>3. ControlsReturn'
    BY DEF ControlsReturn
  <1> QED  BY <1>1, <1>2, <1>3

-----------------------------------------------------------------------------
\* The steps of a load

LEMMA KeptByAnswerLoad ==
    ASSUME IInv, NEW k \in DOMAIN loads, AnswerLoad(k)
    PROVE  IInv'
  <1>1. k \in LoadSet /\ confirmed \subseteq server.solved /\ server.solved \in SUBSET Challenges
    BY DEF IInv, TypeOK
  <1>2. PICK said \in {Failure, server.solved} \union (IF k.phase = "world" THEN {Bare} ELSE {}) :
               loads' = Change(loads, k, Load(k.phase, k.since, k.seeded, said))
    BY DEF AnswerLoad
  <1> DEFINE k2 == Load(k.phase, k.since, k.seeded, said)
  <1>3. said \in {Nothing, Failure, Bare} \union SUBSET Challenges
    BY <1>1, <1>2
  <1>4. k2 \in LoadSet
    BY <1>1, <1>3, LoadFields, LoadTyped
  <1>5. k2.since = k.since /\ (Listed(k2) => confirmed \subseteq k2.said)
    BY <1>1, <1>2 DEF Listed, Load
  <1> QED  BY <1>2, <1>4, <1>5, LoadMoves DEF AnswerLoad

LEMMA KeptByAskForList ==
    ASSUME IInv, NEW k \in DOMAIN loads, NEW seeded \in BOOLEAN, AskForList(k, seeded)
    PROVE  IInv'
  <1> DEFINE k2 == Load("list", k.since, seeded, Nothing)
  <1>1. k \in LoadSet
    BY DEF IInv, TypeOK
  <1>2. k2 \in LoadSet
    BY <1>1, LoadFields, LoadTyped
  <1>3. k2.since = k.since /\ ~Listed(k2)
    BY DEF Listed, Load
  <1> QED  BY <1>2, <1>3, LoadMoves DEF AskForList

\* The end of a load, with a world built or not.
LEMMA KeptByLoadEnds ==
    ASSUME IInv, NEW k \in DOMAIN loads, LoadEnds(k),
           challenges' \subseteq Challenges, WorldSound'
    PROVE  IInv'
  <1> USE DEF IInv
  <1>1. IsABag(loads') /\ DOMAIN loads' \subseteq DOMAIN loads
    BY BagRemoveBag DEF LoadEnds, TypeOK
  <1>2. TypeOK'
    BY <1>1 DEF TypeOK, LoadEnds
  <1>3. LoadsSound' /\ ControlsReturn' /\ CallsSound'
    BY <1>1, LoadsSame, ControlsSame DEF LoadEnds, CallsSound
  <1> QED  BY <1>2, <1>3

LEMMA KeptByRebuild ==
    ASSUME IInv, NEW k \in DOMAIN loads, Listed(k), Rebuild(k), LoadEnds(k)
    PROVE  IInv'
  <1>1. k \in LoadSet /\ LoadSound(k)
    BY DEF IInv, TypeOK, LoadsSound
  <1>2. challenges' \subseteq Challenges
    BY <1>1, LoadFields DEF Rebuild
  <1>3. WorldSound'
    BY <1>1 DEF WorldSound, Rebuild, LoadSound
  <1> QED  BY <1>2, <1>3, KeptByLoadEnds

LEMMA KeptByWorldArrives ==
    ASSUME IInv, NEW k \in DOMAIN loads, WorldArrives(k)
    PROVE  IInv'
  BY KeptByRebuild, KeptByAskForList DEF WorldArrives

LEMMA KeptByListArrives ==
    ASSUME IInv, NEW k \in DOMAIN loads, ListArrives(k)
    PROVE  IInv'
  <1>1. CASE Listed(k) /\ Rebuild(k) /\ LoadEnds(k)
    BY <1>1, KeptByRebuild
  <1>2. CASE AskForList(k, FALSE)
    BY <1>2, KeptByAskForList
  <1>3. CASE LoadEnds(k) /\ UNCHANGED <<challenges, shown>>
    BY <1>3, KeptByLoadEnds, WorldSame DEF IInv, TypeOK
  <1> QED  BY <1>1, <1>2, <1>3 DEF ListArrives

-----------------------------------------------------------------------------
\* The steps of what a panel waits for

LEMMA KeptByAnswer ==
    ASSUME IInv, NEW k \in DOMAIN calls, Answer(k)
    PROVE  IInv'
  <1> USE DEF IInv
  <1>1. k \in CallSet /\ server \in [solved : SUBSET Challenges, inst : [Dynamic -> Statuses]]
    BY DEF TypeOK
  <1>2. PICK said \in {Failure, "correct"} \union Statuses :
          /\ calls' = Change(calls, k, Call(k.kind, k.win, k.ch, said))
          /\ \/ k.kind = "poll" /\ said = server.inst[k.ch] /\ UNCHANGED server
             \/ /\ k.kind = "launch"
                /\ server' = [server EXCEPT !.inst[k.ch] = IF @ = "none" THEN "pending" ELSE @]
                /\ said \in {server'.inst[k.ch], Failure}
             \/ /\ k.kind = "submit" /\ said \in {"correct", Failure}
                /\ server' = [server EXCEPT !.solved = @ \union {k.ch}]
             \/ k.kind # "timer" /\ said = Failure /\ UNCHANGED server
    BY DEF Answer
  <1> DEFINE k2 == Call(k.kind, k.win, k.ch, said)
  <1>3. /\ k2 \in CallSet
        /\ server' \in [solved : SUBSET Challenges, inst : [Dynamic -> Statuses]]
        /\ server.solved \subseteq server'.solved
    <2>1. CASE k.kind = "poll" /\ said = server.inst[k.ch] /\ UNCHANGED server
      BY <1>1, <2>1, CallFields, CallTyped
    <2>2. CASE /\ k.kind = "launch"
               /\ server' = [server EXCEPT !.inst[k.ch] = IF @ = "none" THEN "pending" ELSE @]
               /\ said \in {server'.inst[k.ch], Failure}
      <3>1. k.ch \in Dynamic /\ k.win \in Windows
        BY <1>1, <2>2, CallFields
      <3>2. server'.inst \in [Dynamic -> Statuses] /\ server'.solved = server.solved
        BY <1>1, <2>2, <3>1 DEF Statuses
      <3>3. server' \in [solved : SUBSET Challenges, inst : [Dynamic -> Statuses]]
        BY <1>1, <2>2, <3>1 DEF Statuses
      <3>4. k2 \in CallSet
        BY <2>2, <3>1, <3>2, CallTyped
      <3> QED  BY <3>2, <3>3, <3>4
    <2>3. CASE /\ k.kind = "submit" /\ said \in {"correct", Failure}
               /\ server' = [server EXCEPT !.solved = @ \union {k.ch}]
      <3>1. k2 \in CallSet
        BY <1>1, <2>3, CallFields, SubmitTyped
      <3>2. k.ch \in Challenges
        BY <1>1, CallFields
      <3> QED  BY <1>1, <2>3, <3>1, <3>2
    <2>4. CASE k.kind # "timer" /\ said = Failure /\ UNCHANGED server
      BY <1>1, <2>4, CallFields, SubmitTyped, CallTyped
    <2> QED  BY <1>2, <2>1, <2>2, <2>3, <2>4
  <1>4. IsABag(calls') /\ DOMAIN calls' \subseteq CallSet
    BY <1>2, <1>3, ChangeBag DEF TypeOK
  <1>5. CallsSound'
    <2> SUFFICES ASSUME NEW j \in DOMAIN calls', j.kind = "submit", j.said = "correct"
                 PROVE  j.ch \in server'.solved
      BY DEF CallsSound
    <2>1. CASE j \in DOMAIN calls
      BY <1>3, <2>1 DEF CallsSound
    <2>2. CASE j = k2
      BY <1>1, <1>2, <2>2, ClientAssumption DEF Call, Statuses
    <2> QED  BY <1>2, <2>1, <2>2, ChangeBag DEF TypeOK
  <1> QED  BY <1>3, <1>4, <1>5, CallMoves DEF Answer, pageVars, TypeOK

\* What an answer shows leaves every overlay where it is.
LEMMA ShowsTyped ==
    ASSUME TypeOK, NEW w \in Windows, NEW hidden \in BOOLEAN, NEW off \in BOOLEAN,
           NEW shows \in {"blank", "spinner", "connection", "error"},
           Shows(w, shows, hidden, off)
    PROVE  /\ windows' \in [Windows -> {Nothing} \union OverlaySet]
           /\ \A v \in Windows : windows[v] # Nothing => windows'[v] # Nothing
  <1>1. windows \in [Windows -> {Nothing} \union OverlaySet]
    BY DEF TypeOK
  <1>2. CASE ~PanelAt(w)
    BY <1>1, <1>2 DEF Shows
  <1>3. CASE PanelAt(w)
    <2> DEFINE o == Overlay("panel", windows[w].ch, shows, hidden, off)
    <2>1. o \in OverlaySet
      BY <1>1, <1>3, PanelFields, PanelTyped
    <2>2. windows' = [windows EXCEPT ![w] = o]
      BY <1>3 DEF Shows
    <2> HIDE DEF o
    <2> QED  BY <1>1, <2>1, <2>2, ClientAssumption
  <1> QED  BY <1>2, <1>3

\* An overlay without a launch area has nothing to show.
LEMMA ShowsNothing ==
    ASSUME NEW w \in Windows, NEW shows, NEW hidden, NEW off, ~PanelAt(w),
           Shows(w, shows, hidden, off)
    PROVE  windows' = windows
  BY DEF Shows

LEMMA KeptByInstanceArrives ==
    ASSUME IInv, NEW k \in DOMAIN calls, InstanceArrives(k)
    PROVE  IInv'
  <1> USE DEF IInv
  <1>1. k \in CallSet /\ k.kind # "submit" /\ k.win \in Windows /\ k.ch \in Dynamic
    BY CallFields DEF TypeOK, InstanceArrives
  <1>2. /\ windows' \in [Windows -> {Nothing} \union OverlaySet]
        /\ \A v \in Windows : windows[v] # Nothing => windows'[v] # Nothing
    <2>1. CASE ~PanelAt(k.win)
      BY <1>1, <2>1, ShowsNothing DEF InstanceArrives, ShowInstance, ShowsStatus, TypeOK
    <2>2. CASE PanelAt(k.win)
      <3>1. windows[k.win].off \in BOOLEAN /\ windows[k.win].hidden \in BOOLEAN
        BY <1>1, <2>2, PanelFields DEF TypeOK
      <3>2. (windows[k.win].off /\ k.kind = "poll") \in BOOLEAN
        BY <3>1
      <3> QED  BY <1>1, <3>1, <3>2, ShowsTyped DEF InstanceArrives, ShowInstance, ShowsStatus
    <2> QED  BY <2>1, <2>2
  <1>3. IsABag(calls') /\ DOMAIN calls' \subseteq CallSet
    <2>1. Call("timer", k.win, k.ch, Nothing) \in CallSet
      BY <1>1, CallTyped
    <2> QED  BY <2>1, ChangeBag, BagRemoveBag DEF InstanceArrives, ShowInstance, TypeOK
  <1>4. CallsSound'
    <2>1. DOMAIN calls' \subseteq DOMAIN calls \union {Call("timer", k.win, k.ch, Nothing)}
      BY ChangeBag, BagRemoveBag DEF InstanceArrives, ShowInstance, TypeOK
    <2> QED  BY <2>1 DEF CallsSound, Call, InstanceArrives, OnlyCalls
  <1> QED  BY <1>2, <1>3, <1>4, CallMoves DEF InstanceArrives, OnlyCalls, TypeOK

LEMMA KeptByTimerFires ==
    ASSUME IInv, NEW k \in DOMAIN calls, TimerFires(k)
    PROVE  IInv'
  <1> USE DEF IInv
  <1>1. k \in CallSet /\ k.kind # "submit" /\ k.win \in Windows /\ k.ch \in Dynamic
    BY CallFields DEF TypeOK, TimerFires
  <1>2. Call("poll", k.win, k.ch, Nothing) \in CallSet
    BY <1>1, CallTyped
  <1>3. IsABag(calls') /\ DOMAIN calls' \subseteq CallSet
    BY <1>2, ChangeBag DEF TimerFires, TypeOK
  <1>4. CallsSound'
    <2>1. DOMAIN calls' \subseteq DOMAIN calls \union {Call("poll", k.win, k.ch, Nothing)}
      BY ChangeBag DEF TimerFires, TypeOK
    <2> QED  BY <2>1 DEF CallsSound, Call, TimerFires, OnlyCalls
  <1> QED  BY <1>3, <1>4, CallMoves DEF TimerFires, OnlyCalls, TypeOK

\* A solve is confirmed, and a load begins that counts on it.
LEMMA KeptByVerdictArrives ==
    ASSUME IInv, NEW k \in DOMAIN calls, VerdictArrives(k)
    PROVE  IInv'
  <1> USE DEF IInv
  <1>1. k \in CallSet /\ k.ch \in Challenges
    BY CallFields DEF TypeOK
  <1>2. IsABag(calls') /\ DOMAIN calls' \subseteq DOMAIN calls
    BY BagRemoveBag DEF VerdictArrives, TypeOK
  <1>3. CallsSound' /\ WorldSound' /\ ControlsReturn'
    BY <1>2, WorldSame, ControlsSame DEF VerdictArrives, CallsSound
  <1>4. CASE k.said = "correct"
    <2>1. confirmed' = confirmed \union {k.ch} /\ loads' = BagAdd(loads, NewLoad(confirmed'))
      BY <1>4 DEF VerdictArrives
    <2>2. confirmed' \subseteq server'.solved /\ confirmed' \in SUBSET Challenges
      BY <1>1, <1>4, <2>1 DEF VerdictArrives, CallsSound, TypeOK
    <2>3. NewLoad(confirmed') \in LoadSet
      BY <2>2, LoadTyped DEF NewLoad
    <2>4. IsABag(loads') /\ DOMAIN loads' = DOMAIN loads \union {NewLoad(confirmed')}
      BY <2>1, BagAddBag DEF TypeOK
    <2>5. TypeOK'
      BY <1>2, <2>2, <2>3, <2>4 DEF TypeOK, VerdictArrives
    <2>6. \A j : j = NewLoad(confirmed') => LoadSound(j)'
      BY <2>1 DEF LoadSound, NewLoad, Load, Listed
    <2>7. \A j \in DOMAIN loads : LoadSound(j)'
      BY <2>1 DEF LoadsSound, LoadSound, Listed
    <2>8. LoadsSound'
      BY <2>4, <2>6, <2>7 DEF LoadsSound
    <2> QED  BY <1>3, <2>5, <2>8
  <1>5. CASE k.said # "correct"
    <2>1. UNCHANGED <<confirmed, loads>>
      BY <1>5 DEF VerdictArrives
    <2>2. TypeOK' /\ LoadsSound'
      BY <1>2, <2>1, LoadsSame DEF TypeOK, VerdictArrives
    <2> QED  BY <1>3, <2>2
  <1> QED  BY <1>4, <1>5

LEMMA KeptByOfCalls ==
    ASSUME IInv, OfCalls
    PROVE  IInv'
  BY KeptByAnswer, KeptByInstanceArrives, KeptByTimerFires, KeptByVerdictArrives
     DEF OfCalls, Arrives

-----------------------------------------------------------------------------
\* The steps of the player

LEMMA KeptByOpen ==
    ASSUME IInv, NEW w \in Windows, NEW overlay \in OverlaySet, Open(w, overlay),
           IsABag(calls'), DOMAIN calls' \subseteq CallSet, CallsSound'
    PROVE  IInv'
  <1> USE DEF IInv
  <1>1. TypeOK'
    BY DEF TypeOK, Open
  <1>2. LoadsSound' /\ WorldSound'
    BY LoadsSame, WorldSame DEF Open
  <1>3. windows'[w] # Nothing
    BY ClientAssumption DEF TypeOK, Open
  <1>4. ControlsReturn'
    BY <1>3 DEF ControlsReturn
  <1> QED  BY <1>1, <1>2, <1>4

\* A request more, the answer to which there is not yet.
LEMMA AskedMore ==
    ASSUME IInv, NEW kind, NEW w, NEW c, Call(kind, w, c, Nothing) \in CallSet,
           calls' = BagAdd(calls, Call(kind, w, c, Nothing)), UNCHANGED server
    PROVE  IsABag(calls') /\ DOMAIN calls' \subseteq CallSet /\ CallsSound'
  <1>1. IsABag(calls') /\ DOMAIN calls' = DOMAIN calls \union {Call(kind, w, c, Nothing)}
    BY BagAddBag DEF IInv, TypeOK
  <1>2. CallsSound'
    BY <1>1, ClientAssumption DEF IInv, CallsSound, Call
  <1> QED  BY <1>1, <1>2 DEF IInv, TypeOK

LEMMA KeptByOpenPanel ==
    ASSUME IInv, NEW w \in Windows, NEW c \in Challenges, OpenPanel(w, c)
    PROVE  IInv'
  <1>1. Panel(c) \in OverlaySet
    BY PanelTyped DEF Panel
  <1>2. IsABag(calls') /\ DOMAIN calls' \subseteq CallSet /\ CallsSound'
    <2>1. CASE c \in Dynamic
      BY <2>1, CallTyped, AskedMore DEF OpenPanel, Open
    <2>2. CASE c \notin Dynamic
      BY <2>2 DEF OpenPanel, Open, IInv, TypeOK, CallsSound
    <2> QED  BY <2>1, <2>2
  <1> QED  BY <1>1, <1>2, KeptByOpen DEF OpenPanel

LEMMA KeptByOpenBoard ==
    ASSUME IInv, NEW w \in Windows, OpenBoard(w)
    PROVE  IInv'
  <1>1. IsABag(calls') /\ DOMAIN calls' \subseteq CallSet /\ CallsSound'
    BY DEF OpenBoard, Open, IInv, TypeOK, CallsSound
  <1> QED  BY <1>1, BoardTyped, KeptByOpen DEF OpenBoard

LEMMA KeptByDismiss ==
    ASSUME IInv, NEW w \in Windows, Dismiss(w)
    PROVE  IInv'
  <1> USE DEF IInv
  <1>1. TypeOK' /\ CallsSound'
    BY DEF TypeOK, CallsSound, Dismiss
  <1>2. LoadsSound' /\ WorldSound'
    BY LoadsSame, WorldSame DEF Dismiss
  <1>3. ControlsReturn'
    BY DEF ControlsReturn, Dismiss
  <1> QED  BY <1>1, <1>2, <1>3

LEMMA KeptBySubmit ==
    ASSUME IInv, NEW w \in Windows, Submit(w)
    PROVE  IInv'
  <1>1. windows \in [Windows -> {Nothing} \union OverlaySet] /\ windows[w].ch \in Challenges
    BY PanelFields DEF IInv, TypeOK, Submit
  <1>2. IsABag(calls') /\ DOMAIN calls' \subseteq CallSet /\ CallsSound'
    BY <1>1, SubmitTyped, AskedMore DEF Submit, OnlyCalls
  <1> QED  BY <1>1, <1>2, CallMoves DEF Submit, OnlyCalls, IInv, TypeOK

LEMMA KeptByLaunch ==
    ASSUME IInv, NEW w \in Windows, Launch(w)
    PROVE  IInv'
  <1>1. windows \in [Windows -> {Nothing} \union OverlaySet] /\ windows[w].ch \in Dynamic
    BY DEF IInv, TypeOK, Launch
  <1>2. IsABag(calls') /\ DOMAIN calls' \subseteq CallSet /\ CallsSound'
    BY <1>1, CallTyped, AskedMore DEF Launch, OnlyCalls
  <1> DEFINE o == Overlay("panel", windows[w].ch, "spinner", FALSE, TRUE)
  <1>3. o \in OverlaySet
    BY <1>1, PanelTyped, ClientAssumption
  <1>4. windows' = [windows EXCEPT ![w] = o]
    BY DEF Launch
  <1> HIDE DEF o
  <1>5. /\ windows' \in [Windows -> {Nothing} \union OverlaySet]
        /\ \A v \in Windows : windows[v] # Nothing => windows'[v] # Nothing
    BY <1>1, <1>3, <1>4, ClientAssumption
  <1> QED  BY <1>2, <1>5, CallMoves DEF Launch, OnlyCalls, IInv, TypeOK

\* A page that was loaded is as at the beginning, whatever the server has seen since.
LEMMA FirstPage ==
    ASSUME loads = SetToBag({NewLoad({})}), calls = EmptyBag, challenges = {}, shown = Nothing,
           windows = NoWindow, paused = FALSE, ready = FALSE, confirmed = {},
           server \in [solved : SUBSET Challenges, inst : [Dynamic -> Statuses]]
    PROVE  IInv
  <1>1. IsABag(calls) /\ DOMAIN calls = {}
    BY EmptyBagBag
  <1>2. IsABag(loads) /\ DOMAIN loads = {NewLoad({})}
    BY OneMemberBag
  <1>3. NewLoad({}) \in LoadSet
    BY LoadTyped DEF NewLoad
  <1>4. TypeOK
    BY <1>1, <1>2, <1>3 DEF TypeOK, NoWindow
  <1>5. LoadsSound
    BY <1>2 DEF LoadsSound, LoadSound, NewLoad, Load, Listed
  <1> QED  BY <1>1, <1>4, <1>5 DEF IInv, CallsSound, WorldSound, ControlsReturn

LEMMA KeptByReload ==
    ASSUME IInv, Reload
    PROVE  IInv'
  <1>1. IsABag(calls') /\ DOMAIN calls' = {}
    BY EmptyBagBag DEF Reload
  <1>2. IsABag(loads') /\ DOMAIN loads' = {NewLoad({})}
    BY OneMemberBag DEF Reload
  <1>3. NewLoad({}) \in LoadSet
    BY LoadTyped DEF NewLoad
  <1>4. TypeOK'
    BY <1>1, <1>2, <1>3 DEF IInv, Reload, TypeOK, NoWindow
  <1>5. LoadsSound'
    BY <1>2 DEF Reload, LoadsSound, LoadSound, NewLoad, Load, Listed
  <1> QED  BY <1>1, <1>4, <1>5 DEF IInv, Reload, CallsSound, WorldSound, ControlsReturn

LEMMA KeptByElsewhere ==
    ASSUME IInv, Elsewhere
    PROVE  IInv'
  <1> USE DEF IInv
  <1>1. /\ server' \in [solved : SUBSET Challenges, inst : [Dynamic -> Statuses]]
        /\ server.solved \subseteq server'.solved
    BY DEF Elsewhere, TypeOK
  <1>2. TypeOK' /\ CallsSound'
    BY <1>1 DEF Elsewhere, TypeOK, CallsSound, netVars, pageVars
  <1>3. LoadsSound' /\ WorldSound' /\ ControlsReturn'
    BY LoadsSame, WorldSame, ControlsSame DEF Elsewhere, netVars, pageVars
  <1> QED  BY <1>2, <1>3

-----------------------------------------------------------------------------
LEMMA StepKeeps == IInv /\ [Next]_vars => IInv'
  <1> SUFFICES ASSUME IInv, [Next]_vars
               PROVE  IInv'
    OBVIOUS
  <1>1. CASE OfLoads
    BY <1>1, KeptByAnswerLoad, KeptByWorldArrives, KeptByListArrives DEF OfLoads
  <1>2. CASE OfCalls
    BY <1>2, KeptByOfCalls
  <1>3. ASSUME NEW w \in Windows, OfWindow(w)
        PROVE  IInv'
    BY <1>3, KeptByOpenBoard, KeptByDismiss, KeptBySubmit, KeptByLaunch, KeptByOpenPanel
       DEF OfWindow
  <1>4. CASE Reload
    BY <1>4, KeptByReload
  <1>5. CASE Elsewhere
    BY <1>5, KeptByElsewhere
  <1>6. CASE UNCHANGED vars
    BY <1>6 DEF vars, IInv, TypeOK, LoadsSound, LoadSound, Listed, CallsSound, WorldSound,
                ControlsReturn
  <1> QED  BY <1>1, <1>2, <1>3, <1>4, <1>5, <1>6 DEF Next

LEMMA StartHolds == Init => IInv
  <1> SUFFICES ASSUME Init
               PROVE  IInv
    OBVIOUS
  <1>1. server \in [solved : SUBSET Challenges, inst : [Dynamic -> Statuses]]
    BY DEF Init, Statuses
  <1> QED  BY <1>1, FirstPage DEF Init

LEMMA Invariance == Spec => []IInv
  BY StartHolds, StepKeeps, PTL DEF Spec

\* The world on the screen has the solves that were confirmed before its load began,
\* for any number of loads that overlap (main.ts, world/world.ts).
THEOREM WorldIsCurrent == Spec => []GlowsAsConfirmed
  <1>1. IInv => GlowsAsConfirmed
    BY DEF IInv, WorldSound, GlowsAsConfirmed
  <1> QED  BY <1>1, Invariance, PTL

\* The controls are suspended only while there is an overlay (controls.ts, ui/).
THEOREM RoverCanDrive == Spec => []ControlsReturn
  <1>1. IInv => ControlsReturn
    BY DEF IInv
  <1> QED  BY <1>1, Invariance, PTL
-----------------------------------------------------------------------------
(* The terrain.  First, counting. *)

\* A property of zero that each number hands on to the next one, up to a bound.
LEMMA CountInduction ==
    ASSUME NEW N \in Nat, NEW P, 0 \in P, \A n \in 0..(N - 1) : n \in P => n + 1 \in P
    PROVE  0..N \subseteq P
<1> DEFINE Q == {n \in Nat : n \in 0..N => n \in P}
<1>1. 0 \in Q
  OBVIOUS
<1>2. ASSUME NEW n \in Nat, n \in Q PROVE n + 1 \in Q
  BY <1>2
<1>3. Nat \subseteq Q
  <2> HIDE DEF Q
  <2>1. QED
    BY <1>1, <1>2, Numbers!NatSetInduction
<1>4. QED
  BY <1>3

-----------------------------------------------------------------------------
(* Keep. *)

\* One more element of the sequence.
Longer(s, T, i, rest) == IF s[i] \in T THEN Append(rest, s[i]) ELSE rest

\* The function that Keep computes, up to the n-th element.  There is one.
KeepTable(s, T, n, f) ==
    f = [i \in 0..n |-> IF i = 0 THEN <<>> ELSE Longer(s, T, i, f[i - 1])]

\* There is such a function for every sequence, by induction over its length.
LEMMA KeepExists ==
    ASSUME NEW s, NEW T, NEW N \in Nat
    PROVE  \E f : KeepTable(s, T, N, f)
<1> DEFINE P == {n \in 0..N : \E f : KeepTable(s, T, n, f)}
<1>1. 0 \in P
  <2>1. KeepTable(s, T, 0, [i \in 0..0 |-> <<>>])
    BY DEF KeepTable
  <2>2. QED
    BY <2>1
<1>2. ASSUME NEW n \in 0..(N - 1), n \in P PROVE n + 1 \in P
  <2>1. PICK f : KeepTable(s, T, n, f)
    BY <1>2
  <2> DEFINE x == Longer(s, T, n + 1, f[n])
             g == [i \in 0..(n + 1) |-> IF i = n + 1 THEN x ELSE f[i]]
  <2>2. ASSUME NEW i \in 0..(n + 1)
        PROVE  g[i] = IF i = 0 THEN <<>> ELSE Longer(s, T, i, g[i - 1])
    <3> HIDE DEF x
    <3>1. CASE i = n + 1
      <4>1. g[i] = x /\ i # 0 /\ g[i - 1] = f[n] /\ i - 1 = n
        BY <3>1
      <4> HIDE DEF g
      <4>2. QED
        BY <3>1, <4>1 DEF x
    <3>2. CASE i # n + 1 /\ i # 0
      <4>1. g[i] = f[i] /\ g[i - 1] = f[i - 1] /\ i \in 0..n
        BY <3>2
      <4>2. f[i] = Longer(s, T, i, f[i - 1])
        BY <2>1, <3>2, <4>1 DEF KeepTable
      <4> HIDE DEF g
      <4>3. QED
        BY <3>2, <4>1, <4>2
    <3>3. CASE i = 0
      <4>1. g[i] = f[0] /\ 0 \in 0..n
        BY <3>3
      <4>2. f[0] = <<>>
        BY <2>1, <4>1 DEF KeepTable
      <4> HIDE DEF g
      <4>3. QED
        BY <3>3, <4>1, <4>2
    <3>4. QED
      BY <3>1, <3>2, <3>3
  <2>3. KeepTable(s, T, n + 1, g)
    <3>1. g = [i \in 0..(n + 1) |-> g[i]]
      OBVIOUS
    <3> HIDE DEF g
    <3>2. QED
      BY <2>2, <3>1, Zenon DEF KeepTable
  <2>4. QED
    BY <2>3
<1>3. 0..N \subseteq P
  <2> HIDE DEF P
  <2>1. QED
    BY <1>1, <1>2, CountInduction
<1>4. QED
  BY <1>3

\* The elements kept of the first ones, one by one.
LEMMA KeepEquation ==
    ASSUME NEW S, NEW s \in Seq(S), NEW T
    PROVE  \E f : /\ f[0] = <<>> /\ Keep(s, T) = f[Len(s)]
                  /\ \A i \in 0..(Len(s) - 1) : f[i + 1] = Longer(s, T, i + 1, f[i])
<1>1. PICK f : f = CHOOSE g : KeepTable(s, T, Len(s), g)
  OBVIOUS
<1>2. KeepTable(s, T, Len(s), f)
  BY <1>1, KeepExists
<1>3. Keep(s, T) = f[Len(s)]
  BY <1>1 DEF Keep, KeepTable, Longer
<1>4. f[0] = <<>> /\ \A i \in 1..Len(s) : f[i] = Longer(s, T, i, f[i - 1])
  BY <1>2 DEF KeepTable
<1>5. ASSUME NEW i \in 0..(Len(s) - 1) PROVE f[i + 1] = Longer(s, T, i + 1, f[i])
  <2>1. i + 1 \in 1..Len(s) /\ (i + 1) - 1 = i
    OBVIOUS
  <2>2. QED
    BY <1>4, <2>1
<1>6. QED
  BY <1>3, <1>4, <1>5

\* What Append does to a sequence.
LEMMA Appended ==
    ASSUME NEW S, NEW q \in Seq(S), NEW e \in S
    PROVE  /\ Append(q, e) \in Seq(S) /\ Len(q) \in Nat
           /\ Len(Append(q, e)) = Len(q) + 1 /\ Append(q, e)[Len(q) + 1] = e
           /\ \A i \in 1..Len(q) : Append(q, e)[i] = q[i]
<1>1. Append(q, e) \in Seq(S) /\ Len(q) \in Nat /\ Len(Append(q, e)) = Len(q) + 1
  OBVIOUS
<1>2. QED
  BY <1>1, AppendProperties

\* What is kept are elements of the sequence that are in the set, from places of their own.
Kept(s, T, n, k) ==
    \E g \in [1..Len(k) -> 1..n] :
         /\ \A i \in 1..Len(k) : k[i] = s[g[i]] /\ k[i] \in T
         /\ \A i, j \in 1..Len(k) : g[i] = g[j] => i = j

\* What Keep does: it returns a sequence of elements that are in the set.
LEMMA KeepIs ==
    ASSUME NEW S, NEW s \in Seq(S), NEW T
    PROVE  Keep(s, T) \in Seq(S) /\ Kept(s, T, Len(s), Keep(s, T))
<1>1. PICK f : /\ f[0] = <<>> /\ Keep(s, T) = f[Len(s)]
               /\ \A i \in 0..(Len(s) - 1) : f[i + 1] = Longer(s, T, i + 1, f[i])
  BY KeepEquation
<1>2. Len(s) \in Nat
  OBVIOUS
<1> DEFINE P == {n \in 0..Len(s) : f[n] \in Seq(S) /\ Kept(s, T, n, f[n])}
<1>3. 0 \in P
  <2>1. <<>> \in Seq(S) /\ Len(<<>>) = 0
    OBVIOUS
  <2>2. PICK none : none = <<>> /\ none \in Seq(S) /\ Len(none) = 0
    BY <2>1
  <2>3. Kept(s, T, 0, none)
    <3>1. [i \in 1..0 |-> 1] \in [1..0 -> 1..0]
      OBVIOUS
    <3>2. \A i \in 1..0 : FALSE
      OBVIOUS
    <3>3. QED
      BY <2>2, <3>1, <3>2, Zenon DEF Kept
  <2>4. 0 \in 0..Len(s)
    BY <1>2
  <2>5. QED
    BY <1>1, <2>2, <2>3, <2>4
<1>4. ASSUME NEW n \in 0..(Len(s) - 1), n \in P PROVE n + 1 \in P
  <2>1. PICK k, m, e : k = f[n] /\ m = n + 1 /\ e = s[m]
    OBVIOUS
  <2>2. n \in Nat /\ m \in Nat /\ m \in 1..Len(s) /\ m \in 0..Len(s) /\ n < m
    BY <1>2, <2>1
  <2>3. k \in Seq(S) /\ Kept(s, T, n, k) /\ e \in S /\ Len(k) \in Nat
    BY <1>4, <2>1, <2>2
  <2>4. PICK g \in [1..Len(k) -> 1..n] :
          /\ \A i \in 1..Len(k) : k[i] = s[g[i]] /\ k[i] \in T
          /\ \A i, j \in 1..Len(k) : g[i] = g[j] => i = j
    BY <2>3 DEF Kept
  <2>5. f[m] = Longer(s, T, m, k)
    BY <1>1, <2>1
  <2>6. CASE e \notin T
    <3>1. f[m] = k
      BY <2>1, <2>5, <2>6 DEF Longer
    <3>2. g \in [1..Len(k) -> 1..m]
      <4>1. 1..n \subseteq 1..m
        BY <2>2
      <4>2. QED
        BY <2>4, <4>1
    <3>3. Kept(s, T, m, k)
      BY <2>4, <3>2 DEF Kept
    <3>4. QED
      BY <2>1, <2>2, <2>3, <3>1, <3>3
  <2>7. CASE e \in T
    <3>1. PICK q : q = Append(k, e)
      OBVIOUS
    <3>2. f[m] = q
      BY <2>1, <2>5, <2>7, <3>1 DEF Longer
    <3>3. PICK l : l = Len(k) + 1
      OBVIOUS
    <3>4. /\ q \in Seq(S) /\ Len(q) = l /\ q[l] = e
          /\ \A i \in 1..Len(k) : q[i] = k[i]
      BY <2>3, <3>1, <3>3, Appended
    <3>5. l \in 1..l /\ \A i \in 1..l : i = l \/ (i \in 1..Len(k) /\ i # l)
      BY <2>3, <3>3
    <3>6. PICK h : h = [i \in 1..l |-> IF i = l THEN m ELSE g[i]]
      OBVIOUS
    <3>7. /\ h[l] = m /\ \A i \in 1..l : i # l => h[i] = g[i] /\ h[i] \in 1..n
      BY <2>4, <3>5, <3>6
    <3>8. h \in [1..l -> 1..m]
      <4>1. m \in 1..m /\ 1..n \subseteq 1..m
        BY <2>2
      <4>2. \A i \in 1..l : h[i] \in 1..m
        BY <3>7, <4>1
      <4>3. QED
        BY <3>6, <4>2
    <3>9. \A i \in 1..l : q[i] = s[h[i]] /\ q[i] \in T
      <4>1. \A i \in 1..l : i # l => q[i] = s[h[i]] /\ q[i] \in T
        BY <2>4, <3>4, <3>5, <3>7
      <4>2. QED
        BY <2>1, <2>7, <3>4, <3>7, <4>1
    <3>10. m \notin 1..n
      BY <2>2
    <3>11. \A i, j \in 1..l : h[i] = h[j] => i = j
      BY <2>4, <3>5, <3>7, <3>10
    <3>12. Kept(s, T, m, q)
      BY <3>4, <3>8, <3>9, <3>11 DEF Kept
    <3>13. QED
      BY <2>1, <2>2, <3>2, <3>4, <3>12
  <2>8. QED
    BY <2>6, <2>7
<1>5. 0..Len(s) \subseteq P
  <2> HIDE DEF P
  <2>1. QED
    BY <1>2, <1>3, <1>4, CountInduction
<1>6. Len(s) \in P
  <2> HIDE DEF P
  <2>1. QED
    BY <1>2, <1>5
<1>7. QED
  BY <1>1, <1>6

\* A sequence that is in the set is kept as it is.
LEMMA KeepAll ==
    ASSUME NEW S, NEW s \in Seq(S), NEW T, \A i \in 1..Len(s) : s[i] \in T
    PROVE  Keep(s, T) = s
<1>1. PICK f : /\ f[0] = <<>> /\ Keep(s, T) = f[Len(s)]
               /\ \A i \in 0..(Len(s) - 1) : f[i + 1] = Longer(s, T, i + 1, f[i])
  BY KeepEquation
<1>2. Len(s) \in Nat
  OBVIOUS
<1> DEFINE P == {n \in 0..Len(s) : /\ f[n] \in Seq(S) /\ Len(f[n]) = n
                                   /\ \A i \in 1..n : f[n][i] = s[i]}
<1>3. 0 \in P
  <2>1. <<>> \in Seq(S) /\ Len(<<>>) = 0
    OBVIOUS
  <2>2. f[0] \in Seq(S) /\ Len(f[0]) = 0
    BY <1>1, <2>1, Zenon
  <2>3. 0 \in 0..Len(s) /\ \A i \in 1..0 : FALSE
    BY <1>2
  <2>4. QED
    BY <2>2, <2>3
<1>4. ASSUME NEW n \in 0..(Len(s) - 1), n \in P PROVE n + 1 \in P
  <2>1. PICK k, m, e : k = f[n] /\ m = n + 1 /\ e = s[m]
    OBVIOUS
  <2>2. n \in Nat /\ m \in 1..Len(s) /\ m \in 0..Len(s)
    BY <1>2, <2>1
  <2>3. k \in Seq(S) /\ Len(k) = n /\ e \in S /\ e \in T /\ \A i \in 1..n : k[i] = s[i]
    BY <1>4, <2>1, <2>2
  <2>4. f[m] = Append(k, e)
    BY <1>1, <2>1, <2>3 DEF Longer
  <2>5. PICK q : q = Append(k, e)
    OBVIOUS
  <2>6. /\ q \in Seq(S) /\ Len(q) = m /\ q[m] = e
        /\ \A i \in 1..n : q[i] = s[i]
    BY <2>1, <2>3, <2>5, Appended
  <2>7. \A i \in 1..m : i = m \/ i \in 1..n
    BY <2>1, <2>2
  <2>8. QED
    BY <2>1, <2>2, <2>4, <2>5, <2>6, <2>7
<1>5. 0..Len(s) \subseteq P
  <2> HIDE DEF P
  <2>1. QED
    BY <1>2, <1>3, <1>4, CountInduction
<1>6. Len(s) \in P
  <2> HIDE DEF P
  <2>1. QED
    BY <1>2, <1>5
<1>7. QED
  BY <1>1, <1>6, SeqEqual

\* Two sequences that have n elements together.
Halves(S, a, b, n) == a \in Seq(S) /\ b \in Seq(S) /\ Len(a) + Len(b) = n

\* What is kept and what is not are together the sequence.
LEMMA KeepSplits ==
    ASSUME NEW S, NEW s \in Seq(S), NEW T, NEW U,
           \A i \in 1..Len(s) : s[i] \in T <=> s[i] \notin U
    PROVE  Len(Keep(s, T)) + Len(Keep(s, U)) = Len(s)
<1>1. PICK f : /\ f[0] = <<>> /\ Keep(s, T) = f[Len(s)]
               /\ \A i \in 0..(Len(s) - 1) : f[i + 1] = Longer(s, T, i + 1, f[i])
  BY KeepEquation
<1>2. PICK g : /\ g[0] = <<>> /\ Keep(s, U) = g[Len(s)]
               /\ \A i \in 0..(Len(s) - 1) : g[i + 1] = Longer(s, U, i + 1, g[i])
  BY KeepEquation
<1>3. Len(s) \in Nat
  OBVIOUS
<1> DEFINE P == {n \in 0..Len(s) : Halves(S, f[n], g[n], n)}
<1>4. 0 \in P
  <2>1. <<>> \in Seq(S) /\ Len(<<>>) = 0
    OBVIOUS
  <2>2. Halves(S, <<>>, <<>>, 0)
    BY <2>1 DEF Halves
  <2>3. 0 \in 0..Len(s)
    BY <1>3
  <2>4. QED
    BY <1>1, <1>2, <2>2, <2>3, Zenon
<1>5. ASSUME NEW n \in 0..(Len(s) - 1), n \in P PROVE n + 1 \in P
  <2>1. PICK a, b, m, e : a = f[n] /\ b = g[n] /\ m = n + 1 /\ e = s[m]
    OBVIOUS
  <2>2. n \in Nat /\ m \in 1..Len(s) /\ m \in 0..Len(s)
    BY <1>3, <2>1
  <2>3. e \in S /\ (e \in T <=> e \notin U)
    BY <2>1, <2>2
  <2>4. Halves(S, a, b, n)
    BY <1>5, <2>1
  <2>5. a \in Seq(S) /\ b \in Seq(S) /\ Len(a) + Len(b) = n
    BY <2>4 DEF Halves
  <2>6. f[m] = Longer(s, T, m, a) /\ g[m] = Longer(s, U, m, b)
    BY <1>1, <1>2, <2>1
  <2>7. /\ Append(a, e) \in Seq(S) /\ Len(a) \in Nat /\ Len(Append(a, e)) = Len(a) + 1
        /\ Append(b, e) \in Seq(S) /\ Len(b) \in Nat /\ Len(Append(b, e)) = Len(b) + 1
    BY <2>3, <2>5, Appended
  <2>8. /\ Len(a) \in Nat /\ Len(b) \in Nat /\ n \in Nat
        /\ m = n + 1 /\ Len(a) + Len(b) = n
    BY <2>1, <2>2, <2>5, <2>7
  <2>9. CASE e \in T
    <3>1. f[m] = Append(a, e) /\ g[m] = b
      BY <2>1, <2>3, <2>6, <2>9 DEF Longer
    <3>2. PICK w : w = Append(a, e)
      OBVIOUS
    <3>3. w \in Seq(S) /\ Len(w) = Len(a) + 1
      BY <2>7, <3>2
    <3>4. Len(w) + Len(b) = m
      BY <2>8, <3>3
    <3>5. Halves(S, w, b, m)
      BY <2>5, <3>3, <3>4, Zenon DEF Halves
    <3>6. QED
      BY <2>1, <2>2, <3>1, <3>2, <3>5
  <2>10. CASE e \in U
    <3>1. f[m] = a /\ g[m] = Append(b, e)
      BY <2>1, <2>3, <2>6, <2>10 DEF Longer
    <3>2. PICK w : w = Append(b, e)
      OBVIOUS
    <3>3. w \in Seq(S) /\ Len(w) = Len(b) + 1
      BY <2>7, <3>2
    <3>4. Len(a) + Len(w) = m
      BY <2>8, <3>3
    <3>5. Halves(S, a, w, m)
      BY <2>5, <3>3, <3>4, Zenon DEF Halves
    <3>6. QED
      BY <2>1, <2>2, <3>1, <3>2, <3>5
  <2>11. QED
    BY <2>3, <2>9, <2>10
<1>6. 0..Len(s) \subseteq P
  <2> HIDE DEF P
  <2>1. QED
    BY <1>3, <1>4, <1>5, CountInduction
<1>7. Len(s) \in P
  <2> HIDE DEF P
  <2>1. QED
    BY <1>3, <1>6
<1>8. QED
  BY <1>1, <1>2, <1>7 DEF Halves
-----------------------------------------------------------------------------
(* The order the positions are looked at in. *)

\* The function that FlattenSeq computes.  There is one.
FlatTable(s, n, f) == f = [i \in 1..n |-> IF i = 1 THEN s[i] ELSE f[i - 1] \o s[i]]

\* There is such a function for every number of sequences.
LEMMA FlatExists ==
    ASSUME NEW s, NEW N \in Nat
    PROVE  \E f : FlatTable(s, N + 1, f)
<1> DEFINE P == {n \in 0..N : \E f : FlatTable(s, n + 1, f)}
<1>1. 0 \in P
  <2>1. FlatTable(s, 1, [i \in 1..1 |-> s[i]])
    BY DEF FlatTable
  <2>2. 0 + 1 = 1 /\ 0 \in 0..N
    OBVIOUS
  <2>3. QED
    BY <2>1, <2>2
<1>2. ASSUME NEW n \in 0..(N - 1), n \in P PROVE n + 1 \in P
  <2>1. PICK m, f : m = n + 1 /\ FlatTable(s, m, f)
    BY <1>2
  <2>2. m \in Nat /\ m >= 1 /\ m \in 0..N
    BY <2>1
  <2> DEFINE x == f[m] \o s[m + 1]
             g == [i \in 1..(m + 1) |-> IF i = m + 1 THEN x ELSE f[i]]
  <2>3. ASSUME NEW i \in 1..(m + 1)
        PROVE  g[i] = IF i = 1 THEN s[i] ELSE g[i - 1] \o s[i]
    <3> HIDE DEF x
    <3>1. CASE i = m + 1
      <4>1. g[i] = x /\ i # 1 /\ g[i - 1] = f[m]
        BY <2>2, <3>1
      <4> HIDE DEF g
      <4>2. QED
        BY <3>1, <4>1 DEF x
    <3>2. CASE i # m + 1 /\ i # 1
      <4>1. g[i] = f[i] /\ g[i - 1] = f[i - 1] /\ i \in 1..m
        BY <2>2, <3>2
      <4>2. f[i] = f[i - 1] \o s[i]
        BY <2>1, <3>2, <4>1 DEF FlatTable
      <4> HIDE DEF g
      <4>3. QED
        BY <3>2, <4>1, <4>2
    <3>3. CASE i # m + 1 /\ i = 1
      <4>1. g[i] = f[1] /\ 1 \in 1..m
        BY <2>2, <3>3
      <4>2. f[1] = s[1]
        BY <2>1, <4>1 DEF FlatTable
      <4> HIDE DEF g
      <4>3. QED
        BY <3>3, <4>1, <4>2
    <3>4. QED
      BY <3>1, <3>2, <3>3
  <2>4. FlatTable(s, m + 1, g)
    <3>1. g = [i \in 1..(m + 1) |-> g[i]]
      OBVIOUS
    <3> HIDE DEF g
    <3>2. QED
      BY <2>3, <3>1, Zenon DEF FlatTable
  <2>5. QED
    BY <2>1, <2>2, <2>4
<1>3. 0..N \subseteq P
  <2> HIDE DEF P
  <2>1. QED
    BY <1>1, <1>2, CountInduction
<1>4. QED
  BY <1>3

\* Sequences of positions, one after the other, are a sequence of positions.
LEMMA FlatTyped ==
    ASSUME NEW S, NEW N \in Nat, NEW s \in [1..(N + 1) -> Seq(S)]
    PROVE  FlattenSeq(s) \in Seq(S)
<1>1. Len(s) = N + 1 /\ Len(s) # 0 /\ N + 1 \in Nat
  BY DEF FlattenSeq
<1>2. PICK f : f = CHOOSE g : FlatTable(s, N + 1, g)
  OBVIOUS
<1>3. FlatTable(s, N + 1, f)
  BY <1>2, FlatExists
<1>4. FlattenSeq(s) = f[N + 1]
  BY <1>1, <1>2 DEF FlattenSeq, FlatTable
<1>5. \A i \in 1..(N + 1) : f[i] = IF i = 1 THEN s[i] ELSE f[i - 1] \o s[i]
  BY <1>3 DEF FlatTable
<1> DEFINE P == {n \in 0..N : f[n + 1] \in Seq(S)}
<1>6. 0 \in P
  <2>1. 1 \in 1..(N + 1) /\ 0 \in 0..N /\ 0 + 1 = 1
    OBVIOUS
  <2>2. f[1] = s[1]
    BY <1>5, <2>1
  <2>3. s[1] \in Seq(S)
    BY <2>1
  <2>4. QED
    BY <2>1, <2>2, <2>3
<1>7. ASSUME NEW n \in 0..(N - 1), n \in P PROVE n + 1 \in P
  <2>1. PICK m, l : m = n + 1 /\ l = m + 1
    OBVIOUS
  <2>2. m \in 0..N /\ l \in 1..(N + 1) /\ l # 1 /\ l - 1 = m
    BY <2>1
  <2>3. f[l] = f[m] \o s[l]
    BY <1>5, <2>2
  <2>4. f[m] \in Seq(S) /\ s[l] \in Seq(S)
    BY <1>7, <2>1, <2>2
  <2>5. f[l] \in Seq(S)
    BY <2>3, <2>4
  <2>6. QED
    BY <2>1, <2>2, <2>5
<1>8. 0..N \subseteq P
  <2> HIDE DEF P
  <2>1. QED
    BY <1>6, <1>7, CountInduction
<1>9. N \in P
  <2> HIDE DEF P
  <2>1. QED
    BY <1>8
<1>10. QED
  BY <1>4, <1>9

\* The positions around the rover, on the board or not, in their order.
LEMMA NearestTyped ==
    ASSUME NEW at \in Roam
    PROVE  Nearest[at] \in Seq(Int \X Int)
<1>1. ViewRadius \in Nat /\ at \in Positions /\ at[1] \in Int /\ at[2] \in Int
  BY ChunksAssumption DEF Positions
<1>2. PICK width : width = 2 * ViewRadius + 1
  OBVIOUS
<1>3. width \in Nat /\ width > 0 /\ width * width \in Nat
  BY <1>1, <1>2
<1> DEFINE square == [i \in 1..(width * width) |->
                        <<(at[1] - ViewRadius) + ((i - 1) \div width),
                          (at[2] - ViewRadius) + ((i - 1) % width)>>]
           rings == [r \in 1..(ViewRadius + 1) |->
                       Keep(square, {k \in Positions : Ring(k, at) = r - 1})]
<1>4. square \in Seq(Int \X Int)
  <2>1. ASSUME NEW i \in 1..(width * width)
        PROVE  (i - 1) \div width \in Int /\ (i - 1) % width \in Int
    BY <1>3
  <2>2. square \in [1..(width * width) -> Int \X Int]
    BY <1>1, <2>1
  <2> HIDE DEF square
  <2>3. ASSUME NEW n \in Nat, NEW q \in [1..n -> Int \X Int] PROVE q \in Seq(Int \X Int)
    OBVIOUS
  <2>4. QED
    BY <1>3, <2>2, <2>3
<1>5. rings \in [1..(ViewRadius + 1) -> Seq(Int \X Int)]
  <2> HIDE DEF square
  <2>1. QED
    BY <1>4, KeepIs
<1>6. Nearest[at] = FlattenSeq(rings)
  BY <1>2, Zenon DEF Nearest
<1>7. QED
  <2> HIDE DEF rings
  <2>1. QED
    BY <1>1, <1>5, <1>6, FlatTyped

\* Those that want a chunk are in the world.
LEMMA MissingTyped ==
    ASSUME NEW s, NEW at \in Roam
    PROVE  Missing(s, at) \in Seq(Positions)
<1> DEFINE T == {k \in Positions :
               \A i \in DOMAIN s.loaded : s.loaded[i].key = k => s.loaded[i].lod # Lod(k, at)}
<1>1. PICK q : q = Keep(Nearest[at], T)
  OBVIOUS
<1>2. T \subseteq Positions
  OBVIOUS
<1>3. Missing(s, at) = q
  BY <1>1 DEF Missing
<1> HIDE DEF T
<1>4. q \in Seq(Int \X Int) /\ \A i \in 1..Len(q) : q[i] \in T
  BY <1>1, NearestTyped, KeepIs DEF Kept
<1>5. QED
  <2>1. Len(q) \in Nat /\ q = [i \in 1..Len(q) |-> q[i]]
    BY <1>4
  <2>2. q \in [1..Len(q) -> Positions]
    BY <1>2, <1>4, <2>1
  <2>3. QED
    BY <1>3, <2>1, <2>2
-----------------------------------------------------------------------------
(* The scene. *)

\* A chunk in high resolution has its vegetation.
Green(c) == c.lod = 0 => ~c.bare

\* What holds of the chunks of a scene l, those of a cache c, and their number n.
InOrder(l, c, n) ==
    /\ l \in Seq(Chunk) /\ c \in Seq(Chunk)
    /\ Len(c) <= CacheSize
    /\ n = Len(l) + Len(c)
    /\ \A i \in 1..Len(l) : Green(l[i])
    /\ \A i \in 1..Len(c) : Green(c[i])
    /\ \A i, j \in 1..Len(l) : l[i].key = l[j].key => i = j
    /\ \A i, j \in 1..Len(c) : Same(c[i], c[j]) => i = j
    /\ \A i \in 1..Len(l) : \A j \in 1..Len(c) : ~Same(l[i], c[j])

Scene == [loaded : Seq(Chunk), lru : Seq(Chunk), alive : Nat]

Good(s) == s \in Scene /\ InOrder(s.loaded, s.lru, s.alive)

\* The greater and the lesser of two numbers.
LEMMA MaxPair ==
    ASSUME NEW a \in Int, NEW b \in Int
    PROVE  Max({a, b}) \in {a, b} /\ Max({a, b}) >= a /\ Max({a, b}) >= b
<1>1. \E x \in {a, b} : \A y \in {a, b} : x >= y
  <2>1. CASE a >= b
    BY <2>1
  <2>2. CASE b >= a
    BY <2>2
  <2>3. QED
    BY <2>1, <2>2
<1>2. Max({a, b}) \in {a, b} /\ \A y \in {a, b} : Max({a, b}) >= y
  BY <1>1, Zenon DEF Max
<1>3. QED
  BY <1>2

LEMMA MinPair ==
    ASSUME NEW a \in Int, NEW b \in Int
    PROVE  Min({a, b}) \in {a, b} /\ Min({a, b}) <= a /\ Min({a, b}) <= b
<1>1. \E x \in {a, b} : \A y \in {a, b} : x <= y
  <2>1. CASE a >= b
    BY <2>1
  <2>2. CASE b >= a
    BY <2>2
  <2>3. QED
    BY <2>1, <2>2
<1>2. Min({a, b}) \in {a, b} /\ \A y \in {a, b} : Min({a, b}) <= y
  BY <1>1, Zenon DEF Min
<1>3. QED
  BY <1>2

\* A set of numbers has a least one.
LEMMA MinIs ==
    ASSUME NEW I \in SUBSET Nat, I # {}
    PROVE  Min(I) \in I
<1>1. SUFFICES ASSUME ~\E x \in I : \A y \in I : x <= y PROVE FALSE
  BY Zenon DEF Min
<1> DEFINE P == {n \in Nat : \A m \in 0..n : m \notin I}
<1>2. 0 \in P
  BY <1>1
<1>3. ASSUME NEW n \in Nat, n \in P PROVE n + 1 \in P
  <2>1. \A y \in I : n + 1 <= y
    BY <1>3
  <2>2. n + 1 \notin I
    BY <1>1, <2>1
  <2>3. QED
    BY <1>3, <2>2
<1>4. Nat \subseteq P
  <2> HIDE DEF P
  <2>1. QED
    BY <1>2, <1>3, Numbers!NatSetInduction
<1>5. PICK x \in I : x \in Nat
  OBVIOUS
<1>6. QED
  BY <1>4, <1>5

\* Chunks that leave the scene for the cache leave it in order.
LEMMA UnloadKeepsOrder ==
    ASSUME NEW s, Good(s), NEW C
    PROVE  /\ Good(Unload(s, C))
           /\ \A i \in 1..Len(Unload(s, C).loaded) : Unload(s, C).loaded[i] \notin C
<1> DEFINE stay == {c \in Chunk : c \notin C}
<1>1. PICK l, c, n : l = s.loaded /\ c = s.lru /\ n = s.alive
  OBVIOUS
<1>2. InOrder(l, c, n) /\ n \in Nat
  BY <1>1 DEF Good, Scene
<1>3. l \in Seq(Chunk) /\ c \in Seq(Chunk) /\ Len(l) \in Nat /\ Len(c) \in Nat
  BY <1>2 DEF InOrder
<1>4. PICK gone, rest : gone = Keep(l, C) /\ rest = Keep(l, stay)
  OBVIOUS
<1>5. /\ gone \in Seq(Chunk) /\ Len(gone) \in Nat
      /\ Kept(l, C, Len(l), gone)
  BY <1>3, <1>4, KeepIs
<1>6. /\ rest \in Seq(Chunk) /\ Len(rest) \in Nat
      /\ Kept(l, stay, Len(l), rest)
  BY <1>3, <1>4, KeepIs
<1>7. Len(gone) + Len(rest) = Len(l)
  <2>1. \A i \in 1..Len(l) : l[i] \in C <=> l[i] \notin stay
    BY <1>3
  <2> HIDE DEF stay
  <2>2. QED
    BY <1>3, <1>4, <2>1, KeepSplits
<1>8. PICK g \in [1..Len(gone) -> 1..Len(l)] :
        /\ \A i \in 1..Len(gone) : gone[i] = l[g[i]] /\ gone[i] \in C
        /\ \A i, j \in 1..Len(gone) : g[i] = g[j] => i = j
  BY <1>5 DEF Kept
<1>9. PICK h \in [1..Len(rest) -> 1..Len(l)] :
        /\ \A i \in 1..Len(rest) : rest[i] = l[h[i]] /\ rest[i] \notin C
        /\ \A i, j \in 1..Len(rest) : h[i] = h[j] => i = j
  BY <1>6 DEF Kept
<1>10. \A i \in 1..Len(gone) : \A j \in 1..Len(rest) : ~Same(gone[i], rest[j])
  <2> SUFFICES ASSUME NEW i \in 1..Len(gone), NEW j \in 1..Len(rest), Same(gone[i], rest[j])
               PROVE  FALSE
    OBVIOUS
  <2>1. l[g[i]].key = l[h[j]].key
    BY <1>8, <1>9 DEF Same
  <2>2. g[i] = h[j]
    BY <1>2, <1>8, <1>9, <2>1 DEF InOrder
  <2>3. QED
    BY <1>8, <1>9, <2>2
<1>11. \A i \in 1..Len(gone) : \A j \in 1..Len(c) : ~Same(gone[i], c[j])
  BY <1>2, <1>8 DEF InOrder
<1>12. Keep(c, {d \in Chunk : \A i \in DOMAIN gone : ~Same(gone[i], d)}) = c
  <2> DEFINE D == {d \in Chunk : \A i \in DOMAIN gone : ~Same(gone[i], d)}
  <2>1. \A i \in 1..Len(c) : c[i] \in D
    <3>1. DOMAIN gone = 1..Len(gone) /\ \A i \in 1..Len(c) : c[i] \in Chunk
      BY <1>3, <1>5
    <3>2. QED
      BY <1>11, <3>1
  <2> HIDE DEF D
  <2>2. Keep(c, D) = c
    BY <1>3, <2>1, KeepAll
  <2>3. QED
    BY <2>2 DEF D
<1>13. PICK q : q = c \o gone
  OBVIOUS
<1>14. /\ q \in Seq(Chunk) /\ Len(q) \in Nat /\ Len(q) = Len(c) + Len(gone)
       /\ \A i \in 1..Len(q) : \/ i \in 1..Len(c) /\ q[i] = c[i]
                               \/ i - Len(c) \in 1..Len(gone) /\ q[i] = gone[i - Len(c)]
  <2>1. q \in Seq(Chunk) /\ Len(q) = Len(c) + Len(gone)
    BY <1>3, <1>5, <1>13
  <2>2. \A i \in 1..(Len(c) + Len(gone)) : q[i] = IF i <= Len(c) THEN c[i] ELSE gone[i - Len(c)]
    BY <1>3, <1>5, <1>13, ConcatProperties
  <2>3. QED
    BY <1>3, <1>5, <2>1, <2>2
<1>15. \A i \in 1..Len(q) : Green(q[i])
  <2>1. \A i \in 1..Len(gone) : Green(gone[i])
    BY <1>2, <1>8 DEF InOrder
  <2>2. \A i \in 1..Len(c) : Green(c[i])
    BY <1>2 DEF InOrder
  <2>3. QED
    BY <1>14, <2>1, <2>2
<1>16. \A i \in 1..Len(q) : \A j \in 1..Len(rest) : ~Same(rest[j], q[i])
  <2>1. \A i \in 1..Len(c) : \A j \in 1..Len(rest) : ~Same(rest[j], c[i])
    BY <1>2, <1>9 DEF InOrder
  <2>2. \A i \in 1..Len(gone) : \A j \in 1..Len(rest) : ~Same(rest[j], gone[i])
    BY <1>10 DEF Same
  <2>3. QED
    BY <1>14, <2>1, <2>2
<1>17. \A i, j \in 1..Len(q) : Same(q[i], q[j]) => i = j
  <2> SUFFICES ASSUME NEW i \in 1..Len(q), NEW j \in 1..Len(q), Same(q[i], q[j])
               PROVE  i = j
    OBVIOUS
  <2>1. CASE i \in 1..Len(c) /\ q[i] = c[i] /\ j \in 1..Len(c) /\ q[j] = c[j]
    BY <1>2, <2>1 DEF InOrder
  <2>2. CASE /\ i - Len(c) \in 1..Len(gone) /\ q[i] = gone[i - Len(c)]
             /\ j - Len(c) \in 1..Len(gone) /\ q[j] = gone[j - Len(c)]
    <3>1. l[g[i - Len(c)]].key = l[g[j - Len(c)]].key
      BY <1>8, <2>2 DEF Same
    <3>2. g[i - Len(c)] = g[j - Len(c)]
      <4>1. g[i - Len(c)] \in 1..Len(l) /\ g[j - Len(c)] \in 1..Len(l)
        BY <1>8, <2>2
      <4>2. QED
        BY <1>2, <3>1, <4>1, Zenon DEF InOrder
    <3>3. i - Len(c) = j - Len(c)
      BY <1>8, <2>2, <3>2
    <3>4. QED
      BY <1>3, <3>3
  <2>3. CASE /\ i - Len(c) \in 1..Len(gone) /\ q[i] = gone[i - Len(c)]
             /\ j \in 1..Len(c) /\ q[j] = c[j]
    BY <1>11, <2>3
  <2>4. CASE /\ j - Len(c) \in 1..Len(gone) /\ q[j] = gone[j - Len(c)]
             /\ i \in 1..Len(c) /\ q[i] = c[i]
    BY <1>11, <2>4 DEF Same
  <2>5. QED
    BY <1>14, <2>1, <2>2, <2>3, <2>4
<1>18. PICK e : e = Max({0, Len(q) - CacheSize})
  OBVIOUS
<1>19. e \in 0..Len(q) /\ Len(q) - e <= CacheSize /\ e \in Nat
  <2>1. CacheSize \in Nat /\ Len(q) \in Nat
    BY <1>14, ChunksAssumption
  <2>2. Len(q) - CacheSize \in Int /\ 0 \in Int
    BY <2>1
  <2>3. e \in {0, Len(q) - CacheSize} /\ e >= 0 /\ e >= Len(q) - CacheSize
    BY <1>18, <2>2, MaxPair
  <2>4. QED
    BY <2>1, <2>3
<1>20. PICK t : t = SubSeq(q, e + 1, Len(q))
  OBVIOUS
<1>21. /\ t \in Seq(Chunk) /\ Len(t) \in Nat /\ Len(t) = Len(q) - e
       /\ \A i \in 1..Len(t) : i + e \in 1..Len(q) /\ t[i] = q[i + e]
  <2>1. e + 1 \in Int /\ Len(q) \in Int /\ \A i \in (e + 1)..Len(q) : q[i] \in Chunk
    BY <1>14, <1>19
  <2>2. /\ t \in Seq(Chunk)
        /\ Len(t) = IF e + 1 <= Len(q) THEN Len(q) - (e + 1) + 1 ELSE 0
        /\ \A i \in 1..(Len(q) - (e + 1) + 1) : t[i] = q[(e + 1) + i - 1]
    BY <1>20, <2>1, SubSeqProperties
  <2>3. Len(t) = Len(q) - e /\ Len(q) - (e + 1) + 1 = Len(q) - e /\ Len(q) - e \in Nat
    BY <1>14, <1>19, <2>2
  <2>4. \A i \in 1..(Len(q) - e) : i + e \in 1..Len(q) /\ (e + 1) + i - 1 = i + e
    BY <1>14, <1>19
  <2>5. \A i \in 1..(Len(q) - e) : t[i] = q[i + e]
    BY <2>2, <2>3, <2>4
  <2>6. QED
    BY <2>2, <2>3, <2>4, <2>5
<1>22. Unload(s, C) = [loaded |-> rest, lru |-> t, alive |-> n - e]
  BY <1>1, <1>4, <1>12, <1>13, <1>18, <1>20, Zenon DEF Unload
<1>23. InOrder(rest, t, n - e) /\ n - e \in Nat
  <2>1. n - e = Len(rest) + Len(t) /\ n - e \in Nat
    <3>1. n = Len(l) + Len(c)
      BY <1>2 DEF InOrder
    <3>2. Len(q) = Len(c) + Len(gone) /\ Len(q) \in Nat
      BY <1>14
    <3>3. Len(t) = Len(q) - e /\ Len(t) \in Nat
      BY <1>21
    <3>4. Len(l) \in Nat /\ Len(c) \in Nat /\ Len(gone) \in Nat /\ Len(rest) \in Nat
      BY <1>3, <1>5, <1>6
    <3>5. QED
      BY <1>7, <1>19, <3>1, <3>2, <3>3, <3>4
  <2>2. Len(t) <= CacheSize
    BY <1>19, <1>21
  <2>3. \A i \in 1..Len(rest) : Green(rest[i])
    BY <1>2, <1>9 DEF InOrder
  <2>4. \A i \in 1..Len(t) : Green(t[i])
    BY <1>15, <1>21
  <2>5. ASSUME NEW i \in 1..Len(rest), NEW j \in 1..Len(rest), rest[i].key = rest[j].key
        PROVE  i = j
    <3>1. h[i] \in 1..Len(l) /\ h[j] \in 1..Len(l) /\ l[h[i]].key = l[h[j]].key
      BY <1>9, <2>5
    <3>2. h[i] = h[j]
      BY <1>2, <3>1, Zenon DEF InOrder
    <3>3. QED
      BY <1>9, <3>2
  <2>6. ASSUME NEW i \in 1..Len(t), NEW j \in 1..Len(t), Same(t[i], t[j]) PROVE i = j
    <3>1. i + e = j + e
      BY <1>17, <1>21, <2>6
    <3>2. QED
      BY <1>19, <1>21, <3>1
  <2>7. \A i \in 1..Len(rest) : \A j \in 1..Len(t) : ~Same(rest[i], t[j])
    BY <1>16, <1>21
  <2>8. QED
    BY <1>6, <1>21, <2>1, <2>2, <2>3, <2>4, <2>5, <2>6, <2>7 DEF InOrder
<1>24. QED
  <2>1. /\ Unload(s, C).loaded = rest /\ Unload(s, C).lru = t /\ Unload(s, C).alive = n - e
        /\ Unload(s, C) \in Scene
    BY <1>6, <1>21, <1>22, <1>23 DEF Scene
  <2>2. QED
    BY <1>9, <1>23, <2>1 DEF Good
\* How far a position is, and what is built there.
LEMMA RingIs ==
    ASSUME NEW k \in Positions, NEW at \in Positions
    PROVE  Ring(k, at) \in Nat
<1>1. k[1] \in Int /\ k[2] \in Int /\ at[1] \in Int /\ at[2] \in Int
  BY ChunksAssumption DEF Positions
<1>2. PICK a, b : a = Distance(k[1], at[1]) /\ b = Distance(k[2], at[2])
  OBVIOUS
<1>3. a \in Nat /\ b \in Nat
  BY <1>1, <1>2 DEF Distance
<1>4. Max({a, b}) \in {a, b}
  BY <1>3, MaxPair
<1>5. QED
  BY <1>2, <1>3, <1>4 DEF Ring

\* A chunk that is built is of its position and resolution, and has its vegetation.
LEMMA BuildIs ==
    ASSUME NEW k \in Positions, NEW at \in Roam
    PROVE  /\ BuildChunk(k, at) \in Chunk /\ Green(BuildChunk(k, at))
           /\ BuildChunk(k, at).key = k /\ BuildChunk(k, at).lod = Lod(k, at)
<1>1. PICK r : r = Ring(k, at)
  OBVIOUS
<1>2. r \in Nat /\ HighLodRadius \in Nat /\ ScatterRadius \in Nat
  BY <1>1, RingIs, ChunksAssumption
<1>3. HighLodRadius <= ScatterRadius
  BY ChunksAssumption
<1>4. Lod(k, at) \in {0, 1} /\ (Lod(k, at) = 0 => r <= HighLodRadius)
  BY <1>1 DEF Lod
<1>5. Lod(k, at) = 0 => ~(r > ScatterRadius)
  BY <1>2, <1>3, <1>4
<1>6. PICK lod, bare : lod = Lod(k, at) /\ bare = (r > ScatterRadius)
  OBVIOUS
<1>7. BuildChunk(k, at) = [key |-> k, lod |-> lod, bare |-> bare]
  BY <1>1, <1>6, Zenon DEF BuildChunk
<1>8. lod \in {0, 1} /\ bare \in BOOLEAN /\ (lod = 0 => ~bare)
  <2>1. lod \in {0, 1}
    BY <1>4, <1>6, Zenon
  <2>2. bare \in BOOLEAN
    <3>1. (r > ScatterRadius) \in BOOLEAN
      BY <1>2
    <3>2. QED
      BY <1>6, <3>1, Zenon
  <2>3. lod = 0 => ~bare
    BY <1>5, <1>6, Zenon
  <2>4. QED
    BY <2>1, <2>2, <2>3
<1>9. QED
  BY <1>6, <1>7, <1>8 DEF Chunk, Green

\* A chunk for a position that has none comes up: out of the cache, or a new one.
LEMMA TakeOrBuildKeepsOrder ==
    ASSUME NEW s, Good(s), NEW k \in Positions, NEW at \in Roam,
           \A i \in 1..Len(s.loaded) : s.loaded[i].key # k
    PROVE  Good(TakeOrBuild(s, k, at))
<1>1. PICK l, c, n, lod : l = s.loaded /\ c = s.lru /\ n = s.alive /\ lod = Lod(k, at)
  OBVIOUS
<1>2. InOrder(l, c, n) /\ n \in Nat /\ s \in Scene
  BY <1>1 DEF Good, Scene
<1>3. l \in Seq(Chunk) /\ c \in Seq(Chunk) /\ Len(l) \in Nat /\ Len(c) \in Nat
  BY <1>2 DEF InOrder
<1>4. PICK I : I = {i \in 1..Len(c) : c[i].key = k /\ c[i].lod = lod}
  OBVIOUS
<1>5. PICK i : i = SelectInSeq(c, LAMBDA d : d.key = k /\ d.lod = lod)
  OBVIOUS
<1>6. i = IF I # {} THEN Min(I) ELSE 0
  BY <1>4, <1>5 DEF SelectInSeq
<1>7. TakeOrBuild(s, k, at) =
        IF i # 0
          THEN [s EXCEPT !.loaded = Append(l, c[i]), !.lru = RemoveAt(c, i)]
          ELSE [s EXCEPT !.loaded = Append(l, BuildChunk(k, at)), !.alive = n + 1]
  BY <1>1, <1>2, <1>5 DEF TakeOrBuild, Scene
<1>8. CASE I # {}
  <2>1. i \in 1..Len(c) /\ c[i].key = k /\ c[i].lod = lod /\ i # 0
    <3>1. I \in SUBSET Nat
      BY <1>4
    <3>2. i \in I
      BY <1>6, <1>8, <3>1, MinIs
    <3>3. QED
      BY <1>3, <1>4, <3>2
  <2>2. PICK d, w, t : d = c[i] /\ w = Append(l, d) /\ t = RemoveAt(c, i)
    OBVIOUS
  <2>3. d \in Chunk /\ Green(d) /\ d.key = k
    BY <1>2, <1>3, <2>1, <2>2 DEF InOrder
  <2>4. /\ w \in Seq(Chunk) /\ Len(w) = Len(l) + 1 /\ w[Len(l) + 1] = d
        /\ \A j \in 1..Len(l) : w[j] = l[j]
    BY <1>3, <2>2, <2>3, Appended
  <2>5. /\ t \in Seq(Chunk) /\ Len(t) = Len(c) - 1 /\ Len(t) \in Nat
        /\ \A j \in 1..Len(t) :
             \/ j < i /\ j \in 1..Len(c) /\ t[j] = c[j]
             \/ j >= i /\ j + 1 \in 1..Len(c) /\ t[j] = c[j + 1]
    <3>1. PICK a, b : a = SubSeq(c, 1, i - 1) /\ b = SubSeq(c, i + 1, Len(c))
      OBVIOUS
    <3>2. \A j \in 1..(i - 1) : c[j] \in Chunk
      BY <1>3, <2>1
    <3>3. \A j \in (i + 1)..Len(c) : c[j] \in Chunk
      BY <1>3, <2>1
    <3>4. /\ a \in Seq(Chunk) /\ Len(a) = i - 1
          /\ \A j \in 1..(i - 1) : a[j] = c[j]
      <4>1. /\ a \in Seq(Chunk) /\ Len(a) = IF 1 <= i - 1 THEN (i - 1) - 1 + 1 ELSE 0
            /\ \A j \in 1..((i - 1) - 1 + 1) : a[j] = c[1 + j - 1]
        BY <2>1, <3>1, <3>2, SubSeqProperties
      <4>2. (i - 1) - 1 + 1 = i - 1 /\ \A j \in 1..(i - 1) : 1 + j - 1 = j
        BY <2>1
      <4>3. \A j \in 1..(i - 1) : a[j] = c[j]
        BY <4>1, <4>2
      <4>4. Len(a) = i - 1
        BY <2>1, <4>1
      <4>5. QED
        BY <4>1, <4>3, <4>4
    <3>5. /\ b \in Seq(Chunk) /\ Len(b) = Len(c) - i
          /\ \A j \in 1..(Len(c) - i) : b[j] = c[j + i]
      <4>1. /\ b \in Seq(Chunk)
            /\ Len(b) = IF i + 1 <= Len(c) THEN Len(c) - (i + 1) + 1 ELSE 0
            /\ \A j \in 1..(Len(c) - (i + 1) + 1) : b[j] = c[(i + 1) + j - 1]
        BY <1>3, <2>1, <3>1, <3>3, SubSeqProperties
      <4>2. /\ Len(c) - (i + 1) + 1 = Len(c) - i
            /\ \A j \in 1..(Len(c) - i) : (i + 1) + j - 1 = j + i
        BY <1>3, <2>1
      <4>3. \A j \in 1..(Len(c) - i) : b[j] = c[j + i]
        BY <4>1, <4>2
      <4>4. Len(b) = Len(c) - i
        BY <1>3, <2>1, <4>1
      <4>5. QED
        BY <4>1, <4>3, <4>4
    <3>6. t = a \o b
      BY <2>2, <3>1 DEF RemoveAt
    <3>7. /\ t \in Seq(Chunk) /\ Len(t) = Len(a) + Len(b)
          /\ \A j \in 1..(Len(a) + Len(b)) : t[j] = IF j <= Len(a) THEN a[j] ELSE b[j - Len(a)]
      BY <3>4, <3>5, <3>6, ConcatProperties
    <3>8. Len(t) = Len(c) - 1 /\ Len(t) \in Nat
      BY <1>3, <2>1, <3>4, <3>5, <3>7
    <3>9. ASSUME NEW j \in 1..Len(t)
          PROVE  \/ j < i /\ j \in 1..Len(c) /\ t[j] = c[j]
                 \/ j >= i /\ j + 1 \in 1..Len(c) /\ t[j] = c[j + 1]
      <4>1. CASE j < i
        <5>1. j \in 1..(i - 1) /\ j \in 1..Len(c)
          BY <1>3, <2>1, <3>8, <4>1
        <5>2. t[j] = a[j]
          BY <3>4, <3>7, <5>1
        <5>3. QED
          BY <3>4, <4>1, <5>1, <5>2
      <4>2. CASE j >= i
        <5>1. /\ j - (i - 1) \in 1..(Len(c) - i) /\ (j - (i - 1)) + i = j + 1
              /\ j + 1 \in 1..Len(c) /\ ~(j <= i - 1)
          BY <1>3, <2>1, <3>8, <4>2
        <5>2. t[j] = b[j - (i - 1)]
          BY <3>4, <3>7, <5>1
        <5>3. b[j - (i - 1)] = c[j + 1]
          BY <3>5, <5>1
        <5>4. QED
          BY <4>2, <5>1, <5>2, <5>3
      <4>3. QED
        BY <2>1, <4>1, <4>2
    <3>10. QED
      BY <3>7, <3>8, <3>9
  <2>6. InOrder(w, t, n)
    <3>1. \A j \in 1..Len(w) : j \in 1..Len(l) \/ j = Len(l) + 1
      BY <1>3, <2>4
    <3>2. Len(t) <= CacheSize
      <4>1. Len(c) <= CacheSize /\ CacheSize \in Nat
        BY <1>2, ChunksAssumption DEF InOrder
      <4>2. Len(t) = Len(c) - 1
        BY <2>5
      <4>3. QED
        BY <1>3, <4>1, <4>2
    <3>3. n = Len(w) + Len(t)
      <4>1. n = Len(l) + Len(c)
        BY <1>2 DEF InOrder
      <4>2. Len(t) = Len(c) - 1 /\ Len(w) = Len(l) + 1
        BY <2>4, <2>5
      <4>3. QED
        BY <1>3, <4>1, <4>2
    <3>4. \A j \in 1..Len(w) : Green(w[j])
      <4>1. \A j \in 1..Len(l) : Green(l[j])
        BY <1>2 DEF InOrder
      <4>2. QED
        BY <2>3, <2>4, <3>1, <4>1
    <3>5. \A j \in 1..Len(t) : Green(t[j])
      <4>1. \A j \in 1..Len(c) : Green(c[j])
        BY <1>2 DEF InOrder
      <4>2. QED
        BY <2>5, <4>1
    <3>6. \A j, m \in 1..Len(w) : w[j].key = w[m].key => j = m
      <4>1. \A j, m \in 1..Len(l) : l[j].key = l[m].key => j = m
        BY <1>2 DEF InOrder
      <4>2. \A j \in 1..Len(l) : l[j].key # k
        BY <1>1
      <4>3. QED
        BY <2>3, <2>4, <3>1, <4>1, <4>2
    <3>7. ASSUME NEW j \in 1..Len(t), NEW m \in 1..Len(t), Same(t[j], t[m]) PROVE j = m
      <4>1. \A x, y \in 1..Len(c) : Same(c[x], c[y]) => x = y
        BY <1>2 DEF InOrder
      <4>2. PICK x \in 1..Len(c) : t[j] = c[x] /\ (\/ x = j /\ j < i
                                                   \/ x = j + 1 /\ j >= i)
        <5>1. CASE j < i /\ j \in 1..Len(c) /\ t[j] = c[j]
          BY <5>1
        <5>2. CASE j >= i /\ j + 1 \in 1..Len(c) /\ t[j] = c[j + 1]
          BY <5>2
        <5>3. QED
          BY <2>5, <5>1, <5>2
      <4>3. PICK y \in 1..Len(c) : t[m] = c[y] /\ (\/ y = m /\ m < i
                                                   \/ y = m + 1 /\ m >= i)
        <5>1. CASE m < i /\ m \in 1..Len(c) /\ t[m] = c[m]
          BY <5>1
        <5>2. CASE m >= i /\ m + 1 \in 1..Len(c) /\ t[m] = c[m + 1]
          BY <5>2
        <5>3. QED
          BY <2>5, <5>1, <5>2
      <4>4. x = y
        BY <3>7, <4>1, <4>2, <4>3
      <4>5. QED
        BY <2>1, <4>2, <4>3, <4>4
    <3>8. \A j \in 1..Len(w) : \A m \in 1..Len(t) : ~Same(w[j], t[m])
      <4>1. \A j \in 1..Len(l) : \A m \in 1..Len(c) : ~Same(l[j], c[m])
        BY <1>2 DEF InOrder
      <4>2. \A j \in 1..Len(l) : \A m \in 1..Len(t) : ~Same(w[j], t[m])
        BY <2>4, <2>5, <4>1
      <4>3. \A x, y \in 1..Len(c) : Same(c[x], c[y]) => x = y
        BY <1>2 DEF InOrder
      <4>4. ASSUME NEW m \in 1..Len(t) PROVE ~Same(d, t[m])
        <5>1. CASE m < i /\ m \in 1..Len(c) /\ t[m] = c[m]
          BY <2>1, <2>2, <4>3, <5>1
        <5>2. CASE m >= i /\ m + 1 \in 1..Len(c) /\ t[m] = c[m + 1]
          <6>1. i # m + 1
            BY <2>1, <5>2
          <6>2. QED
            BY <2>1, <2>2, <4>3, <5>2, <6>1
        <5>3. QED
          BY <2>5, <5>1, <5>2
      <4>5. QED
        BY <2>4, <3>1, <4>2, <4>4
    <3>9. QED
      BY <2>4, <2>5, <3>2, <3>3, <3>4, <3>5, <3>6, <3>7, <3>8 DEF InOrder
  <2>7. PICK x : x = TakeOrBuild(s, k, at)
    OBVIOUS
  <2>8. x = [s EXCEPT !.loaded = w, !.lru = t]
    BY <1>7, <2>1, <2>2, <2>7
  <2>9. x \in Scene /\ x.loaded = w /\ x.lru = t /\ x.alive = n
    BY <1>1, <1>2, <2>4, <2>5, <2>8 DEF Scene
  <2>10. QED
    BY <2>6, <2>7, <2>9 DEF Good
<1>9. CASE I = {}
  <2>1. PICK d, w : d = BuildChunk(k, at) /\ w = Append(l, d)
    OBVIOUS
  <2>2. d \in Chunk /\ Green(d) /\ d.key = k /\ d.lod = lod
    BY <1>1, BuildIs, <2>1
  <2>3. /\ w \in Seq(Chunk) /\ Len(w) = Len(l) + 1 /\ w[Len(l) + 1] = d
        /\ \A j \in 1..Len(l) : w[j] = l[j]
    BY <1>3, <2>1, <2>2, Appended
  <2>4. InOrder(w, c, n + 1)
    <3>1. \A j \in 1..Len(w) : j \in 1..Len(l) \/ j = Len(l) + 1
      BY <1>3, <2>3
    <3>2. Len(c) <= CacheSize
      BY <1>2 DEF InOrder
    <3>3. n + 1 = Len(w) + Len(c)
      <4>1. n = Len(l) + Len(c)
        BY <1>2 DEF InOrder
      <4>2. QED
        BY <1>3, <2>3, <4>1
    <3>4. \A j \in 1..Len(w) : Green(w[j])
      <4>1. \A j \in 1..Len(l) : Green(l[j])
        BY <1>2 DEF InOrder
      <4>2. QED
        BY <2>2, <2>3, <3>1, <4>1
    <3>5. \A j, m \in 1..Len(w) : w[j].key = w[m].key => j = m
      <4>1. \A j, m \in 1..Len(l) : l[j].key = l[m].key => j = m
        BY <1>2 DEF InOrder
      <4>2. \A j \in 1..Len(l) : l[j].key # k
        BY <1>1
      <4>3. QED
        BY <2>2, <2>3, <3>1, <4>1, <4>2
    <3>6. \A j \in 1..Len(w) : \A m \in 1..Len(c) : ~Same(w[j], c[m])
      <4>1. \A j \in 1..Len(l) : \A m \in 1..Len(c) : ~Same(l[j], c[m])
        BY <1>2 DEF InOrder
      <4>2. \A m \in 1..Len(c) : ~Same(d, c[m])
        BY <1>4, <1>9, <2>2 DEF Same
      <4>3. QED
        BY <2>3, <3>1, <4>1, <4>2
    <3>7. /\ \A j \in 1..Len(c) : Green(c[j])
          /\ \A j, m \in 1..Len(c) : Same(c[j], c[m]) => j = m
      BY <1>2 DEF InOrder
    <3>8. QED
      BY <1>3, <2>3, <3>2, <3>3, <3>4, <3>5, <3>6, <3>7 DEF InOrder
  <2>5. PICK x : x = TakeOrBuild(s, k, at)
    OBVIOUS
  <2>6. x = [s EXCEPT !.loaded = w, !.alive = n + 1]
    BY <1>6, <1>7, <1>9, <2>1, <2>5
  <2>7. n + 1 \in Nat
    BY <1>2
  <2>8. x \in Scene /\ x.loaded = w /\ x.lru = c /\ x.alive = n + 1
    BY <1>1, <1>2, <2>3, <2>6, <2>7 DEF Scene
  <2>9. QED
    BY <2>4, <2>5, <2>8 DEF Good
<1>10. QED
  BY <1>8, <1>9
\* The chunk of the other resolution makes room for the right one.
LEMMA LoadChunkKeepsOrder ==
    ASSUME NEW s, Good(s), NEW k \in Positions, NEW at \in Roam
    PROVE  Good(LoadChunk(s, k, at))
<1>1. PICK C, u : C = {c \in Chunk : c.key = k} /\ u = Unload(s, C)
  OBVIOUS
<1>2. Good(u) /\ \A i \in 1..Len(u.loaded) : u.loaded[i] \notin C
  BY <1>1, UnloadKeepsOrder
<1>3. \A i \in 1..Len(u.loaded) : u.loaded[i].key # k
  <2>1. u.loaded \in Seq(Chunk)
    BY <1>2 DEF Good, Scene
  <2>2. \A i \in 1..Len(u.loaded) : u.loaded[i] \in Chunk
    BY <2>1
  <2>3. QED
    BY <1>1, <1>2, <2>2
<1>4. LoadChunk(s, k, at) = TakeOrBuild(u, k, at)
  BY <1>1 DEF LoadChunk
<1>5. QED
  BY <1>2, <1>3, <1>4, TakeOrBuildKeepsOrder

\* The function that LoadAll computes.  There is one.
LoadTable(s, todo, at, n, f) ==
    f = [i \in 0..n |-> IF i = 0 THEN {s} ELSE {LoadChunk(x, todo[i], at) : x \in f[i - 1]}]

\* There is such a function for every number of positions.
LEMMA LoadExists ==
    ASSUME NEW s, NEW todo, NEW at, NEW N \in Nat
    PROVE  \E f : LoadTable(s, todo, at, N, f)
<1> DEFINE P == {n \in 0..N : \E f : LoadTable(s, todo, at, n, f)}
<1>1. 0 \in P
  <2>1. LoadTable(s, todo, at, 0, [i \in 0..0 |-> {s}])
    BY DEF LoadTable
  <2>2. QED
    BY <2>1
<1>2. ASSUME NEW n \in 0..(N - 1), n \in P PROVE n + 1 \in P
  <2>1. PICK f : LoadTable(s, todo, at, n, f)
    BY <1>2
  <2> DEFINE X == {LoadChunk(x, todo[n + 1], at) : x \in f[n]}
             g == [i \in 0..(n + 1) |-> IF i = n + 1 THEN X ELSE f[i]]
  <2>2. ASSUME NEW i \in 0..(n + 1)
        PROVE  g[i] = IF i = 0 THEN {s} ELSE {LoadChunk(x, todo[i], at) : x \in g[i - 1]}
    <3> HIDE DEF X
    <3>1. CASE i = n + 1
      <4>1. g[i] = X /\ i # 0 /\ g[i - 1] = f[n] /\ i - 1 = n
        BY <3>1
      <4> HIDE DEF g
      <4>2. QED
        BY <3>1, <4>1 DEF X
    <3>2. CASE i # n + 1 /\ i # 0
      <4>1. g[i] = f[i] /\ g[i - 1] = f[i - 1] /\ i \in 0..n
        BY <3>2
      <4>2. f[i] = {LoadChunk(x, todo[i], at) : x \in f[i - 1]}
        BY <2>1, <3>2, <4>1 DEF LoadTable
      <4> HIDE DEF g
      <4>3. QED
        BY <3>2, <4>1, <4>2
    <3>3. CASE i = 0
      <4>1. g[i] = f[0] /\ 0 \in 0..n
        BY <3>3
      <4>2. f[0] = {s}
        BY <2>1, <4>1 DEF LoadTable
      <4> HIDE DEF g
      <4>3. QED
        BY <3>3, <4>1, <4>2
    <3>4. QED
      BY <3>1, <3>2, <3>3
  <2>3. LoadTable(s, todo, at, n + 1, g)
    <3>1. g = [i \in 0..(n + 1) |-> g[i]]
      OBVIOUS
    <3> HIDE DEF g
    <3>2. QED
      BY <2>2, <3>1, Zenon DEF LoadTable
  <2>4. QED
    BY <2>3
<1>3. 0..N \subseteq P
  <2> HIDE DEF P
  <2>1. QED
    BY <1>1, <1>2, CountInduction
<1>4. QED
  BY <1>3

\* However many chunks a frame loads.
LEMMA LoadAllKeepsOrder ==
    ASSUME NEW s, Good(s), NEW todo \in Seq(Positions), NEW at \in Roam,
           NEW x \in LoadAll(s, todo, at)
    PROVE  Good(x)
<1>1. PICK f : f = CHOOSE g : LoadTable(s, todo, at, Len(todo), g)
  OBVIOUS
<1>2. LoadTable(s, todo, at, Len(todo), f) /\ Len(todo) \in Nat
  BY <1>1, LoadExists
<1>3. LoadAll(s, todo, at) = f[Len(todo)]
  BY <1>1 DEF LoadAll, LoadTable
<1> DEFINE P == {n \in 0..Len(todo) : \A y \in f[n] : Good(y)}
<1>4. 0 \in P
  <2>1. f[0] = {s} /\ 0 \in 0..Len(todo)
    BY <1>2 DEF LoadTable
  <2>2. QED
    BY <2>1
<1>5. ASSUME NEW n \in 0..(Len(todo) - 1), n \in P PROVE n + 1 \in P
  <2>1. PICK m, k : m = n + 1 /\ k = todo[m]
    OBVIOUS
  <2>2. m \in 1..Len(todo) /\ m \in 0..Len(todo) /\ m # 0 /\ m - 1 = n /\ k \in Positions
    BY <2>1
  <2>3. f[m] = {LoadChunk(y, k, at) : y \in f[n]}
    BY <1>2, <2>1, <2>2 DEF LoadTable
  <2>4. \A y \in f[n] : Good(LoadChunk(y, k, at))
    BY <1>5, <2>2, LoadChunkKeepsOrder
  <2>5. QED
    BY <2>1, <2>2, <2>3, <2>4
<1>6. 0..Len(todo) \subseteq P
  <2> HIDE DEF P
  <2>1. QED
    BY <1>2, <1>4, <1>5, CountInduction
<1>7. Len(todo) \in P
  <2> HIDE DEF P
  <2>1. QED
    BY <1>2, <1>6
<1>8. QED
  BY <1>3, <1>7

-----------------------------------------------------------------------------
(* The specification. *)

\* The strengthening, and the steps that keep it.
SInv == rover \in Roam /\ Good(scene)

\* The scene of a world that was just made is in order.
LEMMA EmptyIsGood == Good(Empty)
<1>1. CacheSize \in Nat /\ Len(<<>>) = 0 /\ <<>> \in Seq(Chunk)
  BY ChunksAssumption
<1>2. PICK none : none = <<>> /\ none \in Seq(Chunk) /\ Len(none) = 0
  BY <1>1
<1>3. InOrder(none, none, 0)
  BY <1>1, <1>2 DEF InOrder
<1>4. Empty \in Scene /\ Empty.loaded = none /\ Empty.lru = none /\ Empty.alive = 0
  BY <1>2 DEF Empty, Scene
<1>5. QED
  BY <1>3, <1>4 DEF Good

\* A frame, whatever moved out of view and whatever came into it.
LEMMA FrameKeepsOrder ==
    ASSUME SInv, NEW at \in Roam, Frame(at)
    PROVE  SInv'
<1>1. PICK near : near = UnloadFar(scene, at)
  OBVIOUS
<1>2. PICK todo : todo = Budgeted(Missing(near, at))
  OBVIOUS
<1>3. rover' = at /\ scene' \in LoadAll(near, todo, at)
  BY <1>1, <1>2 DEF Frame
<1>4. Good(near)
  BY <1>1, UnloadKeepsOrder DEF UnloadFar, SInv
<1>5. todo \in Seq(Positions)
  <2>1. PICK q : q = Missing(near, at) /\ q \in Seq(Positions) /\ Len(q) \in Nat
    BY MissingTyped
  <2>2. PICK m : m = Min({BuildBudget, Len(q)})
    OBVIOUS
  <2>3. m \in Nat /\ m <= Len(q)
    <3>1. BuildBudget \in Nat /\ BuildBudget \in Int /\ Len(q) \in Int
      BY <2>1, ChunksAssumption
    <3>2. m \in {BuildBudget, Len(q)} /\ m <= Len(q)
      BY <2>2, <3>1, MinPair
    <3>3. QED
      BY <2>1, <3>1, <3>2
  <2>4. todo = SubSeq(q, 1, m)
    BY <1>2, <2>1, <2>2 DEF Budgeted
  <2>5. \A i \in 1..m : q[i] \in Positions
    BY <2>1, <2>3
  <2>6. QED
    BY <2>3, <2>4, <2>5, SubSeqProperties
<1>6. ASSUME NEW x \in LoadAll(near, todo, at) PROVE Good(x)
  BY <1>4, <1>5, <1>6, LoadAllKeepsOrder
<1>7. Good(scene')
  BY <1>3, <1>6
<1>8. QED
  BY <1>3, <1>7 DEF SInv, Good, InOrder, Scene

\* When a world is rebuilt, nothing of the old one stays on the card.
LEMMA RebuildKeepsOrder ==
    ASSUME SInv, RebuildWorld
    PROVE  SInv'
<1>1. PICK s : s = scene
  OBVIOUS
<1>2. Good(s)
  BY <1>1 DEF SInv
<1>3. PICK n : n = s.alive - Len(s.loaded) - Len(s.lru)
  OBVIOUS
<1>4. n = 0
  <2>1. /\ s.loaded \in Seq(Chunk) /\ s.lru \in Seq(Chunk)
        /\ s.alive = Len(s.loaded) + Len(s.lru)
    BY <1>2, Zenon DEF Good, InOrder
  <2>2. Len(s.loaded) \in Nat /\ Len(s.lru) \in Nat
    BY <2>1
  <2>3. QED
    BY <1>3, <2>1, <2>2
<1>5. scene' = [Empty EXCEPT !.alive = n]
  BY <1>1, <1>3 DEF RebuildWorld
<1>6. scene' = Empty
  BY <1>4, <1>5 DEF Empty
<1>7. Good(scene')
  BY <1>6, EmptyIsGood
<1>8. QED
  BY <1>7 DEF SInv, RebuildWorld, Good, InOrder, Scene

LEMMA StreamInvariant == StreamSpec => []SInv
<1>1. StreamInit => SInv
  BY EmptyIsGood DEF StreamInit, SInv
<1>2. SInv /\ [StreamNext]_streamVars => SInv'
  <2> SUFFICES ASSUME SInv, [StreamNext]_streamVars PROVE SInv'
    OBVIOUS
  <2>1. CASE \E at \in Roam : Frame(at)
    BY <2>1, FrameKeepsOrder
  <2>2. CASE RebuildWorld
    BY <2>2, RebuildKeepsOrder
  <2>3. CASE UNCHANGED streamVars
    BY <2>3 DEF SInv, streamVars, Good, InOrder, Scene
  <2>4. QED
    BY <2>1, <2>2, <2>3 DEF StreamNext
<1>3. QED
  BY <1>1, <1>2, PTL DEF StreamSpec

\* No chunk is lost on the card, none disposed of while it shows, none drawn twice.
THEOREM ChunksAreAccountedFor == StreamSpec => []ChunksAccountedFor
<1>1. SInv => ChunksAccountedFor
  <2> SUFFICES ASSUME SInv PROVE ChunksAccountedFor
    OBVIOUS
  <2>1. PICK l, c, n : l = scene.loaded /\ c = scene.lru /\ n = scene.alive
    OBVIOUS
  <2>2. InOrder(l, c, n) /\ n \in Nat
    BY <2>1 DEF SInv, Good, Scene
  <2>3. l \in Seq(Chunk) /\ c \in Seq(Chunk) /\ Len(l) \in Nat /\ Len(c) \in Nat
    BY <2>2 DEF InOrder
  <2>4. PICK all : all = l \o c
    OBVIOUS
  <2>5. /\ all \in Seq(Chunk) /\ Len(all) = Len(l) + Len(c) /\ DOMAIN all = 1..Len(all)
        /\ \A i \in 1..Len(all) : \/ i \in 1..Len(l) /\ all[i] = l[i]
                                  \/ i - Len(l) \in 1..Len(c) /\ all[i] = c[i - Len(l)]
    <3>1. /\ all \in Seq(Chunk) /\ Len(all) = Len(l) + Len(c)
          /\ \A i \in 1..(Len(l) + Len(c)) :
               all[i] = IF i <= Len(l) THEN l[i] ELSE c[i - Len(l)]
      BY <2>3, <2>4, ConcatProperties
    <3>2. QED
      BY <2>3, <3>1
  <2>6. ASSUME NEW i \in DOMAIN all, NEW j \in DOMAIN all, Same(all[i], all[j])
        PROVE  i = j
    <3>1. i \in 1..Len(all) /\ j \in 1..Len(all) /\ i \in Int /\ j \in Int
      BY <2>3, <2>5
    <3>2. CASE i \in 1..Len(l) /\ all[i] = l[i] /\ j \in 1..Len(l) /\ all[j] = l[j]
      BY <2>2, <2>6, <3>2 DEF InOrder, Same
    <3>3. CASE /\ i \in 1..Len(l) /\ all[i] = l[i]
               /\ j - Len(l) \in 1..Len(c) /\ all[j] = c[j - Len(l)]
      BY <2>2, <2>6, <3>3 DEF InOrder
    <3>4. CASE /\ j \in 1..Len(l) /\ all[j] = l[j]
               /\ i - Len(l) \in 1..Len(c) /\ all[i] = c[i - Len(l)]
      <4>1. Same(all[j], all[i])
        BY <2>6 DEF Same
      <4>2. QED
        BY <2>2, <3>4, <4>1 DEF InOrder
    <3>5. CASE /\ i - Len(l) \in 1..Len(c) /\ all[i] = c[i - Len(l)]
               /\ j - Len(l) \in 1..Len(c) /\ all[j] = c[j - Len(l)]
      <4>1. i - Len(l) = j - Len(l)
        BY <2>2, <2>6, <3>5, Zenon DEF InOrder
      <4>2. QED
        BY <2>3, <3>1, <4>1
    <3>6. QED
      BY <2>5, <3>1, <3>2, <3>3, <3>4, <3>5
  <2>7. DOMAIN l = 1..Len(l)
    BY <2>3
  <2>8. StreamTypeOK
    BY <2>1, <2>2 DEF SInv, StreamTypeOK, InOrder
  <2>9. n = Len(all)
    BY <2>2, <2>5 DEF InOrder
  <2>10. \A i, j \in DOMAIN l : l[i].key = l[j].key => i = j
    BY <2>2, <2>7 DEF InOrder
  <2>11. QED
    BY <2>1, <2>4, <2>6, <2>8, <2>9, <2>10 DEF ChunksAccountedFor
<1>2. QED
  BY <1>1, StreamInvariant, PTL

\* Chunks in high resolution have their vegetation.
THEOREM DetailHasVegetation == StreamSpec => []DetailIsVegetated
<1>1. SInv => DetailIsVegetated
  <2> SUFFICES ASSUME SInv PROVE DetailIsVegetated
    OBVIOUS
  <2>1. PICK l : l = scene.loaded
    OBVIOUS
  <2>2. l \in Seq(Chunk) /\ \A i \in 1..Len(l) : Green(l[i])
    BY <2>1 DEF SInv, Good, InOrder
  <2>3. DOMAIN l = 1..Len(l)
    BY <2>2
  <2>4. \A i \in DOMAIN l : l[i].lod = 0 => ~l[i].bare
    BY <2>2, <2>3 DEF Green
  <2>5. QED
    BY <2>1, <2>4 DEF DetailIsVegetated
<1>2. QED
  BY <1>1, StreamInvariant, PTL
=============================================================================
