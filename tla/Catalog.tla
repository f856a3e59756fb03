------------------------------ MODULE Catalog ------------------------------
(***************************************************************************)
(* GET /api/challenges and GET /api/v1/world (challengeViews in            *)
(* internal/engine/handlers.go): a projection of the visible challenges    *)
(* put together from one read of the cache, one query for the team's       *)
(* solves and one count per challenge, while teams go on solving.          *)
(***************************************************************************)
EXTENDS Scoreboard

CONSTANTS Readers,      \* the requests of a behaviour
          TeamOf,       \* reader -> the team claim of its token
          NoTeam

ASSUME ReaderAssumption == NoTeam \notin Teams /\ TeamOf \in [Readers -> Teams \union {NoTeam}]

VARIABLE view           \* reader -> the projection as far as it got

catalogVars == <<solves, view>>

\* "left" are the listed challenges not yet counted; "shown" the finished ones.
NewView == [pc |-> "list", left |-> {}, solved |-> {}, shown |-> {}]

CatalogInit == LedgerInit /\ view = [v \in Readers |-> NewView]

\* The cache may show any challenges as visible at this moment.
List(v) ==
    /\ view[v].pc = "list"
    /\ \E visible \in SUBSET Challenges :
         view' = [view EXCEPT ![v].pc = IF TeamOf[v] = NoTeam THEN "count" ELSE "solved",
                    ![v].left = visible]
    /\ UNCHANGED solves

TeamSolvedChallenges(t) == {s.challenge : s \in RowsOf(t)}

Solved(v) ==
    /\ view[v].pc = "solved"
    /\ view' = [view EXCEPT ![v].pc = "count", ![v].solved = TeamSolvedChallenges(TeamOf[v])]
    /\ UNCHANGED solves

ChallengeView(c, count, solved) ==
    [name |-> c, solves |-> count, value |-> CurrentValue(SchemeOf[c], count),
     solvedByTeam |-> solved]

CountOne(v, c) ==
    /\ view[v].pc = "count" /\ c \in view[v].left
    /\ view' = [view EXCEPT ![v].left = @ \ {c},
                  ![v].shown = @ \union {ChallengeView(c, Cardinality(SolvesOf(c)),
                                                       c \in view[v].solved)}]
    /\ UNCHANGED solves

\* Seeded defect: the team's solves are looked up after the counts.
ServeAfterLookUp(v) ==
    /\ view[v].pc = "count" /\ view[v].left = {}
    /\ view' = [view EXCEPT ![v].pc = "served",
                  ![v].shown = {[e EXCEPT !.solvedByTeam = HasSolved(TeamOf[v], e.name)]
                                  : e \in @}]
    /\ UNCHANGED solves

Serve(v) ==
    /\ view[v].pc = "count" /\ view[v].left = {}
    /\ view' = [view EXCEPT ![v].pc = "served"]
    /\ UNCHANGED solves

\* A query fails: 500, nothing is shown, the client asks again.
QueryFails(v) ==
    /\ view[v].pc \in {"solved", "count"}
    /\ view' = [view EXCEPT ![v] = NewView]
    /\ UNCHANGED solves

CatalogNext ==
    \/ \E v \in Readers : \/ List(v) \/ Solved(v) \/ Serve(v) \/ QueryFails(v)
                          \/ \E c \in Challenges : CountOne(v, c)
    \/ LedgerNext /\ UNCHANGED view

CatalogSpec == CatalogInit /\ [][CatalogNext]_catalogVars
-----------------------------------------------------------------------------
\* A projection put together from several queries still makes sense as one: a
\* challenge shown as solved by the team has a solver, and nothing shown is ahead
\* of the ledger or worth less than it is now, rounding and floor included, unless
\* the floor is above the initial value.
ViewMakesSense ==
    \A v \in Readers : \A e \in view[v].shown :
        /\ e.solvedByTeam => e.solves >= 1 /\ HasSolved(TeamOf[v], e.name)
        /\ e.solves <= Cardinality(SolvesOf(e.name))
        /\ Floor(SchemeOf[e.name]) <= Initial(SchemeOf[e.name]) =>
             e.value >= CurrentValue(SchemeOf[e.name], Cardinality(SolvesOf(e.name)))
=============================================================================
