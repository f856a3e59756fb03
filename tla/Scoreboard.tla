----------------------------- MODULE Scoreboard -----------------------------
(***************************************************************************)
(* The ranking query of store.Scoreboard over the solves ledger:           *)
(*   ORDER BY points DESC, last_solve ASC NULLS LAST, name ASC.            *)
(***************************************************************************)
EXTENDS SolveLedger, FiniteSetsExt

CONSTANTS
    NameOrder,  \* teams.name, as its rank in the alphabetical order
    CreatedAt   \* created_at of the row that a team may get for a challenge

ASSUME NameAssumption ==
    /\ IsFiniteSet(Teams)
    /\ NameOrder \in [Teams -> Nat]
    /\ \A t, u \in Teams : NameOrder[t] = NameOrder[u] => t = u

\* DEFAULT now(): when the transaction of the insert began.  Rows may be stamped alike,
\* or in another order than they are committed in.
ASSUME ClockAssumption == CreatedAt \in [Teams \X Challenges -> Nat]

RowsOf(t) == {s \in solves : s.team = t}

\* COALESCE(SUM(points), 0)
Total(t) == MapThenSumSet(LAMBDA s : s.points, RowsOf(t))

Stamp(s) == CreatedAt[s.team, s.challenge]

\* MAX(created_at); a team without a solve has none and sorts last.
Earlier(t, u) ==
    /\ RowsOf(t) # {}
    /\ \/ RowsOf(u) = {}
       \/ Max({Stamp(s) : s \in RowsOf(t)}) < Max({Stamp(s) : s \in RowsOf(u)})

TiedOnTime(t, u) == ~Earlier(t, u) /\ ~Earlier(u, t)

\* Seeded defects: the sort without its last column; the time looked at first.
AboveWithoutName(t, u) ==
    \/ Total(t) > Total(u)
    \/ Total(t) = Total(u) /\ Earlier(t, u)

AboveByTime(t, u) ==
    \/ Earlier(t, u)
    \/ TiedOnTime(t, u) /\ NameOrder[t] < NameOrder[u]

\* t is listed before u.
Above(t, u) ==
    \/ Total(t) > Total(u)
    \/ Total(t) = Total(u) /\ Earlier(t, u)
    \/ Total(t) = Total(u) /\ TiedOnTime(t, u) /\ NameOrder[t] < NameOrder[u]

Place(t) == Cardinality({u \in Teams : Above(u, t)}) + 1

-----------------------------------------------------------------------------
\* The type invariant of the ledger, part of the next property.
LedgerTypeOK ==
    /\ solves \subseteq Row
    /\ \A s1, s2 \in solves : s1.at = s2.at => s1 = s2

\* The query always has exactly one answer: whatever the ties in points and
\* in time, every place from 1 to the number of teams is taken by one team,
\* so two replicas answering the same table list the teams alike.
RankingIsTotal == LedgerTypeOK /\ {Place(t) : t \in Teams} = 1..Cardinality(Teams)

\* Scoring on a challenge worth something never costs a team its place, and
\* never changes the order of the other teams between them, although the same
\* insert may move the team's last_solve, the tie-breaker, to a later time.
SolveNeverDemotes ==
    [][\A t \in Teams :
        (RowsOf(t))' # RowsOf(t) /\ (Total(t))' > Total(t) =>
            /\ (Place(t))' <= Place(t)
            /\ \A u, v \in Teams \ {t} : (Above(u, v))' = Above(u, v)]_solves
=============================================================================
