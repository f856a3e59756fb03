----------------------------- MODULE Membership -----------------------------
(***************************************************************************)
(* Accounts, sessions and teams: internal/auth, internal/teams, the users  *)
(* and teams tables, and the landing flow of the client                    *)
(* (frontend/src/ui/auth.ts) that leads a player through them.             *)
(*                                                                         *)
(* The session is a signed token in a cookie; the team it claims is the    *)
(* one the handler knew when it issued the token.  Tabs of one browser     *)
(* share the cookie, browsers of one player do not.  A tab is one attempt  *)
(* at a time: the one that the Enter key starts on the login card while    *)
(* its button is disabled (auth.ts:86), with the gate it leads to, is      *)
(* another tab of that browser, and a request abandoned by a reload is one *)
(* of another tab whose answer is lost.                                    *)
(***************************************************************************)
EXTENDS FiniteSets

CONSTANTS Users, Teams, Browsers, Tabs,
          PlayerOf,     \* browser -> the user who plays with it
          BrowserOf,    \* tab -> its browser
          NoTeam,       \* NULL in users.team_id, and the empty claim
          NoCookie

ASSUME MembershipAssumption ==
    /\ PlayerOf \in [Browsers -> Users]
    /\ BrowserOf \in [Tabs -> Browsers] /\ IsFiniteSet(Tabs)
    /\ NoTeam \notin Teams /\ NoCookie \notin Teams \union {NoTeam}

VARIABLES accounts,     \* rows of the users table
          member,       \* users.team_id
          teams,        \* rows of the teams table: names and codes are unique
          cookie,       \* browser -> the team claim of its token
          page,         \* tab -> where the landing flow stands; "team" is the
                        \* handler's variable of the request in flight
          been          \* history: the teams a user has been in

vars == <<accounts, member, teams, cookie, page, been>>

Init ==
    /\ accounts = {} /\ teams = {}
    /\ member = [u \in Users |-> NoTeam]
    /\ cookie = [b \in Browsers |-> NoCookie]
    /\ page = [p \in Tabs |-> [pc |-> "open", team |-> NoTeam]]
    /\ been = [u \in Users |-> {}]

User(p) == PlayerOf[BrowserOf[p]]
Claim(p) == cookie[BrowserOf[p]]
At(p, pc) == page[p].pc = pc
GotoWith(p, pc, t) == page' = [page EXCEPT ![p] = [pc |-> pc, team |-> t]]
Goto(p, pc) == GotoWith(p, pc, NoTeam)

SetCookie(p) == cookie' = [cookie EXCEPT ![BrowserOf[p]] = page[p].team]

-----------------------------------------------------------------------------
\* Signing in.

\* Already logged in?  Any failure leads to the card.
Me(p) ==
    /\ At(p, "open")
    /\ (Claim(p) # NoCookie /\ Goto(p, "gate")) \/ Goto(p, "card")
    /\ UNCHANGED <<accounts, member, teams, cookie, been>>

\* A taken name is a 409, which leaves the card as it is.
Register(p) ==
    /\ At(p, "card")
    /\ User(p) \notin accounts
    /\ accounts' = accounts \union {User(p)}
    /\ Goto(p, "login") \/ Goto(p, "card")     \* the answer arrives, or not
    /\ UNCHANGED <<member, teams, cookie, been>>

\* GetUserByLogin reads the team; the password is checked after that.
ReadUser(p) ==
    /\ page[p].pc \in {"card", "login"}
    /\ User(p) \in accounts
    /\ GotoWith(p, "sign", member[User(p)])
    /\ UNCHANGED <<accounts, member, teams, cookie, been>>

Login(p) ==
    /\ At(p, "sign")
    /\ SetCookie(p)
    /\ Goto(p, "gate")
    /\ UNCHANGED <<accounts, member, teams, been>>

-----------------------------------------------------------------------------
\* The team gate.

\* Seeded defect: every answer opens the gate.
GateOpen(p) ==
    /\ At(p, "gate")
    /\ Goto(p, "play")
    /\ UNCHANGED <<accounts, member, teams, cookie, been>>

\* Mine reads the users table, not the claim; any failure leads to the card.
Gate(p) ==
    /\ At(p, "gate")
    /\ (Claim(p) # NoCookie /\ member[User(p)] # NoTeam /\ Goto(p, "play")) \/ Goto(p, "choose")
    /\ UNCHANGED <<accounts, member, teams, cookie, been>>

\* Seeded defect: the check looks at the claim instead of the table.
AskByClaim(p, pc, t) ==
    /\ At(p, "choose")
    /\ Claim(p) = NoTeam
    /\ GotoWith(p, pc, t)
    /\ UNCHANGED <<accounts, member, teams, cookie, been>>

\* Create and Join begin with the same check: who has a team gets a 409.
Ask(p, pc, t) ==
    /\ At(p, "choose")
    /\ Claim(p) # NoCookie
    /\ member[User(p)] = NoTeam
    /\ GotoWith(p, pc, t)
    /\ UNCHANGED <<accounts, member, teams, cookie, been>>

Enrol(u, t) ==
    /\ member' = [member EXCEPT ![u] = t]
    /\ been' = [been EXCEPT ![u] = @ \union {t}]

\* What the tab sees of a request that succeeded: its answer, or an error that
\* hides the success (connection or replica lost).
Answered(p) == GotoWith(p, "admit", page[p].team) \/ Goto(p, "choose")

\* Seeded defect: the team is inserted outside the transaction.
CreateTeamAlone(p) ==
    /\ At(p, "create")
    /\ page[p].team \notin teams
    /\ teams' = teams \union {page[p].team}
    /\ (Enrol(User(p), page[p].team) /\ Answered(p))
         \/ (UNCHANGED <<member, been>> /\ Goto(p, "choose"))
    /\ UNCHANGED <<accounts, cookie>>

\* The transaction of store.CreateTeam; a taken name is a 409.
CreateTeam(p) ==
    /\ At(p, "create")
    /\ page[p].team \notin teams
    /\ teams' = teams \union {page[p].team}
    /\ Enrol(User(p), page[p].team)
    /\ Answered(p)
    /\ UNCHANGED <<accounts, cookie>>

\* Seeded defect: any code is good.
FindAnyTeam(p) ==
    /\ At(p, "find")
    /\ GotoWith(p, "join", page[p].team)
    /\ UNCHANGED <<accounts, member, teams, cookie, been>>

\* GetTeamByInviteCode.
FindTeam(p) ==
    /\ At(p, "find")
    /\ page[p].team \in teams
    /\ GotoWith(p, "join", page[p].team)
    /\ UNCHANGED <<accounts, member, teams, cookie, been>>

\* Seeded defect: an error of JoinTeam is not looked at.
JoinUnchecked(p) ==
    /\ At(p, "join")
    /\ Enrol(User(p), page[p].team) \/ UNCHANGED <<member, been>>
    /\ Answered(p)
    /\ UNCHANGED <<accounts, teams, cookie>>

\* UPDATE users SET team_id, whatever it was.
JoinTeam(p) ==
    /\ At(p, "join")
    /\ Enrol(User(p), page[p].team)
    /\ Answered(p)
    /\ UNCHANGED <<accounts, teams, cookie>>

\* refreshToken: the answer brings a token that claims the new team.
Admit(p) ==
    /\ At(p, "admit")
    /\ SetCookie(p)
    /\ Goto(p, "play")
    /\ UNCHANGED <<accounts, member, teams, been>>

-----------------------------------------------------------------------------
\* A request fails or is refused: wrong password, name taken, no such code, or
\* an error without effect.
Refused(p) ==
    /\ \/ page[p].pc \in {"login", "sign"} /\ Goto(p, "card")
       \/ page[p].pc \in {"create", "find", "join"} /\ Goto(p, "choose")
    /\ UNCHANGED <<accounts, member, teams, cookie, been>>

Reload(p) ==
    /\ page[p].pc \in {"card", "choose", "play"}
    /\ Goto(p, "open")
    /\ UNCHANGED <<accounts, member, teams, cookie, been>>

\* A token is good for 24 hours.
Expire(b) ==
    /\ cookie' = [cookie EXCEPT ![b] = NoCookie]
    /\ UNCHANGED <<accounts, member, teams, page, been>>

Next ==
    \/ \E p \in Tabs :
         \/ Me(p) \/ Register(p) \/ ReadUser(p) \/ Login(p) \/ Gate(p)
         \/ \E t \in Teams : Ask(p, "create", t) \/ Ask(p, "find", t)
         \/ CreateTeam(p) \/ FindTeam(p) \/ JoinTeam(p) \/ Admit(p)
         \/ Refused(p) \/ Reload(p)
    \/ \E b \in Browsers : Expire(b)

Spec == Init /\ [][Next]_vars
-----------------------------------------------------------------------------
PCs == {"open", "card", "login", "sign", "gate", "choose", "create", "find", "join", "admit",
        "play"}

\* The type invariant; only accounts have teams and sessions.
TypeOK ==
    /\ accounts \subseteq Users
    /\ teams \subseteq Teams
    /\ member \in [Users -> teams \union {NoTeam}]
    /\ cookie \in [Browsers -> teams \union {NoTeam, NoCookie}]
    /\ page \in [Tabs -> [pc : PCs, team : Teams \union {NoTeam}]]
    /\ been \in [Users -> SUBSET teams]
    /\ \A u \in Users : member[u] # NoTeam => u \in accounts /\ member[u] \in been[u]
    /\ \A b \in Browsers : cookie[b] # NoCookie => PlayerOf[b] \in accounts

\* A token never claims a team its user has not been in: scoring trusts the claim
\* without a look at the table, so a claim issued for a membership that was never
\* committed would score for strangers.
ClaimWasTrue ==
    \A b \in Browsers : cookie[b] \in Teams => cookie[b] \in been[PlayerOf[b]]

\* Every team of the table has been somebody's: no failure leaves a team behind
\* whose name is taken and whose invite code nobody has ever seen.
TeamsAreFounded == \A t \in teams : \E u \in Users : t \in been[u]

\* "Resolves once the user is authenticated AND in a team" (auth.ts:7): who got
\* past the landing flow is in a team, however many tabs and failures later.
PlayersHaveTeams == \A p \in Tabs : At(p, "play") => member[User(p)] # NoTeam

TabsOf(u) == {p \in Tabs : User(p) = u}

\* With one attempt at a time, in one tab, a player stays in the first team: lost
\* answers, retries and reloads, and whatever others do, never lead to a second one.
OneTabStays ==
    [][\A u \in Users : Cardinality(TabsOf(u)) = 1 /\ member[u] # NoTeam =>
          member'[u] = member[u]]_member
=============================================================================
