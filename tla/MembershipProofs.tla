-------------------------- MODULE MembershipProofs --------------------------
(***************************************************************************)
(* What holds of Membership for any users, teams, browsers and tabs.       *)
(***************************************************************************)
EXTENDS Membership, FiniteSetTheorems, TLAPS

\* A handler that is about to answer with a team has enrolled the user in it; one
\* that has read a team from the table read one the user is or was in.
TeamInHand ==
    \A p \in Tabs : page[p].pc \in {"sign", "admit"} /\ page[p].team # NoTeam =>
        page[p].team \in been[User(p)]

\* Who signs in or passes the gate has an account, and the team that is joined
\* is a row of the table.
OnTheWay ==
    /\ \A p \in Tabs : page[p].pc \in {"login", "sign", "create", "find", "join", "admit"} =>
          User(p) \in accounts
    /\ \A p \in Tabs : At(p, "join") => page[p].team \in teams
    /\ \A p \in Tabs : page[p].pc \in {"create", "find", "join", "admit"} => page[p].team \in Teams
    /\ \A p \in Tabs : At(p, "admit") => member[User(p)] # NoTeam

\* The inductive invariant: what a claim may say depends on what the handlers
\* under way have read and written.
IInv ==
    TypeOK /\ TeamInHand /\ OnTheWay /\ ClaimWasTrue /\ TeamsAreFounded /\ PlayersHaveTeams

-----------------------------------------------------------------------------
\* What a step of the flow does to the pages.
LEMMA PageAfter ==
    ASSUME TypeOK, NEW p \in Tabs, NEW pc \in PCs, NEW t \in Teams \union {NoTeam},
           GotoWith(p, pc, t)
    PROVE  /\ page' \in [Tabs -> [pc : PCs, team : Teams \union {NoTeam}]]
           /\ page'[p].pc = pc /\ page'[p].team = t
           /\ \A q \in Tabs : q # p => page'[q] = page[q]
BY DEF GotoWith, TypeOK

\* Tabs belong to browsers, and browsers to users.
LEMMA UserType == ASSUME NEW p \in Tabs PROVE User(p) \in Users /\ BrowserOf[p] \in Browsers
BY MembershipAssumption DEF User

LEMMA InitIInv == Init => IInv
BY MembershipAssumption DEF Init, IInv, TypeOK, TeamInHand, OnTheWay, ClaimWasTrue, TeamsAreFounded,
   PlayersHaveTeams, At, PCs

\* A step that only moves a tab on, to a page whose demands are met.
Ready(p, pc, t) ==
    /\ pc \in PCs /\ t \in Teams \union {NoTeam}
    /\ pc \in {"sign", "admit"} /\ t # NoTeam => t \in been[User(p)]
    /\ pc \in {"login", "sign", "create", "find", "join", "admit"} => User(p) \in accounts
    /\ pc = "join" => t \in teams
    /\ pc \in {"create", "find", "join", "admit"} => t \in Teams
    /\ pc \in {"admit", "play"} => member[User(p)] # NoTeam

LEMMA MoveKeeps ==
    ASSUME IInv, NEW p \in Tabs, NEW pc, NEW t, Ready(p, pc, t), GotoWith(p, pc, t),
           UNCHANGED <<accounts, member, teams, cookie, been>>
    PROVE  IInv'
<1> USE DEF IInv
<1>1. /\ page' \in [Tabs -> [pc : PCs, team : Teams \union {NoTeam}]]
      /\ page'[p].pc = pc /\ page'[p].team = t
      /\ \A q \in Tabs : q # p => page'[q] = page[q]
  BY PageAfter DEF Ready
<1>2. TypeOK'
  BY <1>1 DEF TypeOK
<1>3. TeamInHand'
  BY <1>1 DEF TeamInHand, Ready, User
<1>4. OnTheWay'
  BY <1>1 DEF OnTheWay, Ready, User, At
<1>5. ClaimWasTrue' /\ TeamsAreFounded'
  BY DEF ClaimWasTrue, TeamsAreFounded
<1>6. PlayersHaveTeams'
  BY <1>1 DEF PlayersHaveTeams, Ready, User, At
<1>7. QED
  BY <1>2, <1>3, <1>4, <1>5, <1>6

\* A step that enrols the user of a tab, in a team of the table or a new one.
LEMMA EnrolKeeps ==
    ASSUME IInv, NEW p \in Tabs, NEW t \in Teams, User(p) \in accounts,
           Enrol(User(p), t), teams' = teams \union {t},
           GotoWith(p, "admit", t) \/ Goto(p, "choose"),
           UNCHANGED <<accounts, cookie>>
    PROVE  IInv'
<1> USE DEF IInv
<1> DEFINE u == User(p)
<1>0. u \in Users /\ TypeOK
  BY UserType
<1>1. /\ page' \in [Tabs -> [pc : PCs, team : Teams \union {NoTeam}]]
      /\ \/ page'[p].pc = "admit" /\ page'[p].team = t
         \/ page'[p].pc = "choose" /\ page'[p].team = NoTeam
      /\ \A q \in Tabs : q # p => page'[q] = page[q]
  <2>1. "admit" \in PCs /\ "choose" \in PCs
    BY DEF PCs
  <2>2. CASE GotoWith(p, "admit", t)
    BY <1>0, <2>1, <2>2, PageAfter
  <2>3. CASE Goto(p, "choose")
    BY <1>0, <2>1, <2>3, PageAfter DEF Goto
  <2>4. QED
    BY <2>2, <2>3
<1>2. /\ member'[u] = t /\ \A v \in Users : v # u => member'[v] = member[v]
      /\ member' \in [Users -> teams' \union {NoTeam}]
  BY <1>0 DEF Enrol, TypeOK
<1>3. /\ been'[u] = been[u] \union {t} /\ \A v \in Users : v # u => been'[v] = been[v]
      /\ been' \in [Users -> SUBSET teams']
  BY <1>0 DEF Enrol, TypeOK
<1>4. TypeOK'
  <2>1. teams' \subseteq Teams /\ cookie' \in [Browsers -> teams' \union {NoTeam, NoCookie}]
    BY DEF TypeOK
  <2>2. \A v \in Users : member'[v] # NoTeam => v \in accounts' /\ member'[v] \in been'[v]
    BY <1>2, <1>3 DEF TypeOK
  <2>3. QED
    BY <1>1, <1>2, <1>3, <2>1, <2>2 DEF TypeOK
<1>5. \A q \in Tabs : been[User(q)] \subseteq been'[User(q)] /\ (member[User(q)] # NoTeam => member'[User(q)] # NoTeam)
  BY <1>2, <1>3, UserType, MembershipAssumption
<1>6. TeamInHand'
  <2>1. \A q \in Tabs : page[q].pc \in {"sign", "admit"} /\ page[q].team # NoTeam =>
            page[q].team \in been'[User(q)]
    BY <1>5 DEF TeamInHand
  <2>2. page'[p].team # NoTeam => page'[p].team \in been'[User(p)]
    BY <1>1, <1>3
  <2>3. \A q \in Tabs : page'[q].pc \in {"sign", "admit"} /\ page'[q].team # NoTeam =>
            page'[q].team \in been'[User(q)]
    BY <1>1, <2>1, <2>2
  <2>4. QED
    BY <2>3 DEF TeamInHand, User
<1>7. OnTheWay'
  BY <1>1, <1>2, <1>5, MembershipAssumption DEF OnTheWay, User, At
<1>8. ClaimWasTrue'
  <2>1. \A b \in Browsers : cookie[b] \in Teams => cookie[b] \in been[PlayerOf[b]] /\ PlayerOf[b] \in Users
    BY MembershipAssumption DEF ClaimWasTrue
  <2>2. QED
    BY <1>3, <2>1 DEF ClaimWasTrue
<1>9. TeamsAreFounded'
  BY <1>0, <1>3 DEF TeamsAreFounded
<1>10. PlayersHaveTeams'
  BY <1>1, <1>5 DEF PlayersHaveTeams, User, At
<1>11. QED
  BY <1>4, <1>6, <1>7, <1>8, <1>9, <1>10

\* A step that puts the team in hand into the cookie.
LEMMA CookieKeeps ==
    ASSUME IInv, NEW p \in Tabs, page[p].pc \in {"sign", "admit"}, SetCookie(p),
           NEW pc, Ready(p, pc, NoTeam), Goto(p, pc),
           UNCHANGED <<accounts, member, teams, been>>
    PROVE  IInv'
<1> USE DEF IInv
<1>1. /\ page' \in [Tabs -> [pc : PCs, team : Teams \union {NoTeam}]]
      /\ page'[p].pc = pc /\ page'[p].team = NoTeam
      /\ \A q \in Tabs : q # p => page'[q] = page[q]
  BY PageAfter DEF Ready, Goto
<1>2. User(p) \in accounts /\ User(p) = PlayerOf[BrowserOf[p]] /\ BrowserOf[p] \in Browsers /\ User(p) \in Users
  BY UserType DEF OnTheWay, User
<1>3. page[p].team \in been[User(p)] \/ page[p].team = NoTeam
  BY DEF TeamInHand
<1>4. /\ cookie'[BrowserOf[p]] = page[p].team
      /\ \A b \in Browsers : b # BrowserOf[p] => cookie'[b] = cookie[b]
      /\ cookie' \in [Browsers -> teams' \union {NoTeam, NoCookie}]
  BY <1>2, <1>3 DEF SetCookie, TypeOK
<1>5. TypeOK'
  BY <1>1, <1>2, <1>4 DEF TypeOK
<1>6. TeamInHand' /\ OnTheWay'
  BY <1>1 DEF TeamInHand, OnTheWay, Ready, User, At
<1>7. ClaimWasTrue' /\ TeamsAreFounded'
  BY <1>2, <1>3, <1>4, MembershipAssumption DEF ClaimWasTrue, TeamsAreFounded
<1>8. PlayersHaveTeams'
  BY <1>1 DEF PlayersHaveTeams, Ready, User, At
<1>9. QED
  BY <1>5, <1>6, <1>7, <1>8

-----------------------------------------------------------------------------
\* Every step keeps the invariant.
LEMMA RegisterKeeps ==
    ASSUME IInv, NEW p \in Tabs, Register(p)
    PROVE  IInv'
<1> USE DEF IInv
<1>1. User(p) \in accounts' /\ accounts \subseteq accounts' /\ accounts' \subseteq Users
  BY UserType DEF Register, TypeOK
<1>2. /\ page' \in [Tabs -> [pc : PCs, team : Teams \union {NoTeam}]]
      /\ page'[p].pc \in {"login", "card"} /\ page'[p].team = NoTeam
      /\ \A q \in Tabs : q # p => page'[q] = page[q]
  <2>1. "login" \in PCs /\ "card" \in PCs
    BY DEF PCs
  <2>2. CASE Goto(p, "login")
    BY <2>1, <2>2, PageAfter DEF Goto
  <2>3. CASE Goto(p, "card")
    BY <2>1, <2>3, PageAfter DEF Goto
  <2>4. QED
    BY <2>2, <2>3 DEF Register
<1>3. TypeOK'
  BY <1>1, <1>2 DEF TypeOK, Register
<1>4. TeamInHand' /\ OnTheWay'
  BY <1>1, <1>2 DEF TeamInHand, OnTheWay, User, At, Register
<1>5. ClaimWasTrue' /\ TeamsAreFounded' /\ PlayersHaveTeams'
  BY <1>2 DEF ClaimWasTrue, TeamsAreFounded, PlayersHaveTeams, User, At, Register
<1>6. QED
  BY <1>3, <1>4, <1>5

LEMMA SignInKeeps ==
    ASSUME IInv, NEW p \in Tabs, Me(p) \/ ReadUser(p) \/ Gate(p)
    PROVE  IInv'
<1>1. CASE Me(p)
  <2>1. Ready(p, "gate", NoTeam) /\ Ready(p, "card", NoTeam)
    BY DEF Ready, PCs
  <2>2. QED
    BY <1>1, <2>1, MoveKeeps DEF Me, Goto
<1>2. CASE ReadUser(p)
  <2>1. Ready(p, "sign", member[User(p)])
    BY <1>2, UserType DEF Ready, PCs, ReadUser, IInv, TypeOK
  <2>2. QED
    BY <1>2, <2>1, MoveKeeps DEF ReadUser
<1>3. CASE Gate(p)
  <2>1. Ready(p, "choose", NoTeam) /\ (member[User(p)] # NoTeam => Ready(p, "play", NoTeam))
    BY DEF Ready, PCs
  <2>2. QED
    BY <1>3, <2>1, MoveKeeps DEF Gate, Goto
<1>4. QED
  BY <1>1, <1>2, <1>3

LEMMA RequestKeeps ==
    ASSUME IInv, NEW p \in Tabs,
           (\E t \in Teams : Ask(p, "create", t) \/ Ask(p, "find", t)) \/ FindTeam(p)
             \/ Refused(p) \/ Reload(p)
    PROVE  IInv'
<1>1. ASSUME NEW t \in Teams, NEW pc \in {"create", "find"}, Ask(p, pc, t)
      PROVE  IInv'
  <2>1. User(p) \in accounts
    BY <1>1, UserType DEF Ask, IInv, TypeOK, Claim, User
  <2>2. Ready(p, pc, t)
    BY <2>1 DEF Ready, PCs
  <2>3. QED
    BY <1>1, <2>2, MoveKeeps DEF Ask
<1>2. CASE FindTeam(p)
  <2>1. Ready(p, "join", page[p].team)
    BY <1>2 DEF FindTeam, At, Ready, PCs, IInv, OnTheWay, TypeOK
  <2>2. QED
    BY <1>2, <2>1, MoveKeeps DEF FindTeam
<1>3. CASE Refused(p) \/ Reload(p)
  <2>1. Ready(p, "card", NoTeam) /\ Ready(p, "choose", NoTeam) /\ Ready(p, "open", NoTeam)
    BY DEF Ready, PCs
  <2>2. QED
    BY <1>3, <2>1, MoveKeeps DEF Refused, Reload, Goto
<1>4. QED
  BY <1>1, <1>2, <1>3

LEMMA EnrolmentKeeps ==
    ASSUME IInv, NEW p \in Tabs, CreateTeam(p) \/ JoinTeam(p)
    PROVE  IInv'
<1>1. page[p].team \in Teams /\ User(p) \in accounts
  BY DEF CreateTeam, JoinTeam, At, IInv, OnTheWay
<1>2. teams' = teams \union {page[p].team}
  BY DEF CreateTeam, JoinTeam, At, IInv, OnTheWay
<1>3. QED
  BY <1>1, <1>2, EnrolKeeps DEF CreateTeam, JoinTeam, Answered

LEMMA AnswerKeeps ==
    ASSUME IInv, NEW p \in Tabs, Login(p) \/ Admit(p)
    PROVE  IInv'
<1>1. CASE Login(p)
  <2>1. Ready(p, "gate", NoTeam)
    BY DEF Ready, PCs
  <2>2. QED
    BY <1>1, <2>1, CookieKeeps DEF Login, At
<1>2. CASE Admit(p)
  <2>1. Ready(p, "play", NoTeam)
    BY <1>2 DEF Admit, Ready, PCs, IInv, OnTheWay
  <2>2. QED
    BY <1>2, <2>1, CookieKeeps DEF Admit, At
<1>3. QED
  BY <1>1, <1>2

LEMMA ExpireKeeps ==
    ASSUME IInv, NEW b \in Browsers, Expire(b)
    PROVE  IInv'
<1> USE DEF IInv, Expire
<1>1. TypeOK'
  BY DEF TypeOK
<1>2. TeamInHand' /\ OnTheWay' /\ TeamsAreFounded' /\ PlayersHaveTeams'
  BY DEF TeamInHand, OnTheWay, TeamsAreFounded, PlayersHaveTeams, At, User
<1>3. ClaimWasTrue'
  BY MembershipAssumption DEF ClaimWasTrue, TypeOK
<1>4. QED
  BY <1>1, <1>2, <1>3

LEMMA StutterKeeps == ASSUME IInv, UNCHANGED vars PROVE IInv'
BY DEF vars, IInv, TypeOK, TeamInHand, OnTheWay, ClaimWasTrue, TeamsAreFounded, PlayersHaveTeams,
   At, User

LEMMA StepIInv == IInv /\ [Next]_vars => IInv'
<1> SUFFICES ASSUME IInv, [Next]_vars
             PROVE  IInv'
  OBVIOUS
<1>1. CASE UNCHANGED vars
  BY <1>1, StutterKeeps
<1>2. ASSUME NEW p \in Tabs,
             \/ Me(p) \/ Register(p) \/ ReadUser(p) \/ Login(p) \/ Gate(p)
             \/ \E t \in Teams : Ask(p, "create", t) \/ Ask(p, "find", t)
             \/ CreateTeam(p) \/ FindTeam(p) \/ JoinTeam(p) \/ Admit(p)
             \/ Refused(p) \/ Reload(p)
      PROVE  IInv'
  BY <1>2, RegisterKeeps, SignInKeeps, RequestKeeps, EnrolmentKeeps, AnswerKeeps
<1>3. CASE \E b \in Browsers : Expire(b)
  BY <1>3, ExpireKeeps
<1>4. QED
  BY <1>1, <1>2, <1>3 DEF Next

LEMMA Invariance == Spec => []IInv
BY InitIInv, StepIInv, PTL DEF Spec

-----------------------------------------------------------------------------
\* Accounts, teams and sessions stay typed, and only accounts have teams and
\* sessions, for any number of users, devices and tabs.
THEOREM MembershipTyped == Spec => []TypeOK
<1>1. IInv => TypeOK
  BY DEF IInv
<1>2. QED
  BY <1>1, Invariance, PTL

\* A token never claims a team its user has not been in.
THEOREM ClaimsWereTrue == Spec => []ClaimWasTrue
<1>1. IInv => ClaimWasTrue
  BY DEF IInv
<1>2. QED
  BY <1>1, Invariance, PTL

\* No failure leaves a team behind that was never anybody's.
THEOREM NoTeamUnfounded == Spec => []TeamsAreFounded
<1>1. IInv => TeamsAreFounded
  BY DEF IInv
<1>2. QED
  BY <1>1, Invariance, PTL

\* Whoever got past the landing flow is in a team.
THEOREM LandingLeadsToTeam == Spec => []PlayersHaveTeams
<1>1. IInv => PlayersHaveTeams
  BY DEF IInv
<1>2. QED
  BY <1>1, Invariance, PTL

-----------------------------------------------------------------------------
\* The request of a user's only tab runs under the check it passed: nobody else
\* can have enrolled the user since.
Undisturbed ==
    \A p \in Tabs : TabsOf(User(p)) = {p} /\ page[p].pc \in {"create", "find", "join"} =>
        member[User(p)] = NoTeam

LEMMA SoleTab ==
    ASSUME NEW u \in Users, Cardinality(TabsOf(u)) = 1
    PROVE  \A p \in Tabs : User(p) = u => TabsOf(User(p)) = {p}
<1>1. IsFiniteSet(TabsOf(u))
  BY MembershipAssumption, FS_Subset DEF TabsOf
<1>2. PICK q : TabsOf(u) = {q}
  BY <1>1, FS_Singleton
<1>3. QED
  BY <1>2 DEF TabsOf

\* Who else takes part in a step: its tab, and nobody when a token expires.
LEMMA OneMoves ==
    ASSUME TypeOK, [Next]_vars
    PROVE  \/ page' = page /\ member' = member
           \/ \E p \in Tabs :
                /\ \A q \in Tabs : q # p => page'[q] = page[q]
                /\ \A u \in Users : u # User(p) => member'[u] = member[u]
                /\ \/ member' = member
                   \/ page[p].pc \in {"create", "join"} /\ page'[p].pc \in {"admit", "choose"}
                /\ page'[p].pc \in {"create", "find", "join"} =>
                     /\ member' = member
                     /\ page[p].pc = "find" \/ member[User(p)] = NoTeam
<1> SUFFICES ASSUME page' # page \/ member' # member
             PROVE  \E p \in Tabs :
                /\ \A q \in Tabs : q # p => page'[q] = page[q]
                /\ \A u \in Users : u # User(p) => member'[u] = member[u]
                /\ \/ member' = member
                   \/ page[p].pc \in {"create", "join"} /\ page'[p].pc \in {"admit", "choose"}
                /\ page'[p].pc \in {"create", "find", "join"} =>
                     /\ member' = member
                     /\ page[p].pc = "find" \/ member[User(p)] = NoTeam
  OBVIOUS
<1>1. PICK p \in Tabs :
             \/ Me(p) \/ Register(p) \/ ReadUser(p) \/ Login(p) \/ Gate(p)
             \/ \E t \in Teams : Ask(p, "create", t) \/ Ask(p, "find", t)
             \/ CreateTeam(p) \/ FindTeam(p) \/ JoinTeam(p) \/ Admit(p)
             \/ Refused(p) \/ Reload(p)
  BY DEF Next, vars, Expire
<1>2. \A q \in Tabs : q # p => page'[q] = page[q]
  BY <1>1 DEF TypeOK, Me, Register, ReadUser, Login, Gate, Ask, CreateTeam, FindTeam, JoinTeam,
     Admit, Refused, Reload, Answered, Goto, GotoWith
<1>3. \A u \in Users : u # User(p) => member'[u] = member[u]
  BY <1>1 DEF TypeOK, Me, Register, ReadUser, Login, Gate, Ask, CreateTeam, FindTeam, JoinTeam,
     Admit, Refused, Reload, Enrol
<1>4. \/ member' = member
      \/ page[p].pc \in {"create", "join"} /\ page'[p].pc \in {"admit", "choose"}
  BY <1>1 DEF TypeOK, Me, Register, ReadUser, Login, Gate, Ask, CreateTeam, FindTeam, JoinTeam,
     Admit, Refused, Reload, Answered, Goto, GotoWith, At
<1>5. ASSUME page'[p].pc \in {"create", "find", "join"}
      PROVE  /\ member' = member
             /\ page[p].pc = "find" \/ member[User(p)] = NoTeam
  BY <1>1, <1>5 DEF TypeOK, Me, Register, ReadUser, Login, Gate, Ask, CreateTeam, FindTeam, JoinTeam,
     Admit, Refused, Reload, Answered, Goto, GotoWith, At
<1>6. QED
  BY <1>2, <1>3, <1>4, <1>5

LEMMA UndisturbedStep == TypeOK /\ Undisturbed /\ [Next]_vars => Undisturbed'
<1> SUFFICES ASSUME TypeOK, Undisturbed, [Next]_vars,
                    NEW q \in Tabs, TabsOf(User(q)) = {q},
                    page'[q].pc \in {"create", "find", "join"}
             PROVE  member'[User(q)] = NoTeam
  BY DEF Undisturbed, TabsOf, User
<1>1. CASE page' = page /\ member' = member
  BY <1>1 DEF Undisturbed
<1>2. ASSUME NEW p \in Tabs,
             /\ \A o \in Tabs : o # p => page'[o] = page[o]
             /\ \A u \in Users : u # User(p) => member'[u] = member[u]
             /\ \/ member' = member
                \/ page[p].pc \in {"create", "join"} /\ page'[p].pc \in {"admit", "choose"}
             /\ page'[p].pc \in {"create", "find", "join"} =>
                  /\ member' = member
                  /\ page[p].pc = "find" \/ member[User(p)] = NoTeam
      PROVE  member'[User(q)] = NoTeam
  <2>1. CASE p = q
    BY <1>2, <2>1 DEF Undisturbed
  <2>2. CASE p # q
    <3>1. User(p) # User(q)
      BY <2>2 DEF TabsOf
    <3>2. QED
      BY <1>2, <2>2, <3>1, UserType DEF Undisturbed
  <2>3. QED
    BY <2>1, <2>2
<1>3. QED
  BY <1>1, <1>2, OneMoves

\* Whatever fails and whoever else plays, a player with one tab, and so one request
\* at a time, who has a team stays in it.
THEOREM OneTabIsFinal == Spec => OneTabStays
<1>1. Init => Undisturbed
  BY DEF Init, Undisturbed
<1>2. TypeOK /\ Undisturbed /\ [Next]_vars =>
        [\A u \in Users : Cardinality(TabsOf(u)) = 1 /\ member[u] # NoTeam =>
            member'[u] = member[u]]_member
  <2> SUFFICES ASSUME TypeOK, Undisturbed, [Next]_vars,
                      NEW u \in Users, Cardinality(TabsOf(u)) = 1, member[u] # NoTeam
               PROVE  member'[u] = member[u]
    OBVIOUS
  <2>1. \A p \in Tabs : User(p) = u => page[p].pc \notin {"create", "join"}
    BY SoleTab DEF Undisturbed
  <2>2. QED
    BY <2>1, OneMoves
<1>3. QED
  BY <1>1, <1>2, UndisturbedStep, MembershipTyped, PTL DEF Spec, OneTabStays
=============================================================================
