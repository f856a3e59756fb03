--------------------------- MODULE RequestProofs ---------------------------
(***************************************************************************)
(* What holds of the requests that read: of Serving, for any number of     *)
(* requests, tokens, blobs and references, and of Scoreboard and Catalog,  *)
(* for any number of teams, challenges, schemes and readers.               *)
(*                                                                         *)
(* For Serving the strengthening is a statement about each request on its  *)
(* own (Sound), and one about the cache, the only thing requests share: a  *)
(* blob in it has the digest it is under.  For Catalog it is one about     *)
(* each projection (ViewOK), of which rows that are only ever added change *)
(* nothing.  What the ranking query answers is a fact about every table:   *)
(* its sum and its three columns are reasoned about as they are defined.   *)
(***************************************************************************)
EXTENDS Serving, Catalog, ScoringProofs

Handlers == {"attachment", "team", "fetch", "pull", "put"}

Answers == {0, 200, 401, 403, 404, 500, 502}

Req == [pc : PCs, claims : Claims \union {Nothing}, want : Entry \union {Nothing},
        body : Blobs \union Claims \union {Nothing}, status : Answers]

\* The claims in hand are those of the token presented; handlers have some.
Identified(r) ==
    /\ req[r].pc \in Handlers => req[r].claims # Nothing
    /\ req[r].claims # Nothing =>
         Presented(ask[r]) \in Tokens /\ req[r].claims = ClaimsOf[Presented(ask[r])]

\* What a download has in hand at each point, and what it answered with.
Backed(r) ==
    /\ req[r].pc \in Handlers \ {"team"} => ask[r].route = "attachment"
    /\ req[r].pc = "team" => ask[r].route = "team"
    /\ req[r].pc \notin {"leave", "done"} => req[r].status = 0
    /\ req[r].pc \in {"fetch", "pull", "put"} => req[r].want \in Entry
    /\ req[r].pc = "put" => req[r].body \in Blobs /\ Sha[req[r].body] = req[r].want.sha
    /\ ask[r].route = "attachment" /\ req[r].status = 200 =>
         req[r].body \in Blobs /\ Sha[req[r].body] = req[r].want.sha

\* The one line of an answered request, and none before.
Logged(r) ==
    /\ ~At(r, "done") => log[r] = <<>>
    /\ At(r, "done") =>
         /\ Len(log[r]) = 1
         /\ log[r][1].status = req[r].status
         /\ ask[r].parent # Nothing => log[r][1].trace = ask[r].parent
         /\ req[r].claims # Nothing =>
              log[r][1].claims = req[r].claims \/ Presented(ask[r]) \in expired

Line == [status : Answers, trace : Requests \union {"upstream", Nothing},
         claims : Claims \union {Nothing}]

WorldTyped ==
    /\ files \in [Files -> Entry \union {Nothing}] \union {Nothing}
    /\ registry \in [Refs -> Blobs \union {Nothing}]
    /\ expired \subseteq Tokens

CacheSound ==
    /\ cache \in [Digests -> Blobs \union {Nothing}]
    /\ \A d \in Digests : cache[d] # Nothing => Sha[cache[d]] = d

RequestsTyped ==
    /\ ask \in [Requests -> Asks]
    /\ req \in [Requests -> Req]
    /\ log \in [Requests -> Seq(Line)]

Sound(r) == Identified(r) /\ Backed(r) /\ Logged(r)

IInv == WorldTyped /\ CacheSound /\ RequestsTyped /\ \A r \in Requests : Sound(r)

-----------------------------------------------------------------------------
\* The claims looked up are those of a token that is presented, or none.
LEMMA LookUp ==
    ASSUME NEW r \in Requests, ask[r] \in Ask
    PROVE  /\ ClaimsFromRequest(r) \in Claims \union {Nothing}
           /\ ClaimsFromRequest(r) # Nothing =>
                Presented(ask[r]) \in Tokens /\ ClaimsFromRequest(r) = ClaimsOf[Presented(ask[r])]
           /\ Presented(ask[r]) \in Tokens \ expired =>
                ClaimsFromRequest(r) = ClaimsOf[Presented(ask[r])]
<1>1. CASE Presented(ask[r]) \in Tokens \ expired
  BY <1>1 DEF ClaimsFromRequest, Claims
<1>2. CASE Presented(ask[r]) \notin Tokens \ expired
  BY <1>2 DEF ClaimsFromRequest
<1>3. QED
  BY <1>1, <1>2

\* Initially nothing was asked, cached or logged.
LEMMA InitSound == Init => IInv
<1>1. SUFFICES ASSUME Init PROVE IInv
  OBVIOUS
<1>2. WorldTyped /\ CacheSound
  BY <1>1 DEF Init, WorldTyped, CacheSound, NoFiles
<1>3. Fresh("idle") \in Req
  BY DEF Fresh, Stand, Req, PCs, Answers
<1>4. RequestsTyped
  BY <1>1, <1>3 DEF Init, RequestsTyped
<1>5. ASSUME NEW r \in Requests PROVE Sound(r)
  <2>1. req[r] = Fresh("idle") /\ log[r] = <<>>
    BY <1>1 DEF Init
  <2>2. QED
    BY <2>1 DEF Sound, Identified, Backed, Logged, At, Fresh, Stand, Handlers
<1>6. QED
  BY <1>2, <1>4, <1>5 DEF IInv

\* A step of r that leaves the others, the world and the log alone preserves the
\* invariant if what r then stands at is sound and the cache stays so.
LEMMA StepOfOne ==
    ASSUME IInv, NEW r \in Requests, NEW stand \in Req, Goto(r, stand),
           UNCHANGED <<worldVars, ask, log>>, CacheSound', ~At(r, "done"),
           stand.pc # "done", Identified(r)', Backed(r)'
    PROVE  IInv'
<1>1. WorldTyped' /\ ask' = ask /\ log' = log /\ expired' = expired
  BY DEF IInv, WorldTyped, worldVars
<1>2. req' = [req EXCEPT ![r] = stand] /\ req \in [Requests -> Req]
  BY DEF Goto, IInv, RequestsTyped
<1>3. RequestsTyped'
  BY <1>1, <1>2 DEF IInv, RequestsTyped
<1>4. req'[r] = stand
  BY <1>2
<1>5. Logged(r)'
  BY <1>1, <1>4 DEF IInv, Sound, Logged, At
<1>6. ASSUME NEW q \in Requests, q # r PROVE Sound(q)'
  <2>1. req'[q] = req[q]
    BY <1>2, <1>6
  <2>2. Sound(q)
    BY DEF IInv
  <2>3. QED
    BY <2>1, <2>2, <1>1 DEF Sound, Identified, Backed, Logged, At
<1>7. ASSUME NEW q \in Requests PROVE Sound(q)'
  BY <1>5, <1>6 DEF Sound
<1>8. QED
  BY <1>1, <1>3, <1>7 DEF IInv

\* What is known of a request whose handler is about to make a step.
LEMMA Before ==
    ASSUME IInv, NEW r \in Requests
    PROVE  /\ ask[r] \in Ask /\ req[r] \in Req
           /\ Identified(r) /\ Backed(r) /\ CacheSound /\ WorldTyped
BY ServingAssumption DEF IInv, RequestsTyped, Sound

\* The same for a step that ends with an answer.
LEMMA AnswerSound ==
    ASSUME IInv, NEW r \in Requests, NEW status \in Answers,
           NEW body \in Blobs \union Claims \union {Nothing},
           Reply(r, status, body), UNCHANGED <<worldVars, ask, log>>, CacheSound',
           req[r].pc \notin {"leave", "done"},
           ask[r].route = "attachment" /\ status = 200 =>
             body \in Blobs /\ Sha[body] = req[r].want.sha
    PROVE  IInv'
<1> DEFINE stand == Stand("leave", req[r].claims, req[r].want, body, status)
<1>1. req[r] \in Req /\ Identified(r)
  BY Before
<1>2. stand \in Req
  BY <1>1 DEF Req, Stand, PCs
<1>3. req'[r] = stand /\ ask' = ask
  BY DEF Reply, Goto, IInv, RequestsTyped
<1>4. Identified(r)'
  BY <1>1, <1>3 DEF Identified, Stand, Handlers
<1>5. Backed(r)'
  BY <1>3 DEF Backed, Stand, Handlers
<1>6. stand.pc # "done" /\ ~At(r, "done") /\ Goto(r, stand)
  BY DEF Stand, At, Reply
<1>7. QED
  BY <1>2, <1>4, <1>5, <1>6, StepOfOne

\* Routes that need no session.
LEMMA OpenSound == ASSUME IInv, NEW r \in Requests, Open(r) PROVE IInv'
<1>1. CacheSound'
  BY Before DEF Open, Quietly, CacheSound
<1>2. PICK status \in Answers : Reply(r, status, Nothing) /\ ask[r].route # "attachment"
  BY DEF Open, Answers
<1>3. UNCHANGED <<worldVars, ask, log>> /\ req[r].pc \notin {"leave", "done"}
  BY DEF Open, Quietly, At
<1>4. QED
  BY <1>1, <1>2, <1>3, AnswerSound

LEMMA VerifySound == ASSUME IInv, NEW r \in Requests, Verify(r) PROVE IInv'
<1> DEFINE c == ClaimsFromRequest(r)
<1>1. CacheSound'
  BY Before DEF Verify, Quietly, CacheSound
<1>2. c \in Claims \union {Nothing}
  BY Before, LookUp
<1>3. Reply(r, IF c = Nothing THEN 401 ELSE 200, c) /\ ask[r].route # "attachment"
  BY DEF Verify
<1>4. UNCHANGED <<worldVars, ask, log>> /\ req[r].pc \notin {"leave", "done"}
  BY DEF Verify, Quietly, At
<1>5. (IF c = Nothing THEN 401 ELSE 200) \in Answers
  BY DEF Answers
<1>6. QED
  BY <1>1, <1>2, <1>3, <1>4, <1>5, AnswerSound

\* The claims go to the handler only if there are some.
LEMMA MiddlewareSound == ASSUME IInv, NEW r \in Requests, Middleware(r) PROVE IInv'
<1> DEFINE c == ClaimsFromRequest(r)
           stand == Stand(ask[r].route, c, Nothing, Nothing, 0)
<1>1. CacheSound'
  BY Before DEF Middleware, Quietly, CacheSound
<1>2. /\ UNCHANGED <<worldVars, ask, log>> /\ req[r].pc \notin {"leave", "done"}
      /\ ask[r].route \in {"attachment", "team"}
  BY DEF Middleware, Quietly, At, Guarded
<1>3. CASE c = Nothing
  <2>1. Reply(r, 401, Nothing) /\ 401 \in Answers
    BY <1>3 DEF Middleware, Answers
  <2>2. QED
    BY <2>1, <1>1, <1>2, AnswerSound
<1>4. CASE c # Nothing
  <2>1. c \in Claims /\ Presented(ask[r]) \in Tokens /\ c = ClaimsOf[Presented(ask[r])]
    BY <1>4, Before, LookUp
  <2>2. stand \in Req /\ stand.pc # "done" /\ ~At(r, "done")
    BY <1>2, <2>1 DEF Req, Stand, PCs, Answers, At
  <2>3. Goto(r, stand)
    BY <1>4 DEF Middleware
  <2>4. req'[r] = stand /\ ask' = ask
    BY <1>2, <2>3 DEF Goto, IInv, RequestsTyped
  <2>5. Identified(r)'
    BY <1>4, <2>1, <2>4 DEF Identified, Stand
  <2>6. Backed(r)'
    BY <1>2, <2>4 DEF Backed, Stand, Handlers
  <2>7. QED
    BY <1>1, <1>2, <2>2, <2>3, <2>5, <2>6, StepOfOne
<1>5. QED
  BY <1>3, <1>4

LEMMA TeamSound == ASSUME IInv, NEW r \in Requests, Team(r) \/ Panic(r) PROVE IInv'
<1>1. CacheSound'
  BY Before DEF Team, Panic, Quietly, CacheSound
<1>2. UNCHANGED <<worldVars, ask, log>> /\ req[r].pc = "team"
  BY DEF Team, Panic, Quietly, At
<1>3. PICK status \in Answers : Reply(r, status, Nothing)
  BY DEF Team, Panic, Answers
<1>4. ask[r].route # "attachment"
  BY <1>2, Before DEF Backed
<1>5. QED
  BY <1>1, <1>2, <1>3, <1>4, AnswerSound

LEMMA AttachmentSound == ASSUME IInv, NEW r \in Requests, Attachment(r) PROVE IInv'
<1> DEFINE entry == files[ask[r].file]
           stand == Stand("fetch", req[r].claims, entry, Nothing, 0)
<1>1. CacheSound'
  BY Before DEF Attachment, Quietly, CacheSound
<1>2. UNCHANGED <<worldVars, ask, log>> /\ req[r].pc = "attachment"
  BY DEF Attachment, Quietly, At
<1>3. CASE files = Nothing \/ entry = Nothing
  <2>1. Reply(r, 404, Nothing) /\ 404 \in Answers
    BY <1>3 DEF Attachment, Answers
  <2>2. QED
    BY <1>1, <1>2, <2>1, AnswerSound
<1>4. CASE files # Nothing /\ entry # Nothing
  <2>1. files \in [Files -> Entry \union {Nothing}] /\ ask[r].file \in Files
    BY <1>4, Before DEF WorldTyped, Ask
  <2>2. entry \in Entry
    BY <1>4, <2>1
  <2>3. stand \in Req /\ stand.pc # "done" /\ ~At(r, "done")
    BY <1>2, <2>2, Before DEF Req, Stand, PCs, Answers, At
  <2>4. Goto(r, stand)
    BY <1>4 DEF Attachment
  <2>5. req'[r] = stand /\ ask' = ask
    BY <1>2, <2>4 DEF Goto, IInv, RequestsTyped
  <2>6. Identified(r)'
    BY <1>2, <2>5, Before DEF Identified, Stand, Handlers
  <2>7. Backed(r)'
    BY <1>2, <2>2, <2>5, Before DEF Backed, Stand, Handlers
  <2>8. QED
    BY <1>1, <1>2, <2>3, <2>4, <2>6, <2>7, StepOfOne
<1>5. QED
  BY <1>3, <1>4

\* What comes from the cache has the digest that was asked for.
LEMMA GetSound == ASSUME IInv, NEW r \in Requests, Get(r) PROVE IInv'
<1> DEFINE b == cache[req[r].want.sha]
           stand == Stand("pull", req[r].claims, req[r].want, Nothing, 0)
<1>1. CacheSound'
  BY Before DEF Get, Quietly, CacheSound
<1>2. UNCHANGED <<worldVars, ask, log>> /\ req[r].pc = "fetch"
  BY DEF Get, Quietly, At
<1>3. req[r].want \in Entry /\ req[r].want.sha \in Digests
  BY <1>2, Before DEF Backed, Entry
<1>4. CASE b # Nothing
  <2>1. b \in Blobs /\ Sha[b] = req[r].want.sha
    BY <1>3, <1>4, Before DEF CacheSound
  <2>2. Reply(r, 200, b) /\ 200 \in Answers
    BY <1>4 DEF Get, Answers
  <2>3. QED
    BY <1>1, <1>2, <2>1, <2>2, AnswerSound
<1>5. CASE b = Nothing
  <2>1. Goto(r, stand)
    BY <1>5 DEF Get
  <2>2. stand \in Req /\ stand.pc # "done" /\ ~At(r, "done")
    BY <1>2, Before DEF Req, Stand, PCs, Answers, At
  <2>3. req'[r] = stand /\ ask' = ask
    BY <1>2, <2>1 DEF Goto, IInv, RequestsTyped
  <2>4. Identified(r)'
    BY <1>2, <2>3, Before DEF Identified, Stand, Handlers
  <2>5. Backed(r)'
    BY <1>2, <1>3, <2>3, Before DEF Backed, Stand, Handlers
  <2>6. QED
    BY <1>1, <1>2, <2>1, <2>2, <2>4, <2>5, StepOfOne
<1>6. QED
  BY <1>4, <1>5

\* What was pulled is kept only if its digest is the one that was asked for.
LEMMA PullSound == ASSUME IInv, NEW r \in Requests, Pull(r) \/ PullFails(r) PROVE IInv'
<1> DEFINE b == registry[req[r].want.ref]
           stand == Stand("put", req[r].claims, req[r].want, b, 0)
<1>1. CacheSound'
  BY Before DEF Pull, PullFails, Quietly, CacheSound
<1>2. UNCHANGED <<worldVars, ask, log>> /\ req[r].pc = "pull"
  BY DEF Pull, PullFails, Quietly, At
<1>3. req[r].want \in Entry /\ req[r].want.ref \in Refs
  BY <1>2, Before DEF Backed, Entry
<1>4. CASE Reply(r, 502, Nothing)
  <2>1. 502 \in Answers
    BY DEF Answers
  <2>2. QED
    BY <1>1, <1>2, <1>4, <2>1, AnswerSound
<1>5. CASE Goto(r, stand) /\ b # Nothing /\ Sha[b] = req[r].want.sha
  <2>1. b \in Blobs
    BY <1>3, <1>5, Before DEF WorldTyped
  <2>2. stand \in Req /\ stand.pc # "done" /\ ~At(r, "done")
    BY <1>2, <2>1, Before DEF Req, Stand, PCs, Answers, At
  <2>3. req'[r] = stand /\ ask' = ask
    BY <1>2, <1>5 DEF Goto, IInv, RequestsTyped
  <2>4. Identified(r)'
    BY <1>2, <2>3, Before DEF Identified, Stand, Handlers
  <2>5. Backed(r)'
    BY <1>2, <1>3, <1>5, <2>1, <2>3, Before DEF Backed, Stand, Handlers
  <2>6. QED
    BY <1>1, <1>2, <1>5, <2>2, <2>4, <2>5, StepOfOne
<1>6. QED
  BY <1>4, <1>5 DEF Pull, PullFails

LEMMA PutSound == ASSUME IInv, NEW r \in Requests, Put(r) PROVE IInv'
<1>1. /\ req[r].pc = "put" /\ Reply(r, 200, req[r].body) /\ 200 \in Answers
      /\ cache' = [cache EXCEPT ![req[r].want.sha] = req[r].body]
      /\ UNCHANGED <<worldVars, ask, log>>
  BY DEF Put, At, Answers
<1>2. /\ req[r].body \in Blobs /\ Sha[req[r].body] = req[r].want.sha
      /\ req[r].want.sha \in Digests
  BY <1>1, Before DEF Backed, Entry
<1>3. CacheSound'
  BY <1>1, <1>2, Before DEF CacheSound
<1>4. QED
  BY <1>1, <1>2, <1>3, AnswerSound

\* The line is that of the claims and the answer the handler left behind.
LEMMA LeaveSound == ASSUME IInv, NEW r \in Requests, Leave(r) PROVE IInv'
<1> DEFINE line == [status |-> req[r].status, trace |-> TraceOf(r),
                    claims |-> ClaimsFromRequest(r)]
           stand == Stand("done", req[r].claims, req[r].want, req[r].body, req[r].status)
<1>1. /\ req[r].pc = "leave" /\ UNCHANGED <<worldVars, cache, ask>>
      /\ log' = [log EXCEPT ![r] = Append(@, line)]
      /\ req' = [req EXCEPT ![r] = stand]
  BY DEF Leave, At, Goto
<1>2. WorldTyped' /\ CacheSound'
  BY <1>1, Before DEF WorldTyped, CacheSound, worldVars
<1>3. line \in Line
  <2>1. TraceOf(r) \in Requests \union {"upstream", Nothing}
    BY Before DEF TraceOf, Ask
  <2>2. ClaimsFromRequest(r) \in Claims \union {Nothing}
    BY Before, LookUp
  <2>3. req[r].status \in Answers
    BY Before DEF Req
  <2>4. QED
    BY <2>1, <2>2, <2>3 DEF Line
<1>4. stand \in Req
  BY Before DEF Req, Stand, PCs
<1>5. log[r] = <<>> /\ log \in [Requests -> Seq(Line)] /\ req \in [Requests -> Req]
  BY <1>1 DEF IInv, RequestsTyped, Sound, Logged, At
<1>6. log'[r] = <<line>>
  BY <1>1, <1>3, <1>5
<1>7. RequestsTyped'
  <2>1. <<line>> \in Seq(Line)
    BY <1>3
  <2>2. \A q \in Requests : log'[q] \in Seq(Line)
    BY <1>1, <1>5, <1>6, <2>1
  <2>3. log' \in [Requests -> Seq(Line)]
    BY <1>1, <1>5, <2>2
  <2>4. QED
    BY <1>1, <1>4, <1>5, <2>3 DEF IInv, RequestsTyped
<1>8. Sound(r)'
  <2>1. req'[r] = stand /\ ask' = ask /\ expired' = expired
    BY <1>1, <1>5 DEF worldVars
  <2>2. Identified(r)'
    BY <1>1, <2>1, Before DEF Identified, Stand, Handlers
  <2>3. Backed(r)'
    BY <1>1, <2>1, Before DEF Backed, Stand, Handlers
  <2>4. Len(log'[r]) = 1 /\ log'[r][1] = line
    BY <1>6
  <2>5. ask[r].parent # Nothing => line.trace = ask[r].parent
    BY DEF TraceOf
  <2>6. req[r].claims # Nothing => line.claims = req[r].claims \/ Presented(ask[r]) \in expired
    BY Before, LookUp DEF Identified
  <2>7. Logged(r)'
    BY <2>1, <2>4, <2>5, <2>6 DEF Logged, At, Stand
  <2>8. QED
    BY <2>2, <2>3, <2>7 DEF Sound
<1>9. ASSUME NEW q \in Requests, q # r PROVE Sound(q)'
  <2>1. req'[q] = req[q] /\ log'[q] = log[q] /\ ask' = ask /\ expired' = expired /\ Sound(q)
    BY <1>1, <1>5, <1>9 DEF worldVars, IInv
  <2>2. QED
    BY <2>1 DEF Sound, Identified, Backed, Logged, At
<1>10. ASSUME NEW q \in Requests PROVE Sound(q)'
  BY <1>8, <1>9
<1>11. QED
  BY <1>2, <1>7, <1>10 DEF IInv

\* A request that was cut off has neither an answer nor a line.
LEMMA RestartSound == ASSUME IInv, Restart PROVE IInv'
<1>1. WorldTyped' /\ CacheSound'
  BY DEF Restart, IInv, WorldTyped, CacheSound, worldVars
<1>2. Fresh("cut") \in Req
  BY DEF Fresh, Stand, Req, PCs, Answers
<1>3. RequestsTyped'
  BY <1>2 DEF Restart, IInv, RequestsTyped
<1>4. ASSUME NEW q \in Requests PROVE Sound(q)'
  <2>1. log' = log /\ ask' = ask /\ expired' = expired /\ Sound(q)
    BY DEF Restart, worldVars, IInv
  <2>2. CASE req[q].pc \in {"idle", "done"}
    <3>1. req'[q] = req[q]
      BY <2>2 DEF Restart
    <3>2. QED
      BY <2>1, <3>1 DEF Sound, Identified, Backed, Logged, At
  <2>3. CASE req[q].pc \notin {"idle", "done"}
    <3>1. req'[q] = Fresh("cut")
      BY <2>3 DEF Restart
    <3>2. log[q] = <<>>
      BY <2>1, <2>3 DEF Sound, Logged, At
    <3>3. QED
      BY <2>1, <3>1, <3>2 DEF Sound, Identified, Backed, Logged, At, Fresh, Stand, Handlers
  <2>4. QED
    BY <2>2, <2>3
<1>5. QED
  BY <1>1, <1>3, <1>4 DEF IInv

\* Nothing that happens around the process touches a request; tokens only expire.
LEMMA AroundSound == ASSUME IInv, Edit \/ Push \/ Expire PROVE IInv'
<1>1. UNCHANGED <<cache, ask, req, log>>
  BY DEF Edit, Push, Expire
<1>2. CacheSound' /\ RequestsTyped'
  BY <1>1 DEF IInv, CacheSound, RequestsTyped
<1>3. WorldTyped' /\ expired \subseteq expired'
  BY DEF Edit, Push, Expire, IInv, WorldTyped
<1>4. ASSUME NEW q \in Requests PROVE Sound(q)'
  BY <1>1, <1>3 DEF IInv, Sound, Identified, Backed, Logged, At
<1>5. QED
  BY <1>2, <1>3, <1>4 DEF IInv

LEMMA StepSound == IInv /\ [Next]_vars => IInv'
<1>1. SUFFICES ASSUME IInv, [Next]_vars PROVE IInv'
  OBVIOUS
<1>2. ASSUME NEW r \in Requests, Handle(r) PROVE IInv'
  BY <1>1, <1>2, OpenSound, VerifySound, MiddlewareSound, TeamSound, AttachmentSound, GetSound,
     PullSound, PutSound, LeaveSound DEF Handle
<1>3. CASE UNCHANGED vars
  BY <1>1, <1>3 DEF vars, IInv, WorldTyped, CacheSound, RequestsTyped, Sound, Identified,
     Backed, Logged, At
<1>4. QED
  BY <1>1, <1>2, <1>3, RestartSound, AroundSound DEF Next

LEMMA Invariant == Spec => []IInv
BY InitSound, StepSound, PTL DEF Spec

-----------------------------------------------------------------------------
\* Everything stays typed, and a handler that is guarded by Middleware has the claims
\* of the token that was presented to it.
THEOREM ServingTyped == Spec => []TypeOK
<1>1. IInv => TypeOK
  <2>1. SUFFICES ASSUME IInv PROVE TypeOK
    OBVIOUS
  <2>2. req \in [Requests -> [pc : PCs, claims : Claims \union {Nothing},
                             want : Entry \union {Nothing},
                             body : Blobs \union Claims \union {Nothing},
                             status : {0, 200, 401, 403, 404, 500, 502}]]
    BY <2>1 DEF IInv, RequestsTyped, Req, Answers
  <2>3. \A r \in Requests : req[r].pc \in {"attachment", "team", "fetch", "pull", "put"} =>
          Presented(ask[r]) \in Tokens /\ req[r].claims = ClaimsOf[Presented(ask[r])]
    BY <2>1 DEF IInv, Sound, Identified, Handlers
  <2>4. QED
    BY <2>1, <2>2, <2>3 DEF IInv, TypeOK, WorldTyped, CacheSound, RequestsTyped
<1>2. QED
  BY <1>1, Invariant, PTL

\* A download is the file that the challenge named by its digest, or an error.
THEOREM DownloadsAreNamed == Spec => []ServesWhatWasNamed
<1>1. IInv => ServesWhatWasNamed
  BY DEF IInv, Sound, Backed, ServesWhatWasNamed
<1>2. QED
  BY <1>1, Invariant, PTL

\* Every request that was answered has one line in the log, and it is true.
THEOREM AnswersAreLogged == Spec => []LoggedAsAnswered
<1>1. IInv => LoggedAsAnswered
  BY DEF IInv, Sound, Logged, LoggedAsAnswered
<1>2. QED
  BY <1>1, Invariant, PTL

-----------------------------------------------------------------------------
(* The sum of the points of a set of rows.  FoldSet defines it by recursion   *)
(* over the subsets of the set, so what is shown of it is shown by induction  *)
(* over them.                                                                 *)

\* A property of the empty set that sets inherit from their proper subsets.
LEMMA SubsetInduction ==
    ASSUME NEW S, IsFiniteSet(S), NEW P,
           \A s \in SUBSET S : (\A r \in SUBSET s : r # s => r \in P) => s \in P
    PROVE  SUBSET S \subseteq P
<1> SUFFICES ASSUME NEW q \in SUBSET S, q \notin P PROVE FALSE
  OBVIOUS
<1> DEFINE T == {s \in SUBSET S : s \notin P}
<1>1. T # {} /\ T \subseteq FiniteSubsetsOf(S)
  BY FS_Subset DEF FiniteSubsetsOf
<1>2. PICK s \in T : \A r \in T : <<r, s>> \notin StrictSubsetOrdering(S)
  <2> HIDE DEF T
  <2>1. QED
    BY <1>1, FS_StrictSubsetOrderingWellFounded, WFMin
<1>3. \A r \in SUBSET s : r # s => r \in P
  BY <1>2 DEF StrictSubsetOrdering
<1>4. QED
  BY <1>2, <1>3

\* A table of the sums of all subsets, as the fold defines them.
Pick(s) == CHOOSE y \in s : TRUE

Sums(S, g) ==
    g = [s \in SUBSET S |->
           IF s = {} THEN 0 ELSE LET x == Pick(s) IN x.points + g[s \ {x}]]

\* The equation, case by case.
LEMMA SumsEquation ==
    ASSUME NEW S, NEW g, Sums(S, g)
    PROVE  /\ g[{}] = 0
           /\ \A s \in SUBSET S : s # {} =>
                Pick(s) \in s /\ g[s] = Pick(s).points + g[s \ {Pick(s)}]
<1>1. \A s \in SUBSET S : s # {} => Pick(s) \in s
  BY DEF Pick
<1>2. QED
  BY <1>1 DEF Sums

\* Two tables agree on the sets that both know ...
LEMMA SumsAgree ==
    ASSUME NEW S, NEW R, IsFiniteSet(S), NEW g, NEW h, Sums(S, g), Sums(R, h)
    PROVE  \A s \in SUBSET S : s \in SUBSET R => g[s] = h[s]
<1> DEFINE P == {s \in SUBSET S : s \in SUBSET R => g[s] = h[s]}
<1>1. ASSUME NEW s \in SUBSET S, \A r \in SUBSET s : r # s => r \in P
      PROVE  s \in P
  <2>1. CASE s = {}
    BY <2>1, SumsEquation
  <2>2. CASE s # {} /\ s \in SUBSET R
    <3> DEFINE x == Pick(s)
               r == s \ {x}
    <3>1. /\ x \in s
          /\ g[s] = x.points + g[r] /\ h[s] = x.points + h[r]
      BY <2>2, SumsEquation
    <3>2. r \in SUBSET s /\ r # s /\ r \in SUBSET R
      BY <2>2, <3>1
    <3>3. g[r] = h[r]
      BY <1>1, <3>2
    <3>4. QED
      BY <3>1, <3>3
  <2>3. QED
    BY <2>1, <2>2
<1>2. SUBSET S \subseteq P
  <2> HIDE DEF P
  <2>1. QED
    BY <1>1, SubsetInduction
<1>3. QED
  BY <1>2

\* ... and there is one for every finite set.
LEMMA SumsExist == ASSUME NEW S, IsFiniteSet(S) PROVE \E g : Sums(S, g)
<1> DEFINE P == {s \in SUBSET S : \E g : Sums(s, g)}
           G(r) == CHOOSE g : Sums(r, g)
<1>1. ASSUME NEW s \in SUBSET S, \A r \in SUBSET s : r # s => r \in P
      PROVE  s \in P
  <2>1. \A r \in SUBSET s : r # s => Sums(r, G(r)) /\ IsFiniteSet(r)
    BY <1>1, FS_Subset
  <2> DEFINE x == Pick(s)
             g == [r \in SUBSET s |->
                     IF r = s /\ s # {} THEN x.points + G(s \ {x})[s \ {x}]
                     ELSE IF r = {} THEN 0 ELSE G(r)[r]]
  <2>2. ASSUME NEW r \in SUBSET s
        PROVE  g[r] = IF r = {} THEN 0 ELSE Pick(r).points + g[r \ {Pick(r)}]
    <3> DEFINE y == Pick(r)
               q == r \ {y}
    <3>1. CASE r = {}
      BY <3>1
    <3>2. CASE r # {}
      <4>1. y \in r /\ q \in SUBSET r /\ q # r /\ q \in SUBSET s /\ q # s
        BY <3>2 DEF Pick
      <4>2. g[q] = G(q)[q]
        <5>1. Sums(q, G(q))
          BY <2>1, <4>1
        <5>2. G(q)[{}] = 0
          BY <5>1, SumsEquation
        <5> HIDE DEF q, G
        <5>3. QED
          BY <4>1, <5>2
      <4>3. CASE r = s
        BY <3>2, <4>2, <4>3
      <4>4. CASE r # s
        <5>1. Sums(r, G(r)) /\ IsFiniteSet(r) /\ Sums(q, G(q)) /\ IsFiniteSet(q)
          BY <2>1, <4>1, <4>4
        <5>2. g[r] = G(r)[r]
          BY <3>2, <4>4
        <5> HIDE DEF G
        <5>3. G(r)[r] = y.points + G(r)[q]
          BY <3>2, <5>1, SumsEquation
        <5>4. G(r)[q] = G(q)[q]
          <6> HIDE DEF q
          <6>1. \A u \in SUBSET r : u \in SUBSET q => G(r)[u] = G(q)[u]
            BY <5>1, SumsAgree
          <6>2. QED
            BY <4>1, <6>1
        <5> HIDE DEF g
        <5>5. QED
          BY <3>2, <4>2, <5>2, <5>3, <5>4
      <4>5. QED
        BY <4>3, <4>4
    <3>3. QED
      BY <3>1, <3>2
  <2>3. Sums(s, g)
    <3>1. g = [r \in SUBSET s |-> g[r]]
      OBVIOUS
    <3> HIDE DEF g
    <3>2. QED
      BY <2>2, <3>1, Zenon DEF Sums
  <2>4. QED
    BY <2>3
<1>2. SUBSET S \subseteq P
  <2> HIDE DEF P
  <2>1. QED
    BY <1>1, SubsetInduction
<1>3. QED
  BY <1>2

\* The query's sum over any set of rows, and so that over the rows of a team.
SumOf(S) == (CHOOSE g : Sums(S, g))[S]

\* The total of the ranking query is the sum over the rows.
LEMMA TotalIsSum ==
    ASSUME NEW t
    PROVE  Total(t) = SumOf(RowsOf(t)) /\ (Total(t))' = SumOf((RowsOf(t))')
<1>1. Total(t) = SumOf(RowsOf(t))
  BY DEF Total, MapThenSumSet, MapThenFoldSet, SumOf, Sums, Pick
<1>2. (Total(t))' = SumOf((RowsOf(t))')
  BY DEF Total, MapThenSumSet, MapThenFoldSet, SumOf, Sums, Pick
<1>3. QED
  BY <1>1, <1>2

\* The total of a team with finitely many rows of integers is an integer.
LEMMA TotalType ==
    ASSUME NEW t, IsFiniteSet(RowsOf(t)), \A s \in RowsOf(t) : s.points \in Int
    PROVE  Total(t) \in Int
<1>1. PICK S : S = RowsOf(t)
  OBVIOUS
<1>2. PICK g : g = CHOOSE h : Sums(S, h)
  OBVIOUS
<1>3. Sums(S, g)
  BY <1>1, <1>2, SumsExist
<1>4. Total(t) = g[S]
  BY <1>1, <1>2, TotalIsSum DEF SumOf
<1> DEFINE P == {s \in SUBSET S : g[s] \in Int}
<1>5. ASSUME NEW s \in SUBSET S, \A r \in SUBSET s : r # s => r \in P
      PROVE  s \in P
  <2>1. CASE s = {}
    BY <1>3, <2>1, SumsEquation
  <2>2. CASE s # {}
    <3>0. \A q \in SUBSET S : q # {} =>
            Pick(q) \in q /\ g[q] = Pick(q).points + g[q \ {Pick(q)}]
      BY <1>3, SumsEquation, Zenon
    <3>1. Pick(s) \in s /\ g[s] = Pick(s).points + g[s \ {Pick(s)}]
      BY <3>0, <2>2
    <3>2. g[s \ {Pick(s)}] \in Int
      BY <1>5, <3>1
    <3>3. QED
      BY <1>1, <3>1, <3>2
  <2>3. QED
    BY <2>1, <2>2
<1>6. SUBSET S \subseteq P
  <2> HIDE DEF P
  <2>1. QED
    BY <1>1, <1>5, SubsetInduction
<1>7. QED
  BY <1>4, <1>6

-----------------------------------------------------------------------------
(* The ledger: "at" is the number of rows before.                             *)

LInv ==
    /\ IsFiniteSet(solves)
    /\ LedgerTypeOK
    /\ \A s \in solves : s.at < Cardinality(solves)

\* Nothing is known of a row that the ledger is awarded but that it is a row, and
\* later than the others.
LEMMA Awarded ==
    ASSUME LInv, LedgerNext
    PROVE  \E row \in Row : /\ row.at = Cardinality(solves) /\ row \notin solves
                            /\ solves' = solves \union {row}
<1>0. PICK t \in Teams, c \in Challenges : \E n \in 0..Cardinality(SolvesOf(c)) : Award(t, c, n)
  BY DEF LedgerNext
<1>1. PICK n \in 0..Cardinality(SolvesOf(c)) : Award(t, c, n)
  BY <1>0
<1>2. PICK row, size :
        /\ size = Cardinality(solves)
        /\ row = [team |-> t, challenge |-> c, points |-> CurrentValue(SchemeOf[c], n),
                  at |-> size]
  OBVIOUS
<1>3. size \in Nat /\ n \in Nat
  <2>1. SolvesOf(c) \subseteq solves
    BY DEF SolvesOf
  <2>2. QED
    BY <1>1, <1>2, <2>1, FS_Subset, FS_CardinalityType DEF LInv
<1>4. row \in Row /\ row.at = size
  BY <1>2, <1>3, ValueType, SchemeAssumption DEF Row
<1>5. \A s \in solves : s.at < size /\ s.at \in Nat
  BY <1>2 DEF LInv, LedgerTypeOK, Row
<1>6. row \notin solves
  BY <1>3, <1>4, <1>5
<1>7. QED
  BY <1>1, <1>2, <1>4, <1>6 DEF Award

LEMMA StepLInv == LInv /\ [LedgerNext]_solves => LInv'
<1> SUFFICES ASSUME LInv, [LedgerNext]_solves PROVE LInv'
  OBVIOUS
<1>1. CASE solves' = solves
  BY <1>1 DEF LInv, LedgerTypeOK
<1>2. CASE LedgerNext
  <2>1. PICK row \in Row : /\ row.at = Cardinality(solves) /\ row \notin solves
                           /\ solves' = solves \union {row}
    BY <1>2, Awarded
  <2>2. IsFiniteSet(solves') /\ Cardinality(solves') = Cardinality(solves) + 1
    BY <2>1, FS_AddElement DEF LInv
  <2>3. Cardinality(solves) \in Nat /\ \A s \in solves : s.at \in Nat
    BY FS_CardinalityType DEF LInv, LedgerTypeOK, Row
  <2>4. QED
    BY <2>1, <2>2, <2>3 DEF LInv, LedgerTypeOK
<1>3. QED
  BY <1>1, <1>2

-----------------------------------------------------------------------------
(* The order of the teams.                                                    *)

\* The time column as a number: that of the last row, and for a team without one a
\* later one than any.
Horizon == CHOOSE n \in Nat : \A s \in solves : Stamp(s) < n

LastSolve(t) == IF RowsOf(t) = {} THEN Horizon ELSE Max({Stamp(s) : s \in RowsOf(t)})

LEMMA StampType == LInv => \A s \in solves : Stamp(s) \in Nat
<1> SUFFICES ASSUME LInv, NEW s, s \in solves PROVE Stamp(s) \in Nat
  OBVIOUS
<1>1. <<s.team, s.challenge>> \in Teams \X Challenges
  BY DEF LInv, LedgerTypeOK, Row
<1>2. QED
  BY <1>1, ClockAssumption DEF Stamp

\* There are finitely many rows, so there is a time after all of them.
LEMMA HorizonExists == LInv => Horizon \in Nat /\ \A s \in solves : Stamp(s) < Horizon
<1> SUFFICES ASSUME LInv PROVE \E n \in Nat : \A s \in solves : Stamp(s) < n
  BY DEF Horizon
<1> DEFINE P == {r \in SUBSET solves : \E n \in Nat : \A s \in r : Stamp(s) < n}
<1>1. ASSUME NEW r \in SUBSET solves, \A q \in SUBSET r : q # r => q \in P
      PROVE  r \in P
  <2>1. CASE r = {}
    BY <2>1
  <2>2. ASSUME NEW s \in r PROVE r \in P
    <3>1. r \ {s} \in P
      BY <1>1, <2>2
    <3>2. PICK n \in Nat : \A q \in r \ {s} : Stamp(q) < n
      BY <3>1
    <3>3. Stamp(s) \in Nat /\ \A q \in r : Stamp(q) \in Nat
      BY <2>2, StampType
    <3>4. PICK m \in Nat : n <= m /\ Stamp(s) < m
      <4>1. PICK k \in Nat : k = Stamp(s)
        BY <3>3
      <4>2. n + k + 1 \in Nat /\ n <= n + k + 1 /\ k < n + k + 1
        OBVIOUS
      <4>3. QED
        BY <4>1, <4>2
    <3>5. \A q \in r : Stamp(q) < m
      BY <3>2, <3>3, <3>4
    <3>6. QED
      BY <3>5
  <2>3. QED
    BY <2>1, <2>2
<1>2. SUBSET solves \subseteq P
  <2>1. IsFiniteSet(solves)
    BY DEF LInv
  <2> HIDE DEF P
  <2>2. QED
    BY <1>1, <2>1, SubsetInduction
<1>3. QED
  BY <1>2

LEMMA RowsFinite == ASSUME LInv, NEW t PROVE IsFiniteSet(RowsOf(t))
<1>1. RowsOf(t) \subseteq solves
  BY DEF RowsOf
<1>2. QED
  BY <1>1, FS_Subset DEF LInv

\* A finite set of naturals that is not empty has a maximum.
LEMMA MaxOfNats ==
    ASSUME NEW S, S # {}, S \subseteq Nat, NEW n \in Nat, \A x \in S : x < n
    PROVE  Max(S) \in S
<1> DEFINE D == {k \in Nat : \E x \in S : x + k >= n}
           I == {k \in Nat : \A x \in S : x + k < n}
<1>1. 0 \in I
  OBVIOUS
<1>2. ~(Nat \subseteq I)
  <2>1. PICK x \in S : TRUE
    OBVIOUS
  <2>2. n \notin I
    BY <2>1
  <2>3. QED
    BY <2>2
<1>3. PICK k \in Nat : k \in I /\ k + 1 \notin I
  <2> HIDE DEF I
  <2>1. QED
    BY <1>1, <1>2, NatSetInduction
<1>4. PICK x \in S : x + (k + 1) >= n
  BY <1>3
<1>5. \A y \in S : x >= y
  BY <1>3, <1>4
<1>6. QED
  BY <1>5 DEF Max

LEMMA LastSolveType ==
    ASSUME LInv, NEW t
    PROVE  /\ LastSolve(t) \in Nat
           /\ RowsOf(t) # {} => LastSolve(t) < Horizon
<1>1. Horizon \in Nat /\ \A s \in solves : Stamp(s) < Horizon
  BY HorizonExists
<1>2. CASE RowsOf(t) # {}
  <2> DEFINE S == {Stamp(s) : s \in RowsOf(t)}
  <2>1. S # {} /\ S \subseteq Nat /\ \A x \in S : x < Horizon
    BY <1>1, <1>2, StampType DEF RowsOf
  <2> HIDE DEF S
  <2>2. Max(S) \in S
    BY <1>1, <2>1, MaxOfNats
  <2>3. QED
    BY <1>2, <2>1, <2>2 DEF LastSolve, S
<1>3. QED
  BY <1>1, <1>2 DEF LastSolve

\* The second column compares times, a team without a solve last.
LEMMA EarlierByTime ==
    ASSUME LInv, NEW t, NEW u
    PROVE  Earlier(t, u) <=> LastSolve(t) < LastSolve(u)
<1>1. /\ LastSolve(t) \in Nat /\ LastSolve(u) \in Nat
      /\ RowsOf(t) # {} => LastSolve(t) < Horizon
      /\ RowsOf(u) # {} => LastSolve(u) < Horizon
  BY LastSolveType
<1>2. QED
  BY <1>1 DEF Earlier, LastSolve

LEMMA TotalsAreNumbers == ASSUME LInv, NEW t PROVE Total(t) \in Int
<1>1. \A s \in RowsOf(t) : s.points \in Int
  BY DEF RowsOf, LInv, LedgerTypeOK, Row
<1>2. QED
  BY <1>1, RowsFinite, TotalType

\* Above orders the teams strictly and totally.
LEMMA AboveIsOrder ==
    ASSUME LInv
    PROVE  /\ \A t \in Teams : ~Above(t, t)
           /\ \A t, u, w \in Teams : Above(t, u) /\ Above(u, w) => Above(t, w)
           /\ \A t, u \in Teams : t # u => Above(t, u) \/ Above(u, t)
<1>1. \A t \in Teams : Total(t) \in Int /\ LastSolve(t) \in Nat /\ NameOrder[t] \in Nat
  BY TotalsAreNumbers, LastSolveType, NameAssumption
<1>2. \A t, u \in Teams :
        Above(t, u) <=>
            \/ Total(t) > Total(u)
            \/ Total(t) = Total(u) /\ LastSolve(t) < LastSolve(u)
            \/ /\ Total(t) = Total(u) /\ LastSolve(t) = LastSolve(u)
               /\ NameOrder[t] < NameOrder[u]
  BY <1>1, EarlierByTime DEF Above, TiedOnTime
<1>3. \A t, u \in Teams : NameOrder[t] = NameOrder[u] => t = u
  BY NameAssumption
<1>4. QED
  BY <1>1, <1>2, <1>3

\* The teams listed before a team; whoever is listed after it has more of them.
Ahead(t) == {u \in Teams : Above(u, t)}

\* Every team has a place, and no two teams have the same.
LEMMA PlacesDiffer ==
    ASSUME LInv
    PROVE  /\ \A t \in Teams : Place(t) \in 1..Cardinality(Teams)
           /\ \A t, u \in Teams : t # u => Place(t) # Place(u)
<1>1. /\ \A t \in Teams : ~Above(t, t)
      /\ \A t, u, w \in Teams : Above(t, u) /\ Above(u, w) => Above(t, w)
      /\ \A t, u \in Teams : t # u => Above(t, u) \/ Above(u, t)
  BY AboveIsOrder
<1>2. /\ IsFiniteSet(Teams) /\ Cardinality(Teams) \in Nat
      /\ \A t \in Teams : IsFiniteSet(Ahead(t)) /\ Cardinality(Ahead(t)) \in Nat
  BY NameAssumption, FS_Subset, FS_CardinalityType DEF Ahead
<1>3. \A t \in Teams : Place(t) = Cardinality(Ahead(t)) + 1
  BY DEF Place, Ahead
<1>4. ASSUME NEW t \in Teams PROVE Cardinality(Ahead(t)) < Cardinality(Teams)
  <2>1. Ahead(t) \subseteq Teams /\ Ahead(t) # Teams
    BY <1>1 DEF Ahead
  <2>2. QED
    BY <1>2, <2>1, FS_Subset
<1>5. ASSUME NEW t \in Teams, NEW u \in Teams, Above(t, u)
      PROVE  Cardinality(Ahead(t)) < Cardinality(Ahead(u))
  <2>1. Ahead(t) \subseteq Ahead(u) /\ Ahead(t) # Ahead(u)
    BY <1>1, <1>5 DEF Ahead
  <2>2. QED
    BY <1>2, <2>1, FS_Subset
<1>6. ASSUME NEW t \in Teams, NEW u \in Teams, t # u PROVE Place(t) # Place(u)
  BY <1>1, <1>2, <1>3, <1>5, <1>6
<1>7. QED
  BY <1>2, <1>3, <1>4, <1>6

\* A one-to-one numbering within 1..N of N things leaves no number out.
LEMMA PlacesAreTaken == LInv => {Place(t) : t \in Teams} = 1..Cardinality(Teams)
<1> SUFFICES ASSUME LInv PROVE {Place(t) : t \in Teams} = 1..Cardinality(Teams)
  OBVIOUS
<1>1. PICK N, f : N = Cardinality(Teams) /\ f = [t \in Teams |-> Place(t)]
  OBVIOUS
<1>2. N \in Nat /\ IsFiniteSet(Teams)
  BY <1>1, NameAssumption, FS_CardinalityType
<1>3. IsFiniteSet(1..N) /\ Cardinality(1..N) = N
  BY <1>2, FS_Interval
<1>4. /\ f \in [Teams -> 1..N] /\ \A t \in Teams : f[t] = Place(t)
      /\ \A t, u \in Teams : t # u => f[t] # f[u]
  BY <1>1, PlacesDiffer
<1>5. f \in Injection(Teams, 1..N)
  BY <1>4 DEF Injection, IsInjective
<1>6. f \in Surjection(Teams, 1..N)
  BY <1>1, <1>3, <1>5, FS_Injection
<1>7. \A n \in 1..N : \E t \in Teams : f[t] = n
  BY <1>6 DEF Surjection
<1>8. QED
  BY <1>1, <1>4, <1>7

-----------------------------------------------------------------------------
(* One more solve.                                                            *)

\* The rows of a team that is not awarded stay, and with them its total and its time.
LEMMA OrderKept ==
    ASSUME NEW u, NEW w, (RowsOf(u))' = RowsOf(u), (RowsOf(w))' = RowsOf(w)
    PROVE  (Total(u))' = Total(u) /\ (Above(u, w))' = Above(u, w)
<1>1. (Total(u))' = Total(u) /\ (Total(w))' = Total(w)
  BY TotalIsSum
<1>2. (Earlier(u, w))' = Earlier(u, w) /\ (Earlier(w, u))' = Earlier(w, u)
  BY DEF Earlier, Stamp
<1>3. QED
  BY <1>1, <1>2 DEF Above, TiedOnTime

\* The team that is awarded is the only one whose rows change.
LEMMA OneTeamMoves ==
    ASSUME LInv, LedgerNext, NEW t \in Teams, (RowsOf(t))' # RowsOf(t)
    PROVE  \A u \in Teams \ {t} : (RowsOf(u))' = RowsOf(u)
<1>1. PICK row : solves' = solves \union {row}
  BY Awarded
<1>2. row.team = t
  BY <1>1 DEF RowsOf
<1>3. QED
  BY <1>1, <1>2 DEF RowsOf

LEMMA NotAboveItself == ASSUME LInv, NEW t \in Teams PROVE ~Above(t, t)
BY AboveIsOrder

\* An award that adds points: nobody comes to stand above the team who did not before.
LEMMA NoDemotion ==
    ASSUME LInv, LInv', LedgerNext, NEW t \in Teams, (RowsOf(t))' # RowsOf(t),
           (Total(t))' > Total(t)
    PROVE  /\ (Place(t))' <= Place(t)
           /\ \A u, v \in Teams \ {t} : (Above(u, v))' = Above(u, v)
<1>1. /\ \A u \in Teams \ {t} : (Total(u))' = Total(u)
      /\ \A u, v \in Teams \ {t} : (Above(u, v))' = Above(u, v)
  BY OneTeamMoves, OrderKept
<1>2. Total(t) \in Int /\ \A u \in Teams : Total(u) \in Int
  BY TotalsAreNumbers
<1>3. (Total(t))' \in Int /\ ~(Above(t, t))'
  <2>1. (Total(t) \in Int)'
    BY TotalsAreNumbers, PTL
  <2>2. (~Above(t, t))'
    BY NotAboveItself, PTL
  <2>3. QED
    BY <2>1, <2>2
<1>4. (Ahead(t))' \subseteq Ahead(t)
  <2>1. ASSUME NEW u \in Teams, (Above(u, t))' PROVE Above(u, t)
    <3>1. u # t /\ (Total(u))' = Total(u)
      BY <1>1, <1>3, <2>1
    <3>2. (Total(u))' >= (Total(t))'
      BY <1>2, <1>3, <2>1, <3>1 DEF Above
    <3>3. Total(u) > Total(t)
      BY <1>2, <1>3, <3>1, <3>2
    <3>4. QED
      BY <3>3 DEF Above
  <2>2. QED
    BY <2>1 DEF Ahead
<1>5. (Place(t))' <= Place(t)
  <2>1. IsFiniteSet(Ahead(t))
    BY NameAssumption, FS_Subset DEF Ahead
  <2>2. /\ Cardinality(Ahead(t)) \in Nat /\ Cardinality((Ahead(t))') \in Nat
        /\ Cardinality((Ahead(t))') <= Cardinality(Ahead(t))
    BY <1>4, <2>1, FS_Subset, FS_CardinalityType
  <2>3. Place(t) = Cardinality(Ahead(t)) + 1 /\ (Place(t))' = Cardinality((Ahead(t))') + 1
    BY DEF Place, Ahead
  <2>4. QED
    BY <2>2, <2>3
<1>6. QED
  BY <1>1, <1>5

-----------------------------------------------------------------------------
(* The catalogue.                                                             *)

\* What a projection has been told so far: solves the team did have, and entries as
\* the counts were.
EntryOK(v, e) ==
    /\ e.name \in Challenges /\ e.solves \in Nat
    /\ e.solves <= Cardinality(SolvesOf(e.name))
    /\ e.value = CurrentValue(SchemeOf[e.name], e.solves)
    /\ e.solvedByTeam => e.solves >= 1 /\ HasSolved(TeamOf[v], e.name)

ViewOK(v) ==
    /\ view[v].left \subseteq Challenges
    /\ \A c \in view[v].solved : HasSolved(TeamOf[v], c)
    /\ \A e \in view[v].shown : EntryOK(v, e)

Entries == [name : Challenges, solves : Nat, value : Int, solvedByTeam : BOOLEAN]

View == [pc : {"list", "solved", "count", "served"}, left : SUBSET Challenges,
         solved : SUBSET Challenges,
         shown : SUBSET Entries]

VInv ==
    /\ LInv
    /\ view \in [Readers -> View]
    /\ \A v \in Readers : ViewOK(v)

\* The count of a challenge is a number, and not 0 if somebody solved it.
LEMMA CountType ==
    ASSUME LInv, NEW c
    PROVE  /\ Cardinality(SolvesOf(c)) \in Nat
           /\ (\E t : HasSolved(t, c)) => Cardinality(SolvesOf(c)) >= 1
<1>1. SolvesOf(c) \subseteq solves
  BY DEF SolvesOf
<1>2. IsFiniteSet(SolvesOf(c)) /\ Cardinality(SolvesOf(c)) \in Nat
  BY <1>1, FS_Subset, FS_CardinalityType DEF LInv
<1>3. (\E t : HasSolved(t, c)) => SolvesOf(c) # {}
  BY DEF HasSolved, SolvesOf
<1>4. QED
  BY <1>2, <1>3, FS_EmptySet

\* Rows are added and never changed: what was true of a view stays true of it.
LEMMA ViewsKept ==
    ASSUME VInv, LInv', LedgerNext, view' = view
    PROVE  VInv'
<1>1. PICK row : solves' = solves \union {row}
  BY Awarded DEF VInv
<1>2. ASSUME NEW c
      PROVE  /\ Cardinality(SolvesOf(c)) \in Nat /\ Cardinality((SolvesOf(c))') \in Nat
             /\ Cardinality(SolvesOf(c)) <= Cardinality((SolvesOf(c))')
             /\ \A t : HasSolved(t, c) => (HasSolved(t, c))'
  <2>1. SolvesOf(c) \subseteq (SolvesOf(c))' /\ (SolvesOf(c))' \subseteq solves'
    BY <1>1 DEF SolvesOf
  <2>2. IsFiniteSet(solves')
    BY DEF LInv
  <2>3. IsFiniteSet((SolvesOf(c))')
    BY <2>1, <2>2, FS_Subset
  <2>4. \A t : HasSolved(t, c) => (HasSolved(t, c))'
    BY <1>1 DEF HasSolved
  <2>5. QED
    BY <2>1, <2>3, <2>4, FS_Subset, FS_CardinalityType
<1>3. ASSUME NEW v \in Readers PROVE (ViewOK(v))'
  <2>1. ViewOK(v)
    BY DEF VInv
  <2>2. ASSUME NEW e \in view[v].shown PROVE (EntryOK(v, e))'
    BY <1>2, <2>1, <2>2 DEF ViewOK, EntryOK
  <2>3. QED
    BY <1>2, <2>1, <2>2 DEF ViewOK
<1>4. QED
  BY <1>3 DEF VInv

\* A row more leaves every projection true, and so does every step of a reader.
LEMMA StepVInv == VInv /\ [CatalogNext]_catalogVars => VInv'
<1> SUFFICES ASSUME VInv, [CatalogNext]_catalogVars PROVE VInv'
  OBVIOUS
<1>1. CASE LedgerNext /\ UNCHANGED view
  BY <1>1, StepLInv, ViewsKept DEF VInv
<1>2. ASSUME UNCHANGED solves, NEW v \in Readers, view' \in [Readers -> View],
             \A w \in Readers \ {v} : view'[w] = view[w],
             \A c \in view'[v].solved : HasSolved(TeamOf[v], c),
             \A e \in view'[v].shown : EntryOK(v, e)
      PROVE  VInv'
  <2>1. LInv'
    BY <1>2, StepLInv DEF VInv
  <2>2. \A w \in Readers : \A e : EntryOK(w, e) => (EntryOK(w, e))'
    BY <1>2 DEF EntryOK, SolvesOf, HasSolved
  <2>3. \A w \in Readers : \A c : HasSolved(TeamOf[w], c) => (HasSolved(TeamOf[w], c))'
    BY <1>2 DEF HasSolved
  <2>4. (ViewOK(v))'
    BY <1>2, <2>2, <2>3 DEF ViewOK, View
  <2>5. ASSUME NEW w \in Readers \ {v} PROVE (ViewOK(w))'
    BY <1>2, <2>2, <2>3 DEF ViewOK, VInv
  <2>6. QED
    BY <1>2, <2>1, <2>4, <2>5 DEF VInv
<1>3. ASSUME NEW v \in Readers, List(v) PROVE VInv'
  <2>1. view[v] \in View /\ ViewOK(v)
    BY DEF VInv
  <2>2. PICK visible \in SUBSET Challenges, pc \in {"count", "solved"} :
          view' = [view EXCEPT ![v].pc = pc, ![v].left = visible]
    BY <1>3 DEF List
  <2>3. /\ view' \in [Readers -> View] /\ \A w \in Readers \ {v} : view'[w] = view[w]
        /\ view'[v].solved = view[v].solved /\ view'[v].shown = view[v].shown
    BY <2>2 DEF VInv, View
  <2>4. QED
    BY <1>2, <1>3, <2>1, <2>3 DEF List, ViewOK
<1>4. ASSUME NEW v \in Readers, Solved(v) PROVE VInv'
  <2>1. view[v] \in View /\ ViewOK(v)
    BY DEF VInv
  <2>2. PICK solved : solved = TeamSolvedChallenges(TeamOf[v])
    OBVIOUS
  <2>3. solved \subseteq Challenges /\ \A c \in solved : HasSolved(TeamOf[v], c)
    BY <2>2 DEF TeamSolvedChallenges, RowsOf, HasSolved, VInv, LInv, LedgerTypeOK, Row
  <2>4. /\ view' \in [Readers -> View] /\ \A w \in Readers \ {v} : view'[w] = view[w]
        /\ view'[v].solved = solved /\ view'[v].shown = view[v].shown
    BY <1>4, <2>2, <2>3 DEF Solved, VInv, View
  <2>5. QED
    BY <1>2, <1>4, <2>1, <2>3, <2>4 DEF Solved, ViewOK
<1>5. ASSUME NEW v \in Readers, NEW c \in Challenges, CountOne(v, c) PROVE VInv'
  <2>1. view[v] \in View /\ ViewOK(v)
    BY DEF VInv
  <2>2. PICK n, b, e : /\ n = Cardinality(SolvesOf(c)) /\ b = (c \in view[v].solved)
                       /\ e = ChallengeView(c, Cardinality(SolvesOf(c)), c \in view[v].solved)
    OBVIOUS
  <2>3. n \in Nat /\ (b => n >= 1 /\ HasSolved(TeamOf[v], c))
    BY <2>1, <2>2, CountType DEF ViewOK, VInv
  <2>4. CurrentValue(SchemeOf[c], n) \in Int
    BY <2>3, ValueType, SchemeAssumption
  <2>5. e = [name |-> c, solves |-> n, value |-> CurrentValue(SchemeOf[c], n),
             solvedByTeam |-> b] /\ b \in BOOLEAN
    BY <2>2 DEF ChallengeView
  <2>6. EntryOK(v, e)
    BY <2>2, <2>3, <2>5 DEF EntryOK
  <2>7. e \in Entries
    BY <2>3, <2>4, <2>5 DEF Entries
  <2>8. PICK left, shown : left = view[v].left \ {c} /\ shown = view[v].shown \union {e}
    OBVIOUS
  <2>9. left \in SUBSET Challenges /\ shown \in SUBSET Entries
    BY <2>1, <2>7, <2>8 DEF View
  <2>10. view' = [view EXCEPT ![v].left = left, ![v].shown = shown]
    BY <1>5, <2>2, <2>8 DEF CountOne
  <2>11. /\ view' \in [Readers -> View] /\ \A w \in Readers \ {v} : view'[w] = view[w]
         /\ view'[v].solved = view[v].solved /\ view'[v].shown = shown
    BY <2>9, <2>10 DEF VInv, View
  <2>12. QED
    BY <1>2, <1>5, <2>1, <2>6, <2>8, <2>11 DEF CountOne, ViewOK
<1>6. ASSUME NEW v \in Readers, Serve(v) PROVE VInv'
  <2>1. view[v] \in View /\ ViewOK(v)
    BY DEF VInv
  <2>2. /\ view' \in [Readers -> View] /\ \A w \in Readers \ {v} : view'[w] = view[w]
        /\ view'[v].solved = view[v].solved /\ view'[v].shown = view[v].shown
    BY <1>6 DEF Serve, VInv, View
  <2>3. QED
    BY <1>2, <1>6, <2>1, <2>2 DEF Serve, ViewOK
<1>7. ASSUME NEW v \in Readers, QueryFails(v) PROVE VInv'
  <2>1. NewView \in View /\ NewView.solved = {} /\ NewView.shown = {}
    BY DEF NewView, View
  <2>2. /\ view' \in [Readers -> View] /\ view'[v] = NewView
        /\ \A w \in Readers \ {v} : view'[w] = view[w]
    BY <1>7, <2>1 DEF QueryFails, VInv
  <2>3. QED
    BY <1>2, <1>7, <2>1, <2>2 DEF QueryFails
<1>8. CASE UNCHANGED catalogVars
  <2>1. LInv' /\ view' = view
    BY <1>8, StepLInv DEF VInv, catalogVars
  <2>2. \A v \in Readers : ViewOK(v) => (ViewOK(v))'
    BY <1>8 DEF catalogVars, ViewOK, EntryOK, SolvesOf, HasSolved
  <2>3. QED
    BY <2>1, <2>2 DEF VInv
<1>9. QED
  BY <1>1, <1>3, <1>4, <1>5, <1>6, <1>7, <1>8 DEF CatalogNext

LEMMA InitVInv == CatalogInit => VInv
<1> SUFFICES ASSUME CatalogInit PROVE VInv
  OBVIOUS
<1>1. LInv
  BY FS_EmptySet DEF CatalogInit, LedgerInit, LInv, LedgerTypeOK
<1>2. NewView \in View /\ NewView.left = {} /\ NewView.solved = {} /\ NewView.shown = {}
  BY DEF NewView, View
<1>3. QED
  BY <1>1, <1>2 DEF CatalogInit, VInv, ViewOK

LEMMA AlwaysVInv == CatalogSpec => []VInv
BY InitVInv, StepVInv, PTL DEF CatalogSpec

-----------------------------------------------------------------------------
\* Every place of the scoreboard is always taken by one team: the three columns of
\* the query order any number of teams without a tie.
THEOREM RankingTotal == CatalogSpec => []RankingIsTotal
<1>1. VInv => RankingIsTotal
  BY PlacesAreTaken DEF VInv, LInv, RankingIsTotal
<1>2. QED
  BY <1>1, AlwaysVInv, PTL

\* A solve that pays never costs the team a place, however many teams it ties with.
THEOREM SolvesNeverDemote == CatalogSpec => SolveNeverDemotes
<1>1. ASSUME LInv, LInv', [CatalogNext]_catalogVars
      PROVE  [\A t \in Teams :
               (RowsOf(t))' # RowsOf(t) /\ (Total(t))' > Total(t) =>
                 /\ (Place(t))' <= Place(t)
                 /\ \A u, v \in Teams \ {t} : (Above(u, v))' = Above(u, v)]_solves
  <2>1. CASE LedgerNext
    BY <1>1, <2>1, NoDemotion
  <2>2. CASE solves' = solves
    BY <2>2
  <2>3. QED
    BY <1>1, <2>1, <2>2 DEF CatalogNext, catalogVars, List, Solved, CountOne, Serve, QueryFails
<1>2. VInv => LInv
  BY DEF VInv
<1>3. QED
  BY <1>1, <1>2, AlwaysVInv, PTL DEF CatalogSpec, SolveNeverDemotes

\* A projection put together while the ledger grows is never ahead of it, and never
\* shows a challenge as worth less than it is.
THEOREM ViewsMakeSense == CatalogSpec => []ViewMakesSense
<1>1. ASSUME VInv, NEW v \in Readers, NEW e \in view[v].shown,
             Floor(SchemeOf[e.name]) <= Initial(SchemeOf[e.name])
      PROVE  e.value >= CurrentValue(SchemeOf[e.name], Cardinality(SolvesOf(e.name)))
  <2>1. EntryOK(v, e)
    BY <1>1 DEF VInv, ViewOK
  <2>2. PICK s, n : s = SchemeOf[e.name] /\ n = Cardinality(SolvesOf(e.name))
    OBVIOUS
  <2>3. s \in Scheme /\ n \in Nat /\ e.solves \in Nat /\ e.solves <= n
    BY <1>1, <2>1, <2>2, SchemeAssumption, CountType DEF VInv, EntryOK
  <2>4. QED
    BY <1>1, <2>1, <2>2, <2>3, ValueFalls DEF EntryOK
<1>2. VInv => ViewMakesSense
  BY <1>1 DEF ViewMakesSense, VInv, ViewOK, EntryOK
<1>3. QED
  BY <1>2, AlwaysVInv, PTL
=============================================================================
