------------------------------ MODULE Serving ------------------------------
(***************************************************************************)
(* What happens to an HTTP request inside one replica: the middleware of   *)
(* internal/server (tracing, log, recovery), the session check of          *)
(* internal/auth, and in full the download of an attachment: the handler   *)
(* of internal/engine and the fetcher with its blob cache of internal/oci. *)
(*                                                                         *)
(* Requests run side by side and share only the cache.  Meanwhile a        *)
(* challenge may be edited, a tag pushed again, a session run out and the  *)
(* process be restarted.  A blob is a model value, Sha its digest.         *)
(***************************************************************************)
EXTENDS Naturals, Sequences

CONSTANTS
    Requests,
    Asks,           \* what a request may be
    ClaimsOf,       \* well-signed token -> the claims in it
    Files,          \* names of attachments
    Refs,           \* OCI references: tags, which may be pushed again
    Blobs,
    Sha,            \* blob -> its digest
    Digests,        \* what a challenge may give as sha256, mistakes included
    TracingOn,      \* an OTLP endpoint is configured
    Nothing

Routes == {"healthz", "verify", "attachment", "team", "nowhere"}

Guarded == {"attachment", "team"}

Tokens == DOMAIN ClaimsOf

\* An ask may carry no token, one that was never issued, and a traceparent.
Ask == [route : Routes, bearer : Tokens \union {"forged", Nothing},
        cookie : Tokens \union {"forged", Nothing}, file : Files,
        parent : {"upstream", Nothing}]

ASSUME ServingAssumption ==
    /\ Asks \subseteq Ask
    /\ Sha \in [Blobs -> Digests] /\ \A a, b \in Blobs : Sha[a] = Sha[b] => a = b
    /\ Nothing \notin Tokens \union Blobs \union Requests \union {"forged", "upstream"}
    /\ \A t \in Tokens : ClaimsOf[t] # Nothing
    /\ TracingOn \in BOOLEAN

VARIABLES
    files,      \* the visible challenge's attachments, Nothing while it is not visible
    registry,   \* reference -> the first layer of what it names now, if that is there
    cache,      \* digest -> blob
    expired,    \* tokens past their 24 hours
    ask,        \* request -> what it is, fixed when it is sent
    req,        \* request -> where it stands
    log         \* request -> its lines in the log

vars == <<files, registry, cache, expired, ask, req, log>>
worldVars == <<files, registry, expired>>

Entry == [ref : Refs, sha : Digests]

\* Where a request stands: the claims and the entry its handler holds, its answer.
Stand(pc, claims, want, body, status) ==
    [pc |-> pc, claims |-> claims, want |-> want, body |-> body, status |-> status]

Fresh(pc) == Stand(pc, Nothing, Nothing, Nothing, 0)

NoFiles == [f \in Files |-> Nothing]

Init ==
    /\ files \in {NoFiles, Nothing}
    /\ registry \in [Refs -> Blobs \union {Nothing}]
    /\ cache = [d \in Digests |-> Nothing]
    /\ expired = {}
    /\ ask \in [Requests -> Asks]
    /\ req = [r \in Requests |-> Fresh("idle")]
    /\ log = [r \in Requests |-> <<>>]

-----------------------------------------------------------------------------
At(r, pc) == req[r].pc = pc

\* The Authorization header goes before the cookie, whatever is in it.
Presented(k) == IF k.bearer # Nothing THEN k.bearer ELSE k.cookie

ClaimsFromRequest(r) ==
    LET t == Presented(ask[r]) IN IF t \in Tokens \ expired THEN ClaimsOf[t] ELSE Nothing

\* The span of the request belongs to the trace of the caller, if there is one.
TraceOf(r) ==
    IF ask[r].parent # Nothing THEN ask[r].parent ELSE IF TracingOn THEN r ELSE Nothing

Goto(r, stand) == req' = [req EXCEPT ![r] = stand]

Reply(r, status, body) == Goto(r, Stand("leave", req[r].claims, req[r].want, body, status))

Quietly == UNCHANGED <<worldVars, cache, ask, log>>

\* Routes outside the group that Middleware guards, and unknown paths.
Open(r) ==
    /\ At(r, "idle")
    /\ \/ ask[r].route = "healthz" /\ Reply(r, 200, Nothing)
       \/ ask[r].route = "nowhere" /\ Reply(r, 404, Nothing)
    /\ Quietly

\* The answer to the gateway: the identity of the session goes in its headers.
Verify(r) ==
    /\ At(r, "idle") /\ ask[r].route = "verify"
    /\ LET c == ClaimsFromRequest(r) IN Reply(r, IF c = Nothing THEN 401 ELSE 200, c)
    /\ Quietly

\* Seeded defect: no return after the 401.
MiddlewareGoesOn(r) ==
    /\ At(r, "idle") /\ ask[r].route \in Guarded
    /\ Goto(r, Stand(ask[r].route, ClaimsFromRequest(r), Nothing, Nothing, 0))
    /\ Quietly

Middleware(r) ==
    /\ At(r, "idle") /\ ask[r].route \in Guarded
    /\ IF ClaimsFromRequest(r) = Nothing
         THEN Reply(r, 401, Nothing)
         ELSE Goto(r, Stand(ask[r].route, ClaimsFromRequest(r), Nothing, Nothing, 0))
    /\ Quietly

\* Any other handler behind requireTeam, of which only the answer matters here.
Team(r) ==
    /\ At(r, "team")
    /\ Reply(r, IF req[r].claims.team = Nothing THEN 403 ELSE 200, Nothing)
    /\ Quietly

\* visibleChallenge and the search for the name: one read of the challenge.
Attachment(r) ==
    /\ At(r, "attachment")
    /\ IF files = Nothing \/ files[ask[r].file] = Nothing
         THEN Reply(r, 404, Nothing)
         ELSE Goto(r, Stand("fetch", req[r].claims, files[ask[r].file], Nothing, 0))
    /\ Quietly

Get(r) ==
    /\ At(r, "fetch")
    /\ LET b == cache[req[r].want.sha]
       IN  IF b # Nothing THEN Reply(r, 200, b) ELSE Goto(r, Stand("pull", req[r].claims, req[r].want, Nothing, 0))
    /\ Quietly

\* Seeded defect: the blob goes to the cache before its digest is compared.
PullAndPut(r) ==
    /\ At(r, "pull")
    /\ LET b == registry[req[r].want.ref]
       IN  /\ cache' = [cache EXCEPT ![req[r].want.sha] = b]
           /\ IF b # Nothing /\ Sha[b] = req[r].want.sha
                THEN Goto(r, Stand("put", req[r].claims, req[r].want, b, 0))
                ELSE Reply(r, 502, Nothing)
    /\ UNCHANGED <<worldVars, ask, log>>

\* oras.Copy, firstLayerBlob and the digest check: what the reference names now.
Pull(r) ==
    /\ At(r, "pull")
    /\ LET b == registry[req[r].want.ref]
       IN  IF b # Nothing /\ Sha[b] = req[r].want.sha
             THEN Goto(r, Stand("put", req[r].claims, req[r].want, b, 0))
             ELSE Reply(r, 502, Nothing)
    /\ Quietly

\* The registry does not answer, or the client is gone and its context ends.
PullFails(r) ==
    /\ At(r, "pull")
    /\ Reply(r, 502, Nothing)
    /\ Quietly

Put(r) ==
    /\ At(r, "put")
    /\ cache' = [cache EXCEPT ![req[r].want.sha] = req[r].body]
    /\ Reply(r, 200, req[r].body)
    /\ UNCHANGED <<worldVars, ask, log>>

\* Seeded defect: Recoverer goes around the logger instead of inside it.
PanicUnlogged(r) ==
    /\ At(r, "team")
    /\ Goto(r, Stand("done", req[r].claims, Nothing, Nothing, 500))
    /\ Quietly

\* Such a handler panics before it answers: Recoverer turns that into a 500.
Panic(r) ==
    /\ At(r, "team")
    /\ Reply(r, 500, Nothing)
    /\ Quietly

\* RequestLogger after next.ServeHTTP; identify looks at the token once more.
Leave(r) ==
    /\ At(r, "leave")
    /\ log' = [log EXCEPT ![r] = Append(@, [status |-> req[r].status, trace |-> TraceOf(r),
                                            claims |-> ClaimsFromRequest(r)])]
    /\ Goto(r, Stand("done", req[r].claims, req[r].want, req[r].body, req[r].status))
    /\ UNCHANGED <<worldVars, cache, ask>>

-----------------------------------------------------------------------------
\* The process ends with requests in flight and starts again, its cache empty.
Restart ==
    /\ cache' = [d \in Digests |-> Nothing]
    /\ req' = [r \in Requests |-> IF req[r].pc \in {"idle", "done"} THEN req[r]
                                  ELSE Fresh("cut")]
    /\ UNCHANGED <<worldVars, ask, log>>

Edit ==
    /\ files' \in [Files -> Entry \union {Nothing}] \union {Nothing}
    /\ UNCHANGED <<registry, expired, cache, ask, req, log>>

Push ==
    /\ \E f \in Refs, b \in Blobs \union {Nothing} : registry' = [registry EXCEPT ![f] = b]
    /\ UNCHANGED <<files, expired, cache, ask, req, log>>

Expire ==
    /\ \E t \in Tokens : expired' = expired \union {t}
    /\ UNCHANGED <<files, registry, cache, ask, req, log>>

Handle(r) ==
    \/ Open(r) \/ Verify(r) \/ Middleware(r) \/ Team(r) \/ Attachment(r) \/ Get(r) \/ Pull(r)
    \/ PullFails(r) \/ Put(r) \/ Panic(r) \/ Leave(r)

Next == (\E r \in Requests : Handle(r)) \/ Restart \/ Edit \/ Push \/ Expire

Spec == Init /\ [][Next]_vars
-----------------------------------------------------------------------------
PCs == {"idle", "attachment", "team", "fetch", "pull", "put", "leave", "done", "cut"}

Claims == {ClaimsOf[t] : t \in Tokens}

\* The type invariant.  A handler behind Middleware has claims in hand, those of
\* the token that was presented: it reads them without looking whether they are there.
TypeOK ==
    /\ files \in [Files -> Entry \union {Nothing}] \union {Nothing}
    /\ registry \in [Refs -> Blobs \union {Nothing}]
    /\ cache \in [Digests -> Blobs \union {Nothing}]
    /\ expired \subseteq Tokens
    /\ ask \in [Requests -> Asks]
    /\ req \in [Requests -> [pc : PCs, claims : Claims \union {Nothing},
                             want : Entry \union {Nothing}, body : Blobs \union Claims \union {Nothing},
                             status : {0, 200, 401, 403, 404, 500, 502}]]
    /\ \A r \in Requests : req[r].pc \in {"attachment", "team", "fetch", "pull", "put"} =>
         Presented(ask[r]) \in Tokens /\ req[r].claims = ClaimsOf[Presented(ask[r])]

-----------------------------------------------------------------------------
\* A player is given the file whose digest the challenge named when the download
\* was asked for, or none: whatever the tag was pushed to since, whoever filled
\* the cache, and whatever went wrong for the others who were filling it.
ServesWhatWasNamed ==
    \A r \in Requests : ask[r].route = "attachment" /\ req[r].status = 200 =>
        req[r].body \in Blobs /\ Sha[req[r].body] = req[r].want.sha

\* "one structured log line per request" (logging.go:33): a request that was
\* answered, be it because its handler panicked, has one line, with the status the
\* client got, in the trace of the caller, and for a guarded route with the identity
\* the handler acted for, unless that session has run out in the meantime.
LoggedAsAnswered ==
    \A r \in Requests : At(r, "done") =>
        /\ Len(log[r]) = 1
        /\ log[r][1].status = req[r].status
        /\ ask[r].parent # Nothing => log[r][1].trace = ask[r].parent
        /\ req[r].claims # Nothing =>
             log[r][1].claims = req[r].claims \/ Presented(ask[r]) \in expired
=============================================================================
