# CyberKube in TLA+

CyberKube is a capture-the-flag platform: a Go backend, any number of replicas
of it behind a load balancer, one PostgreSQL database, a Kubernetes cluster with
a CTF operator that runs the challenge instances, and a browser client that
shows the challenges as a 3D world. This directory models the parts in which
requests, replicas and outside actors meet, checks them with TLC on small
instances, and proves the central properties with TLAPS for every instance.

## The system

| Part | Source | State | Operations | Hard behaviour | What makes it correct |
|---|---|---|---|---|---|
| Scoring | `internal/engine/scoring.go` | none | `CurrentValue` | rounding near the floor | never below the floor, never rising with solves |
| Solve ledger | `internal/store/scoring.go`, `migrations/0002` | `solves`, `submissions` tables | `RecordSubmission`, `CountSolves`, `InsertSolve`, `Scoreboard` | racing inserts, ties | one award per team and challenge, rows final, total order |
| Challenge catalogue | `internal/engine/handlers.go` (`List`, `World`) | none; reads cache and tables | `challengeViews` | a projection put together by several queries | an answer that makes sense as one |
| Submission | `handlers.go` (`Submit`) | one handler per request | check, record, count, insert, mark, announce | each call commits on its own; failures, lost answers, crashes | pays once, announces once, only for a recorded correct flag |
| Launch and status | `handlers.go` (`Launch`, `InstanceStatus`) | `ChallengeInstance` objects | read, delete, create, read again | calls address objects by name | an instance in use stays |
| Kubernetes client | `internal/k8s/client.go` | informer cache | list, get, create, delete, patch | stale cache, replaced objects | |
| Accounts and teams | `internal/auth`, `internal/teams`, `internal/store/store.go` | `users`, `teams`, tokens | register, login, create, join | check and update in two statements; the team claim lives in the token | a user has one team, and the claim follows it |
| Event feed | `internal/events`, `store.ListenEvents` | hub, client queues, LISTEN connection | publish, listen, broadcast, register | reconnects, full queues, close against send | order kept per client, no send on a closed channel |
| Start and stop | `cmd/cyberkube/main.go`, `store.migrate`, `GetOrCreateSetting` | pool, contexts, settings | migrate, seed, sync, serve, shut down | replicas starting together; shutdown order | one schema, one seed, the process ends |
| Attachments | `internal/oci` | blob cache | fetch | concurrent fills, tags pushed again | what is served has the digest that was named |
| HTTP | `internal/server`, `auth.Middleware` | one log line per request | route, guard, recover, log | panics, sessions that run out on the way | each answer has its line, in its trace |
| World generation | `frontend/src/world/gen`, `world/world.ts` | loaded and cached chunks | update, build, evict, rebuild | border crossings, level of detail, budget per frame | a chunk lives in one place, the view is completed |
| Client | `frontend/src/main.ts`, `api.ts`, `ui/*` | panels, world, session | load, rebuild, submit, launch, poll | answers out of order, panels that are gone | a world has every solve confirmed before its load began, the controls come back, spinners end |
| Metrics, tracing | `internal/metrics`, `internal/tracing` | counters, spans | observe, export | | |

The parts meet in few places. A handler calls the store (PostgreSQL), the
Kubernetes client and the publisher one after the other; it holds no lock and no
transaction across two calls, so everything that other requests and replicas do
may happen between any two of them. The publisher is `pg_notify`: a row in the
feed for every replica that listens. The operator and its janitor act on the
instances on their own.

## Modules

| Module | Models | Uses |
|---|---|---|
| `Scoring` | `CurrentValue`, in exact integers | |
| `SolveLedger` | what the `solves` table promises: the abstract specification | `Scoring` |
| `Scoreboard` | the ranking query over it | `SolveLedger` |
| `Catalog` | the challenge list and world projections, read while teams solve | `Scoreboard` |
| `Cluster` | the Kubernetes calls, the operator and the janitor | |
| `Submission` | `Submit`, step by step | `Cluster`, `Scoring`, `SolveLedger` (refined) |
| `Launching` | `Launch` and `InstanceStatus`, step by step | `Cluster` |
| `Engine` | the two composed over one cluster | `Submission`, `Launching` |
| `Membership` | accounts, sessions, teams and the client's landing flow | |
| `EventFeed` | what a connection to `/api/v1/events` may count on: abstract | |
| `Hub` | publishing, listen loops, the hub's lock and queues, the writers | `EventFeed` (refined) |
| `Boot` | start and stop of replicas: migrations, seed, cache, serving, the closing of the pool | |
| `Serving` | a request from the router to the log line, and the download of attachments | |
| `Chunks` | the terrain streaming of the client | |
| `Client` | the client in the world: loads, overlays, the challenge panel | |
| `LaunchingProofs`, `MembershipProofs`, `HubProofs`, `BootProofs` | theorems of those modules | |
| `EngineProofs` | theorems of `Submission`, and of `Engine` | `ScoringProofs`, `LaunchingProofs` |
| `RequestProofs` | theorems of `Serving`, `Scoreboard` and `Catalog` | `ScoringProofs` |
| `ScoringProofs` | induction, and theorems of `Scoring` | |
| `ClientProofs` | theorems of `Client` and `Chunks` | `ScoringProofs` |
| `MC*` | instances for TLC | |

Definitions marked "Seeded defect" are wrong on purpose. They are not part of
any specification; substituting one for the definition after it must make a
property fail, which shows that the property can see that mistake.

### How state and actions correspond to the code

*Database.* A table is a set of rows. `at` in a row of `solves` is the number of
rows before it, the order of the commits. The column `created_at`, which only the
ranking looks at, is the start of a transaction, so it may tie or disagree with that
order: `CreatedAt` in `Scoreboard` gives each possible row any stamp. A statement is one
step, as PostgreSQL runs it. `InsertSolve` is `INSERT ... ON CONFLICT DO
NOTHING`; its answer (`inserted`) decides the branch in `Insert`.

*Handlers.* `req[r]` is the handler of request `r`: `pc` names the call it makes
next, the other fields are its local variables and its answer. The steps follow
`handlers.go` 239-331:

| Action | Code |
|---|---|
| `Refuse`, `AcceptStatic`, `AcceptDynamic` | 180-203 and 240-271: team, visibility, empty flag, flag not decrypted, or `GetChallenge` fails; the static comparison needs no call |
| `CheckInstance` | 272-287: `GetInstance` and comparison; a missing instance is a wrong flag |
| `Record` | 289-298: `RecordSubmission`; an incorrect flag ends here |
| `Count` | 300-306: `CountSolves` and `CurrentValue` |
| `Insert` | 307-318: `InsertSolve`; a team that had the challenge gets no points |
| `Mark` | 319-323: `MarkInstanceSolved`, failure logged |
| `Announce`, `Refresh` | 324-331: two notifications, failures logged, then the answer |

A call can fail (`CallFails`, `LoggedFailure`), take effect and still look failed
(`RecordAckLost`, `InsertAckLost`), or never be made because the replica died
(`Crash`). A retry of the client is another request with the same content.

*Kubernetes.* `inst[n]` is the object of name `n`; a name is made of challenge
and source (team for a shared challenge, user otherwise), so a replaced instance
keeps its name and changes its `uid`. The uid also stands for its flags, which
the operator publishes when the object is ready. `crs[c]` is what the informer
cache shows of a challenge when a handler looks; it changes at any time, which
covers both edits and a cache that lags. `Deploy`, `Expire`, `Reap` are the
operator, the clock and the janitor, none of which is in the repository.

*Launch.* A request (`Asks`) belongs to a user, by its claims; one user may have
several in flight, since neither the handler nor the client prevents it: a panel
closed and opened again has a new button, and so has another tab. `known` is
history: how many instances there had been when the request came. `Get`, `Delete`,
`Create`, `Reget`, `Publish` are the calls of `handlers.go` 356-391 and
of `client.CreateInstance`, which reads the object again when the name is taken.

*Membership.* `page[p]` is where the landing flow of tab `p` stands and, while a
request of it is in flight, the handler's variable: the team that `Login` read, or
the one to create or join. `Login` is two steps because the password is compared
between the read and the token. `Create` and `Join` are `Ask` (the check that the
user has no team), `CreateTeam` or `FindTeam` and `JoinTeam` (the statements; the
transaction of `store.CreateTeam` is one step), and `Admit` (`refreshToken`). An
answer can be lost after the commit. A cookie is its team claim; tabs of a browser
share it. A tab is one attempt at a time. On the login card the Enter
key starts a second one while the button is disabled (`auth.ts:86`): that one, with the
gate it leads to, counts as another tab of the browser, and so does a request that still
runs after its page was reloaded, whose answer is lost. `OneTabStays`, which speaks of a
user with one tab, is therefore about one attempt at a time.

*Event feed.* An event is its number in commit order. `listener[r]` is the
goroutine `events.Listen` of a replica with its database session: `Take` is
`WaitForNotification` returning and `BroadcastRaw` taking the lock, `Enqueue` one
round of its loop over the clients (in any order, as Go ranges over a map),
`Unlock` its return. `conn[c]` is `ServeWS` with the client's channel;
`Register` and `Unregister` wait for the lock. `LoseConnection` drops what the
session had not delivered; `Listen` is the reconnect after the back-off. `holed`
records that an event was lost for the connection. The comment of `BroadcastRaw`
(hub.go:74) that slow clients "are dropped" is true of the frame: the client stays.

*Boot.* `proc[r]` is the goroutine of `run`: its place, the migration it is at and
the seed it has read. `told`, `synced`, `listens` and `busy` are what the other
goroutines of the replica contribute: the context, the informer, the listen loop
and the handlers, the last two as far as they hold a connection of the pool.
`Apply` is the script in an open transaction: PostgreSQL makes a second `CREATE
TABLE` wait for the first and fail once that is committed, and the replica that
fails is started again. The table of the versions itself is created with `IF NOT
EXISTS` in `Start`; of two replicas that do so at the same time one may still fail and
end, which is as if it had not started yet. `Close` is the deferred `st.Close`, which waits for all
connections. The deferred `stop`, which ends the context, comes after it and so
is part of the exit. A replica whose requests are cut off by its exit is the
`Crash` of `Submission`.

*Serving.* `ask[r]` is what a request brings (route, `Authorization` header, cookie,
traceparent) and `req[r]` where its goroutine stands, with the claims and the
attachment entry its handler holds. Routes are told apart by what guards them:
none, `Middleware`, `Middleware` and `requireTeam`. `Attachment`, `Get`, `Pull` and
`Put` are the download of `handlers.go` 180-228 with `Fetcher.Fetch`: the entry is
read once, the cache is locked for the look and again for the store, and the pull
with its digest check is between the two. `Panic` is a handler that panics before it
answers, as `newInviteCode` does, and the `Recoverer` above it; `Leave` is what
`RequestLogger` does after the handler. `Restart` empties the cache and cuts requests.

*Chunks.* `scene` is the `loaded` map and the `lru` map in insertion order, which is
all that the eviction looks at, and `alive` counts the chunks that were built and not
disposed of. `Frame` is one `update`: unload what is out of view, then take or build
the missing chunks in the order of its loops until the budget is spent. `lod` and
`bare` of a chunk are set when it is built and travel with it through the cache.
`LoadAll` are the rounds of the loop that load something, one after the other.
`RebuildWorld` is `World.rebuild`, which disposes of the manager and makes another.

*Client.* The browser handles one event at a time, so an action is what runs from one
`await` to the next. `loads` are the calls of `loadChallenges` under way and `calls`
what panels wait for, both bags, since two of a kind may be waiting; an entry holds
the answer once there is one (`AnswerLoad`, `Answer`), which the client comes to at
some later time (`WorldArrives`, `ListArrives`, `Arrives`). Thus requests are handled,
and answers arrive, in any order. `windows` are the overlays on the page. The handlers
of a panel go on when it is closed, but what they show is not seen then. `confirmed`
and `since` are history: the solves this client was told of, and those of them from
before a load began.

*Scoring.* The Go code computes in `float64`. Comparing `initial - decay *
log2(n+1)` with an integer is comparing integer powers, so the model computes the
rounded value exactly, without floating point.

## Runs

| Run | Question | Instance |
|---|---|---|
| `catalog` | Is the ranking a total order, does a solve ever cost a place, does a projection make sense and never show less than the present value? | 3 teams, a challenge that decays logarithmically from 6 to 1 and a flat one, 1 reader, time stamps that tie and that disagree with the order of the commits |
| `submission` | Does the pipeline implement the ledger, pay and announce once, under every race and failure? | 2 requests of 7 kinds, 2 teams, 3 users, a static and a shared dynamic challenge |
| `engine` | Do submissions and launches fit together, and does what a solve starts get finished? | 1 submission, 2 teammates who share an instance |
| `launching` | Which launches may replace an instance in use? | 2 teammates with an instance of their own each, one of them with two requests at a time |
| `membership` | Do claims name teams their users were in, does a failure leave a team unfounded, can anybody play without a team, does one tab lead to two teams? | Ann with two browsers, Bob with one, 2 teams |
| `feed` | Does every connection get events in order, are gaps only where an event was dropped, does a stuck peer stall the others, is a closed channel ever sent to? | 1 replica, 2 connections of which one may get stuck, queues of 1, 4 events |
| `boot` | Do racing, failing and dying replicas leave one whole schema and one seed, is a server ready, does a replica end when told and come up when left alone? | 2 replicas, 3 migrations, 2 seeds, 3 faults |
| `serving` | Is a download what was named, whoever fills the cache and whatever is pushed? Has each answer its log line, with whom and in which trace? | 2 requests of 8 kinds, 1 tag, 2 blobs, 2 sessions |
| `chunks` | Is a chunk ever lost, drawn twice or disposed of while shown? Is the ground near the rover complete? Does a view settle? | views of radius 2, 1 and 0, a road of 3 chunks, a cache of 3, 4 chunks per frame |
| `client` | Has a world every solve confirmed before its load began, whatever loads overlap? Do the controls come back, does a spinner outlive its instance's start? | 2 challenges, one of them dynamic, 2 overlays of which one a panel, 2 requests or timers at a time |
| `launch_race` | Is an instance in use kept whatever launches overlap? **No.** | 2 teammates with one request each for the instance they share |
| `stuck` | Does a replica that cannot serve end? **No.** | as `boot` |

*Bounds.* Two requests of seven kinds contain every race the pipeline has: two
teammates, two teams, a static and a dynamic challenge, with and without a team, an empty flag.
A third request adds no new pair, and every safety property of `Submission`
is also proved for any number of them. Two
instances (`MaxInstances`) let one be replaced under its name, which is what the
instance checks are about, and in `launching` one that is created while a launch asked
for before is under way; `launch_race` has three, so that the one deleted can be replaced.
Two requests of one user and one of a teammate are each kind of pair there. Four rows
(`FewSolves`) let two of three teams tie with one row or with two each, and the stamps
of `MCCreatedAt` make them tie in time as well, or not. `NoExpiry` keeps the
clock out of `submission`: `Submit` does not look at the expiry, and objects
vanish there for other reasons; `engine` has the clock.

In `feed` a queue of one overflows at the second event, and four events leave two
to be delivered after a gap; replicas share nothing but the notifications, so one
replica is enough there, and the proofs are for any number. In `membership` the
second device is what makes claims differ, the second tab what makes requests of
one user overlap. `boot` has the three migrations of the repository; two replicas
make every race over one of them, and three faults (`MaxFaults`) let a replica fail
at each in turn. Any fault may hit any call, and signals are not counted.

In `serving` two requests make every race over the cache and over one digest; the
eight asks contain each kind of route, each way to present a session and both ways to
be in a trace. A third request would be between the same two steps as the second, and
the three properties are proved for any number. In `chunks` the three radii differ, so
that a chunk can be in view without vegetation, with it, and in high resolution; the
cache is smaller than the row of chunks a border crossing unloads, so that it
evicts, and the budget is smaller than a row, so that the view is completed over
several frames. In the code the radii are 3, 2 and 1, the budget 2 and the cache 24,
which takes several crossings to fill; the world is wider than the view there. The two
invariants are proved for any radii in that order, any budget and cache, and any world. In `client` two overlays are a panel and the scoreboard
over it, or two panels one after the other while answers for the first are late. A
place for an overlay is used again only when nothing waits for the one before, so a
late answer cannot be mistaken for one to the new panel, as it cannot in the code,
where each panel has its own closures. Two requests (`MaxCalls`) are a poll and a
launch, a launch and a submission, two submissions, a submission and the load of
before. It takes two challenges for loads with different `since` to overlap, and for a
list that has one solve and is too old for another: the seeded defect
`WorldArrivesInTwo`, by which a load builds its world from what another one assigned,
is not seen with one. One panel at a time (`MaxPanels`) may have the scoreboard over it;
the code comes to two only by dismissing the scoreboard before the panel under it, and
panels do not look at each other. The safety properties are proved for any bounds.

Deadlock is checked in `membership`, `feed`, `boot`, `serving`, `chunks` and `client`, where something can always
happen next; there it says that no player and not all replicas get stuck for good.
It is not checked in `catalog` and in the runs about handlers, whose behaviours end when all requests have
been answered and no more instances may be made.

*Fairness.* `Fairness` in `Submission` and `Launching` is weak fairness of the
steps of a handler that has been entered: Go runs a goroutine that is ready. A
handler that crashed or failed is not resumed, and nothing forces a client to
call or a call to succeed. `EngineFairness` adds the janitor, on which the
`flagValidated` patch relies. `Launch` gets no fairness in `Engine`, since
nothing there depends on it. `Hub` is fair to the listen loop that has something
to broadcast, to the goroutine that has something to receive and to a write whose
peer reads; a connection in `Stuck` may stop in a write for ever, which is worse
than the ten seconds of `writeTimeout`. Nothing makes a lost database connection
come back or a client stay. In `Boot` the goroutines of a replica, the watch and
the end of a query are fair, and the cluster starts a replica that ended; nothing
makes SIGTERM come. `ReplicasComeUp` assumes that it stops coming, for a replica
that waits for another's migration could be overtaken for ever by ones that are
told to end in the middle of it. `Membership` and `Serving` state no liveness and
have no fairness.

`Chunks` is fair to a frame in which the rover stays on its chunk. A chunk is 64 wide
and the rover moves at most about two units in a frame, so there are many such frames
between two borders; nothing makes the rover stop, and `ViewSettles` speaks of one that
does. `Client` is fair to the requests and timers of each overlay but submissions: a
request is answered or fails in the end, as the browser sees to, and the browser runs
the handlers that are due. No click, and no answer to a submission or a load, is
forced, nor that an instance becomes ready.

### What the runs show

That one team is paid for one challenge once is the job of the unique key and of
the answer of `InsertSolve`, and they do it: under every interleaving and failure
the table changes only by awards of `SolveLedger`, each backed by a recorded
correct submission, announced at most once and answered with points at most once.
The announcement is made unless a call failed, also when the instance vanished.

A download is what the challenge named or an error: the digest is checked outside the
lock, but what is stored under a digest always has it, so it does not matter who
stores it. In the client the loads share the variable that holds the list, but
assign it and build the world without an `await` in between.

Two statements of the repository do not hold:

1. `LiveInstanceKept` (`handlers.go:356`, "Reuse an existing, non-expired instance
   instead of duplicating"). Two teammates both find the shared instance expired;
   one deletes and creates, the other then deletes what was just created.
   `DeleteInstance` sends no uid. A user alone can do the same to a personal instance,
   with a launch from each of two tabs, or from a panel and the same panel opened again.
   What does hold is `InUseKept`: a launch that is asked for once the instance is there,
   or for another one, never takes it away.
2. `FailsFast` (`main.go:36`, "failing fast (better a crash-loop with a clear
   reason than a pod that silently serves ...)"). When `ListenAndServe` fails, the
   deferred `st.Close` waits for the connection of the listen loop, which ends with
   the context, which the deferred `stop` would cancel next. `EndsWhenTold` holds:
   SIGTERM cancels the context first.

What else was found while modelling has no run. In the models it can be seen that

- an instance replaced between the check of its flag and the patch is marked, and
  reaped, though nobody solved it (`client.go:318`);
- two requests of one user, from two tabs, both pass the check for a team, and the
  second `UPDATE` moves the user (`openapi.yaml:154` and `188`, "Already in a team.").
  `OneTabStays` holds: it takes two requests at once, which one tab has only after the
  Enter key has started a second sign-in and each has led to a card;
- `Mine` reads the table and lets a player in, but `requireTeam` reads the claim:
  with a token from before the enrolment every submission is refused until the next
  sign-in (`teams/handlers.go:141`, `auth.ts:7`). `ClaimWasTrue` holds: the claim is at
  worst out of date, never invented;
- a launch that loses the race to create answers 202 like the winner, for the same
  instance, although `openapi.yaml:328` says that a new one was created;
- two teams that solve at once may both be paid the points of the better rank, for the
  count is read before the insert (`NeverUnderpaid`: the error is never to a team's loss,
  unless the challenge's minimum is above its initial points);
- a log line lacks the identity if the session ran out during the request
  (`logging.go:73`);
- of two overlapping loads the older may end last, and its world replaces the newer
  one (`main.ts:54`); `GlowsAsConfirmed` is about what each was started for;
- the scoreboard's button works under another overlay, from the keyboard, and the first
  of the two to go gives the controls back under the other, where `controls.ts:62` has
  them suspended "while an overlay/panel is open";
- a poll that fails is the last one, though the instance is still pending and the
  launch button hidden (`challengePanel.ts:121`, "poll until ready"); and the button
  stays disabled after a launch whose instance is gone by the next poll;
- a chunk built bare at the edge of the view stays bare until it comes into high
  resolution or is evicted, also within the radius of "chunks that get
  vegetation/props" (`chunks.ts:22`; `DetailIsVegetated` holds).

Read in the code but abstracted in the models: a `/api/v1/world` that fails once makes
the client derive another seed, and so another world, than its neighbours
(`main.ts:52`); a minimum above the initial points makes the value rise with the first
solve (`scoring.go`).

## Proofs

The theorems hold for any teams, challenges, schemes, requests, users, tabs,
replicas, connections, queue sizes, radii and bounds that satisfy the named assumptions:

| Theorem | Statement |
|---|---|
| `ScoringProofs` | |
| `ValueFalls` | `CurrentValue` does not rise with the number of solvers, if the floor is not above the initial value |
| `EngineProofs`, of `Submission` | |
| `TypeCorrect` | `Spec => []TypeOK` |
| `SolvesAreBacked` | `Spec => []SolveBacked` |
| `SolvesAreAnnouncedOnce` | `Spec => []AnnouncedOnce` |
| `PaidAnswers` | `Spec => []PaidAnswerOnce` |
| `PipelineImplementsLedger` | `Spec => ImplementsLedger` |
| `NobodyUnderpaid` | `Spec => []NeverUnderpaid` |
| `OwnInstances` | `Spec => []OwnInstanceOnly` |
| `EngineProofs`, of `Engine` | |
| `EngineIsTyped` | `EngineSpec => []EngineTypeOK` |
| `EngineImplementsSubmission` | `EngineSpec => ImplementsSubmission` |
| `EngineKeepsPromises` | `EngineSpec => []` each invariant of `Submission` |
| `EngineKeepsInstances` | `EngineSpec => Launch!InUseKept` |
| `LaunchingProofs` | |
| `LaunchesAreTyped` | `Spec => []TypeOK` |
| `InstancesInUse` | `Spec => InUseKept` |
| `MembershipProofs` | |
| `MembershipTyped` | `Spec => []TypeOK` |
| `ClaimsWereTrue` | `Spec => []ClaimWasTrue` |
| `NoTeamUnfounded` | `Spec => []TeamsAreFounded` |
| `LandingLeadsToTeam` | `Spec => []PlayersHaveTeams` |
| `OneTabIsFinal` | `Spec => OneTabStays` |
| `HubProofs` | |
| `FeedTyped` | `Spec => []TypeOK` |
| `NoSendAfterClose` | `Spec => []NoSendOnClosed` |
| `FeedInOrder` | `Spec => ImplementsFeed` |
| `NoGapWithoutReason` | `Spec => []GapsHaveReasons` |
| `BootProofs` | |
| `BootTyped` | `Spec => []TypeOK` |
| `SchemaStaysWhole` | `Spec => []SchemaIsWhole` |
| `ServersAreReady` | `Spec => []ServesReady` |
| `SeedsConverge` | `Spec => []OneWorld` |
| `RequestProofs`, of `Serving` | |
| `ServingTyped` | `Spec => []TypeOK` |
| `DownloadsAreNamed` | `Spec => []ServesWhatWasNamed` |
| `AnswersAreLogged` | `Spec => []LoggedAsAnswered` |
| `RequestProofs`, of `Catalog` | |
| `RankingTotal` | `CatalogSpec => []RankingIsTotal` |
| `SolvesNeverDemote` | `CatalogSpec => SolveNeverDemotes` |
| `ViewsMakeSense` | `CatalogSpec => []ViewMakesSense` |
| `ClientProofs`, of `Client` | |
| `WorldIsCurrent` | `Spec => []GlowsAsConfirmed` |
| `RoverCanDrive` | `Spec => []ControlsReturn` |
| `ClientProofs`, of `Chunks` | |
| `ChunksAreAccountedFor` | `StreamSpec => []ChunksAccountedFor` |
| `DetailHasVegetation` | `StreamSpec => []DetailIsVegetated` |

*Induction.* A few operators are recursive functions or folds: powers, the sum of points
in the ranking query, the sequences of `Chunks`. The provers have no rule of induction
that takes a formula, so `ScoringProofs` and `RequestProofs` prove one that takes a set,
from the well-foundedness of the strict subsets of a finite set: a set that has 0 and with
each number its successor has all numbers (`NatSetInduction`), and a family that has each
subset whose proper subsets it has is that of all subsets (`SubsetInduction`). With them it is shown first
that there is a function that satisfies the recursion, since a definition by recursion is
the choice of one, and then what that function computes.

*Scoring.* Before the floor the value is the initial one minus a loss. The loss grows with
the number of solvers: for the logarithm it counts the powers of two below a power of the
number of solvers, and powers grow in their base. So does the test for the floor, and where
it does not hold the loss does not exceed what lies above the floor, rounded or not.

*Submission.* None of `SolveBacked`, `AnnouncedOnce` and `PaidAnswerOnce` is inductive. Knowing that two answers with points do
not exist says nothing about a handler that is about to give one. The
inductive invariant `IInv` therefore speaks about handlers under way: one at
`count` or later has a correct submission on record; one at `mark`, `announce` or
`refresh` is the winner, its points are those of its team's row, no other handler
of the team for that challenge is a winner or has answered with points; and until
a winner has announced, no notification of that solve is in the feed. Winning is
entered only through `Insert` with no row of the team in the table, which by the
uniqueness of rows (also in `IInv`) means nobody else has won.

Each action is first reduced to its effect on one request (`HandlerEffect`); the
step lemmas (`QuietKeeps`, `WinsKeeps`, `TellsKeeps`, `RefreshesKeeps`) prove that
each kind of effect preserves `IInv`; `StepIInv` puts them together. For the
refinement, an `Insert` that finds no row is an `Award` for the count the handler
read, and that count is at most the present one since rows are never removed.

`OwnInstanceOnly` has an invariant of its own, `OInv`. Between the comparison of the
flag and the record the instance may be gone or replaced, so what the handler carries
on is not about the object but about its uid: it was minted for the name of the sender
(`MatchedOwn`), and what was minted stays so (`MintedStays`). That the object compared
with had such a uid is `ObjectsMinted`, beside the lemmas on the calls of the client.

For `NeverUnderpaid` the rank of a row must not change once it is written: rows are
numbered in the order they come, each later than all before it (`Ranked`, `RInv`). The
count that priced it was taken earlier, of fewer rows, and by `ValueFalls` a lesser rank
is worth no less.

*Engine.* A step of a launch is for `Submission` either a step of the cluster, which it
allows at any time, or nothing. That needs what `Launching` knows (its own `IInv`, taken
over by instantiating `LaunchingProofs`): objects are created under names that are
challenges' and sources', for dynamic challenges only (`LaunchesDynamic`), and one that is
deleted leaves a blank (`Blank`). In the other direction `Submission` only ever marks an object, which
`Launching` allows too. `EInv` is the conjunction. With the refinement each invariant of
`Submission` holds of the composition, and `InUseKept` by the same simulation
from the other side.

*Launching.* A handler about to delete acts on what it read one call earlier. By the
time it deletes, what it read is still expired, or gone, or replaced by an instance that
did not exist when the request came (`Deletable`, in `DeletesExpired`). That goes on to
hold whatever others do (`StaysDeletable`), because instances only age: an expired one
stays expired, and a new one under the name has a higher uid than all that were there
(`Ages`). The third case is the loss `InUseKept` allows, and `launch_race` shows that
it happens.

*Membership.* A claim is true because of what the handler holds when it issues the
token: `IInv` adds that a handler about to sign or to admit has in hand a team its
user has been in (`TeamInHand`), and one that joins a team of the table. A player
who is past the gate, or about to be admitted, is in a team (`OnTheWay`).
`OneTabStays` is an action property: by `Undisturbed`, also proved inductive, the
user of a lone tab has no team while its request to enrol is in flight, and
`OneMoves` says that only such a request moves anybody.

*Event feed.* `ImplementsFeed` says that a write is newer than all before it, which
depends on every place an event passes: `IInv` states that the backlog and each
queue rise, and that along the way from the output of a connection through the
event being written, the queue, the event being broadcast and the backlog to the
next notification each part is below the next (`ConnOrder`, `LoopOrder`). The second
conjunct of `LoopOrder` that matters is that a client yet to be served holds
nothing as new as the event in hand, which fails without the lock or with a client
served twice. `Registered` ties the clients of the hub to their goroutines and
gives `NoSendOnClosed`.

`GapsHaveReasons` needs more than order: that nothing in between is missing. `Whole`
says of a connection that was never skipped that the events it holds or is yet to be
served (`Coming`) contain with each event all later ones that were published
(`UpTo`); what it was handed is therefore convex. A broadcast that finds the queue full and a listener that
loses the database mark the connection as `holed`, after which nothing is claimed.

*Boot.* The four invariants rest on what a replica has behind it (`Behind`): the
migrations before the one it is at, then all; a seed in the table, then that one
in hand. Others only add to the tables and never replace the seed, so a replica
keeps it (`BehindKept`). That two replicas do not run one migration at once is not
needed for any of it: the lock only decides who fails.

*Serving.* `IInv` says of each request on its own where its claims come from
(`Identified`), what a download has in hand at each point (`Backed`) and what the log
has of it (`Logged`). What requests share is the cache, of which it is enough that a
blob has the digest it is stored under (`CacheSound`): `Put` keeps that since what it
stores was compared, and `Get` uses it. `Goto` is the only change a handler makes to
its own state, so every step comes down to one lemma about another place of one
request.

*Scoreboard and catalogue.* The three columns order any two teams, one way only and
transitively, since the last is the name and names are compared by a strict total order;
the number of teams ahead, plus one, is then a place of its own for each. That a solve
costs its team nothing: the points of a team are a sum over its rows, which a row more
raises by its points (the sum does not depend on the order it is taken in, by
`SubsetInduction`), and the time of the last solve matters only between equal points. A
solve of no points can cost a place, which is why `SolveNeverDemotes` speaks of awards
that add some. For the projections it is enough that each value is that of a count taken
at the time (`EntryOK`), and that rows are never removed, so what a reader holds is at
most what there is (`ViewOK`).

*Client.* A load carries what was confirmed before it (`since`), and once answered a
list that contains it (`LoadsSound`): the server is asked after the load began, and
what is solved stays so. A world is built from one load, in the step that assigns the
shared variable (`WorldSound`), so nothing need be said of how loads are ordered. `CallsSound` says that a verdict "correct" is
about a solve of the server, without which a confirmation would prove nothing.

*Chunks.* `ChunksAccountedFor` is about chunks of one position and resolution, the
invariant (`InOrder`) about the two maps together: no position twice in the scene, no chunk
twice in the cache, none in both, and the number on the card is what the two hold. A frame
is a long step, so each piece of it is shown to keep a scene in order: chunks
that leave for the cache (`UnloadKeepsOrder`), where what stays and what goes are together
the scene (`KeepSplits`) and, because scene and cache are apart, nothing in the cache is
replaced (`KeepAll`) without being disposed of; a chunk that comes up where there is none
(`TakeOrBuildKeepsOrder`); and, by induction over the budget, any number of them
(`LoadAllKeepsOrder`). `DetailIsVegetated` needs the same of the cache, and that the radius
of high resolution is not above that of vegetation.

Assumptions used, each about the constants and of the shape the code gives them:
`ClusterAssumption`, `SubmissionAssumption`, `LaunchingAssumption`, `EngineAssumption`,
`SchemeAssumption`, `NameAssumption` (names are strictly and totally ordered, teams are
finitely many), `ReaderAssumption`, `MembershipAssumption`, `HubAssumption`,
`BootAssumption`, `ServingAssumption`, `ClientAssumption` and `ChunksAssumption`. That tables
are finite is proved, as part of the invariants.

`NeverUnderpaid` and `ValueFalls` are stated for schemes whose floor is not above the
initial value. The code does not enforce that; for the others the value rises to the floor
with the first solve, and the statement is false.

Model-checked only: the liveness properties `SolveAnnounced`, `SolvedInstanceReaped`,
`NobodyStalls`, `EndsWhenTold`, `ReplicasComeUp`, `ViewSettles` and `SpinnerEnds`. They need
fairness, and with it ENABLED, which is beyond the prover. Every invariant, every action
property and every refinement that a passing run checks is a theorem.

## Not modelled

Left out for good: metrics and the export of traces (nothing in the program reads them
back; which trace a request belongs to is in `Serving`); route patterns and request
ids; password hashing and token signatures (library calls); noise, biomes, the placement
of buildings and vegetation (floating-point arithmetic on a seed, beyond TLC);
rendering, the minimap, banners, messages and the kinematics of the rover; on the
unpacking of a pulled artifact only that it yields the first layer or fails. Requests
in flight when `ListenAndServe` returns on a shutdown are cut off with the process:
`Restart` in `Serving`, `Crash` in `Submission`.

Open end: `published` in `Submission` is what was notified; the path of those events to the
clients is in `Hub`, and the two are not composed.
