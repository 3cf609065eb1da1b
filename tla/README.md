# Verification of activity-events-api

TLA+ modules for the parts of the service where order, concurrency and failure
decide whether it is correct, TLC configurations that check them on small
instances, and TLAPS proofs of every safety property for every instance.
Paths are relative to the repository root; `internal/` paths are Go packages.

## 1. The system

| component | state | operations | interacts with |
|---|---|---|---|
| aggregation pipeline (`internal/service/aggregation.go`, `repository/aggregation.go`, `models/aggregation.go`) | `activity_buckets`, `aggregation_runs`, one advisory lock per window | `RunBucket`, `RunPending`, `Stats`, `Runs` | reads `events`; called by the scheduler and by `POST /admin/aggregation/runs` |
| scheduler (`internal/scheduler`) | a ticker | `Run`, `runOnce` | calls `RunPending` at start and on every tick; several worker processes may run |
| sessions (`internal/service/auth.go`, `repository/refresh_token.go`) | `refresh_tokens`, an advisory lock per family | `startSession`, `Refresh`, `Logout`, `RevokeFamily` | sign-in of every kind; `AttachGoogle` |
| accounts (`internal/service/auth.go`, `repository/user.go`) | `users` | `Register`, `Login`, `AttachGoogle` | sessions, Google sign-in |
| Google sign-in (`internal/service/google_oauth.go`, `repository/google_oauth.go`) | states, one-time codes | start, callback, exchange | accounts, sessions, JWKS cache |
| JWKS cache (`internal/auth/google.go`) | keys, their lifetime, the time of the next fetch, two locks | `Verify`, `keyForToken`, `refreshKeys` | every Google callback; Google |
| event ingestion (`internal/service/event.go`, `repository/event.go`, `handler/event.go`) | `events` with a unique (user, key) index | `Record`, `RecordBatch`, `List` | stream broker; aggregation reads its table |
| event stream (`internal/stream/broker.go`, `handler/event.go`) | subscriber map, one buffered channel per stream, an RWMutex | `Subscribe`, cancel, `Publish` | published to by ingestion |
| dashboard (`frontend/src`) | feed, access and refresh token | history then stream, reconnect, renew | the API |
| process (`cmd/app/main.go`, `internal/app/deps.go`, `internal/database/postgres.go`) | mode, connection pool, HTTP server, worker goroutine, shutdown timer | `run`, `Connect`, `Shutdown` | starts and stops all of the above |
| plumbing (router, middleware, config, logger, metrics, seed, migrate) | none that outlives a request | | |

What is hard here:

* **Aggregation.** Workers and admins meet on one window. A run writes its rows
  in one transaction and its record in another. The watermark, which decides
  what the scheduler still has to do, is derived from those records. Any step
  can fail, lose its answer or be cut off by a crash.
* **Sessions.** Refresh tokens are used once. Requests that present the same
  token, log out, or link the account race inside Postgres transactions under
  three kinds of lock. A successor that commits after a revocation would undo it.
* **Ingestion.** Retries and concurrent requests carry the same idempotency key;
  batches may wait for each other's keys in opposite orders.
* **Sign-in.** Callbacks and exchanges are replayed; first sign-ins, registrations
  and links for one address race between a read and an insert or update, with only
  the unique indexes between them. Google's keys rotate, its endpoint fails, and
  every sign-in of the process shares one cache.
* **Reading.** Rows with equal and earlier times are committed between two pages;
  the dashboard puts a page and a stream together that are read at different times.
* **Stopping.** A shutdown races open streams, transactions and a pass of the
  worker against one timer.
* **Stream.** Channels are closed while publishers send; slow clients must not
  block the request that records an event.

What makes each part correct: no event is lost or counted twice in closed
windows; one usable token per session and none after revocation; one row per key
and truthful answers; no send on a closed channel, and no silent loss; states and
codes good for one use, and nobody in another's account; pages without gaps or
repeats; a process that ends when told to.

`PROJECT.json` lists the hazards with their lines and the properties that cover
them.

## 2. Modules

| module | models | extended by |
|---|---|---|
| `Aggregation` | pipeline and scheduler | `ActivityStats`, `AggregationProofs` |
| `TokenFamilies` | what a session promises (abstract) | instantiated by `SessionTokens` |
| `SessionTokens` | refresh tokens and account link, statement by statement | `MCSessionTokens`, `SessionTokensProofs` |
| `ActivityStats` | `GET /stats/activity`, over the tables of `Aggregation` | `MCAggregation`, `ActivityStatsProofs` |
| `EventIngest` | recording events | `MCEventIngest`, `EventIngestProofs` |
| `Broker` | event stream | `MCBroker`, `Server` |
| `Server` | the process around the requests of `Broker`: start-up, worker, shutdown | `MCServer`, `ServerProofs` |
| `GoogleSignIn` | accounts, passwords, the Google flow | `MCGoogleSignIn`, `GoogleSignInProofs` |
| `JwksCache` | the cache of Google's keys | `MCJwksCache`, `JwksCacheProofs` |
| `EventReads` | `GET /events` | `LiveFeed` |
| `LiveFeed` | the dashboard's feed over the listing and a stream | `MCLiveFeed`, `LiveFeedProofs` |

Definitions named "Faulty variant of ..." are not part of any specification:
each is a plausible bug in the definition it names, and replaces it to show that
a property notices.

### Aggregation

`now` is the clock; a window is its start; a row of `activity_buckets` is the set
of events its counters were computed from (`event_count`, `type_counts` and the
two timestamps are functions of that set). `runs` is `aggregation_runs` without
ids, timestamps and messages. `proc` is the local state of each caller: a
scheduled pass is `StartPass`, `ReadWatermark`, `ReadEarliest`, then for every
planned window `OpenRun`, `TryLockBucket`, `Upsert`, `CommitAggregate`,
`RecordRun`. An admin enters at `OpenRun` (`StartManual`). Events are received
(`ReceiveEvent`, where `normalize` checks the time) and committed later
(`CommitEvent`).

Faults are their own actions: a failed read, a failed call inside the
transaction, a COMMIT whose answer is lost, a failed `RecordRun` (with or without
its row) and a crash, after which the dead session keeps the advisory lock until
Postgres ends it (`ReapSession`).

`maxEventAge` (90 days) lies beyond the modelled clock, so every past instant
passes validation.

### SessionTokens and TokenFamilies

A token is its row; `status` is what other transactions see: "pending" is an
inserted, uncommitted row. `famLock`, `keyShare`, `forUpdate` and `marked` are the
locks a transaction holds: the advisory lock of `lockFamily`, the `FOR KEY SHARE`
the foreign key takes on the users row at insert, the `FOR UPDATE` of
`AttachGoogle`, and the row locks of an UPDATE. An UPDATE is two steps: it selects
its rows from a snapshot (`Scan`), then waits for row locks and re-checks its
condition (`Mark`), as READ COMMITTED does. A successor row that commits between
the two is not updated; that gap is what `lockFamily` closes.

`Refresh` is `ByHash` and its checks, then either the rotation or, for a revoked
token, `RevokeFamily`; a rotation whose UPDATE matches nothing rolls back and
revokes the family. `Link` is `attachGoogle`. The unique `google_sub` makes
`LinkUpdate` wait for an uncommitted link of the same subject and fail if it
commits.

`TokenFamilies` is the promise: start a family, trade a live token of a family
that is not revoked for one successor, revoke families. The mapping hides
uncommitted rows. `dead` is a history variable: the families a committed logout,
reuse or account link has revoked.

### EventIngest

An event is its key field: a key, the empty string, white space, a key that is
too long, or an event that validation refuses. `rows` are committed rows,
`pending` those of an open transaction. `Begin` validates (the header, the trim,
the batch limit, duplicate keys inside a batch), `Insert` is one
`INSERT ... ON CONFLICT DO NOTHING`, which waits for an uncommitted row with the
same key, `Lookup` is `byIdempotencyKey`, `Publish` hands created rows to the
broker one at a time. `AbortDeadlock` is Postgres breaking a cycle of waits.

### Broker

`Lock` and the critical sections are separate steps because a waiting writer of a
`sync.RWMutex` already shuts out new readers. A publisher takes the read lock,
visits the streams of the user in any order (Go's map order) with a non-blocking
send, and unlocks. A stream registers, delivers, leaves, unregisters and then
closes its channel, outside the lock. An event is identified by publisher and
position, so order and duplicates are visible.

### Server

`srv` is where `run` stands: "connect" (the pings of `Connect`, then `BuildDeps`),
"up", "drain" (`http.Server.Shutdown`), "wait" (for the worker), "close" (the
deferred `pool.Close`) and "ended". `mode` is APP_MODE: a worker without API has no
route to the events, an API without worker no scheduler goroutine. The requests
are those of `Broker`: a publisher holds a connection while its transaction is
open ("tx") and then publishes, a stream lives as long as its client likes.
`Shutdown` refuses new requests and does not cancel open ones, so an open stream
can only be outwaited (`DrainTimeout`); `pool.Close` waits for connections that
are out. The signal may come at any time (`Signal`): it ends the worker's context,
while requests are still accepted until `run` calls `Shutdown`, which closes the
listener (`BeginShutdown`). After `ListenFails` the process ends without shutdown.
A stream takes an event from its channel and writes it in one step (`Deliver`);
the return on an encoding error is left out, as stored JSON always encodes.

### GoogleSignIn

Each request is `proc[p]`, one step per statement: `Register` and `Login` up to
their session, `StartGoogleFlow`, the callback (`TakeState`, `Verify`,
`ResolveBySub`, `ResolveByEmail`, `CreateGoogleUser`, `AttachGoogle`, `CreateCode`)
and the exchange (`TakeCode`, `StartSession`). Google may answer with any subject
and any address, verified or not, so addresses move between Google accounts.
Replays present any state or code again; rows expire at any time; `Fail` ends a
request anywhere and leaves what it had written. Sessions carry the code that
paid for them, and `late` marks one whose password was removed between the check
and the insert: `Login` and `Register` do not hold the users row, so a link of an
unverified account in that gap revokes the sessions it can see and not this one.

### JwksCache

`keys` and `freshTill` are guarded by `mu`, whose critical sections are single
steps; `fetchMu` is held from `RefreshKeys` to `StoreKeys` or `FetchFails`, across
the call to Google. A key is its `kid`; `published` is Google's side, where keys
appear and are withdrawn. `lastDoc`, `fetches`, `outage`, and a request's `seen`
and `renewed` are history variables.

### EventReads and LiveFeed

`FirstPage` checks who asks for what and answers the newest page, `NextPage`
continues at the cursor; rows are committed in between with any time and any
unused id, because ids are drawn before the commit. `due` is a history variable.
A feed loads a page, subscribes in a later step, receives, and starts over when
its stream ends; `Publish` may be dropped by a full channel, and a row may never
be published at all. An event published while a feed is between its page and its
stream is in neither (`gap`), although `README.md:64` says that a fresh event
"shows up in the feed at once"; it appears with the next history. `FeedFaithful`
states that this gap and dropped events are all a connected feed can miss.

### ActivityStats

`Stats` as a function of the tables: the default range, the two refusals, the
start moved down to its window, the rows by window and their sums by day.

## 3. Runs

| run | instance | checks | result |
|---|---|---|---|
| `aggregation_safety` | 1 worker, 1 admin, windows of length 2, days of 4, 2 events, 1 fault | `TypeOK`, `RowsSound`, `CountedOnce`, `SucceededRunsCounted`, `StatsAgree`, `RowsNeverShrink` | hold |
| `aggregation_live` | 2 workers, 4 windows, backfill 2, 1 event, 1 fault | `OnTimeCounted`, `OnTimeEventuallyCounted`, `CatchesUp` | hold |
| `aggregation_manual` | 1 worker, 1 admin, no faults | `OnTimeEventuallyCounted` | violated, see 6 |
| `sessions_safety` | 3 requests, 3 tokens, 2 users, 1 Google account, 1 fault | `TypeOK`, `OneLivePerFamily`, `DeadStaysDead`, `ImplementsFamilies` | hold |
| `sessions_live` | 3 requests, 2 tokens | `RequestsEnd`, `ReuseRevokes` | hold |
| `ingest` | 2 requests, 2 users, 2 keys, batches of 2, 1 fault | `TypeOK`, `OneRowPerKey`, `AnswersHold`, `PublishedOnce`, `AllOrNothing`, `RequestsEnd` | hold |
| `ingest_header` | 2 keys | `HeaderWins` | violated, see 6 |
| `stream` | 2 publishers, 2 streams, 2 users, channels of 1, 2 events each | `TypeOK`, `NoSendOnClosed`, `FeedSound`, `Accounted` | hold |
| `server` | 1 request of 2 events, 2 streams, 2 pings, each mode | `GracefulCutsNobody`, `RequestsEnd`, `ShutdownEnds` | hold |
| `signin` | 3 requests at a time, 2 addresses, 2 Google accounts, 2 flows, 1 password request, 1 fault | `TypeOK`, `TakenOnce`, `RightAccount`, `OwnersGetIn` | hold |
| `jwks` | 2 requests at a time, 3 tokens, 2 keys, lifetimes 2 and 3, throttle 2, 4 ticks | `TypeOK`, `FetchesSpaced`, `WithdrawnRefused`, `StaleOnlyInOutage`, `RequestsEnd` | hold |
| `reads` | 1 listing or 1 feed, 3 rows, 2 times, 2 users, pages of 1 and 2 | `TypeOK`, `PagesRight`, `FeedFaithful` | hold |

Why the bounds are enough for the cases that matter:

* Aggregation: windows of length 2 with instants 1 and 2 give an instant inside a
  window and one on a boundary; in the liveness run `Skew` 1 lets an event lie in
  the next window.
  Two runners are the smallest number that can overlap, two events let
  one run see more than the other. In the liveness run the four windows exceed
  the backfill of two, so the plan is cut.
* Sessions: three requests are two rotations of one token and a revocation or a
  link; three tokens let a successor be traded again. One Google account and two
  users give the subject conflict.
* Ingestion: a batch of two keys is the smallest that can deadlock with another;
  the second request may run beside the first or be its retry, also after a lost
  COMMIT. Lists one longer than the limit are tried.
* Stream: a channel of one is full after one event; two streams of one user share
  an entry of the registry.
* Server: two events for channels of one, so a stream that nobody reads is full
  while the request still publishes; two pings give one retry.
* Sign-in: two flows and a registration are three parties for one address; two
  addresses and two Google accounts let an address move. The demo account of the
  initial states has a verified address, a registered one has not.
* JWKS: the throttle equals the shortest lifetime, as in the code (one minute
  each); the ages give no max-age, one below the minimum and one above the maximum.
* Reads: three rows over two times are the fewest in which a page ends inside a
  run of equal times; pages of 1 (no limit sent) and 2 (a limit
  above the maximum) leave a third. Listings and feeds share
  nothing but the table, which neither writes, so the state constraint `Apart`
  explores executions with one or the other and loses no behaviour of either.

Counters that the code leaves unbounded (clock, events, requests, faults, rows)
are bounded by `Horizon`, `MaxEvents`, `MaxRequests`, `MaxFaults`, `MaxFlows`,
`MaxLogins`, `MaxTokens`, `MaxRows` and `Tokens`; `Marks` names the instants that
queries put into from and to.
`CHECK_DEADLOCK FALSE` is set where these bounds let everything come to rest:
ingestion and sign-in after their last request, the stream once its clients are
gone, the key cache after its last token, the readers after their last page; and
in `server`, where the process ends.

### Fairness

* `Aggregation!FairSpec`: the clock advances; a process that can take its next
  step does, which includes starting a pass because the ticker keeps firing
  (`Scheduler.Run`); Postgres ends dead sessions. Nothing makes an admin act, an
  event commit, or a fault occur. The clock stops at `Horizon`, so the liveness
  properties speak of windows that close before it.
* `SessionTokens!FairSpec`: strong fairness of each request's steps. Postgres
  queues lock waiters, so a request cannot be overtaken for ever. No fairness for
  new requests.
* `EventIngest!FairSpec`: weak fairness of each request's steps; Postgres detects
  deadlocks.
* `Server!ServerSpec`: goroutines that can run do, the shutdown timer fires, and
  Postgres answers pings, transactions and the worker's statements; strong fairness
  of `Lock` because a waiting writer of an RWMutex is admitted. Nothing of clients:
  a stream may stay open and unread for ever.
* `JwksCache!FairSpec`: strong fairness of each request's steps: `sync.Mutex` hands
  its lock to waiters in turn, and a fetch ends by `jwksTimeout` at the latest.

## 4. Proofs

The theorems hold for all constants that satisfy the named assumptions, however
many processes, users, rows, requests and faults there are. The assumptions are
those the code makes: null values are not members of the sets they complete
(`NoneAssumption`, `NobodyAssumption`, `SignInNulls`, `KeysAssumption`,
`CursorAssumption`); sizes, buffers and batch limits are positive; the window
length divides the day, which `config.validate` enforces (`DayAssumption`); the
throttle of the key cache is no longer than the shortest lifetime, as the
constants of `internal/auth/google.go` are (`TTLAssumption`); a history page is no
longer than the listing's maximum or the feed's limit (`FeedAssumption`).

Every safety invariant and every action property that a passing run checks is a
theorem. Each proof module states its inductive invariant first, then one lemma
per action that the step keeps it, then the theorems. TLC finds the
inductive invariants true on the instances of section 3 as well.

**`AggregationProofs`.** `TypeInv` is `TypeOK`, that a window's length has passed
on the clock, and that a run being recorded has a status. `SafeInv` adds what
makes the row properties inductive: planned windows are aligned and, once opened,
closed; a transaction's window is locked and no two transactions share a window;
what is in a row is contained in the snapshot of the transaction that is about to
replace it, and what a run was asked for is in its snapshot or already counted.
The snapshot conjunct (`SnapCurrent`) is why replacing a row never loses an
event: rows change only under the lock, and events are never deleted. From it follow `RowsAreSound`,
`EventsCountedOnce` (two aligned windows that share an instant are equal),
`SucceededRunsKept` and the action property `RowsGrow`.

`SchedulerStrandsNothing` assumes `Admins = {}`, which is necessary (section 6).
Its invariant says that every window below the plan of a runner has been dealt
with: an on-time event older than the window a worker is about to open is
counted. An event that is on time for a window cannot be committed once the
window has closed, which is what makes a plan that was computed earlier safe.

**`SessionTokensProofs`.** `TokenInv` says, per request, which tokens and locks it
has at each program counter (`TokensKnown`, `LocksHeld`, `MarksRight`); per pair,
that two requests never hold the same family lock, never insert the same row, and
that a users row locked FOR UPDATE is not shared (`Apart`); and that a request
that has scanned a family or a user has marked every live row of it. The steps
are grouped by kind (lock, insert, scan, mark, commit, roll back), one lemma each.
The theorems are `AtMostOneLive`, `RevocationIsFinal`, and `Implementation`: every
commit is a `Start`, `Rotate` or `Revoke` of `TokenFamilies`, and every other
step is a stutter.

**`EventIngestProofs`.** `OneRowPerKey` is not inductive on the table alone: two
open transactions could each hold a row with the key and both commit. `KeysApart`
says it of the table and all open transactions together, which is what waiting
for an uncommitted row achieves. Per request (`RequestInv`): it has passed
validation, so no key repeats inside its batch; its open rows come from the
statements before the current one; each of those statements inserted its row or
found one with its key (`HandledKnown`); nothing of it is in the table before its
COMMIT. Request numbers are distinct, so what one request committed is never
taken for another's. `KeysUnique`, `TrueAnswers`, `StreamedOnce` and
`WholeBatches` follow.

**`ServerProofs`.** First `Broker`: a publisher has streams left only inside its
read lock (`PubKnown`), a stream is registered from `Subscribe` to its cancel
function and closed after it (`StreamKnown`); a writer excludes readers, so a
stream a publisher can still send to is registered, hence open (`NoPanic`). A
publisher that still has a stream before it has put nothing of its current event
there (`Ahead`), which gives the order and the uniqueness of `SoundFeeds`;
`AccountOf` is `Accounted` event by event. Then `Server`: `ServerRunsBroker` shows
that every step of the process is a step of `Broker` or leaves its variables
alone, so the theorems carry over to a process that starts, drains and stops
(`ServerStreams`). `DrainInv` says that after `Shutdown` returned nil nothing is
open, and `QuietStays` that nothing can open again (`GracefulStop`).

**`GoogleSignInProofs`.** A flow is in one place: its state can be taken, or one
request holds it, or it is a code; a code is usable, held by one request, or a
session's (`FlowHeld`, `CodeHeld`, `HoldApart`). With these `OneUse` is inductive.
What a callback has learnt from one statement is still true at the next
(`Learnt`): addresses and subjects, once in the table, stay with their account, so
only the unique indexes have to decide the races. `RightAccounts` rests on every
code belonging to an account that carries its subject, and on a link that drops a
password revoking the sessions opened with it. `OwnersAdmitted` needs the clash
that justified a refusal to last (`AnswerOf`).

**`JwksCacheProofs`.** `ThrottleKept` ties the time of the next fetch to the past
ones, to the clock and, after a success, to the lifetime of the keys: the
throttle never outlasts fresh keys, because `MinRefetch <= MinTTL`. This is why
the throttle alone cannot keep a stale key in use (`StaleKeysOnlyInOutage`, an
action property). `KeysSeen` and `RefreshKnown` say what a request knows of the
documents and fetches since it began.

**`LiveFeedProofs`.** Every row a listing owes is in its pages or behind its cursor
(`ListingInv`); a page takes the newest rows behind the cursor, and rows committed
later only add to what lies behind or ahead, so nothing owed is passed. That a
sorted page exists is proved without induction (`SortedFacts`): a row's place is
the number of rows not behind it, which is injective into `1 .. n` and therefore
onto. A connected feed has every published row of its user shown, queued, dropped
or in the gap (`FeedInv`).

**`ActivityStatsProofs`.** `ViewsNeverDisagree`: the window length divides the day,
so no window lies in two days (`DayOfWindow`), and the sums by day of the rows by
window are cardinalities of disjoint sets of events (`PairsCount`), because an
event is in the row of its own window only (from `SafeInv`).

Model-checked only: liveness, that is `OnTimeEventuallyCounted`, `CatchesUp`,
`ReuseRevokes`, `ShutdownEnds` and the four `RequestsEnd`, because fairness and
ENABLED are outside the prover. The two expected violations of section 6 are
counterexamples and have nothing to prove.

A few definitions were written with provability in mind. `EventReads!Sorted` states
the order of a page and chooses the sequence that has it, instead of sorting;
`LiveFeed!Offered` and `JwksCache!TTL` are case distinctions with exclusive
guards, because a CASE whose guards overlap has no definite value and TLC merely
takes the first.

## 5. Not modelled

* The identity of lock keys: `hashtextextended` is taken to be injective.
* Locks across modules: an INSERT into `events` also locks its users row.
* Endpoints that only list one table: aggregation runs, accounts,
  `Me`.
* What the libraries do: bcrypt, JWT signatures and claims, PKCE, RSA decoding,
  gin, goose.
* `redirect_to` and the text of answers.
* In the dashboard, the admin's read-only feed, the renewal of a session when a
  request is refused, charts and forms. Two tabs that renew one refresh token at
  the same time are two `Refresh` requests of `SessionTokens`: the second is a
  reuse and both are signed out.
* A pass of the worker that is cancelled between its transaction and its record
  leaves rows without a run. In `Aggregation` this is `FailRecord` or `Crash`.
* Postgres that never answers: `ShutdownEnds` assumes it does, because `pool.Close`
  has no timeout.
* HTTP plumbing, parsing of the environment, migrations, metrics, logging and the
  seed tool's random data keep no state a property could be about.
* `DeleteExpired` of the two token repositories: no code calls it.

## 6. Findings

1. **A manual run can strand older windows.** `LastSucceededBucket`
   (`internal/repository/aggregation.go:94`) takes the newest succeeded run of any
   trigger. If an admin recomputes a recent window while older windows are still
   waiting (a worker that was down, a backlog longer than one pass), the watermark
   jumps over them and the scheduler never visits them. `README.md:378` promises
   that a worker "comes back and backfills the six windows it missed". Run
   `aggregation_manual`.
2. **The body's key wins.** `internal/handler/event.go:128` uses the
   `Idempotency-Key` header only if the body has no key; `api/openapi.yaml:250`
   says "The header wins if both are set." Run `ingest_header`.

## 7. Plan

Done: all modules of section 2 with their runs, and proofs of all their safety
properties. Left:

1. Abstract specifications for two more parts, as `TokenFamilies` is for sessions:
   ingestion as a table to which a request adds its batch in one step, and the key
   cache as a set of keys replaced by whole documents; with the refinement proved.
2. Action properties from the invariants at hand: a committed event, a spent state
   or code, and a closed channel never change back.
