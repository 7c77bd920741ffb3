# A TLA+ model of market-scope

market-scope lets a user draw a market on a map, finds the stores inside it in
OpenStreetMap, and shows them beside the user's own portfolio of stores. The
parts that are hard to test are the ones between processes: an API, a BullMQ
worker, Postgres, Redis and two rate-limited public services. This directory
models those parts, model-checks them with TLC and proves what matters most with
TLAPS. `PROJECT.json` lists the runs, the source lines behind every definition,
the hazards, the findings and the theorems.

## The system

| Part | Source | State it keeps | Operations | Modelled in |
|---|---|---|---|---|
| Market lifecycle | `routes/market.ts`, `repositories/market.ts`, `queue.ts`, `worker.ts` | `market.status`, `market.error`; the BullMQ job, its attempts and its lock | create and enqueue, deliver, run, report, give up, stall, shut down | `MarketLifecycle`, promise in `MarketStatus` |
| Discovery run | `controllers/discovery.ts`, `helpers/progressReporter.ts` | `market.progress`, the tile cache, the loops' position | tiles per category, geocoding, count, verdict, retry | `DiscoveryRun` |
| Portfolio | `controllers/portfolio.ts`, `repositories/portfolio.ts`, the classification in `repositories/discovery.ts` | `portfolio_store`, `portfolio_store_market` | replace, reclassify all, locate a row, classify for a market | `PortfolioUpload` |
| Rate limiter | `helpers/rateLimiter.ts` | tokens, waiters, the drain loop | acquire, refill, drain | `TokenBucket` |
| Overpass client | `controllers/overpass.ts`, `http.ts` | attempt counter, backoff | fetch, time out, honour Retry-After, retry, give up | `OverpassClient`, over `TokenBucket` |
| Nominatim client | `controllers/geocode.ts`, `repositories/location.ts` | `geocode_cache`, `city.bbox` | city box, geocode an address | `Nominatim`, over two `TokenBucket`s; lists of countries, states and cities left out |
| Tile store | `repositories/discovery.ts` | `tile_fetch`, `discovered_store` | upsert, delete and insert in one transaction; read | `TileStoreTx`, promise in `TileStore`; atomic in `DiscoveryRun` |
| Dashboard reads | `repositories/dashboard.ts` | none | list a market's stores, the count of the list of markets | `Dashboard`, over `TileStoreTx`; portfolio matches left out |
| Tiling | `helpers/tiling.ts` | none (pure) | tiles of a box, box of a tile | `Tiling` |
| Boundary | `app/src/lib/boundary.ts`, `BoundaryEditor.tsx`, `BoundaryFields.tsx`, the checks of `routes/market.ts` | the rectangle, the drag | normalise, shrink, drag, move, type, submit | `MarketBoundary`, over `Tiling` |
| CSV validation | `routes/portfolio.ts`, `helpers/csv.ts`, `controllers/portfolio.ts` | none (pure) | refuse a file or make rows of it | `PortfolioCsv` |
| Upload screen | `app/src/pages/UploadPage.tsx` | file, request, what is shown | choose, upload, answer, give up, go on | `UploadPage`, over `PortfolioCsv`; composed with `MarketBoundary` in `Forms` |
| Setup and status screens | `app/src/pages/SetupPage.tsx`, `StatusPage.tsx`, `app/src/hooks` | chosen city, its box, the poll chain | choose, load, drag, submit, poll, navigate | `SetupPage`, `StatusPage`, composed in `App` |
| App helpers, HTTP plumbing, configuration, migrations, seed, layout | `app/src/lib`, `http.ts`, `errors.ts`, `server.ts`, `config.ts`, `scripts/`, components | none of interest | | not modelled |

How they interact: POST /markets commits a `queued` row and then adds a job named
after it to BullMQ (two steps in two stores). A worker process runs one job at a
time; the run writes the row and the caches, asks Overpass and Nominatim through
one token bucket each, and reads the portfolio that an upload may replace at any
moment. When a run throws, BullMQ decides about a retry and tells the worker's
`failed` listener, the only code that gives a market up. The status page polls
the row until it is terminal.

What is hard: row and queue are not updated atomically; the process may die or be
shut down at every await; BullMQ delivers a stalled job again, while the first
run may still be writing; uploads, runs and reclassifications are separate
transactions at READ COMMITTED; status and progress are separate writes and most
progress increments are never flushed on their own; caches are shared by markets
and go stale while they are used; a client that retries, sleeps and is paced by a
bucket adds up its waits; a browser gives up on requests that go on.

## The modules

**MarketStatus** is the abstract promise about one row: created queued, processing
while attempts run, settled once, with a reason when it fails. MarketLifecycle
implements it up to the first stalled job or lost reply
(`ImplementsMarketStatus`); after one the code may reopen a settled market, and
`SettledUnlessRedelivered` says exactly when. DiscoveryRun takes the same steps
(`FollowsMarketStatus`), and App uses them as its server.

**MarketLifecycle.** `status` and `error` are the columns; `post` is how far the
request handler is; `job`, `attemptsMade`, `lock`, `stalls` are BullMQ's; `process`,
`phase`, `current` are the worker's; `failing` holds the markets whose listener
still awaits its write, which is what a shutdown loses. An action is the code
between two awaits. A run is one step from `processing` to the outcome it writes
(`FinishRun`) or a throw (`RunThrows`); DiscoveryRun opens that step up. BullMQ is
not under `src/`: `TakeJob`, `Report*`, `LoseLock`, `StalledJob*` are what
`queue.ts` and `worker.ts` rely on, a report without the lock being refused, and
`maxStalledCount` being the library's default because the worker sets none.
Whether a stall failure counts as an attempt differs between versions, so both
are allowed.

**DiscoveryRun.** One market's run over `NumTiles` by `NumCategories` cached pairs,
each missing, stale or fresh from the start in any combination, since other
markets share the cache. `progress` is the reporter's memory and `saved` the
`market.progress` column: each `Flush` copies one to the other, `FlushIfDue` may
or may not. `Throw` is any await outside the two `try` blocks; `Retry` and `GiveUp`
are BullMQ and the listener. Overpass, Postgres or Nominatim failing is an action
per tile and per store, including a write that lands although its reply is lost.
Fetched tiles are saved in one step, as `saveTileStores` is one transaction;
TileStoreTx has the statements.
One worker is assumed, as `npm run worker` starts: a second one could fetch the
same tile between the freshness check and the fetch.

**PortfolioUpload.** The SQL statements of uploads against those of discovery runs.
A statement that reads and then writes is two actions (`StartDelete`/`FinishDelete`,
`StartReclassify`/`FinishReclassify`, `StartClassify`/`FinishClassify`), and it
waits for rows that another open transaction has deleted (`doomed`). A foreign key
refuses a classification that read a row deleted meanwhile. A run that throws is
retried, or its market is given up. Every row of an upload
has a new id; which rows a market's search for candidates matches, and whether a
row is inside, play no part. The text columns are abstracted away.

**TileStore** is what the cache promises: the stores of a tile and category are
replaced as a whole by one answer, and a stale tile keeps its stores.
**TileStoreTx** is `saveTileStores` as Postgres runs it at READ COMMITTED, several
calls at once: `Upsert` waits for the `tile_fetch` row and then holds it
(`holder`), `Delete` marks the committed rows (`doomed`), `Commit` shows it all,
`Rollback` is an error, a dead connection or a dead process at any point. It
implements TileStore with `contents` read off the committed rows.

**OverpassClient** is one caller of TokenBucket that fetches one tile after
another. `call` says what it awaits: the bucket, an answer, or a sleep; `attempt`
and `sent` count within one tile. `Backoff` is the set of waits `backoffMs` can
return: the server's wait cut at `MaxBackoff`, or the doubled delay cut and then
multiplied by a factor between a half and one. A Retry-After in the past is a wait of 0. A timer
fires at most `Late` ticks after it is due, as does an answer after the timeout,
which is what makes `StallBounded` a statement about real waits. Between two tiles,
while the worker writes what it got, time passes freely. Answers that are not
retried (`Refuse`) and failures that are (`Busy`, `Unreachable`) differ as in
`OverpassError.retryable`.

**Nominatim** puts the API's bucket (EXTENDS TokenBucket) and the worker's
(`Worker`, an instance) on one clock. The API has several requests for boxes at
once; each looks at the row, asks and saves in three steps, so two can ask for one
city. The worker goes row after row: look in the cache, ask, save, locate. A run
that ends and the next are two rounds over the rows without a point. The deadline
`due` is set when a caller queues, from the number of callers before it.

**Tiling** and **PortfolioCsv** have no state. A latitude is a whole number of units
and a tile `Step` units, so flooring and the inclusive far edge are exact and
negative coordinates count. A cell of a file is the class of its text, a header is
a name that normalises to another, and `Verdict` is the first check that refuses a
file, in the code's order. `AcceptedIffUsable` is the reference it is checked
against, written from what a market needs of a row.

**MarketBoundary** is the rectangle from the city's box to the tiles of the accepted
market. Each action is an event of the map or of a field; `dragOrigin` is the
reference the move handle keeps while it is held. `shrinkToLimit` may return any
rectangle about the centre that is within the cap, as the code's scale (a square
root, with a margin) has no place among whole units. The edges of a city's box may
coincide: `geocode.ts:51-60` checks that they are numbers and `city_bbox_ordered`
that they are in order. A rectangle is put on the map as it is when it is within the
cap, so such a city's has no inside until it is edited, and cannot be submitted.
**UploadPage** has the screen and the server behind its request, which goes
on when the page has given up. **Forms** puts the two one after the other; nothing
of the first is followed once the user goes on.

**Dashboard** adds a market to TileStoreTx: its count (restricted to its tiles)
and its list (not restricted). `resaved` remembers which pairs were saved since the
count, and a `Stray` store lies in none of the tiles it is cached for, as the
centre of a building that reaches into a tile may.

**SetupPage**, **StatusPage** and **App**. Each screen is a module of its own
variables and actions; App composes them with the router (`page`), the requests
that create markets (`post`, `awaited`, `current`) and the rows, which move by the
actions of MarketStatus. An action is an event or an answer with the renders and
effects it leads to: React runs the effects of a click before the next event, and
the effect that follows an answer is taken to run with it. `asked` is the call
whose `current` flag is still set, `superseded` the ones cleaned up; `orphans` are
the polls of cleaned-up effects, which exist because React keeps the status screen
mounted when only the id in the URL changes, as the late answer to a submission
makes it do. Of a rectangle only its city and whether it is over the cap are kept;
MarketBoundary has the rest.
The error text, which nothing here depends on, is a function of the status.
Posts count as one step of the server: MarketLifecycle has the steps inside.

**TokenBucket.** Time in ticks; one token is `Refill` units and a tick refills one,
which makes the code's fractions exact. The bucket may start being observed at
any moment (`Mark`), so `WindowBound` is about every window. A clock set backwards
and a timer that fires early are left out: the sleep is rounded up
(`rateLimiter.ts:83`) and a loop that wakes early sleeps again.

## The runs

| Run | Instance | What it shows |
|---|---|---|
| LifecycleFaults | 2 markets, 2 workers, 2 attempts, 1 stall forgiven, each fault once; symmetry | `WorkerVerdictIsFinal`, `CompletedJobSettled`, `SettledUnlessRedelivered` and `DeliveriesBounded` survive any order of a dead request, a crash, a shutdown, a lost lock and a lost reply; `ImplementsMarketStatus` until the first stall or lost reply |
| LifecycleCalm | 2 markets, 1 worker, 3 attempts, a dead request, a lost lock; fairness | `NotStuck`; every accepted market settles (`AcceptedSettles`) |
| LifecycleShutdown | violates `NotStuck` | a shutdown drops the listener's awaited write |
| DiscoveryMarket | 2 tiles, 2 categories, 2 attempts, 1 expiry | a poll never sees more done than there is (`NeverOverstated`); progress is complete and agrees with the status when settled (`SettledProgressIsComplete`, `VerdictMatchesProgress`); every hole is reported (`HolesAreReported`); no retry geocodes what is located (`LocatedNotGeocoded`); the row keeps MarketStatus (`FollowsMarketStatus`) |
| UploadOverlaps | 3 uploads, 1 market; one row without coordinates | `CoordinatesAreClassified`, `NeverEmptied` |
| UploadConcurrent | violates `UploadReplacesPortfolio` | two uploads at once leave both portfolios |
| Overpass | 2 tiles, 3 attempts, 30 ticks, Retry-After past, within and beyond the cap | `RetryAfterHonoured`, `StallBounded`, `HolesTookEveryAttempt`, `RequestsPaced` |
| Nominatim | 3 requests for one city, 1 run over 3 rows, 4 ticks; symmetry | `WindowBound`, `NoLostWakeup`, `WakeFindsToken` of the bucket in use; `WaitBounded`, `SameKeySamePoint` |
| Dashboard | 3 saves, two of one pair; 2 stores; every cache; symmetry | `NeverRefused`, the refinement `ImplementsTileStore`, `ListMatchesCount` |
| App | 2 cities, 2 markets; fairness | `BoxFitsCity`, `ShowsItsMarket`, `ShownWasTrue`; a settled market is seen (`SettledIsSeen`) |
| SetupView | violates `ViewFollowsCity` | a second city's rectangle appears out of view |
| Forms | 42 kinds of file, 2 requests; 3 city boxes, every drag, shift and typed edge over a few positions | `AcceptsExactlyUsable`, `ContinueHasStores`, `CollapsedOnlyByCity`, `TilesFitMarket` |

UploadOverlaps and Forms check their type invariants too, which say more than types:
what the foreign keys and the server's limits keep. The others are proved (`TypeCorrect`,
`RunTypeCorrect`, `AppTypeCorrect`, `BucketTypeCorrect`, `SaveTypeCorrect`, and within
the invariants of the two clients' proofs) and not run again.

The bounds are enough for the cases that matter.

- Two markets and two workers make an overlap of two runs of one job and a worker
  that finds another's stalled job; two attempts make a retry and a last attempt;
  two stalls exceed the one forgiven.
- Two tiles and two categories make a tile that is fresh for one category and
  missing for the other, and an area that fails twice but counts once; one expiry
  is a tile going stale between the check and the use.
- Three uploads make a delete that waits, one that misses rows, and an upload that
  is refused on account of another's delete while a third goes on; two were not
  enough to tell `CoordinatesAreClassified` from a version without its exception.
- Three attempts make two sleeps, of different length when the server names no wait;
  the longest fetch of one tile takes 17 ticks, so 30 have room for another.
  `MaxBackoff` 3 lies between the Retry-After values 2 and 9; the third, -1, is a date
  gone by.
- Three requests are one that is let through at once and two that queue, and the
  worker's bucket runs on the same ticks; 4 ticks with a capacity of 2 refill it
  twice over. `OverpassClient` and `Nominatim` use the burst of 1 that is configured;
  the theorems about `TokenBucket` have no bound on it.
- Three saves are two that contend and a bystander; of the two stores one is in the
  market and one only in its tile.
- The files are one row of every combination of cells, files of two rows and of
  none, and one for every check; rectangles straddle the equator and touch tile
  borders, one city's box is a line, the move handle takes them beyond the limit of latitudes, and some accepted
  markets have more tiles than `MaxTiles`.
- One run over the rows means that no other saves an address in between, so that an
  insert into `geocode_cache` never meets a row; `SamePointTheorem` has any number of
  runs, one after the other as one worker makes them.
- Two cities make an answer that is superseded, and two markets a poll and a
  submission that outlive their screen. In App the setup screen is not used once
  both markets are created (`MoreMarkets`).

Deadlock is not checked, as every system here may come to rest: jobs are over, the
market is settled, the clock has reached its bound.

### Disagreements without a run

Three disagreements between the code and what is said of it have a run (the three
that violate a property). These follow from the modules too:

- A second crash during one job uses up BullMQ's stall limit, so it fails with
  attempts left and the listener writes nothing (`StalledJobFails`), while
  `docs/decisions/0004-async-discovery-queue.md:36` has `attempts: 3` cover "a
  restart mid-job".
- `docs/flowcharts.md:139` draws a retry going back to `queued`; the row stays
  `processing`. `docs/flowcharts.md:141` draws `completed` as final; a job
  delivered again after its terminal write reopens the market
  (`SettledUnlessRedelivered` needs its premise).
- A market can fail although stale stores are held and counted for it, while
  `discovery.ts:81-83` has a failed market hold no discovered data. So it can when the
  only save lands and its reply is lost (`SaveTileReplyLost`).
- One address without a match and one error are reported as an unavailable
  geocoder (`DescribeShortfall`), while `discovery.ts:225` has "every candidate
  erroring".
- A row located by another market's run after a market completed is missing from
  that market's split (`LocateRow` after `CompleteMarket`), while `README.md:215`
  has a split reflect the current portfolio.
- The rows of an upload that the foreign key refused stay, and are reclassified by
  the upload that deleted what it read; they stay unclassified if that
  reclassification is lost (the exception in `CoordinatesAreClassified`).
- A submission that timed out and is made again creates a second market with its
  own job, while `docs/sequence-diagrams.md:83` has BullMQ keep one.
- The API and the worker each have a Nominatim bucket, so a second may see two
  requests, one of each (`EachOnePerSecond` is what either keeps to), while
  `docs/architecture.md:134` has "one request per second, absolute", and 140-142 have the
  rate chosen so that no second sees two.
- Two requests for one city's box that both miss both ask, while `geocode.ts:33`
  has the second call make no external request.
- `normalizeAddress` keeps only `a-z`, digits, commas and spaces: an address in
  another script comes to its commas, and such addresses share one cache entry and
  one point (`SameKeySamePoint` says that sharing).
- `overpass.ts:27` has a Retry-After "Honoured verbatim"; it is cut at the backoff
  cap (lines 84-86). After the last attempt of a tile nothing is awaited, so the
  next tile's request may leave before the wait the server named is over.
- A store whose centre is in none of its tiles is listed by the dashboard and not
  counted (`Stray`), while `repositories/dashboard.ts:123-126` holds the two
  equivalent.
- A long, thin rectangle within the area cap can have more tiles than the ceiling;
  its discovery then throws at every attempt (`Decompose`), while `tiling.ts:9`
  takes that for a misconfiguration.
- Dragging a corner past the opposite one, or to within the minimal span of it,
  moves the corner that was to stay (`withCorner`, then `normalizeBounds`). Neither
  normalising nor moving keeps the rectangle within 90 and 180 degrees (collapsed
  against the limit, it ends a minimal span beyond it), while `app/test/boundary.test.ts`
  has "whatever comes out" of normalising satisfy the API's validation (lines 154-156).
- A city whose box is a line or a point gets it on the map unchanged, while
  `lib/boundary.ts:60-62` has `shrinkToLimit` give "a valid starting rectangle"
  (the exception in `CollapsedOnlyByCity`).
- "File rejected: N invalid rows" counts errors, of which a row can have several
  (`controllers/portfolio.ts:71`, `RowErrors`).
- The upload screen lets another file be chosen while one is uploading and then
  shows the first one's answer beside the second's name (`ChooseFile`, `Answer`);
  after 20 seconds a second upload can overlap the first (`GiveUp`).

**Fairness** in MarketLifecycle (`FairSpec`): weak fairness of every step of the program and of BullMQ
that is enabled until it happens: the rest of a request, a run, a report, a
listener's write, a backoff's end, the stalled check, delivery and the restart of
a worker that is down. The event loop runs what is ready, and BullMQ's timers
repeat. Requests and faults are never forced. Delivery needs only weak fairness
with one worker since no more than `MaxAttempts` deliveries of another job can
come first.

App assumes that the poll's timer fires (weak fairness) and that the API reads the
row and answers now and again, however many polls fail in between (strong
fairness): with an API that never answers the screen can only say so. Users are
never assumed to act.

The waits of OverpassClient and Nominatim are bounded by clocks instead of fairness:
time does not pass a timer by more than `Late`.

## What is proved

`MarketLifecycleProofs`, for all markets, workers, attempts and faults, from the
named assumptions of the module (`NoMarket` and `NoWorker` are not members, the
bounds are numbers):

- `TypeCorrect`: `TypeOK`. The inductive `TypeInv` adds that a worker holds a market
  exactly when it is not idle.
- `VerdictTheorem`: `WorkerVerdictIsFinal`. Inductive with: a lock means an active
  job, a market in `failing` has a failed job, and so no later delivery can undo
  the verdict.
- `SettledTheorem`: `SettledUnlessRedelivered`. Until a job stalls, at most one
  worker has it, it is still `active`, and a run that has settled its market has
  returned: no step left to it writes the row again.
- `CompletedTheorem`: `CompletedJobSettled`. Until a lock is lost, a run holds its
  job's lock, so no other run can undo the terminal status of one that returned.
- `DeliveriesTheorem`: `DeliveriesBounded`, under every fault modelled. Each delivery
  but the last is accounted for by a failed attempt or a stall (`DeliveriesOf`), and a
  job that has not failed has some of both to spare.
- `NotStuckTheorem`: `NotStuck`, as long as the faults so far are `Calm`: nobody died or
  was shut down, no reply to a write was lost, and no lock was, or a single worker lost
  no more than `MaxStalledCount`. Each of the exceptions really strands a market
  (LifecycleShutdown shows one), and LifecycleCalm is calm throughout. `CalmInv` adds
  that every stall is one lost lock, so none is one too many; that a job is not over
  while a run has it; and that a run which has returned has settled its market.
- `PromiseTheorem`: `ImplementsMarketStatus`. Until a job stalls, a row is created
  before its job, it is `processing` while a run is at work on it, and a listener
  about to write finds it unsettled, so each write is a step MarketStatus allows.

`TokenBucketProofs`, for every rate and capacity of at least one token:
`BucketTypeCorrect`, `RateTheorem` (`WindowBound`), `WakeupTheorem` (`NoLostWakeup`)
and `TokenTheorem` (`WakeFindsToken`). The invariant behind the rate is that what
was granted since the mark and what the bucket holds now never exceed the capacity
and the time since; the one behind the wake-up is that the timer is due no earlier
than the moment the missing fraction is refilled.

`OverpassClientProofs`, for any tiles, number of attempts, rate, delays, headers and
lateness (`ClientAssumption`): `HonourTheorem`, `StallTheorem`, `AttemptsTheorem` and
`PaceTheorem`. The invariant counts a tile's requests (`sent` is `attempt`, or one less
while the request waits for the bucket), gives the k-th request a latest tick
(`SendBy`), which a wait at the bucket and a sleep each keep because one overlaps the
other, and bounds the tokens of a bucket with a burst of 1 by the time since the last
request.

`NominatimProofs`, for any requests, rows, keys, points and runs: `ApiRateTheorem`,
`ApiWakeupTheorem`, `ApiTokenTheorem` carry TokenBucketProofs over to the API's
bucket, since every step of the composition is a step of the bucket or leaves it
alone; `EachOneTheorem` (`EachOnePerSecond`) has either bucket keep to one request a second by
itself, which is all that is left of Nominatim's policy; and
`WaitTheorem` (`WaitBounded`) gives the i-th place in the
queue a deadline that leaves room for the timer and for i - 1 further tokens, and shows
that serving n callers moves every other up by n places before the timer is set anew;
`SamePointTheorem` rests on the cache: a row has its key's cached point, which once
there never changes, and a point is only written from the cache or after it was saved.

`DiscoveryRunProofs`, for any number of tiles and categories, any stores, portfolio,
attempts and expiries: `RunTypeCorrect`, `OverstatedTheorem`, `CompleteTheorem`,
`VerdictMatchesTheorem`, `HolesTheorem`, `LocatedTheorem` and `RowTheorem`: the types
and all six properties of the run. The safety properties are not
inductive by themselves: the counters in memory are tied to the position of the loops
(`ProgressInv`), what was saved is bounded whatever attempt saved it (`SavedInv`), a
pair without an answer in this attempt is among the failures (`HolesInv`), and the end
of a run implies that all of it was gone through (`DoneInv`).

`PortfolioUploadProofs`, for any uploads, rows and markets, every upload having a row
(`RowsAssumption`): `TablesTheorem`, `NeverEmptiedTheorem` and `ClassifiedTheorem`
(`CoordinatesAreClassified`). Two open transactions never have deleted one row, and a
row that was read is a committed one; then each row with coordinates is in the split
of a completed market, or a run is to come, or a reclassification is under way that
has read it or is still to read (`CoveredInv`). `ReplacesTheorem` is the other side of
UploadConcurrent: as long as no two replace transactions are open at once
(`[]OneAtATime`; reclassifications and runs may overlap them), `UploadReplacesPortfolio`
holds, because the open one has read and deleted all there is (`DeletesAll`).

`FormsDashboardProofs` has two parts. That on `Dashboard`, with the `TileStoreTx` it
extends: for any tiles, stores and number of saves, from `PairOf` being
a function and `NoSave` not a save: `SaveTypeCorrect`, `NeverRefusedTheorem` and
`TileStoreTheorem` (the refinement). The inductive invariant says that the row of a
tile is held by exactly the one open save of it, and that a save past its DELETE has
deleted all the tile has; the type invariant needs it too, since a commit must not
remove rows another open save has deleted.

For any boundary, tiles and places of stores:
`ListTheorem` (`ListMatchesCount`). Each row of the market is saved since the count, or
counted, or of a tile that is none of the market's; and a store inside the market is
never inside such a tile.

The part on `Forms`: for any city boxes, positions, shifts, limits and tile size:
`ProperTheorem` (`CollapsedOnlyByCity`), of all city boxes whose edges are in order:
what has no inside has the height and width of a city's box that has none, which only
shifts keep; `TilesTheorem` (`TilesFitMarket`), from lemmas about division rounded down,
below zero too; `AcceptsTheorem` (`AcceptsExactlyUsable`),
for any header and number of rows; and `ContinueTheorem` (`ContinueHasStores`) and
`FormsTypeCorrect`, from an invariant that ties what a request carries to a file of
the user's and an imported one to a portfolio with rows.

`AppProofs`, for any cities and markets: `AppTypeCorrect`, `BoxFitsTheorem`
(`BoxFitsCity`), `ShowsTheorem` (`ShowsItsMarket`) and `ShownTheorem` (`ShownWasTrue`).
The box fits because the call that counts always asks for the chosen city
(`AskedFitsCity`): choosing supersedes the one before. What is shown was true because
an answer on its way was (`ReplyWasTrue`), opening a market discards it, and a row
never takes back what it has said (`SaidForGood`, from the steps of MarketStatus).

Only model-checked: liveness (`AcceptedSettles`, `SettledIsSeen`), which is out of the
prover's reach. The theorems about App are of `Spec`, which its `FairSpec` implies.

## Not modelled

- The HTTP plumbing (`http.ts` beyond Retry-After and timeouts, `errors.ts`,
  `server.ts`): translation of failures without a state of its own.
- Configuration, migrations and seed: constants and scripts run once. The
  constraints that matter (foreign keys, the unique pair of a tile, ON CONFLICT) are in
  the modules of their tables.
- The text of Overpass queries and the reading of answers, the wording of errors,
  csv-parse, labels and layout.
- Of the dashboard, the match of portfolio rows to stores, and of the setup screen the
  country and state lists: single reads shown as they are.
- turf and PostGIS: an area is a product of edges on a plane, containment a comparison
  of coordinates.

## The plan

Done: every part in the table above but those it marks as left out, with proofs in
MarketLifecycleProofs, TokenBucketProofs, OverpassClientProofs, NominatimProofs,
DiscoveryRunProofs, PortfolioUploadProofs, FormsDashboardProofs and AppProofs. Left, in
this order:

1. The country, state and city lists of the setup screen, whose answers can arrive in
   another order than they were asked for.
2. The dashboard's match of portfolio rows to discovered stores while an upload
   replaces them.
