----------------------------- MODULE DiscoveryRun -----------------------------
(***************************************************************************)
(* runDiscovery for one market (controllers/discovery.ts): the tiles of    *)
(* every category, then geocoding of the portfolio, then the count and the *)
(* terminal status, with the progress the status page polls.  An attempt   *)
(* that throws is retried from the start with whatever the tile cache and  *)
(* the portfolio hold by then.  A write of the market row whose reply is   *)
(* lost is left to MarketLifecycle.                                        *)
(*                                                                         *)
(* Tiles and categories are numbered in the order the loops visit them.    *)
(* The freshness of a cached tile is a state, and time makes it stale.     *)
(***************************************************************************)
EXTENDS Naturals, FiniteSets

CONSTANTS
  NumTiles,       \* tiles the market's bounding box needs
  NumCategories,  \* categories the market selected
  Shops,          \* stores OpenStreetMap may know of
  Inside,         \* those of them inside the market's boundary
  Portfolio,      \* portfolio rows near the market uploaded without coordinates
  MaxAttempts,    \* config.discoveryJobAttempts
  MaxExpiries     \* bound on how many cached tiles go stale during the run

ASSUME SizeAssumption == NumTiles \in Nat \ {0} /\ NumCategories \in Nat \ {0}
ASSUME ShopsAssumption == IsFiniteSet(Shops) /\ Inside \subseteq Shops
ASSUME PortfolioAssumption == IsFiniteSet(Portfolio)
ASSUME BoundsAssumption == MaxAttempts \in Nat \ {0} /\ MaxExpiries \in Nat

VARIABLES
  pc,        \* the stage the attempt is in
  attempt,   \* which attempt of the job it is
  category, tile,  \* where the two loops of discoverTiles are
  fresh,     \* what findFreshTileKeys returned for this category
  failures,  \* tile failures of this attempt
  todo,      \* unlocated stores this attempt has yet to geocode
  progress,  \* the reporter's counters
  cache,     \* tile_fetch: missing, stale or fresh
  contents,  \* discovered_store rows of a tile and category
  located,   \* portfolio rows geocoded so far
  status, error, saved,  \* market.status, market.error, market.progress
  expiries   \* tiles that went stale so far

runVars == <<pc, attempt, category, tile, fresh, failures, todo, progress>>
rowVars == <<status, error, saved>>
vars == <<runVars, cache, contents, located, rowVars, expiries>>

Tiles == 1..NumTiles
Pairs == Tiles \X (1..NumCategories)

Counters == {"tilesTotal", "tilesFetched", "tilesReused", "tilesFailed",
             "geocodeCandidates", "geocodeResolved", "geocodeUnresolved",
             "geocodeFailed", "discoveredInBoundary"}
EmptyProgress == [c \in Counters |-> 0]
NoProgress == [c \in {} |-> 0]

\* market.error: null, the shortfall a run describes, or the worker's text.
NoError == [kind |-> "null", areas |-> 0, geocoder |-> "ok"]
GaveUp == [kind |-> "unavailable", areas |-> 0, geocoder |-> "ok"]

\* describeShortfall: distinct tiles that failed, and what became of geocoding.
DescribeShortfall(fails, p) ==
  LET areas == Cardinality({f[1] : f \in fails})
      geocoder == IF p["geocodeFailed"] = 0 THEN "ok"
                  ELSE IF p["geocodeResolved"] = 0 THEN "down" ELSE "partly"
  IN  IF areas = 0 /\ geocoder = "ok" THEN NoError
      ELSE [kind |-> "shortfall", areas |-> areas, geocoder |-> geocoder]

\* countDiscoveredInMarket: one store may sit in two tiles; freshness plays no
\* part in it.
DiscoveredInBoundary ==
  Cardinality(UNION {contents[p] \intersect Inside : p \in Pairs})

TypeOK ==
  /\ pc \in {"start", "plan", "category", "tiles", "candidates", "geocode",
             "count", "finish", "thrown", "done"}
  /\ attempt \in 1..MaxAttempts
  /\ category \in 1..(NumCategories + 1) /\ tile \in 1..(NumTiles + 1)
  /\ fresh \subseteq Tiles /\ failures \subseteq Pairs
  /\ todo \subseteq Portfolio /\ located \subseteq Portfolio
  /\ progress \in [Counters -> Nat]
  /\ saved \in [Counters -> Nat] \union {NoProgress}
  /\ cache \in [Pairs -> {"missing", "stale", "fresh"}]
  /\ contents \in [Pairs -> SUBSET Shops]
  /\ status \in {"queued", "processing", "completed", "failed"}
  /\ error \in [kind : {"null", "shortfall", "unavailable"}, areas : Nat,
                geocoder : {"ok", "down", "partly"}]
  /\ expiries \in 0..MaxExpiries

\* Any cache earlier markets can have left behind.
Init ==
  /\ pc = "start" /\ attempt = 1 /\ category = 1 /\ tile = 1
  /\ fresh = {} /\ failures = {} /\ todo = {} /\ located = {}
  /\ progress = EmptyProgress /\ saved = NoProgress
  /\ cache \in [Pairs -> {"missing", "stale", "fresh"}]
  /\ contents \in [Pairs -> {{}, Shops}]
  /\ \A p \in Pairs : cache[p] = "missing" => contents[p] = {}
  /\ status = "queued" /\ error = NoError
  /\ expiries = 0

(***************************************************************************)
(* The reporter (helpers/progressReporter.ts)                              *)
(***************************************************************************)

Increment(c) == progress' = [progress EXCEPT ![c] = @ + 1]

Flush == saved' = progress'

\* flushIfDue writes only once the interval has passed.
FlushIfDue == Flush \/ UNCHANGED saved

(***************************************************************************)
(* discoverTiles                                                           *)
(***************************************************************************)

\* A reporter kept from the previous attempt.
StartAttemptWithOldReporter ==
  /\ pc = "start" /\ pc' = "plan"
  /\ status' = "processing" /\ error' = NoError
  /\ failures' = {}
  /\ UNCHANGED <<attempt, category, tile, fresh, todo, progress, cache, contents,
                 located, saved, expiries>>

\* The row goes to processing and a new reporter starts at zero; the row keeps
\* the progress of the attempt before it.
StartAttempt ==
  /\ pc = "start" /\ pc' = "plan"
  /\ status' = "processing" /\ error' = NoError
  /\ progress' = EmptyProgress /\ failures' = {}
  /\ UNCHANGED <<attempt, category, tile, fresh, todo, cache, contents, located,
                 saved, expiries>>

PlanTiles ==
  /\ pc = "plan" /\ pc' = "category"
  /\ category' = 1
  /\ progress' = [progress EXCEPT !["tilesTotal"] = NumTiles * NumCategories]
  /\ Flush
  /\ UNCHANGED <<attempt, tile, fresh, failures, todo, cache, contents, located,
                 status, error, expiries>>

\* A row counts as fresh whatever its category.
FreshTilesOfAnyCategory(c) ==
  {t \in Tiles : \E d \in 1..NumCategories : cache[<<t, d>>] = "fresh"}

\* findFreshTileKeys: a stale row counts as missing.
FreshTiles(c) == {t \in Tiles : cache[<<t, c>>] = "fresh"}

CheckFreshness ==
  /\ pc = "category" /\ pc' = "tiles"
  /\ fresh' = FreshTiles(category)
  /\ tile' = 1
  /\ UNCHANGED <<attempt, category, failures, todo, progress, cache, contents,
                 located, rowVars, expiries>>

\* The next tile of the category; the loop variable moves on in every case.
NextTile ==
  /\ pc = "tiles" /\ tile \in Tiles
  /\ tile' = tile + 1
  /\ UNCHANGED <<pc, attempt, category, fresh, todo, located, status, error,
                 expiries>>

ReuseTile ==
  /\ NextTile
  /\ tile \in fresh
  /\ Increment("tilesReused")
  /\ UNCHANGED <<failures, cache, contents, saved>>

\* Overpass answers and saveTileStores commits: the tile's rows are replaced.
FetchTile(found) ==
  /\ NextTile
  /\ tile \notin fresh
  /\ cache' = [cache EXCEPT ![<<tile, category>>] = "fresh"]
  /\ contents' = [contents EXCEPT ![<<tile, category>>] = found]
  /\ Increment("tilesFetched")
  /\ FlushIfDue
  /\ UNCHANGED failures

\* Overpass fails, or the transaction: the cached rows stay as they are.
FailTile ==
  /\ NextTile
  /\ tile \notin fresh
  /\ failures' = failures \union {<<tile, category>>}
  /\ Increment("tilesFailed")
  /\ FlushIfDue
  /\ UNCHANGED <<cache, contents>>

\* saveTileStores commits but its reply is lost: cached, and counted as failed.
SaveTileReplyLost(found) ==
  /\ NextTile
  /\ tile \notin fresh
  /\ cache' = [cache EXCEPT ![<<tile, category>>] = "fresh"]
  /\ contents' = [contents EXCEPT ![<<tile, category>>] = found]
  /\ failures' = failures \union {<<tile, category>>}
  /\ Increment("tilesFailed")
  /\ FlushIfDue

EndCategory ==
  /\ pc = "tiles" /\ tile > NumTiles
  /\ category' = category + 1
  /\ pc' = IF category < NumCategories THEN "category" ELSE "candidates"
  /\ UNCHANGED progress /\ Flush
  /\ UNCHANGED <<attempt, tile, fresh, failures, todo, cache, contents, located,
                 status, error, expiries>>

(***************************************************************************)
(* geocodeUnlocatedStores                                                  *)
(***************************************************************************)

\* Every row near the market, located or not.
AllCandidates == Portfolio

\* findUnlocatedStoresNear: `location IS NULL`.
UnlocatedStores == Portfolio \ located

FindCandidates ==
  /\ pc = "candidates" /\ pc' = "geocode"
  /\ todo' = UnlocatedStores
  /\ progress' = [progress EXCEPT !["geocodeCandidates"] = Cardinality(todo')]
  /\ Flush
  /\ UNCHANGED <<attempt, category, tile, fresh, failures, cache, contents,
                 located, status, error, expiries>>

\* The next candidate; the query gives them in no particular order.
NextCandidate(s) ==
  /\ pc = "geocode" /\ s \in todo
  /\ todo' = todo \ {s}
  /\ UNCHANGED <<pc, attempt, category, tile, fresh, failures, cache, contents,
                 status, error, expiries>>

ResolveStore(s) ==
  /\ NextCandidate(s)
  /\ located' = located \union {s}
  /\ Increment("geocodeResolved")
  /\ FlushIfDue

\* setPortfolioLocation lands but its reply is lost.
LocateReplyLost(s) ==
  /\ NextCandidate(s)
  /\ located' = located \union {s}
  /\ Increment("geocodeFailed")
  /\ FlushIfDue

\* No coordinates for this address: not a failure of the service.
LeaveStoreUnresolved(s) ==
  /\ NextCandidate(s)
  /\ Increment("geocodeUnresolved")
  /\ UNCHANGED <<located, saved>>

FailToGeocode(s) ==
  /\ NextCandidate(s)
  /\ Increment("geocodeFailed")
  /\ FlushIfDue
  /\ UNCHANGED located

EndGeocoding ==
  /\ pc = "geocode" /\ todo = {} /\ pc' = "count"
  /\ UNCHANGED progress /\ Flush
  /\ UNCHANGED <<attempt, category, tile, fresh, failures, todo, cache, contents,
                 located, status, error, expiries>>

(***************************************************************************)
(* The end of the run                                                      *)
(***************************************************************************)

\* The count kept in memory until some later flush.
CountDiscoveredWithoutFlush ==
  /\ pc = "count" /\ pc' = "finish"
  /\ progress' = [progress EXCEPT !["discoveredInBoundary"] = DiscoveredInBoundary]
  /\ UNCHANGED <<attempt, category, tile, fresh, failures, todo, cache, contents,
                 located, rowVars, expiries>>

CountDiscovered ==
  /\ pc = "count" /\ pc' = "finish"
  /\ progress' = [progress EXCEPT !["discoveredInBoundary"] = DiscoveredInBoundary]
  /\ Flush
  /\ UNCHANGED <<attempt, category, tile, fresh, failures, todo, cache, contents,
                 located, status, error, expiries>>

\* Any tile failure at all counts as nothing.
ProducedNothingIfAnyFailed(p) == p["tilesFailed"] > 0

ProducedNothing(p) ==
  p["tilesFailed"] > 0 /\ p["tilesFetched"] = 0 /\ p["tilesReused"] = 0

Finish ==
  /\ pc = "finish" /\ pc' = "done"
  /\ status' = IF ProducedNothing(progress) THEN "failed" ELSE "completed"
  /\ error' = DescribeShortfall(failures, progress)
  /\ UNCHANGED <<attempt, category, tile, fresh, failures, todo, progress, cache,
                 contents, located, saved, expiries>>

\* What the attempt had in memory, its reporter apart, is gone.
Forget ==
  /\ category' = 1 /\ tile' = 1
  /\ fresh' = {} /\ failures' = {} /\ todo' = {}

\* The run writes `failed` on its way out.
ThrowAndWriteFailed ==
  /\ pc \notin {"thrown", "done"} /\ pc' = "thrown"
  /\ status' = "failed" /\ error' = GaveUp
  /\ Forget
  /\ UNCHANGED <<attempt, progress, cache, contents, located, saved, expiries>>

\* Any await outside the two try blocks rejects: a progress write, a query.
Throw ==
  /\ pc \notin {"thrown", "done"} /\ pc' = "thrown"
  /\ Forget
  /\ UNCHANGED <<attempt, progress, cache, contents, located, rowVars, expiries>>

\* BullMQ starts the job over, or the worker gives it up.
Retry ==
  /\ pc = "thrown" /\ attempt < MaxAttempts
  /\ pc' = "start" /\ attempt' = attempt + 1
  /\ UNCHANGED <<category, tile, fresh, failures, todo, progress, cache, contents,
                 located, rowVars, expiries>>

GiveUp ==
  /\ pc = "thrown" /\ attempt = MaxAttempts
  /\ pc' = "done"
  /\ status' = "failed" /\ error' = GaveUp
  /\ UNCHANGED <<attempt, category, tile, fresh, failures, todo, progress, cache,
                 contents, located, saved, expiries>>

\* config.discoveryFreshnessDays pass for one tile while the run is going on.
Expire(p) ==
  /\ expiries < MaxExpiries /\ pc # "done" /\ cache[p] = "fresh"
  /\ cache' = [cache EXCEPT ![p] = "stale"]
  /\ expiries' = expiries + 1
  /\ UNCHANGED <<runVars, contents, located, rowVars>>

Next ==
  \/ StartAttempt \/ PlanTiles \/ CheckFreshness \/ EndCategory
  \/ ReuseTile \/ FailTile
  \/ \E found \in {{}, Shops} : FetchTile(found) \/ SaveTileReplyLost(found)
  \/ FindCandidates \/ EndGeocoding
  \/ \E s \in Portfolio :
       \/ ResolveStore(s) \/ LocateReplyLost(s)
       \/ LeaveStoreUnresolved(s) \/ FailToGeocode(s)
  \/ CountDiscovered \/ Finish
  \/ Throw \/ Retry \/ GiveUp
  \/ \E p \in Pairs : Expire(p)

Spec == Init /\ [][Next]_vars

(***************************************************************************)
(* Properties                                                              *)
(***************************************************************************)

TilesDone(p) == p["tilesFetched"] + p["tilesReused"] + p["tilesFailed"]
GeocodesDone(p) == p["geocodeResolved"] + p["geocodeUnresolved"] + p["geocodeFailed"]

\* A terminal status a run wrote itself, not the worker on giving up.
SettledByRun == status \in {"completed", "failed"} /\ error # GaveUp

\* The status page never shows more tiles or stores done than there are, at
\* whatever await it polls and whichever attempt is running
\* (progressReporter.ts, StatusPage.tsx:114-128).
NeverOverstated ==
  saved # NoProgress =>
    /\ TilesDone(saved) <= saved["tilesTotal"]
    /\ GeocodesDone(saved) <= saved["geocodeCandidates"]

\* Once a run settles its market, the row's progress accounts for every tile of
\* every category, every candidate, and the stores that were counted, although
\* most increments are never flushed on their own (discovery.ts:67-75).
SettledProgressIsComplete ==
  SettledByRun =>
    /\ saved = progress
    /\ TilesDone(saved) = NumTiles * NumCategories
    /\ GeocodesDone(saved) = saved["geocodeCandidates"]

\* The status and the progress of a settled row, written by two statements,
\* agree: it failed exactly if no tile was fetched or reused
\* (discovery.ts:78-95).
VerdictMatchesProgress ==
  SettledByRun =>
    (status = "failed" <=> saved["tilesFetched"] + saved["tilesReused"] = 0)

\* Every tile with a category nobody has ever fetched is among the areas the
\* dashboard warns about (discovery.ts:212-223), for retries over a cache that
\* earlier attempts filled and time expired.
HolesAreReported ==
  SettledByRun =>
    Cardinality({t \in Tiles : \E c \in 1..NumCategories : cache[<<t, c>>] = "missing"})
      <= error.areas

\* A portfolio row that has a location never costs a geocoding call again,
\* retries included (discovery.ts:157-165).
LocatedNotGeocoded ==
  [][\A s \in located : pc' = "geocode" /\ s \in todo => s \in todo']_vars

\* The one row of this run, as the status endpoint promises it.  It exists
\* before the run does, and its error's wording is dropped.
Row == INSTANCE MarketStatus WITH
  Markets <- {"market"},
  status <- [m \in {"market"} |-> status],
  error <- [m \in {"market"} |-> error.kind]

\* Every step of a run, retry or surrender is a step of the row's promise: no
\* attempt settles the market before it has really ended (discovery.ts:48-55,
\* 91-95, worker.ts:22-46).
FollowsMarketStatus == [][Row!Next]_<<status, error.kind>>
=============================================================================
