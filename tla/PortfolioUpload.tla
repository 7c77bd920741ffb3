---------------------------- MODULE PortfolioUpload ----------------------------
(***************************************************************************)
(* Uploads of the portfolio against the markets that classify it           *)
(* (controllers/portfolio.ts, repositories/portfolio.ts,                   *)
(* repositories/discovery.ts), one SQL statement at a time.                *)
(*                                                                         *)
(* Postgres runs these statements at READ COMMITTED.  A statement reads    *)
(* what is committed when it starts; a row another open transaction has    *)
(* deleted makes a DELETE, an UPDATE or a foreign key check wait until     *)
(* that transaction ends.  So each statement that reads and then writes is *)
(* two actions here, and what a transaction wrote is seen when it commits. *)
(***************************************************************************)
EXTENDS FiniteSets

CONSTANTS
  Uploads,      \* POST /portfolio requests
  Rows,         \* the rows of all their CSV files
  Source,       \* the upload that inserts a row
  Coordinates,  \* the rows whose CSV gives latitude and longitude
  Markets,
  NoMarket

ASSUME SourceAssumption == Source \in [Rows -> Uploads] /\ Coordinates \subseteq Rows
\* A file without rows is refused (controllers/portfolio.ts:57).
ASSUME RowsAssumption == \A u \in Uploads : \E r \in Rows : Source[r] = u
ASSUME NoMarketAssumption == NoMarket \notin Markets

VARIABLES
  portfolio,  \* portfolio_store: the committed rows
  located,    \* those with a location
  split,      \* portfolio_store_market: <<market, row>>
  upload,     \* how far each upload is
  seen,       \* the rows an upload's statement read when it started
  seenMarkets, \* the markets its reclassification read
  doomed,     \* rows deleted by its open transaction
  market,     \* none, queued, running, completed or failed
  current,    \* the market the worker runs, or NoMarket
  stage,      \* geocode, classify or classified
  todo        \* rows left to geocode, then the rows its classification read

uploadVars == <<upload, seen, seenMarkets, doomed>>
runVars == <<market, current, stage, todo>>
tableVars == <<portfolio, located, split>>
vars == <<tableVars, uploadVars, runVars>>

RowsOf(u) == {r \in Rows : Source[r] = u}
ExistingMarkets == {m \in Markets : market[m] # "none"}

\* No open transaction other than u's has deleted one of these rows.
Unlocked(u, rows) == \A v \in Uploads \ {u} : doomed[v] \intersect rows = {}
UnlockedForAll(rows) == \A v \in Uploads : doomed[v] \intersect rows = {}

\* The tables hold what their foreign keys allow, every row a market shows has a
\* location to draw it at, and every statement's reads are rows of some upload.
TypeOK ==
  /\ portfolio \subseteq Rows /\ located \subseteq portfolio
  /\ split \subseteq Markets \X located
  /\ upload \in [Uploads -> {"idle", "deleting", "deleted", "committed",
                             "classifying", "done", "failed", "lost"}]
  /\ seen \in [Uploads -> SUBSET Rows] /\ seenMarkets \in [Uploads -> SUBSET Markets]
  /\ doomed \in [Uploads -> SUBSET portfolio]
  /\ market \in [Markets -> {"none", "queued", "running", "completed", "failed"}]
  /\ current \in Markets \union {NoMarket}
  /\ stage \in {"geocode", "classify", "classified"} /\ todo \subseteq Rows

Init ==
  /\ portfolio = {} /\ located = {} /\ split = {}
  /\ upload = [u \in Uploads |-> "idle"]
  /\ seen = [u \in Uploads |-> {}] /\ seenMarkets = [u \in Uploads |-> {}]
  /\ doomed = [u \in Uploads |-> {}]
  /\ market = [m \in Markets |-> "none"]
  /\ current = NoMarket /\ stage = "geocode" /\ todo = {}

(***************************************************************************)
(* replacePortfolioFromCsv                                                 *)
(***************************************************************************)

Upload(u, from, to) == upload[u] = from /\ upload' = [upload EXCEPT ![u] = to]

\* BEGIN; DELETE FROM portfolio_store starts.
StartDelete(u) ==
  /\ Upload(u, "idle", "deleting")
  /\ seen' = [seen EXCEPT ![u] = portfolio]
  /\ UNCHANGED <<tableVars, seenMarkets, doomed, runVars>>

\* The delete committed on its own, outside the transaction.
FinishDeleteAutocommitted(u) ==
  /\ Upload(u, "deleting", "deleted")
  /\ Unlocked(u, seen[u])
  /\ portfolio' = portfolio \ seen[u]
  /\ located' = located \ seen[u]
  /\ split' = {s \in split : s[2] \notin seen[u]}
  /\ UNCHANGED <<seen, seenMarkets, doomed, runVars>>

\* The delete has every row it read, less those deleted under it meanwhile.
FinishDelete(u) ==
  /\ Upload(u, "deleting", "deleted")
  /\ Unlocked(u, seen[u])
  /\ doomed' = [doomed EXCEPT ![u] = seen[u] \intersect portfolio]
  /\ UNCHANGED <<tableVars, seen, seenMarkets, runVars>>

\* The upload answered without the reclassification.
InsertAndCommitOnly(u) ==
  /\ Upload(u, "deleted", "done")
  /\ portfolio' = (portfolio \ doomed[u]) \union RowsOf(u)
  /\ located' = (located \ doomed[u]) \union (RowsOf(u) \intersect Coordinates)
  /\ split' = {s \in split : s[2] \notin doomed[u]}
  /\ doomed' = [doomed EXCEPT ![u] = {}]
  /\ UNCHANGED <<seen, seenMarkets, runVars>>

\* INSERT; COMMIT.  ON DELETE CASCADE takes the split of the deleted rows along.
InsertAndCommit(u) ==
  /\ Upload(u, "deleted", "committed")
  /\ portfolio' = (portfolio \ doomed[u]) \union RowsOf(u)
  /\ located' = (located \ doomed[u]) \union (RowsOf(u) \intersect Coordinates)
  /\ split' = {s \in split : s[2] \notin doomed[u]}
  /\ doomed' = [doomed EXCEPT ![u] = {}]
  /\ UNCHANGED <<seen, seenMarkets, runVars>>

\* Either statement fails: ROLLBACK, and the request answers with an error.
Rollback(u) ==
  /\ upload[u] \in {"deleting", "deleted"}
  /\ upload' = [upload EXCEPT ![u] = "failed"]
  /\ doomed' = [doomed EXCEPT ![u] = {}]
  /\ UNCHANGED <<tableVars, seen, seenMarkets, runVars>>

\* reclassifyAllMarkets starts: every market, every located row.
StartReclassify(u) ==
  /\ Upload(u, "committed", "classifying")
  /\ seen' = [seen EXCEPT ![u] = located]
  /\ seenMarkets' = [seenMarkets EXCEPT ![u] = ExistingMarkets]
  /\ UNCHANGED <<tableVars, doomed, runVars>>

\* It lands if every row it read is still there; else the foreign key refuses
\* the whole statement and the request fails after its portfolio was replaced.
FinishReclassify(u) ==
  /\ upload[u] = "classifying"
  /\ UnlockedForAll(seen[u])
  /\ IF seen[u] \subseteq portfolio
     THEN /\ upload' = [upload EXCEPT ![u] = "done"]
          /\ split' = split \union (seenMarkets[u] \X seen[u])
     ELSE /\ upload' = [upload EXCEPT ![u] = "failed"]
          /\ UNCHANGED split
  /\ UNCHANGED <<portfolio, located, seen, seenMarkets, doomed, runVars>>

\* The statement fails for another reason, or the API process dies before it:
\* the portfolio is replaced and nobody classifies it.
ReclassifyLost(u) ==
  /\ upload[u] \in {"committed", "classifying"}
  /\ upload' = [upload EXCEPT ![u] = "lost"]
  /\ UNCHANGED <<tableVars, seen, seenMarkets, doomed, runVars>>

(***************************************************************************)
(* Markets and their discovery                                             *)
(***************************************************************************)

CreateMarket(m) ==
  /\ market[m] = "none"
  /\ market' = [market EXCEPT ![m] = "queued"]
  /\ UNCHANGED <<tableVars, uploadVars, current, stage, todo>>

\* The worker reaches the geocoding of a market: findUnlocatedStoresNear.
StartRun(m) ==
  /\ current = NoMarket /\ market[m] = "queued"
  /\ current' = m /\ market' = [market EXCEPT ![m] = "running"]
  /\ stage' = "geocode" /\ todo' = portfolio \ located
  /\ UNCHANGED <<tableVars, uploadVars>>

\* An INSERT of the location where the code has an UPDATE by id.
LocateRowAnyway(r) ==
  /\ current # NoMarket /\ stage = "geocode" /\ r \in todo
  /\ todo' = todo \ {r}
  /\ located' = located \union {r}
  /\ UNCHANGED <<portfolio, split, uploadVars, market, current, stage>>

\* geocodeAddress finds a point; setPortfolioLocation updates the row, if an
\* upload has not replaced it since.
LocateRow(r) ==
  /\ current # NoMarket /\ stage = "geocode" /\ r \in todo
  /\ UnlockedForAll({r})
  /\ todo' = todo \ {r}
  /\ located' = located \union ({r} \intersect portfolio)
  /\ UNCHANGED <<portfolio, split, uploadVars, market, current, stage>>

\* The address is unresolvable, or the geocoder fails.
SkipRow(r) ==
  /\ current # NoMarket /\ stage = "geocode" /\ r \in todo
  /\ todo' = todo \ {r}
  /\ UNCHANGED <<tableVars, uploadVars, market, current, stage>>

\* classifyPortfolioForMarket starts: every located row.
StartClassify ==
  /\ current # NoMarket /\ stage = "geocode" /\ todo = {}
  /\ stage' = "classify" /\ todo' = located
  /\ UNCHANGED <<tableVars, uploadVars, market, current>>

\* The run is over, and its market is this.
EndRun(outcomes) ==
  /\ \E outcome \in outcomes : market' = [market EXCEPT ![current] = outcome]
  /\ current' = NoMarket /\ stage' = "geocode" /\ todo' = {}

\* After a throw the job is retried from the start, or the worker gives it up.
Thrown == {"queued", "failed"}

\* It lands, or the foreign key refuses it and the run throws.
FinishClassify ==
  /\ current # NoMarket /\ stage = "classify"
  /\ UnlockedForAll(todo)
  /\ IF todo \subseteq portfolio
     THEN /\ split' = split \union ({current} \X todo)
          /\ stage' = "classified" /\ todo' = {}
          /\ UNCHANGED <<market, current>>
     ELSE EndRun(Thrown) /\ UNCHANGED split
  /\ UNCHANGED <<portfolio, located, uploadVars>>

\* The stores are counted and the terminal status is written: failed, if the run
\* got no tile.
CompleteMarket ==
  /\ current # NoMarket /\ stage = "classified"
  /\ EndRun({"completed", "failed"})
  /\ UNCHANGED <<tableVars, uploadVars>>

\* Any await of the run rejects.
RunThrows ==
  /\ current # NoMarket
  /\ EndRun(Thrown)
  /\ UNCHANGED <<tableVars, uploadVars>>

Next ==
  \/ \E u \in Uploads :
       \/ StartDelete(u) \/ FinishDelete(u) \/ InsertAndCommit(u) \/ Rollback(u)
       \/ StartReclassify(u) \/ FinishReclassify(u) \/ ReclassifyLost(u)
  \/ \E m \in Markets : CreateMarket(m) \/ StartRun(m)
  \/ \E r \in Rows : LocateRow(r) \/ SkipRow(r)
  \/ StartClassify \/ FinishClassify \/ CompleteMarket \/ RunThrows

Spec == Init /\ [][Next]_vars

(***************************************************************************)
(* Properties                                                              *)
(***************************************************************************)

\* No upload and no run is under way.
Quiet ==
  /\ \A u \in Uploads : upload[u] \in {"idle", "done", "failed", "lost"}
  /\ current = NoMarket

\* Once everything is quiet, a completed market has in its split every row that
\* came with coordinates in an upload that was answered with success, in whatever
\* order uploads, market creations and runs overlapped; and the rows of the refused
\* ones too, as the upload that made the foreign key refuse reads them itself,
\* unless a reclassification was lost (controllers/portfolio.ts:83-95).
CoordinatesAreClassified ==
  Quiet =>
    \A m \in Markets, r \in portfolio \intersect Coordinates :
      /\ market[m] = "completed"
      /\ upload[Source[r]] = "done" \/ \A u \in Uploads : upload[u] # "lost"
      => <<m, r>> \in split

\* A portfolio that has rows never becomes empty, not even for one read: it is
\* replaced at one commit or not at all (repositories/portfolio.ts:10-49).
NeverEmptied == [][portfolio # {} => portfolio' # {}]_vars

\* repositories/portfolio.ts:5: an upload "replaces the entire portfolio": no
\* two uploads' rows are ever in it together.
UploadReplacesPortfolio ==
  \A r, s \in portfolio : Source[r] = Source[s]
=============================================================================
