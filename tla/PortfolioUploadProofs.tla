-------------------------- MODULE PortfolioUploadProofs --------------------------
(***************************************************************************)
(* For any uploads, rows and markets: whatever statements of uploads and   *)
(* runs overlap, the foreign keys hold, the portfolio is never empty again *)
(* and what was uploaded with coordinates is classified in the end.  The   *)
(* argument follows one row: some upload still to reclassify it, or some   *)
(* run still to come, or the split already has it.                         *)
(***************************************************************************)
EXTENDS PortfolioUpload, TLAPS

(***************************************************************************)
(* Tables                                                                  *)
(***************************************************************************)

\* The commit of an upload is behind it.
Committed(u) == upload[u] \notin {"idle", "deleting", "deleted"}

\* A row that any statement has read was committed; no two open transactions have
\* deleted one row; and a row that a classification read as located still is,
\* unless it is gone.
TableInv ==
  /\ \A r \in portfolio \union located \union todo : Committed(Source[r])
  /\ \A u \in Uploads : \A r \in seen[u] : Committed(Source[r])
  /\ \A u, v \in Uploads : u # v => doomed[u] \intersect doomed[v] = {}
  /\ \A u \in Uploads : upload[u] = "classifying" => seen[u] \intersect portfolio \subseteq located
  /\ stage = "classify" => todo \intersect portfolio \subseteq located
  /\ portfolio \intersect Coordinates \subseteq located
  /\ \A u \in Uploads : upload[u] # "deleted" => doomed[u] = {}

RunInv == \A m \in Markets : market[m] = "running" <=> current = m

BaseInv == TypeOK /\ TableInv /\ RunInv

LEMMA BaseInit == Init => BaseInv
BY NoMarketAssumption DEF Init, BaseInv, TypeOK, TableInv, RunInv

LEMMA TypeStep == BaseInv /\ [Next]_vars => TypeOK'
<1> SUFFICES ASSUME BaseInv, [Next]_vars PROVE TypeOK'
  OBVIOUS
<1> USE DEF BaseInv, TypeOK, tableVars, uploadVars, runVars, Upload
<1>1. ASSUME NEW u \in Uploads, StartDelete(u) PROVE TypeOK'
  BY <1>1 DEF StartDelete
<1>2. ASSUME NEW u \in Uploads, FinishDelete(u) PROVE TypeOK'
  BY <1>2 DEF FinishDelete
<1>3. ASSUME NEW u \in Uploads, InsertAndCommit(u) PROVE TypeOK'
  <2>1. /\ portfolio' = (portfolio \ doomed[u]) \union RowsOf(u)
        /\ located' = (located \ doomed[u]) \union (RowsOf(u) \intersect Coordinates)
        /\ split' = {s \in split : s[2] \notin doomed[u]}
        /\ doomed' = [doomed EXCEPT ![u] = {}]
        /\ upload' = [upload EXCEPT ![u] = "committed"]
    BY <1>3 DEF InsertAndCommit
  <2>2. portfolio' \subseteq Rows /\ located' \subseteq portfolio'
    BY <2>1 DEF RowsOf
  <2>3. split' \subseteq Markets \X located'
    BY <2>1
  <2>4. doomed' \in [Uploads -> SUBSET portfolio']
    <3>1. ASSUME NEW v \in Uploads, v # u PROVE doomed[v] \subseteq portfolio'
      BY <2>1, <3>1 DEF TableInv
    <3>2. QED
      BY <2>1, <3>1
  <2>5. upload' \in [Uploads -> {"idle", "deleting", "deleted", "committed",
                                 "classifying", "done", "failed", "lost"}]
    BY <2>1
  <2>6. QED
    BY <1>3, <2>2, <2>3, <2>4, <2>5 DEF InsertAndCommit
<1>4. ASSUME NEW u \in Uploads, Rollback(u) PROVE TypeOK'
  BY <1>4 DEF Rollback
<1>5. ASSUME NEW u \in Uploads, StartReclassify(u) PROVE TypeOK'
  BY <1>5 DEF StartReclassify, ExistingMarkets
<1>6. ASSUME NEW u \in Uploads, FinishReclassify(u) PROVE TypeOK'
  <2>1. split' \subseteq Markets \X located
    <3>1. CASE seen[u] \subseteq portfolio
      <4>1. seen[u] \subseteq located /\ seenMarkets[u] \subseteq Markets
        BY <1>6, <3>1 DEF FinishReclassify, TableInv
      <4>2. QED
        BY <1>6, <3>1, <4>1 DEF FinishReclassify
    <3>2. CASE ~(seen[u] \subseteq portfolio)
      BY <1>6, <3>2 DEF FinishReclassify
    <3>3. QED
      BY <3>1, <3>2
  <2>2. upload' \in [Uploads -> {"idle", "deleting", "deleted", "committed",
                                 "classifying", "done", "failed", "lost"}]
    BY <1>6 DEF FinishReclassify
  <2>3. QED
    BY <1>6, <2>1, <2>2 DEF FinishReclassify
<1>7. ASSUME NEW u \in Uploads, ReclassifyLost(u) PROVE TypeOK'
  BY <1>7 DEF ReclassifyLost
<1>8. ASSUME NEW m \in Markets, CreateMarket(m) PROVE TypeOK'
  BY <1>8 DEF CreateMarket
<1>9. ASSUME NEW m \in Markets, StartRun(m) PROVE TypeOK'
  BY <1>9 DEF StartRun
<1>10. ASSUME NEW r \in Rows, LocateRow(r) \/ SkipRow(r) PROVE TypeOK'
  <2>1. located \subseteq located' /\ located' \subseteq portfolio /\ portfolio' = portfolio
    BY <1>10 DEF LocateRow, SkipRow
  <2>2. split' \subseteq Markets \X located'
    BY <1>10, <2>1 DEF LocateRow, SkipRow
  <2>3. QED
    BY <1>10, <2>1, <2>2 DEF LocateRow, SkipRow
<1>11. CASE StartClassify
  BY <1>11 DEF StartClassify
<1>12. CASE FinishClassify
  <2>1. split' \subseteq Markets \X located
    <3>1. CASE todo \subseteq portfolio
      <4>1. todo \subseteq located /\ current \in Markets
        BY <1>12, <3>1 DEF FinishClassify, TableInv
      <4>2. QED
        BY <1>12, <3>1, <4>1 DEF FinishClassify
    <3>2. CASE ~(todo \subseteq portfolio)
      BY <1>12, <3>2 DEF FinishClassify
    <3>3. QED
      BY <3>1, <3>2
  <2>2. market' \in [Markets -> {"none", "queued", "running", "completed", "failed"}]
    BY <1>12 DEF FinishClassify, EndRun, Thrown
  <2>3. QED
    BY <1>12, <2>1, <2>2 DEF FinishClassify, EndRun
<1>13. CASE CompleteMarket
  BY <1>13 DEF CompleteMarket, EndRun
<1>14. CASE RunThrows
  BY <1>14 DEF RunThrows, EndRun, Thrown
<1>15. CASE UNCHANGED vars
  BY <1>15 DEF vars
<1>16. QED
  BY <1>1, <1>2, <1>3, <1>4, <1>5, <1>6, <1>7, <1>8, <1>9, <1>10, <1>11, <1>12, <1>13,
     <1>14, <1>15 DEF Next

\* An upload that has committed has committed.
LEMMA CommittedMoves ==
  ASSUME BaseInv, [Next]_vars, NEW u \in Uploads, Committed(u)
  PROVE  Committed(u)'
<1> USE DEF BaseInv, TypeOK, Upload, Committed
<1>1. ASSUME NEW v \in Uploads,
             \/ StartDelete(v) \/ FinishDelete(v) \/ InsertAndCommit(v) \/ Rollback(v)
             \/ StartReclassify(v) \/ FinishReclassify(v) \/ ReclassifyLost(v)
      PROVE  Committed(u)'
  BY <1>1
     DEF StartDelete, FinishDelete, InsertAndCommit, Rollback, StartReclassify,
         FinishReclassify, ReclassifyLost
<1>2. CASE UNCHANGED upload
  BY <1>2
<1>3. QED
  BY <1>1, <1>2
     DEF Next, vars, uploadVars, CreateMarket, StartRun, LocateRow, SkipRow, StartClassify,
         FinishClassify, CompleteMarket, RunThrows

LEMMA TableStep == BaseInv /\ [Next]_vars => TableInv'
<1> SUFFICES ASSUME BaseInv, [Next]_vars PROVE TableInv'
  OBVIOUS
<1> USE DEF BaseInv, TypeOK, tableVars, uploadVars, runVars, Upload
<1>0. \A r \in Rows : Source[r] \in Uploads /\ (Committed(Source[r]) => Committed(Source[r])')
  BY CommittedMoves, SourceAssumption
<1>1. ASSUME NEW u \in Uploads, StartDelete(u) PROVE TableInv'
  BY <1>0, <1>1 DEF StartDelete, TableInv
<1>2. ASSUME NEW u \in Uploads, FinishDelete(u) PROVE TableInv'
  <2>1. ASSUME NEW v \in Uploads, v # u PROVE doomed[v] \intersect seen[u] = {}
    BY <1>2, <2>1 DEF FinishDelete, Unlocked
  <2>2. \A v, w \in Uploads : v # w => doomed'[v] \intersect doomed'[w] = {}
    BY <1>2, <2>1 DEF FinishDelete, TableInv
  <2>3. QED
    BY <1>0, <1>2, <2>2 DEF FinishDelete, TableInv
<1>3. ASSUME NEW u \in Uploads, InsertAndCommit(u) PROVE TableInv'
  <2>1. /\ portfolio' = (portfolio \ doomed[u]) \union RowsOf(u)
        /\ located' = (located \ doomed[u]) \union (RowsOf(u) \intersect Coordinates)
        /\ doomed' = [doomed EXCEPT ![u] = {}]
        /\ upload[u] = "deleted" /\ upload' = [upload EXCEPT ![u] = "committed"]
        /\ UNCHANGED <<seen, stage, todo>>
    BY <1>3 DEF InsertAndCommit
  <2>2. ~Committed(u) /\ Committed(u)'
    BY <2>1 DEF Committed
  <2>3. \A r \in RowsOf(u) : Source[r] = u
    BY DEF RowsOf
  <2>4. \A r \in portfolio' \union located' \union todo' : Committed(Source[r])'
    <3>1. ASSUME NEW r \in portfolio' \union located' \union todo', r \notin RowsOf(u)
          PROVE  Committed(Source[r])'
      <4>1. r \in portfolio \union located \union todo /\ r \in Rows
        BY <2>1, <3>1
      <4>2. QED
        BY <1>0, <4>1 DEF TableInv
    <3>2. ASSUME NEW r \in RowsOf(u) PROVE Committed(Source[r])'
      BY <2>2, <2>3
    <3>3. QED
      BY <3>1, <3>2
  <2>5. \A v \in Uploads : \A r \in seen'[v] : Committed(Source[r])'
    BY <1>0, <2>1 DEF TableInv
  <2>6. \A v, w \in Uploads : v # w => doomed'[v] \intersect doomed'[w] = {}
    BY <2>1 DEF TableInv
  <2>7. ASSUME NEW v \in Uploads, upload'[v] = "classifying"
        PROVE  seen'[v] \intersect portfolio' \subseteq located'
    <3>1. upload[v] = "classifying"
      BY <2>1, <2>7
    <3>2. seen[v] \intersect RowsOf(u) = {}
      BY <2>2, <2>3 DEF TableInv
    <3>3. seen[v] \intersect portfolio \subseteq located
      BY <3>1 DEF TableInv
    <3>4. QED
      BY <2>1, <3>2, <3>3
  <2>8. stage' = "classify" => todo' \intersect portfolio' \subseteq located'
    <3>1. todo \intersect RowsOf(u) = {}
      BY <2>2, <2>3 DEF TableInv
    <3>2. QED
      BY <2>1, <3>1 DEF TableInv
  <2>9. portfolio' \intersect Coordinates \subseteq located'
    BY <2>1 DEF TableInv
  <2>10. \A v \in Uploads : upload'[v] # "deleted" => doomed'[v] = {}
    BY <2>1 DEF TableInv
  <2>11. QED
    BY <2>4, <2>5, <2>6, <2>7, <2>8, <2>9, <2>10 DEF TableInv
<1>4. ASSUME NEW u \in Uploads, Rollback(u) PROVE TableInv'
  BY <1>0, <1>4 DEF Rollback, TableInv
<1>5. ASSUME NEW u \in Uploads, StartReclassify(u) PROVE TableInv'
  BY <1>0, <1>5 DEF StartReclassify, TableInv
<1>6. ASSUME NEW u \in Uploads, FinishReclassify(u) \/ ReclassifyLost(u) PROVE TableInv'
  <2>1. /\ UNCHANGED <<portfolio, located, seen, doomed, stage, todo>>
        /\ upload' \in {[upload EXCEPT ![u] = s] : s \in {"done", "failed", "lost"}}
        /\ upload[u] # "deleted"
    BY <1>6 DEF FinishReclassify, ReclassifyLost
  <2>2. QED
    BY <1>0, <2>1 DEF TableInv
<1>7. ASSUME NEW m \in Markets, CreateMarket(m) \/ StartRun(m) PROVE TableInv'
  BY <1>0, <1>7 DEF CreateMarket, StartRun, TableInv
<1>8. ASSUME NEW r \in Rows, LocateRow(r) \/ SkipRow(r) PROVE TableInv'
  <2>1. /\ located \subseteq located' /\ located' \subseteq portfolio
        /\ todo' \subseteq todo /\ stage' = stage
        /\ UNCHANGED <<portfolio, upload, seen, doomed>>
    BY <1>8 DEF LocateRow, SkipRow
  <2>2. QED
    BY <1>0, <2>1 DEF TableInv
<1>9. CASE StartClassify \/ FinishClassify \/ CompleteMarket \/ RunThrows
  <2>1. /\ UNCHANGED <<portfolio, located, upload, seen, doomed>>
        /\ todo' \subseteq todo \union located
        /\ stage' = "classify" => todo' = located \/ (stage = "classify" /\ todo' = todo)
    BY <1>9 DEF StartClassify, FinishClassify, CompleteMarket, RunThrows, EndRun
  <2>2. QED
    BY <1>0, <2>1 DEF TableInv
<1>10. CASE UNCHANGED vars
  BY <1>0, <1>10 DEF vars, TableInv
<1>11. QED
  BY <1>1, <1>2, <1>3, <1>4, <1>5, <1>6, <1>7, <1>8, <1>9, <1>10 DEF Next

LEMMA RunStep == BaseInv /\ [Next]_vars => RunInv'
<1> SUFFICES ASSUME BaseInv, [Next]_vars PROVE RunInv'
  OBVIOUS
<1> USE NoMarketAssumption DEF BaseInv, TypeOK, tableVars, uploadVars, runVars, RunInv
<1>1. ASSUME NEW m \in Markets, CreateMarket(m) \/ StartRun(m) PROVE RunInv'
  BY <1>1 DEF CreateMarket, StartRun
<1>2. CASE FinishClassify \/ CompleteMarket \/ RunThrows
  BY <1>2 DEF FinishClassify, CompleteMarket, RunThrows, EndRun, Thrown
<1>3. CASE UNCHANGED <<market, current>>
  BY <1>3
<1>4. QED
  BY <1>1, <1>2, <1>3
     DEF Next, vars, StartDelete, FinishDelete, InsertAndCommit, Rollback, StartReclassify,
         FinishReclassify, ReclassifyLost, LocateRow, SkipRow, StartClassify

LEMMA BaseStep == BaseInv /\ [Next]_vars => BaseInv'
BY TypeStep, TableStep, RunStep DEF BaseInv

LEMMA BaseHolds == Spec => []BaseInv
BY BaseInit, BaseStep, PTL DEF Spec

\* The foreign keys hold, every row a market shows has a location to draw it at, and
\* open transactions have deleted committed rows only, however statements overlap
\* (repositories/portfolio.ts:10-49, repositories/discovery.ts:205-303).
THEOREM TablesTheorem == Spec => []TypeOK
<1>1. BaseInv => TypeOK
  BY DEF BaseInv
<1>2. QED
  BY <1>1, BaseHolds, PTL

\* Once there is a portfolio there is one at every moment (repositories/portfolio.ts:10-49).
THEOREM NeverEmptiedTheorem == Spec => NeverEmptied
<1>1. ASSUME [Next]_vars PROVE [portfolio # {} => portfolio' # {}]_vars
  <2>1. ASSUME NEW u \in Uploads, InsertAndCommit(u) PROVE portfolio' # {}
    <3>1. RowsOf(u) # {}
      BY RowsAssumption DEF RowsOf
    <3>2. QED
      BY <2>1, <3>1 DEF InsertAndCommit
  <2>2. CASE UNCHANGED portfolio
    BY <2>2
  <2>3. QED
    BY <1>1, <2>1, <2>2
       DEF Next, vars, tableVars, StartDelete, FinishDelete, Rollback, StartReclassify,
           FinishReclassify, ReclassifyLost, CreateMarket, StartRun, LocateRow, SkipRow,
           StartClassify, FinishClassify, CompleteMarket, RunThrows
<1>2. QED
  BY <1>1, PTL DEF Spec, NeverEmptied

(***************************************************************************)
(* Classification                                                          *)
(***************************************************************************)

\* A run of m that will read r, or has read it, is to come, or m was given up.
RunPending(m, r) ==
  \/ market[m] \in {"none", "queued", "failed"}
  \/ current = m /\ stage = "geocode"
  \/ current = m /\ stage = "classify" /\ r \in todo

\* A reclassification that will put r in the split of m is to come: one that has yet
\* to read, or that has read both and that nothing has made the foreign key refuse.
UploadPending(m, r) ==
  \E u \in Uploads :
    \/ upload[u] = "committed"
    \/ /\ upload[u] = "classifying" /\ seen[u] \subseteq portfolio
       /\ r \in seen[u] /\ m \in seenMarkets[u]

Uploaded == portfolio \intersect Coordinates

\* Unless one is lost, there is always some statement to come for every row.
CoveredInv ==
  (\A u \in Uploads : upload[u] # "lost") =>
    \A m \in Markets, r \in Uploaded :
      <<m, r>> \in split \/ RunPending(m, r) \/ UploadPending(m, r)

\* An upload that is answered with success leaves no market behind.
OwnInv ==
  \A m \in Markets, r \in Uploaded :
    /\ upload[Source[r]] = "classifying" =>
         r \in seen[Source[r]]
         /\ (m \in seenMarkets[Source[r]] \/ <<m, r>> \in split \/ RunPending(m, r))
    /\ upload[Source[r]] = "done" => <<m, r>> \in split \/ RunPending(m, r)

Inv == BaseInv /\ CoveredInv /\ OwnInv

\* Where the rows of the portfolio come from.
LEMMA RowMoves ==
  ASSUME BaseInv, [Next]_vars, NEW r \in portfolio', r \notin portfolio
  PROVE  Source[r] \in Uploads /\ upload'[Source[r]] = "committed"
<1>1. ASSUME NEW u \in Uploads, InsertAndCommit(u)
      PROVE  Source[r] \in Uploads /\ upload'[Source[r]] = "committed"
  <2>1. r \in RowsOf(u)
    BY <1>1 DEF InsertAndCommit
  <2>2. Source[r] = u /\ upload'[u] = "committed"
    BY <1>1, <2>1 DEF InsertAndCommit, Upload, RowsOf, BaseInv, TypeOK
  <2>3. QED
    BY <2>2
<1>2. QED
  BY <1>1
     DEF Next, vars, tableVars, StartDelete, FinishDelete, Rollback, StartReclassify,
         FinishReclassify, ReclassifyLost, CreateMarket, StartRun, LocateRow, SkipRow,
         StartClassify, FinishClassify, CompleteMarket, RunThrows

\* A row keeps its split as long as it is there.
LEMMA SplitMoves ==
  ASSUME BaseInv, [Next]_vars, NEW m \in Markets, NEW r \in portfolio',
         <<m, r>> \in split
  PROVE  <<m, r>> \in split'
<1>1. ASSUME NEW u \in Uploads, InsertAndCommit(u) PROVE <<m, r>> \in split'
  <2>1. /\ upload[u] = "deleted" /\ portfolio' = (portfolio \ doomed[u]) \union RowsOf(u)
        /\ split' = {s \in split : s[2] \notin doomed[u]}
    BY <1>1 DEF InsertAndCommit, Upload
  <2>2. r \in portfolio
    BY DEF BaseInv, TypeOK
  <2>3. Source[r] # u
    BY <2>1, <2>2 DEF BaseInv, TableInv, Committed
  <2>4. r \notin doomed[u]
    BY <2>1, <2>3 DEF RowsOf
  <2>5. QED
    BY <2>1, <2>4
<1>2. CASE split \subseteq split'
  BY <1>2
<1>3. QED
  BY <1>1, <1>2
     DEF Next, vars, tableVars, StartDelete, FinishDelete, Rollback, StartReclassify,
         FinishReclassify, ReclassifyLost, CreateMarket, StartRun, LocateRow, SkipRow,
         StartClassify, FinishClassify, CompleteMarket, RunThrows

\* A run to come comes, or is over and has left the row in its split.
LEMMA RunMoves ==
  ASSUME BaseInv, [Next]_vars, NEW m \in Markets, NEW r \in Uploaded, RunPending(m, r)
  PROVE  RunPending(m, r)' \/ <<m, r>> \in split'
<1> USE NoMarketAssumption DEF BaseInv, TypeOK, RunInv, RunPending, runVars
<1>1. ASSUME NEW n \in Markets, CreateMarket(n) \/ StartRun(n)
      PROVE  RunPending(m, r)'
  BY <1>1 DEF CreateMarket, StartRun
<1>2. ASSUME NEW q \in Rows, LocateRow(q) \/ SkipRow(q)
      PROVE  RunPending(m, r)'
  BY <1>2 DEF LocateRow, SkipRow
<1>3. CASE StartClassify
  <2>1. r \in located
    BY DEF TableInv, Uploaded
  <2>2. QED
    BY <1>3, <2>1 DEF StartClassify
<1>4. CASE FinishClassify
  BY <1>4 DEF FinishClassify, EndRun, Thrown
<1>5. CASE CompleteMarket
  BY <1>5 DEF CompleteMarket, EndRun
<1>6. CASE RunThrows
  BY <1>6 DEF RunThrows, EndRun, Thrown
<1>7. CASE UNCHANGED runVars
  BY <1>7
<1>8. QED
  BY <1>1, <1>2, <1>3, <1>4, <1>5, <1>6, <1>7
     DEF Next, vars, StartDelete, FinishDelete, InsertAndCommit, Rollback, StartReclassify,
         FinishReclassify, ReclassifyLost

\* What becomes of an upload that has read, or is about to, in one step.
LEMMA UploadMoves ==
  ASSUME BaseInv, [Next]_vars, NEW u \in Uploads
  PROVE  /\ upload[u] = "lost" => upload'[u] = "lost"
         /\ upload[u] = "committed" =>
              \/ upload'[u] \in {"committed", "lost"}
              \/ StartReclassify(u)
         /\ upload[u] = "classifying" =>
              \/ /\ upload'[u] = "classifying" /\ seen'[u] = seen[u]
                 /\ seenMarkets'[u] = seenMarkets[u]
              \/ upload'[u] = "lost"
              \/ FinishReclassify(u)
         /\ upload'[u] = "classifying" /\ upload[u] # "classifying" => StartReclassify(u)
         /\ upload'[u] = "done" /\ upload[u] # "done" =>
              upload[u] = "classifying" /\ FinishReclassify(u)
<1> USE DEF BaseInv, TypeOK, Upload
<1>1. CASE UNCHANGED <<upload, seen, seenMarkets>>
  BY <1>1
<1>2. ASSUME NEW v \in Uploads, StartDelete(v) \/ FinishDelete(v) \/ InsertAndCommit(v) \/ Rollback(v),
             upload' = upload \/ v # u
      PROVE  upload'[u] = upload[u] /\ seen'[u] = seen[u] /\ seenMarkets'[u] = seenMarkets[u]
  BY <1>2 DEF StartDelete, FinishDelete, InsertAndCommit, Rollback
<1>3. CASE StartDelete(u) \/ FinishDelete(u) \/ InsertAndCommit(u) \/ Rollback(u)
  BY <1>3 DEF StartDelete, FinishDelete, InsertAndCommit, Rollback
<1>4. ASSUME NEW v \in Uploads, v # u, StartReclassify(v) \/ FinishReclassify(v) \/ ReclassifyLost(v)
      PROVE  upload'[u] = upload[u] /\ seen'[u] = seen[u] /\ seenMarkets'[u] = seenMarkets[u]
  BY <1>4 DEF StartReclassify, FinishReclassify, ReclassifyLost
<1>5. CASE StartReclassify(u)
  BY <1>5 DEF StartReclassify
<1>6. CASE FinishReclassify(u)
  BY <1>6 DEF FinishReclassify
<1>7. CASE ReclassifyLost(u)
  BY <1>7 DEF ReclassifyLost
<1>8. CASE \E v \in Uploads :
             \/ StartDelete(v) \/ FinishDelete(v) \/ InsertAndCommit(v) \/ Rollback(v)
             \/ StartReclassify(v) \/ FinishReclassify(v) \/ ReclassifyLost(v)
  BY <1>2, <1>3, <1>4, <1>5, <1>6, <1>7, <1>8
<1>9. QED
  BY <1>1, <1>8
     DEF Next, vars, uploadVars, CreateMarket, StartRun, LocateRow, SkipRow, StartClassify,
         FinishClassify, CompleteMarket, RunThrows

\* What a reclassification reads: every row with coordinates, every market there is.
LEMMA ReadMoves ==
  ASSUME BaseInv, NEW u \in Uploads, StartReclassify(u), NEW m \in Markets,
         NEW r \in Uploaded
  PROVE  /\ upload'[u] = "classifying" /\ seen'[u] \subseteq portfolio' /\ r \in seen'[u]
         /\ m \in seenMarkets'[u] \/ RunPending(m, r)'
<1>1. /\ upload' = [upload EXCEPT ![u] = "classifying"]
      /\ seen' = [seen EXCEPT ![u] = located]
      /\ seenMarkets' = [seenMarkets EXCEPT ![u] = ExistingMarkets]
      /\ portfolio' = portfolio /\ market' = market
  BY DEF StartReclassify, Upload, tableVars, runVars
<1>2. r \in located /\ located \subseteq portfolio
  BY DEF BaseInv, TypeOK, TableInv, Uploaded
<1>3. upload'[u] = "classifying" /\ seen'[u] = located /\ seenMarkets'[u] = ExistingMarkets
  BY <1>1 DEF BaseInv, TypeOK
<1>4. m \in ExistingMarkets \/ RunPending(m, r)'
  BY <1>1 DEF ExistingMarkets, RunPending
<1>5. QED
  BY <1>1, <1>2, <1>3, <1>4

LEMMA CoveredStep == Inv /\ [Next]_vars => CoveredInv'
<1> SUFFICES ASSUME Inv, [Next]_vars, \A u \in Uploads : upload'[u] # "lost",
                    NEW m \in Markets, NEW r \in Uploaded'
             PROVE  (<<m, r>> \in split \/ RunPending(m, r) \/ UploadPending(m, r))'
  BY DEF CoveredInv
<1>1. BaseInv /\ r \in portfolio' /\ r \in Coordinates
  BY DEF Inv, Uploaded
<1>2. CASE r \notin portfolio
  BY <1>1, <1>2, RowMoves DEF UploadPending
<1>3. CASE r \in portfolio
  <2>1. r \in Uploaded
    BY <1>1, <1>3 DEF Uploaded
  <2>2. \A u \in Uploads : upload[u] # "lost"
    BY <1>1, UploadMoves
  <2>3. <<m, r>> \in split \/ RunPending(m, r) \/ UploadPending(m, r)
    BY <2>1, <2>2 DEF Inv, CoveredInv
  <2>4. CASE <<m, r>> \in split
    BY <1>1, <2>4, SplitMoves
  <2>5. CASE RunPending(m, r)
    BY <1>1, <2>1, <2>5, RunMoves
  <2>6. ASSUME NEW u \in Uploads, upload[u] = "committed"
        PROVE  (RunPending(m, r) \/ UploadPending(m, r))'
    <3>1. upload'[u] = "committed" \/ StartReclassify(u)
      BY <1>1, <2>6, UploadMoves
    <3>2. CASE upload'[u] = "committed"
      BY <3>2 DEF UploadPending
    <3>3. CASE StartReclassify(u)
      BY <1>1, <2>1, <3>3, ReadMoves DEF UploadPending
    <3>4. QED
      BY <3>1, <3>2, <3>3
  <2>7. ASSUME NEW u \in Uploads, upload[u] = "classifying", seen[u] \subseteq portfolio,
               r \in seen[u], m \in seenMarkets[u]
        PROVE  (<<m, r>> \in split \/ UploadPending(m, r))'
    <3>1. \/ upload'[u] = "classifying" /\ seen'[u] = seen[u] /\ seenMarkets'[u] = seenMarkets[u]
          \/ FinishReclassify(u)
      BY <1>1, <2>7, UploadMoves
    <3>2. CASE FinishReclassify(u)
      BY <2>7, <3>2 DEF FinishReclassify
    <3>3. CASE /\ upload'[u] = "classifying" /\ seen'[u] = seen[u]
               /\ seenMarkets'[u] = seenMarkets[u]
      <4>1. CASE portfolio \subseteq portfolio'
        BY <2>7, <3>3, <4>1 DEF UploadPending
      <4>2. ASSUME NEW v \in Uploads, InsertAndCommit(v)
            PROVE  UploadPending(m, r)'
        BY <1>1, <4>2 DEF InsertAndCommit, Upload, UploadPending, BaseInv, TypeOK
      <4>3. QED
        BY <4>1, <4>2
           DEF Next, vars, tableVars, StartDelete, FinishDelete, Rollback, StartReclassify,
               FinishReclassify, ReclassifyLost, CreateMarket, StartRun, LocateRow, SkipRow,
               StartClassify, FinishClassify, CompleteMarket, RunThrows
    <3>4. QED
      BY <3>1, <3>2, <3>3
  <2>8. QED
    BY <2>3, <2>4, <2>5, <2>6, <2>7 DEF UploadPending
<1>4. QED
  BY <1>2, <1>3

LEMMA OwnStep == Inv /\ [Next]_vars => OwnInv'
<1> SUFFICES ASSUME Inv, [Next]_vars, NEW m \in Markets, NEW r \in Uploaded'
             PROVE  /\ upload'[Source[r]] = "classifying" =>
                         r \in seen'[Source[r]]
                         /\ (m \in seenMarkets'[Source[r]] \/ <<m, r>> \in split'
                              \/ RunPending(m, r)')
                    /\ upload'[Source[r]] = "done" => <<m, r>> \in split' \/ RunPending(m, r)'
  BY DEF OwnInv
<1>1. BaseInv /\ r \in portfolio' /\ r \in Coordinates
  BY DEF Inv, Uploaded
<1>2. CASE r \notin portfolio
  BY <1>1, <1>2, RowMoves
<1>3. CASE r \in portfolio
  <2>1. r \in Uploaded /\ Source[r] \in Uploads
    BY <1>1, <1>3, SourceAssumption DEF Uploaded, BaseInv, TypeOK
  <2>2. <<m, r>> \in split \/ RunPending(m, r) => <<m, r>> \in split' \/ RunPending(m, r)'
    BY <1>1, <2>1, SplitMoves, RunMoves
  <2>3. ASSUME upload'[Source[r]] = "classifying"
        PROVE  r \in seen'[Source[r]]
               /\ (m \in seenMarkets'[Source[r]] \/ <<m, r>> \in split' \/ RunPending(m, r)')
    <3>1. CASE upload[Source[r]] = "classifying"
      <4>1. /\ seen'[Source[r]] = seen[Source[r]]
            /\ seenMarkets'[Source[r]] = seenMarkets[Source[r]]
        <5>1. ~FinishReclassify(Source[r])
          BY <1>1, <2>1, <2>3 DEF FinishReclassify, BaseInv, TypeOK
        <5>2. QED
          BY <1>1, <2>1, <2>3, <3>1, <5>1, UploadMoves
      <4>2. QED
        BY <2>1, <2>2, <3>1, <4>1 DEF Inv, OwnInv
    <3>2. CASE upload[Source[r]] # "classifying"
      <4>1. StartReclassify(Source[r])
        BY <1>1, <2>1, <2>3, <3>2, UploadMoves
      <4>2. QED
        BY <1>1, <2>1, <4>1, ReadMoves
    <3>3. QED
      BY <3>1, <3>2
  <2>4. ASSUME upload'[Source[r]] = "done"
        PROVE  <<m, r>> \in split' \/ RunPending(m, r)'
    <3>1. CASE upload[Source[r]] = "done"
      BY <2>1, <2>2, <3>1 DEF Inv, OwnInv
    <3>2. CASE upload[Source[r]] # "done"
      <4>1. upload[Source[r]] = "classifying" /\ FinishReclassify(Source[r])
        BY <1>1, <2>1, <2>4, <3>2, UploadMoves
      <4>2. /\ r \in seen[Source[r]]
            /\ m \in seenMarkets[Source[r]] \/ <<m, r>> \in split \/ RunPending(m, r)
        BY <2>1, <4>1 DEF Inv, OwnInv
      <4>3. split' = split \union (seenMarkets[Source[r]] \X seen[Source[r]])
        BY <1>1, <2>1, <2>4, <4>1 DEF FinishReclassify, BaseInv, TypeOK
      <4>4. QED
        BY <2>2, <4>2, <4>3
    <3>3. QED
      BY <3>1, <3>2
  <2>5. QED
    BY <2>3, <2>4
<1>4. QED
  BY <1>2, <1>3

LEMMA InvHolds == Spec => []Inv
<1>1. Init => Inv
  <2>1. Init => CoveredInv /\ OwnInv
    BY DEF Init, CoveredInv, OwnInv, Uploaded
  <2>2. QED
    BY <2>1, BaseInit DEF Inv
<1>2. Inv /\ [Next]_vars => Inv'
  BY BaseStep, CoveredStep, OwnStep DEF Inv
<1>3. QED
  BY <1>1, <1>2, PTL DEF Spec

\* Once everything is quiet, every completed market shows what successful uploads
\* brought with coordinates, and, unless a reclassification was lost, what refused
\* ones brought (controllers/portfolio.ts:83-95).
THEOREM ClassifiedTheorem == Spec => []CoordinatesAreClassified
<1>1. Inv => CoordinatesAreClassified
  <2> SUFFICES ASSUME Inv, Quiet, NEW m \in Markets, NEW r \in portfolio \intersect Coordinates,
                      market[m] = "completed",
                      upload[Source[r]] = "done" \/ \A u \in Uploads : upload[u] # "lost"
               PROVE  <<m, r>> \in split
    BY DEF CoordinatesAreClassified
  <2>1. ~RunPending(m, r)
    BY NoMarketAssumption DEF Quiet, RunPending
  <2>2. ~UploadPending(m, r)
    BY DEF Quiet, UploadPending
  <2>3. QED
    BY <2>1, <2>2 DEF Inv, CoveredInv, OwnInv, Uploaded
<1>2. QED
  BY <1>1, InvHolds, PTL

(***************************************************************************)
(* Uploads one after another                                               *)
(***************************************************************************)

\* The replace transaction of u is open.
Replacing(u) == upload[u] \in {"deleting", "deleted"}

\* No two of them are open at once; the rest of the uploads, and the runs, may
\* overlap as they like.
OneAtATime == \A u, v \in Uploads : Replacing(u) /\ Replacing(v) => u = v

\* Then the open one has read, and later deleted, all there is.
DeletesAll ==
  \A u \in Uploads : /\ upload[u] = "deleting" => seen[u] = portfolio
                     /\ upload[u] = "deleted" => doomed[u] = portfolio

ReplaceInv == DeletesAll /\ UploadReplacesPortfolio

LEMMA ReplaceStep ==
  ASSUME BaseInv, OneAtATime, ReplaceInv, [Next]_vars
  PROVE  ReplaceInv'
<1> USE DEF BaseInv, TypeOK, ReplaceInv, DeletesAll, UploadReplacesPortfolio, Upload,
      tableVars, uploadVars, runVars
<1>1. ASSUME NEW u \in Uploads, StartDelete(u) PROVE ReplaceInv'
  BY <1>1 DEF StartDelete
<1>2. ASSUME NEW u \in Uploads, FinishDelete(u) PROVE ReplaceInv'
  BY <1>2 DEF FinishDelete
<1>3. ASSUME NEW u \in Uploads, InsertAndCommit(u) PROVE ReplaceInv'
  <2>1. upload[u] = "deleted" /\ upload' = [upload EXCEPT ![u] = "committed"]
    BY <1>3 DEF InsertAndCommit
  <2>2. portfolio' = RowsOf(u)
    BY <1>3, <2>1 DEF InsertAndCommit
  <2>3. \A v \in Uploads : upload'[v] \notin {"deleting", "deleted"}
    BY <2>1 DEF OneAtATime, Replacing
  <2>4. QED
    BY <2>2, <2>3 DEF RowsOf
<1>4. ASSUME NEW u \in Uploads, Rollback(u) PROVE ReplaceInv'
  BY <1>4 DEF Rollback
<1>5. ASSUME NEW u \in Uploads, StartReclassify(u) PROVE ReplaceInv'
  BY <1>5 DEF StartReclassify
<1>6. ASSUME NEW u \in Uploads, FinishReclassify(u) PROVE ReplaceInv'
  BY <1>6 DEF FinishReclassify
<1>7. ASSUME NEW u \in Uploads, ReclassifyLost(u) PROVE ReplaceInv'
  BY <1>7 DEF ReclassifyLost
<1>8. ASSUME UNCHANGED <<portfolio, upload, seen, doomed>> PROVE ReplaceInv'
  BY <1>8
<1>9. QED
  BY <1>1, <1>2, <1>3, <1>4, <1>5, <1>6, <1>7, <1>8
     DEF Next, vars, CreateMarket, StartRun, LocateRow, SkipRow, StartClassify, FinishClassify,
         CompleteMarket, RunThrows

\* As long as the replace transactions do not overlap, an upload replaces the whole
\* portfolio, as portfolio.ts:5 says: the overlap UploadConcurrent shows is the only
\* way two uploads' rows come together.
THEOREM ReplacesTheorem == Spec /\ []OneAtATime => []UploadReplacesPortfolio
<1>1. Init => ReplaceInv
  BY DEF Init, ReplaceInv, DeletesAll, UploadReplacesPortfolio
<1>2. BaseInv /\ OneAtATime /\ ReplaceInv /\ [Next]_vars => ReplaceInv'
  BY ReplaceStep
<1>3. ReplaceInv => UploadReplacesPortfolio
  BY DEF ReplaceInv
<1>4. QED
  BY <1>1, <1>2, <1>3, BaseHolds, PTL DEF Spec
================================================================================
