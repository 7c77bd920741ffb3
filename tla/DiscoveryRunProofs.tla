--------------------------- MODULE DiscoveryRunProofs ---------------------------
(***************************************************************************)
(* For any number of tiles, categories, stores, rows, attempts and tiles   *)
(* going stale: what a run reports of its progress is never more than the  *)
(* work there is, is complete when the run settles its market, and agrees  *)
(* with the status and the error written apart from it.                    *)
(***************************************************************************)
EXTENDS DiscoveryRun, FiniteSetTheorems, TLAPS

(***************************************************************************)
(* Counting                                                                *)
(***************************************************************************)

Total == NumTiles * NumCategories

\* The tiles of the categories before c.
Before(c) == (c - 1) * NumTiles

LEMMA BeforeLemma ==
  /\ Total \in Nat /\ Total > 0
  /\ Before(1) = 0
  /\ Before(NumCategories + 1) = Total
  /\ \A c \in 1..NumCategories :
       /\ Before(c) \in Nat /\ Before(c + 1) \in Nat
       /\ Before(c + 1) = Before(c) + NumTiles
       /\ Before(c + 1) <= Total
<1> USE SizeAssumption DEF Total, Before
<1>1. Total \in Nat /\ Total > 0
  OBVIOUS
<1>2. Before(1) = 0 /\ Before(NumCategories + 1) = Total
  OBVIOUS
<1>3. ASSUME NEW c \in 1..NumCategories
      PROVE  /\ Before(c) \in Nat /\ Before(c + 1) \in Nat
             /\ Before(c + 1) = Before(c) + NumTiles
             /\ Before(c + 1) <= Total
  <2>1. c \in Int /\ 1 <= c /\ c <= NumCategories
    OBVIOUS
  <2>2. Before(c + 1) = Before(c) + NumTiles
    BY <2>1
  <2>3. Before(c) \in Nat
    BY <2>1
  <2>4. c * NumTiles <= NumCategories * NumTiles
    BY <2>1
  <2>5. QED
    BY <2>1, <2>2, <2>3, <2>4
<1>4. QED
  BY <1>1, <1>2, <1>3

\* The areas that failed are counted by tile.
LEMMA AreasLemma ==
  ASSUME NEW fails \in SUBSET Pairs
  PROVE  /\ Cardinality({f[1] : f \in fails}) \in Nat
         /\ fails # {} => Cardinality({f[1] : f \in fails}) # 0
<1>1. {f[1] : f \in fails} \subseteq Tiles
  BY DEF Pairs
<1>2. IsFiniteSet(Tiles)
  BY FS_Interval, SizeAssumption DEF Tiles
<1>3. IsFiniteSet({f[1] : f \in fails})
  BY <1>1, <1>2, FS_Subset
<1>4. QED
  BY <1>3, FS_CardinalityType, FS_EmptySet

\* More tiles, more areas.
LEMMA HolesLemma ==
  ASSUME NEW fails \in SUBSET Pairs, NEW holes \in SUBSET {f[1] : f \in fails}
  PROVE  Cardinality(holes) <= Cardinality({f[1] : f \in fails})
<1>1. {f[1] : f \in fails} \subseteq Tiles
  BY DEF Pairs
<1>2. IsFiniteSet(Tiles)
  BY FS_Interval, SizeAssumption DEF Tiles
<1>3. IsFiniteSet({f[1] : f \in fails})
  BY <1>1, <1>2, FS_Subset
<1>4. QED
  BY <1>3, FS_Subset

LEMMA StoresLemma == DiscoveredInBoundary \in Nat
<1>1. UNION {contents[p] \intersect Inside : p \in Pairs} \subseteq Shops
  BY ShopsAssumption
<1>2. IsFiniteSet(UNION {contents[p] \intersect Inside : p \in Pairs})
  BY <1>1, ShopsAssumption, FS_Subset
<1>3. QED
  BY <1>2, FS_CardinalityType DEF DiscoveredInBoundary

LEMMA RowsLemma ==
  ASSUME NEW rows \in SUBSET Portfolio
  PROVE  /\ Cardinality(rows) \in Nat
         /\ rows = {} => Cardinality(rows) = 0
         /\ \A s \in rows : Cardinality(rows \ {s}) + 1 = Cardinality(rows)
<1>1. IsFiniteSet(rows) /\ Cardinality(rows) \in Nat
  BY PortfolioAssumption, FS_Subset, FS_CardinalityType
<1>2. rows = {} => Cardinality(rows) = 0
  BY FS_EmptySet
<1>3. ASSUME NEW s \in rows PROVE Cardinality(rows \ {s}) + 1 = Cardinality(rows)
  <2>1. Cardinality(rows \ {s}) = Cardinality(rows) - 1
    BY <1>1, FS_RemoveElement
  <2>2. QED
    BY <1>1, <2>1
<1>4. QED
  BY <1>1, <1>2, <1>3

\* An increment counts one tile or one store more, or neither.
TileCounters == {"tilesFetched", "tilesReused", "tilesFailed"}
StoreCounters == {"geocodeResolved", "geocodeUnresolved", "geocodeFailed"}

LEMMA CountersLemma ==
  ASSUME NEW p \in [Counters -> Nat]
  PROVE  /\ TilesDone(p) \in Nat /\ GeocodesDone(p) \in Nat
         /\ \A c \in Counters : p[c] \in Nat
BY DEF TilesDone, GeocodesDone, Counters

LEMMA EmptyLemma ==
  /\ EmptyProgress \in [Counters -> Nat]
  /\ TilesDone(EmptyProgress) = 0 /\ GeocodesDone(EmptyProgress) = 0
  /\ \A c \in Counters : EmptyProgress[c] = 0
BY DEF EmptyProgress, Counters, TilesDone, GeocodesDone

(***************************************************************************)
(* Types                                                                   *)
(***************************************************************************)

\* One tile or store more is done, and the counters stay numbers.
LEMMA IncrementTyped ==
  ASSUME TypeOK, NEW c \in TileCounters \union StoreCounters, Increment(c)
  PROVE  /\ progress' \in [Counters -> Nat]
         /\ c \in TileCounters => /\ TilesDone(progress)' = TilesDone(progress) + 1
                                  /\ GeocodesDone(progress)' = GeocodesDone(progress)
         /\ c \in StoreCounters => /\ GeocodesDone(progress)' = GeocodesDone(progress) + 1
                                   /\ TilesDone(progress)' = TilesDone(progress)
         /\ \A d \in Counters \ {c} : progress'[d] = progress[d]
         /\ progress'[c] > 0
<1>1. progress \in [Counters -> Nat] /\ c \in Counters
  BY DEF TypeOK, Counters, TileCounters, StoreCounters
<1>2. progress' = [progress EXCEPT ![c] = progress[c] + 1]
  BY DEF Increment
<1>3. progress' \in [Counters -> Nat]
  BY <1>1, <1>2
<1>4. \A d \in Counters \ {c} : progress'[d] = progress[d]
  BY <1>1, <1>2
<1>5. progress'[c] = progress[c] + 1 /\ progress[c] \in Nat
  BY <1>1, <1>2
<1>6. ASSUME c \in TileCounters
      PROVE  /\ TilesDone(progress)' = TilesDone(progress) + 1
             /\ GeocodesDone(progress)' = GeocodesDone(progress)
  BY <1>1, <1>4, <1>5, <1>6 DEF Counters, TileCounters, TilesDone, GeocodesDone
<1>7. ASSUME c \in StoreCounters
      PROVE  /\ GeocodesDone(progress)' = GeocodesDone(progress) + 1
             /\ TilesDone(progress)' = TilesDone(progress)
  BY <1>1, <1>4, <1>5, <1>7 DEF Counters, StoreCounters, TilesDone, GeocodesDone
<1>8. QED
  BY <1>3, <1>4, <1>5, <1>6, <1>7

\* Setting one of the other three counters leaves both sums alone.
LEMMA SetTyped ==
  ASSUME TypeOK, NEW n \in Nat,
         NEW c \in {"tilesTotal", "geocodeCandidates", "discoveredInBoundary"},
         progress' = [progress EXCEPT ![c] = n]
  PROVE  /\ progress' \in [Counters -> Nat]
         /\ progress'[c] = n
         /\ \A d \in Counters \ {c} : progress'[d] = progress[d]
         /\ TilesDone(progress)' = TilesDone(progress)
         /\ GeocodesDone(progress)' = GeocodesDone(progress)
<1>1. progress \in [Counters -> Nat] /\ c \in Counters
  BY DEF TypeOK, Counters
<1>2. progress' \in [Counters -> Nat] /\ progress'[c] = n
  BY <1>1
<1>3. \A d \in Counters \ {c} : progress'[d] = progress[d]
  BY <1>1
<1>4. TilesDone(progress)' = TilesDone(progress) /\ GeocodesDone(progress)' = GeocodesDone(progress)
  BY <1>3 DEF Counters, TilesDone, GeocodesDone
<1>5. QED
  BY <1>2, <1>3, <1>4

\* The loop over the categories is inside its range while it runs.
LoopInv == pc \in {"category", "tiles"} => category \in 1..NumCategories

TypeInv == TypeOK /\ LoopInv

LEMMA TypeStep == TypeInv /\ [Next]_vars => TypeInv'
<1> SUFFICES ASSUME TypeInv, [Next]_vars PROVE TypeInv'
  OBVIOUS
<1> USE SizeAssumption, BoundsAssumption DEF TypeInv, LoopInv
<1>1. CASE StartAttempt
  BY <1>1, EmptyLemma DEF StartAttempt, TypeOK, NoError
<1>2. CASE PlanTiles
  <2>1. progress' \in [Counters -> Nat]
    BY <1>2, SetTyped, BeforeLemma DEF PlanTiles, TypeOK, Total
  <2>2. QED
    BY <1>2, <2>1 DEF PlanTiles, Flush, TypeOK
<1>3. CASE CheckFreshness
  BY <1>3 DEF CheckFreshness, FreshTiles, TypeOK, rowVars
<1>4. CASE EndCategory
  BY <1>4 DEF EndCategory, Flush, TypeOK
<1>5. CASE ReuseTile
  <2>1. progress' \in [Counters -> Nat]
    BY <1>5, IncrementTyped DEF ReuseTile, TileCounters
  <2>2. QED
    BY <1>5, <2>1 DEF ReuseTile, NextTile, Tiles, TypeOK
<1>6. CASE FailTile
  <2>1. progress' \in [Counters -> Nat]
    BY <1>6, IncrementTyped DEF FailTile, TileCounters
  <2>2. <<tile, category>> \in Pairs
    BY <1>6 DEF FailTile, NextTile, Pairs, TypeOK
  <2>3. saved' \in [Counters -> Nat] \union {NoProgress}
    BY <1>6, <2>1 DEF FailTile, FlushIfDue, Flush, TypeOK
  <2>4. QED
    BY <1>6, <2>1, <2>2, <2>3 DEF FailTile, NextTile, Tiles, TypeOK
<1>7. ASSUME NEW found \in {{}, Shops}, FetchTile(found) \/ SaveTileReplyLost(found)
      PROVE  TypeInv'
  <2>1. progress' \in [Counters -> Nat]
    BY <1>7, IncrementTyped DEF FetchTile, SaveTileReplyLost, TileCounters
  <2>2. <<tile, category>> \in Pairs
    BY <1>7 DEF FetchTile, SaveTileReplyLost, NextTile, Pairs, TypeOK
  <2>3. saved' \in [Counters -> Nat] \union {NoProgress}
    BY <1>7, <2>1 DEF FetchTile, SaveTileReplyLost, FlushIfDue, Flush, TypeOK
  <2>4. contents' \in [Pairs -> SUBSET Shops]
    BY <1>7, <2>2 DEF FetchTile, SaveTileReplyLost, TypeOK
  <2>5. failures' \subseteq Pairs
    BY <1>7, <2>2 DEF FetchTile, SaveTileReplyLost, TypeOK
  <2>6. cache' \in [Pairs -> {"missing", "stale", "fresh"}]
    BY <1>7, <2>2 DEF FetchTile, SaveTileReplyLost, TypeOK
  <2>7. NextTile
    BY <1>7 DEF FetchTile, SaveTileReplyLost
  <2>8. QED
    BY <2>1, <2>3, <2>4, <2>5, <2>6, <2>7 DEF NextTile, Tiles, TypeOK
<1>8. CASE FindCandidates
  <2>1. todo' \subseteq Portfolio
    BY <1>8 DEF FindCandidates, UnlocatedStores
  <2>2. Cardinality(todo') \in Nat
    BY <2>1, RowsLemma
  <2>3. progress' \in [Counters -> Nat]
    BY <1>8, <2>2, SetTyped DEF FindCandidates, TypeOK
  <2>4. QED
    BY <1>8, <2>1, <2>3 DEF FindCandidates, Flush, TypeOK
<1>9. CASE EndGeocoding
  BY <1>9 DEF EndGeocoding, Flush, TypeOK
<1>10. ASSUME NEW s \in Portfolio,
              \/ ResolveStore(s) \/ LocateReplyLost(s)
              \/ LeaveStoreUnresolved(s) \/ FailToGeocode(s)
       PROVE  TypeInv'
  <2>1. PICK c \in StoreCounters : Increment(c)
    BY <1>10
       DEF ResolveStore, LocateReplyLost, LeaveStoreUnresolved, FailToGeocode, StoreCounters
  <2>2. progress' \in [Counters -> Nat]
    BY <2>1, IncrementTyped
  <2>3. saved' \in [Counters -> Nat] \union {NoProgress}
    BY <1>10, <2>2
       DEF ResolveStore, LocateReplyLost, LeaveStoreUnresolved, FailToGeocode, FlushIfDue,
           Flush, TypeOK
  <2>4. located' \subseteq Portfolio /\ NextCandidate(s)
    BY <1>10
       DEF ResolveStore, LocateReplyLost, LeaveStoreUnresolved, FailToGeocode, TypeOK
  <2>5. QED
    BY <2>2, <2>3, <2>4 DEF NextCandidate, TypeOK
<1>11. CASE CountDiscovered
  <2>1. progress' \in [Counters -> Nat]
    BY <1>11, SetTyped, StoresLemma DEF CountDiscovered, TypeOK
  <2>2. QED
    BY <1>11, <2>1 DEF CountDiscovered, Flush, TypeOK
<1>12. CASE Finish
  <2>1. failures \in SUBSET Pairs
    BY DEF TypeOK
  <2>2. Cardinality({f[1] : f \in failures}) \in Nat
    BY <2>1, AreasLemma
  <2>3. error' \in [kind : {"null", "shortfall", "unavailable"}, areas : Nat,
                   geocoder : {"ok", "down", "partly"}]
    BY <1>12, <2>2 DEF Finish, DescribeShortfall, NoError
  <2>4. QED
    BY <1>12, <2>3 DEF Finish, TypeOK
<1>13. CASE Throw
  BY <1>13 DEF Throw, Forget, rowVars, TypeOK
<1>14. CASE Retry
  BY <1>14 DEF Retry, rowVars, TypeOK
<1>15. CASE GiveUp
  BY <1>15 DEF GiveUp, GaveUp, TypeOK
<1>16. ASSUME NEW p \in Pairs, Expire(p)
       PROVE  TypeInv'
  BY <1>16 DEF Expire, runVars, rowVars, TypeOK
<1>17. CASE UNCHANGED vars
  BY <1>17 DEF vars, runVars, rowVars, TypeOK
<1>18. QED
  BY <1>1, <1>2, <1>3, <1>4, <1>5, <1>6, <1>7, <1>8, <1>9, <1>10, <1>11, <1>12, <1>13,
     <1>14, <1>15, <1>16, <1>17 DEF Next

(***************************************************************************)
(* Progress                                                                *)
(***************************************************************************)

Fetched == {"candidates", "geocode", "count", "finish"}
Running == {"category", "tiles"} \union Fetched

\* What the counters add up to at each stage.
ProgressInv ==
  /\ pc = "plan" => progress = EmptyProgress
  /\ pc \in Running => progress["tilesTotal"] = Total
  /\ pc = "category" => TilesDone(progress) = Before(category)
  /\ pc = "tiles" => TilesDone(progress) = Before(category) + (tile - 1)
  /\ pc \in Fetched => TilesDone(progress) = Total
  /\ pc \in {"category", "tiles", "candidates"} => GeocodesDone(progress) = 0
  /\ pc = "geocode" =>
       GeocodesDone(progress) + Cardinality(todo) = progress["geocodeCandidates"]
  /\ pc \in {"count", "finish"} => GeocodesDone(progress) = progress["geocodeCandidates"]

Bounded(p) ==
  TilesDone(p) <= p["tilesTotal"] /\ GeocodesDone(p) <= p["geocodeCandidates"]

\* A progress that may be written at any of these stages.
LEMMA BoundedLemma == TypeInv /\ ProgressInv /\ pc \in Running => Bounded(progress)
<1> SUFFICES ASSUME TypeInv, ProgressInv, pc \in Running PROVE Bounded(progress)
  OBVIOUS
<1>1. progress \in [Counters -> Nat] /\ tile \in 1..(NumTiles + 1) /\ todo \in SUBSET Portfolio
  BY DEF TypeInv, TypeOK
<1>2. TilesDone(progress) \in Nat /\ GeocodesDone(progress) \in Nat
      /\ progress["geocodeCandidates"] \in Nat
  BY <1>1, CountersLemma DEF Counters
<1>3. TilesDone(progress) <= Total
  <2>1. CASE pc \in {"category", "tiles"}
    <3>1. category \in 1..NumCategories
      BY <2>1 DEF TypeInv, LoopInv
    <3>2. /\ Before(category) \in Nat
          /\ Before(category) + NumTiles <= Total
      BY <3>1, BeforeLemma
    <3>3. QED
      BY <1>1, <2>1, <3>2, BeforeLemma, SizeAssumption DEF ProgressInv
  <2>2. CASE pc \in Fetched
    BY <2>2, BeforeLemma DEF ProgressInv
  <2>3. QED
    BY <2>1, <2>2 DEF Running
<1>4. GeocodesDone(progress) <= progress["geocodeCandidates"]
  <2>1. Cardinality(todo) \in Nat
    BY <1>1, RowsLemma
  <2>2. QED
    BY <1>2, <2>1 DEF ProgressInv, Running, Fetched
<1>5. QED
  BY <1>3, <1>4 DEF Bounded, ProgressInv

LEMMA ProgressStep == TypeInv /\ ProgressInv /\ [Next]_vars => ProgressInv'
<1> SUFFICES ASSUME TypeInv, ProgressInv, [Next]_vars PROVE ProgressInv'
  OBVIOUS
<1> USE DEF Running, Fetched
<1>0. TypeOK
  BY DEF TypeInv
<1>1. CASE StartAttempt
  BY <1>1 DEF StartAttempt, ProgressInv
<1>2. CASE PlanTiles
  <2>1. /\ progress = EmptyProgress
        /\ progress' = [progress EXCEPT !["tilesTotal"] = Total]
        /\ pc' = "category" /\ category' = 1
    BY <1>2 DEF PlanTiles, ProgressInv, Total
  <2>2. /\ progress'["tilesTotal"] = Total
        /\ TilesDone(progress)' = TilesDone(progress)
        /\ GeocodesDone(progress)' = GeocodesDone(progress)
    BY <1>0, <2>1, SetTyped, BeforeLemma
  <2>3. TilesDone(progress)' = 0 /\ GeocodesDone(progress)' = 0
    BY <2>1, <2>2, EmptyLemma
  <2>4. Before(category)' = 0
    BY <2>1, BeforeLemma DEF Before
  <2>5. QED
    BY <2>1, <2>2, <2>3, <2>4 DEF ProgressInv
<1>3. CASE CheckFreshness
  <2>1. /\ pc = "category" /\ pc' = "tiles" /\ tile' = 1
        /\ progress' = progress /\ category' = category
    BY <1>3 DEF CheckFreshness
  <2>2. Before(category) \in Nat
    BY <2>1, BeforeLemma DEF TypeInv, LoopInv
  <2>3. QED
    BY <2>1, <2>2 DEF ProgressInv, TilesDone, GeocodesDone, Before
<1>4. CASE EndCategory
  <2>1. /\ pc = "tiles" /\ tile > NumTiles /\ category' = category + 1
        /\ pc' = IF category < NumCategories THEN "category" ELSE "candidates"
        /\ progress' = progress
    BY <1>4 DEF EndCategory
  <2>2. category \in 1..NumCategories /\ tile = NumTiles + 1
    BY <2>1, SizeAssumption DEF TypeInv, TypeOK, LoopInv
  <2>3. Before(category + 1) = Before(category) + (tile - 1)
    BY <2>2, BeforeLemma, SizeAssumption
  <2>4. Before(category)' = Before(category + 1)
    BY <2>1 DEF Before
  <2>5. TilesDone(progress)' = Before(category)'
    BY <2>1, <2>3, <2>4 DEF ProgressInv, TilesDone
  <2>6. GeocodesDone(progress)' = 0 /\ (progress["tilesTotal"])' = Total
    BY <2>1 DEF ProgressInv, GeocodesDone
  <2>7. CASE category < NumCategories
    BY <2>1, <2>5, <2>6, <2>7 DEF ProgressInv
  <2>8. CASE ~(category < NumCategories)
    <3>1. category = NumCategories
      BY <2>2, <2>8, SizeAssumption
    <3>2. Before(category)' = Total
      BY <2>4, <3>1, BeforeLemma
    <3>3. QED
      BY <2>1, <2>5, <2>6, <2>8, <3>2 DEF ProgressInv
  <2>9. QED
    BY <2>7, <2>8
<1>5. ASSUME NextTile, NEW c \in TileCounters, Increment(c)
      PROVE  ProgressInv'
  <2>1. /\ pc = "tiles" /\ pc' = pc /\ category' = category
        /\ tile' = tile + 1 /\ tile \in Nat
    BY <1>5 DEF NextTile, Tiles
  <2>2. /\ TilesDone(progress)' = TilesDone(progress) + 1
        /\ GeocodesDone(progress)' = GeocodesDone(progress)
        /\ progress'["tilesTotal"] = progress["tilesTotal"]
    BY <1>0, <1>5, IncrementTyped DEF TileCounters, Counters
  <2>3. Before(category) \in Nat /\ Before(category)' = Before(category)
    BY <2>1, BeforeLemma DEF TypeInv, LoopInv, Before
  <2>4. QED
    BY <2>1, <2>2, <2>3 DEF ProgressInv
<1>6. CASE FindCandidates
  <2>1. /\ pc = "candidates" /\ pc' = "geocode" /\ todo' \in SUBSET Portfolio
        /\ progress' = [progress EXCEPT !["geocodeCandidates"] = Cardinality(todo')]
    BY <1>6 DEF FindCandidates, UnlocatedStores
  <2>2. Cardinality(todo') \in Nat /\ progress \in [Counters -> Nat]
    BY <1>0, <2>1, RowsLemma DEF TypeOK
  <2>3. /\ progress'["geocodeCandidates"] = Cardinality(todo')
        /\ progress'["tilesTotal"] = progress["tilesTotal"]
        /\ TilesDone(progress)' = TilesDone(progress)
        /\ GeocodesDone(progress)' = GeocodesDone(progress)
    BY <1>0, <2>1, <2>2, SetTyped DEF Counters
  <2>4. QED
    BY <2>1, <2>2, <2>3 DEF ProgressInv
<1>7. CASE EndGeocoding
  <2>1. Cardinality(todo) = 0
    BY <1>7, RowsLemma DEF EndGeocoding
  <2>2. GeocodesDone(progress) \in Nat
    BY <1>0, CountersLemma DEF TypeOK
  <2>3. QED
    BY <1>7, <2>1, <2>2 DEF EndGeocoding, ProgressInv, TilesDone, GeocodesDone
<1>8. ASSUME NEW s \in Portfolio, NextCandidate(s), NEW c \in StoreCounters, Increment(c)
      PROVE  ProgressInv'
  <2>1. pc = "geocode" /\ pc' = pc /\ s \in todo /\ todo' = todo \ {s}
    BY <1>8 DEF NextCandidate
  <2>2. /\ GeocodesDone(progress)' = GeocodesDone(progress) + 1
        /\ TilesDone(progress)' = TilesDone(progress)
        /\ progress'["tilesTotal"] = progress["tilesTotal"]
        /\ progress'["geocodeCandidates"] = progress["geocodeCandidates"]
    BY <1>0, <1>8, IncrementTyped DEF StoreCounters, Counters
  <2>3. /\ Cardinality(todo') \in Nat
        /\ Cardinality(todo') + 1 = Cardinality(todo)
    BY <1>0, <2>1, RowsLemma DEF TypeOK
  <2>4. GeocodesDone(progress) \in Nat
    BY <1>0, CountersLemma DEF TypeOK
  <2>5. QED
    BY <2>1, <2>2, <2>3, <2>4 DEF ProgressInv
<1>9. CASE CountDiscovered
  <2>1. /\ pc = "count" /\ pc' = "finish"
        /\ progress' = [progress EXCEPT !["discoveredInBoundary"] = DiscoveredInBoundary]
    BY <1>9 DEF CountDiscovered
  <2>2. /\ progress'["geocodeCandidates"] = progress["geocodeCandidates"]
        /\ progress'["tilesTotal"] = progress["tilesTotal"]
        /\ TilesDone(progress)' = TilesDone(progress)
        /\ GeocodesDone(progress)' = GeocodesDone(progress)
    BY <1>0, <2>1, SetTyped, StoresLemma DEF Counters
  <2>3. QED
    BY <2>1, <2>2 DEF ProgressInv
<1>10. CASE Finish \/ Throw \/ Retry \/ GiveUp
  BY <1>10 DEF Finish, Throw, Retry, GiveUp, ProgressInv
<1>11. CASE UNCHANGED runVars
  BY <1>11 DEF runVars, ProgressInv, TilesDone, GeocodesDone, Before
<1>12. CASE ReuseTile \/ FailTile \/ \E found \in {{}, Shops} : FetchTile(found) \/ SaveTileReplyLost(found)
  BY <1>5, <1>12 DEF ReuseTile, FailTile, FetchTile, SaveTileReplyLost, TileCounters
<1>13. ASSUME NEW s \in Portfolio,
              \/ ResolveStore(s) \/ LocateReplyLost(s)
              \/ LeaveStoreUnresolved(s) \/ FailToGeocode(s)
       PROVE  ProgressInv'
  BY <1>8, <1>13
     DEF ResolveStore, LocateReplyLost, LeaveStoreUnresolved, FailToGeocode, StoreCounters
<1>14. CASE \E p \in Pairs : Expire(p)
  BY <1>11, <1>14 DEF Expire
<1>15. CASE UNCHANGED vars
  BY <1>11, <1>15 DEF vars
<1>16. QED
  BY <1>1, <1>2, <1>3, <1>4, <1>6, <1>7, <1>9, <1>10, <1>12, <1>13, <1>14, <1>15 DEF Next

(***************************************************************************)
(* What is written to the row                                              *)
(***************************************************************************)

SavedInv == saved # NoProgress => Bounded(saved)

\* What one step may do to the column.
LEMMA SavedMoves ==
  ASSUME [Next]_vars
  PROVE  saved' = saved \/ (pc' \in Running /\ saved' = progress')
<1> USE DEF Flush, FlushIfDue, rowVars, Running, Fetched
<1>1. CASE \/ StartAttempt \/ CheckFreshness \/ ReuseTile \/ Finish \/ Throw \/ Retry \/ GiveUp
  BY <1>1 DEF StartAttempt, CheckFreshness, ReuseTile, Finish, Throw, Retry, GiveUp
<1>2. CASE PlanTiles \/ FindCandidates \/ EndGeocoding \/ CountDiscovered \/ EndCategory
  BY <1>2 DEF PlanTiles, FindCandidates, EndGeocoding, CountDiscovered, EndCategory
<1>3. CASE \/ FailTile
           \/ \E found \in {{}, Shops} : FetchTile(found) \/ SaveTileReplyLost(found)
  BY <1>3 DEF FailTile, FetchTile, SaveTileReplyLost, NextTile
<1>4. CASE \E s \in Portfolio :
             \/ ResolveStore(s) \/ LocateReplyLost(s)
             \/ LeaveStoreUnresolved(s) \/ FailToGeocode(s)
  BY <1>4 DEF ResolveStore, LocateReplyLost, LeaveStoreUnresolved, FailToGeocode, NextCandidate
<1>5. CASE \E p \in Pairs : Expire(p)
  BY <1>5 DEF Expire
<1>6. CASE UNCHANGED vars
  BY <1>6 DEF vars
<1>7. QED
  BY <1>1, <1>2, <1>3, <1>4, <1>5, <1>6 DEF Next

LEMMA SavedStep == TypeInv' /\ ProgressInv' /\ SavedInv /\ [Next]_vars => SavedInv'
<1> SUFFICES ASSUME TypeInv', ProgressInv', SavedInv, [Next]_vars PROVE SavedInv'
  OBVIOUS
<1>1. CASE saved' = saved
  BY <1>1 DEF SavedInv, Bounded, TilesDone, GeocodesDone
<1>2. CASE pc' \in Running /\ saved' = progress'
  <2>1. Bounded(progress)'
    <3>1. Running' = Running
      BY DEF Running, Fetched
    <3>2. (TypeInv /\ ProgressInv /\ pc \in Running => Bounded(progress))'
      BY BoundedLemma, PTL
    <3>3. QED
      BY <1>2, <3>1, <3>2
  <2>2. Bounded(saved)'
    BY <1>2, <2>1 DEF Bounded, TilesDone, GeocodesDone
  <2>3. QED
    BY <2>2 DEF SavedInv
<1>3. QED
  BY <1>1, <1>2, SavedMoves

(***************************************************************************)
(* Holes                                                                   *)
(***************************************************************************)

\* The attempt is past tile t of category c.
Past(t, c) ==
  \/ pc \in Fetched
  \/ pc \in {"category", "tiles"} /\ c < category
  \/ pc = "tiles" /\ c = category /\ t < tile

\* A pair the attempt is past is cached or among its failures; what it found fresh
\* is cached, be it stale by now; a failed tile is among the failures.
HolesInv ==
  /\ \A t \in Tiles, c \in 1..NumCategories :
       Past(t, c) /\ cache[<<t, c>>] = "missing" => <<t, c>> \in failures
  /\ pc = "tiles" => \A t \in fresh : cache[<<t, category>>] # "missing"
  /\ pc \in Running /\ progress["tilesFailed"] > 0 => failures # {}

\* A cached tile stays cached.
LEMMA CacheMoves ==
  ASSUME TypeInv, [Next]_vars, NEW p \in Pairs, cache[p] # "missing"
  PROVE  cache'[p] # "missing"
<1>0. cache \in [Pairs -> {"missing", "stale", "fresh"}]
  BY DEF TypeInv, TypeOK
<1>1. CASE UNCHANGED cache
  BY <1>1
<1>2. ASSUME NEW q \in Pairs, cache' = [cache EXCEPT ![q] = "fresh"] \/ cache' = [cache EXCEPT ![q] = "stale"]
      PROVE  cache'[p] # "missing"
  BY <1>0, <1>2
<1>3. ASSUME NEW found \in {{}, Shops}, FetchTile(found) \/ SaveTileReplyLost(found)
      PROVE  cache'[p] # "missing"
  <2>1. <<tile, category>> \in Pairs
    BY <1>3 DEF FetchTile, SaveTileReplyLost, NextTile, Pairs, TypeInv, LoopInv
  <2>2. QED
    BY <1>2, <1>3, <2>1 DEF FetchTile, SaveTileReplyLost
<1>4. ASSUME NEW q \in Pairs, Expire(q)
      PROVE  cache'[p] # "missing"
  BY <1>2, <1>4 DEF Expire
<1>5. QED
  BY <1>1, <1>3, <1>4
     DEF Next, vars, StartAttempt, PlanTiles, CheckFreshness, EndCategory, ReuseTile, FailTile,
         FindCandidates, EndGeocoding, CountDiscovered, Finish, Throw, Retry, GiveUp,
         ResolveStore, LocateReplyLost, LeaveStoreUnresolved, FailToGeocode, NextCandidate

LEMMA HolesStep == TypeInv /\ ProgressInv /\ HolesInv /\ [Next]_vars => HolesInv'
<1> SUFFICES ASSUME TypeInv, ProgressInv, HolesInv, [Next]_vars PROVE HolesInv'
  OBVIOUS
<1> USE DEF Running, Fetched
<1>0. TypeOK /\ \A t \in Tiles, c \in 1..NumCategories : <<t, c>> \in Pairs
  BY DEF TypeInv, Pairs
<1>1. \A t \in Tiles, c \in 1..NumCategories : cache[<<t, c>>] # "missing" => cache'[<<t, c>>] # "missing"
  BY <1>0, CacheMoves
<1>2. ASSUME pc' \notin Running
      PROVE  HolesInv'
  BY <1>2 DEF HolesInv, Past
<1>3. CASE PlanTiles
  <2>1. /\ progress = EmptyProgress /\ category' = 1 /\ pc' = "category"
        /\ progress' = [progress EXCEPT !["tilesTotal"] = NumTiles * NumCategories]
    BY <1>3 DEF PlanTiles, ProgressInv
  <2>2. progress'["tilesFailed"] = 0
    BY <2>1, EmptyLemma DEF EmptyProgress, Counters
  <2>3. \A t \in Tiles, c \in 1..NumCategories : ~Past(t, c)'
    BY <2>1 DEF Past
  <2>4. QED
    BY <2>1, <2>2, <2>3 DEF HolesInv
<1>4. CASE CheckFreshness
  <2>1. /\ pc = "category" /\ pc' = "tiles" /\ tile' = 1 /\ category' = category
        /\ fresh' = FreshTiles(category)
        /\ UNCHANGED <<cache, failures, progress>>
    BY <1>4 DEF CheckFreshness
  <2>2. \A t \in Tiles, c \in 1..NumCategories : Past(t, c)' => Past(t, c)
    BY <2>1 DEF Past, Tiles
  <2>3. \A t \in fresh' : cache'[<<t, category'>>] # "missing"
    BY <2>1 DEF FreshTiles
  <2>4. QED
    BY <2>1, <2>2, <2>3 DEF HolesInv
<1>5. CASE EndCategory
  <2>1. /\ pc = "tiles" /\ tile > NumTiles /\ category' = category + 1
        /\ pc' = IF category < NumCategories THEN "category" ELSE "candidates"
        /\ UNCHANGED <<cache, failures, progress>>
    BY <1>5 DEF EndCategory
  <2>2. category \in 1..NumCategories /\ tile \in Nat
    BY <1>0, <2>1 DEF TypeInv, TypeOK, LoopInv
  <2>3. ASSUME NEW t \in Tiles, NEW c \in 1..NumCategories, Past(t, c)'
        PROVE  Past(t, c)
    <3>1. t <= NumTiles /\ t \in Nat /\ c \in Nat /\ c <= NumCategories
      BY SizeAssumption DEF Tiles
    <3>2. c < category \/ c = category
      <4>1. CASE category < NumCategories
        BY <2>1, <2>2, <2>3, <3>1, <4>1 DEF Past
      <4>2. CASE ~(category < NumCategories)
        BY <2>2, <3>1, <4>2, SizeAssumption
      <4>3. QED
        BY <4>1, <4>2
    <3>3. t < tile
      BY <2>1, <2>2, <3>1, SizeAssumption
    <3>4. QED
      BY <2>1, <3>2, <3>3 DEF Past
  <2>4. QED
    BY <2>1, <2>3 DEF HolesInv
<1>6. ASSUME NextTile,
             failures \subseteq failures',
             cache'[<<tile, category>>] # "missing" \/ <<tile, category>> \in failures',
             progress'["tilesFailed"] > 0 => failures' # {}
      PROVE  HolesInv'
  <2>1. /\ pc = "tiles" /\ pc' = pc /\ category' = category /\ fresh' = fresh
        /\ tile \in Tiles /\ tile' = tile + 1
    BY <1>6 DEF NextTile
  <2>2. ASSUME NEW t \in Tiles, NEW c \in 1..NumCategories,
               Past(t, c)', cache'[<<t, c>>] = "missing"
        PROVE  <<t, c>> \in failures'
    <3>1. Past(t, c) \/ (t = tile /\ c = category)
      BY <2>1, <2>2 DEF Past, Tiles
    <3>2. CASE Past(t, c)
      BY <1>1, <1>6, <2>2, <3>2 DEF HolesInv
    <3>3. CASE t = tile /\ c = category
      BY <1>6, <2>2, <3>3
    <3>4. QED
      BY <3>1, <3>2, <3>3
  <2>3. ASSUME NEW t \in fresh' PROVE cache'[<<t, category'>>] # "missing"
    <3>1. t \in Tiles /\ category \in 1..NumCategories
      BY <1>0, <2>1, <2>3 DEF TypeOK, TypeInv, LoopInv
    <3>2. cache[<<t, category>>] # "missing"
      BY <2>1, <2>3 DEF HolesInv
    <3>3. QED
      BY <1>1, <2>1, <3>1, <3>2
  <2>4. QED
    BY <1>6, <2>2, <2>3 DEF HolesInv
<1>7. CASE ReuseTile
  <2>1. progress'["tilesFailed"] = progress["tilesFailed"]
    BY <1>0, <1>7, IncrementTyped DEF ReuseTile, TileCounters, Counters
  <2>2. NextTile /\ cache' = cache /\ failures' = failures /\ tile \in fresh /\ pc = "tiles"
    BY <1>7 DEF ReuseTile, NextTile
  <2>3. QED
    BY <1>6, <2>1, <2>2 DEF HolesInv
<1>8. CASE FailTile \/ \E found \in {{}, Shops} : SaveTileReplyLost(found)
  <2>1. NextTile /\ failures' = failures \union {<<tile, category>>}
    BY <1>8 DEF FailTile, SaveTileReplyLost
  <2>2. QED
    BY <1>6, <2>1
<1>9. ASSUME NEW found \in {{}, Shops}, FetchTile(found)
      PROVE  HolesInv'
  <2>1. progress'["tilesFailed"] = progress["tilesFailed"]
    BY <1>0, <1>9, IncrementTyped DEF FetchTile, TileCounters, Counters
  <2>2. /\ NextTile /\ failures' = failures /\ pc = "tiles"
        /\ cache' = [cache EXCEPT ![<<tile, category>>] = "fresh"]
    BY <1>9 DEF FetchTile, NextTile
  <2>3. <<tile, category>> \in Pairs
    BY <1>0, <2>2 DEF NextTile, TypeInv, LoopInv
  <2>4. cache'[<<tile, category>>] # "missing"
    BY <1>0, <2>2, <2>3 DEF TypeOK
  <2>5. QED
    BY <1>6, <2>1, <2>2, <2>4 DEF HolesInv
<1>10. ASSUME pc \in Fetched, pc' \in Fetched, failures' = failures,
              progress'["tilesFailed"] = progress["tilesFailed"]
       PROVE  HolesInv'
  BY <1>1, <1>10 DEF HolesInv, Past
<1>11. CASE FindCandidates
  <2>1. todo' \in SUBSET Portfolio /\ progress' = [progress EXCEPT !["geocodeCandidates"] = Cardinality(todo')]
    BY <1>11 DEF FindCandidates, UnlocatedStores
  <2>2. progress'["tilesFailed"] = progress["tilesFailed"]
    BY <1>0, <2>1, RowsLemma, SetTyped DEF Counters
  <2>3. QED
    BY <1>10, <1>11, <2>2 DEF FindCandidates
<1>12. CASE EndGeocoding
  BY <1>10, <1>12 DEF EndGeocoding
<1>13. CASE CountDiscovered
  <2>1. progress' = [progress EXCEPT !["discoveredInBoundary"] = DiscoveredInBoundary]
    BY <1>13 DEF CountDiscovered
  <2>2. progress'["tilesFailed"] = progress["tilesFailed"]
    BY <1>0, <2>1, StoresLemma, SetTyped DEF Counters
  <2>3. QED
    BY <1>10, <1>13, <2>2 DEF CountDiscovered
<1>14. ASSUME NEW s \in Portfolio,
              \/ ResolveStore(s) \/ LocateReplyLost(s)
              \/ LeaveStoreUnresolved(s) \/ FailToGeocode(s)
       PROVE  HolesInv'
  <2>1. PICK c \in StoreCounters : Increment(c)
    BY <1>14
       DEF ResolveStore, LocateReplyLost, LeaveStoreUnresolved, FailToGeocode, StoreCounters
  <2>2. progress'["tilesFailed"] = progress["tilesFailed"]
    BY <1>0, <2>1, IncrementTyped DEF StoreCounters, Counters
  <2>3. NextCandidate(s)
    BY <1>14 DEF ResolveStore, LocateReplyLost, LeaveStoreUnresolved, FailToGeocode
  <2>4. QED
    BY <1>10, <2>2, <2>3 DEF NextCandidate
<1>15. CASE StartAttempt \/ Finish \/ Throw \/ Retry \/ GiveUp
  BY <1>2, <1>15 DEF StartAttempt, Finish, Throw, Retry, GiveUp
<1>16. CASE UNCHANGED runVars
  <2>1. \A t \in Tiles, c \in 1..NumCategories : Past(t, c)' <=> Past(t, c)
    BY <1>16 DEF Past, runVars
  <2>2. ASSUME pc = "tiles", NEW t \in fresh PROVE cache'[<<t, category>>] # "missing"
    <3>1. t \in Tiles /\ category \in 1..NumCategories
      BY <1>0, <2>2 DEF TypeOK, TypeInv, LoopInv
    <3>2. QED
      BY <1>1, <2>2, <3>1 DEF HolesInv
  <2>3. QED
    BY <1>1, <1>16, <2>1, <2>2 DEF HolesInv, runVars
<1>17. CASE UNCHANGED vars \/ \E p \in Pairs : Expire(p)
  BY <1>16, <1>17 DEF vars, Expire
<1>18. QED
  BY <1>3, <1>4, <1>5, <1>7, <1>8, <1>9, <1>11, <1>12, <1>13, <1>14, <1>15, <1>17 DEF Next

(***************************************************************************)
(* The end of a run                                                        *)
(***************************************************************************)

Holes == {t \in Tiles : \E c \in 1..NumCategories : cache[<<t, c>>] = "missing"}

\* The status follows the stages; at the end the row holds the whole progress, and
\* what a run settled it said itself.
DoneInv ==
  /\ status \in {"completed", "failed"} => pc = "done"
  /\ pc \in Running \union {"plan"} => status = "processing"
  /\ pc = "finish" => saved = progress
  /\ pc = "done" /\ error # GaveUp =>
       /\ saved = progress
       /\ TilesDone(saved) = Total
       /\ GeocodesDone(saved) = saved["geocodeCandidates"]
       /\ status = "failed" <=> saved["tilesFetched"] + saved["tilesReused"] = 0
       /\ Cardinality(Holes) <= error.areas

IInv == TypeInv /\ ProgressInv /\ SavedInv /\ HolesInv /\ DoneInv

\* What Finish writes.
LEMMA FinishLemma ==
  ASSUME IInv, Finish
  PROVE  /\ status' = "failed" <=> progress["tilesFetched"] + progress["tilesReused"] = 0
         /\ error'.areas = Cardinality({f[1] : f \in failures})
         /\ error'.kind \in {"null", "shortfall"}
         /\ status' = "failed" => error'.kind = "shortfall"
<1>1. failures \in SUBSET Pairs /\ progress \in [Counters -> Nat] /\ pc = "finish"
  BY DEF IInv, TypeInv, TypeOK, Finish
<1>2. /\ Cardinality({f[1] : f \in failures}) \in Nat
      /\ failures # {} => Cardinality({f[1] : f \in failures}) # 0
  BY <1>1, AreasLemma
<1>3. \A c \in {"tilesFetched", "tilesReused", "tilesFailed"} : progress[c] \in Nat
  BY <1>1 DEF Counters
<1>4. progress["tilesFetched"] + progress["tilesReused"] + progress["tilesFailed"] > 0
  BY <1>1, BeforeLemma DEF IInv, ProgressInv, TilesDone, Fetched
<1>5. ProducedNothing(progress) <=> progress["tilesFetched"] + progress["tilesReused"] = 0
  BY <1>3, <1>4 DEF ProducedNothing
<1>6. status' = IF ProducedNothing(progress) THEN "failed" ELSE "completed"
  BY DEF Finish
<1>7. error' = DescribeShortfall(failures, progress)
  BY DEF Finish
<1>8. /\ error'.areas = Cardinality({f[1] : f \in failures})
      /\ error'.kind \in {"null", "shortfall"}
      /\ Cardinality({f[1] : f \in failures}) # 0 => error'.kind = "shortfall"
  BY <1>2, <1>7 DEF DescribeShortfall, NoError
<1>9. status' = "failed" => failures # {}
  BY <1>1, <1>6 DEF ProducedNothing, IInv, HolesInv, Running, Fetched
<1>10. QED
  BY <1>2, <1>5, <1>6, <1>8, <1>9

LEMMA DoneStep == IInv /\ [Next]_vars => DoneInv'
<1> SUFFICES ASSUME IInv, [Next]_vars PROVE DoneInv'
  OBVIOUS
<1> USE DEF Running, Fetched
<1>0. TypeOK /\ DoneInv
  BY DEF IInv, TypeInv
<1>1. CASE StartAttempt \/ Throw \/ Retry
  BY <1>0, <1>1 DEF StartAttempt, Throw, Retry, rowVars, DoneInv
<1>2. CASE \/ PlanTiles \/ CheckFreshness \/ EndCategory \/ FindCandidates \/ EndGeocoding
           \/ CountDiscovered
  BY <1>0, <1>2
     DEF PlanTiles, CheckFreshness, EndCategory, FindCandidates, EndGeocoding,
         CountDiscovered, Flush, rowVars, DoneInv
<1>3. CASE \/ ReuseTile \/ FailTile
           \/ \E found \in {{}, Shops} : FetchTile(found) \/ SaveTileReplyLost(found)
  <2>1. NextTile
    BY <1>3 DEF ReuseTile, FailTile, FetchTile, SaveTileReplyLost
  <2>2. QED
    BY <1>0, <2>1 DEF NextTile, DoneInv
<1>4. CASE \E s \in Portfolio :
             \/ ResolveStore(s) \/ LocateReplyLost(s)
             \/ LeaveStoreUnresolved(s) \/ FailToGeocode(s)
  <2>1. PICK s \in Portfolio : NextCandidate(s)
    BY <1>4 DEF ResolveStore, LocateReplyLost, LeaveStoreUnresolved, FailToGeocode
  <2>2. QED
    BY <1>0, <2>1 DEF NextCandidate, DoneInv
<1>5. CASE Finish
  <2>1. /\ pc = "finish" /\ pc' = "done" /\ saved' = saved /\ saved = progress
        /\ progress' = progress /\ cache' = cache /\ failures' = failures
    BY <1>0, <1>5 DEF Finish, DoneInv
  <2>2. Holes \subseteq {f[1] : f \in failures}
    <3>1. ASSUME NEW t \in Tiles, NEW c \in 1..NumCategories, cache[<<t, c>>] = "missing"
          PROVE  t \in {f[1] : f \in failures}
      <4>1. <<t, c>> \in failures
        BY <2>1, <3>1 DEF IInv, HolesInv, Past
      <4>2. QED
        BY <4>1
    <3>2. QED
      BY <3>1 DEF Holes
  <2>3. failures \in SUBSET Pairs
    BY <1>0 DEF TypeOK
  <2>4. Cardinality(Holes) <= Cardinality({f[1] : f \in failures})
    BY <2>2, <2>3, HolesLemma
  <2>5. Holes' = Holes
    BY <2>1 DEF Holes
  <2>6. TilesDone(saved) = Total /\ GeocodesDone(saved) = saved["geocodeCandidates"]
    BY <2>1 DEF IInv, ProgressInv
  <2>7. TilesDone(saved)' = TilesDone(saved) /\ GeocodesDone(saved)' = GeocodesDone(saved)
    BY <2>1 DEF TilesDone, GeocodesDone
  <2>8. /\ status' = "failed" <=> saved'["tilesFetched"] + saved'["tilesReused"] = 0
        /\ error'.areas = Cardinality({f[1] : f \in failures})
    BY <1>5, <2>1, FinishLemma
  <2>9. Cardinality(Holes)' <= error'.areas
    BY <2>4, <2>5, <2>8
  <2>10. QED
    BY <2>1, <2>6, <2>7, <2>8, <2>9 DEF DoneInv
<1>6. CASE GiveUp
  BY <1>6 DEF GiveUp, DoneInv
<1>7. ASSUME NEW p \in Pairs, Expire(p)
      PROVE  DoneInv'
  BY <1>0, <1>7 DEF Expire, runVars, rowVars, DoneInv
<1>8. CASE UNCHANGED vars
  BY <1>0, <1>8 DEF vars, runVars, rowVars, DoneInv, Holes, TilesDone, GeocodesDone
<1>9. QED
  BY <1>1, <1>2, <1>3, <1>4, <1>5, <1>6, <1>7, <1>8 DEF Next

LEMMA InvHolds == Spec => []IInv
<1>1. Init => IInv
  <2>1. Init => TypeInv
    BY SizeAssumption, BoundsAssumption, EmptyLemma
       DEF Init, TypeInv, TypeOK, LoopInv, NoError, NoProgress
  <2>2. Init => ProgressInv /\ SavedInv /\ HolesInv /\ DoneInv
    BY DEF Init, ProgressInv, SavedInv, HolesInv, DoneInv, Past, Running, Fetched
  <2>3. QED
    BY <2>1, <2>2 DEF IInv
<1>2. IInv /\ [Next]_vars => IInv'
  BY TypeStep, ProgressStep, SavedStep, HolesStep, DoneStep DEF IInv
<1>3. QED
  BY <1>1, <1>2, PTL DEF Spec

(***************************************************************************)
(* Theorems                                                                *)
(***************************************************************************)

\* The types hold in every reachable state, for every market and cache
\* (controllers/discovery.ts:42-206).
THEOREM RunTypeCorrect == Spec => []TypeOK
<1>1. IInv => TypeOK
  BY DEF IInv, TypeInv
<1>2. QED
  BY <1>1, InvHolds, PTL

\* The status page never shows more tiles or stores done than there are
\* (progressReporter.ts, StatusPage.tsx:114-128).
THEOREM OverstatedTheorem == Spec => []NeverOverstated
<1>1. IInv => NeverOverstated
  BY DEF IInv, SavedInv, Bounded, NeverOverstated
<1>2. QED
  BY <1>1, InvHolds, PTL

\* The progress of a market that its run settled accounts for every tile and every
\* candidate, without a flush after each (discovery.ts:67-75).
THEOREM CompleteTheorem == Spec => []SettledProgressIsComplete
<1>1. IInv => SettledProgressIsComplete
  BY DEF IInv, DoneInv, SettledByRun, SettledProgressIsComplete, Total
<1>2. QED
  BY <1>1, InvHolds, PTL

\* The status and the progress of a settled market agree (discovery.ts:78-95).
THEOREM VerdictMatchesTheorem == Spec => []VerdictMatchesProgress
<1>1. IInv => VerdictMatchesProgress
  BY DEF IInv, DoneInv, SettledByRun, VerdictMatchesProgress
<1>2. QED
  BY <1>1, InvHolds, PTL

\* No tile without data goes unmentioned in the warning, whatever was retried,
\* expired and lost (discovery.ts:212-223).
THEOREM HolesTheorem == Spec => []HolesAreReported
<1>1. IInv => HolesAreReported
  BY DEF IInv, DoneInv, SettledByRun, HolesAreReported, Holes
<1>2. QED
  BY <1>1, InvHolds, PTL

\* Nothing that has a location is left to geocode.
LocatedInv == todo \intersect located = {}

LEMMA LocatedStep == LocatedInv /\ [Next]_vars => LocatedInv'
<1> SUFFICES ASSUME LocatedInv, [Next]_vars PROVE LocatedInv'
  OBVIOUS
<1> USE DEF LocatedInv
<1>1. CASE todo' = {} \/ UNCHANGED <<todo, located>>
  BY <1>1
<1>2. CASE FindCandidates
  BY <1>2 DEF FindCandidates, UnlocatedStores
<1>3. ASSUME NEW s \in Portfolio,
             \/ ResolveStore(s) \/ LocateReplyLost(s)
             \/ LeaveStoreUnresolved(s) \/ FailToGeocode(s)
      PROVE  LocatedInv'
  BY <1>3
     DEF ResolveStore, LocateReplyLost, LeaveStoreUnresolved, FailToGeocode, NextCandidate
<1>4. QED
  BY <1>1, <1>2, <1>3
     DEF Next, vars, runVars, rowVars, StartAttempt, PlanTiles, CheckFreshness, EndCategory,
         ReuseTile, FailTile, FetchTile, SaveTileReplyLost, NextTile, EndGeocoding,
         CountDiscovered, Finish, Throw, Forget, Retry, GiveUp, Expire

\* No row with a location is geocoded again, in this attempt or a later one
\* (discovery.ts:157-165).
THEOREM LocatedTheorem == Spec => LocatedNotGeocoded
<1>1. Init => LocatedInv
  BY DEF Init, LocatedInv
<1>2. LocatedInv => [\A s \in located : pc' = "geocode" /\ s \in todo => s \in todo']_vars
  BY DEF LocatedInv
<1>3. QED
  BY <1>1, <1>2, LocatedStep, PTL DEF Spec, LocatedNotGeocoded

\* The row's promise, of the one market.
LEMMA RowUpdate ==
  ASSUME NEW from, NEW s, NEW e,
         status \in from, status' = s, error.kind' = e
  PROVE  Row!Update("market", from, s, e)
BY DEF Row!Update

\* Every step of a run is a step of the row's promise: no attempt settles the
\* market before it has ended (discovery.ts:48-55, 91-95, worker.ts:22-46).
THEOREM RowTheorem == Spec => FollowsMarketStatus
<1>1. ASSUME IInv, [Next]_vars PROVE [Row!Next]_<<status, error.kind>>
  <2>1. CASE UNCHANGED <<status, error>>
    BY <2>1
  <2>2. status \in {"queued", "processing"} \/ pc = "done"
    BY <1>1 DEF IInv, TypeInv, TypeOK, DoneInv
  <2>3. CASE StartAttempt
    <3>1. status \in {"queued", "processing"} /\ status' = "processing" /\ error.kind' = "null"
      BY <2>2, <2>3 DEF StartAttempt, NoError
    <3>2. Row!Update("market", {"queued", "processing"}, "processing", "null")
      BY <3>1, RowUpdate
    <3>3. QED
      BY <3>2 DEF Row!Next, Row!Process
  <2>4. CASE Finish
    <3>1. /\ status = "processing" /\ status' \in {"completed", "failed"}
          /\ error.kind' \in {"null", "shortfall"}
          /\ status' = "failed" => error.kind' = "shortfall"
      BY <1>1, <2>4, FinishLemma DEF Finish, IInv, DoneInv, Running, Fetched
    <3>2. CASE status' = "completed"
      <4>1. PICK e \in {"null", "shortfall"} : error.kind' = e
        BY <3>1
      <4>2. Row!Update("market", {"processing"}, "completed", e)
        BY <3>1, <3>2, <4>1, RowUpdate
      <4>3. QED
        BY <4>2 DEF Row!Next, Row!Complete
    <3>3. CASE status' = "failed"
      <4>1. Row!Update("market", {"processing"}, "failed", "shortfall")
        BY <3>1, <3>3, RowUpdate
      <4>2. QED
        BY <4>1 DEF Row!Next, Row!Fail
    <3>4. QED
      BY <3>1, <3>2, <3>3
  <2>5. CASE GiveUp
    <3>1. /\ status \in {"queued", "processing"} /\ status' = "failed"
          /\ error.kind' = "unavailable"
      BY <2>2, <2>5 DEF GiveUp, GaveUp
    <3>2. Row!Update("market", {"queued", "processing"}, "failed", "unavailable")
      BY <3>1, RowUpdate
    <3>3. QED
      BY <3>2 DEF Row!Next, Row!Fail
  <2>6. QED
    BY <1>1, <2>1, <2>3, <2>4, <2>5
       DEF Next, vars, runVars, rowVars, PlanTiles, CheckFreshness, EndCategory, ReuseTile,
           FailTile, FetchTile, SaveTileReplyLost, NextTile, FindCandidates, EndGeocoding,
           ResolveStore, LocateReplyLost, LeaveStoreUnresolved, FailToGeocode, NextCandidate,
           CountDiscovered, Throw, Retry, Expire
<1>2. QED
  BY <1>1, InvHolds, PTL DEF Spec, FollowsMarketStatus
=============================================================================
