------------------------------- MODULE Dashboard -------------------------------
(***************************************************************************)
(* What is shown of the stores of one market while other markets' runs     *)
(* save tiles: the number its own run counted, on the list of markets, and *)
(* the stores its dashboard reads (repositories/dashboard.ts).  The tables *)
(* are those of TileStoreTx, the geometry is Tiling's.                     *)
(*                                                                         *)
(* An answer of Overpass for a tile may hold a building that only reaches  *)
(* into it: `out center` places it by its centre.                          *)
(***************************************************************************)
EXTENDS TileStoreTx, Tiling

CONSTANTS
  TileOf,      \* tile_key of a pair
  CategoryOf,  \* category_id of a pair
  Place,       \* the latitude and longitude of each store
  Boundary     \* market.boundary

ASSUME DashboardAssumption ==
  /\ TileOf \in [Pairs -> Int \X Int]
  /\ Place \in [Shops -> Int \X Int]
  /\ Boundary \in Boxes /\ Proper(Boundary)

VARIABLES
  categories,  \* market_category: those the market was created with
  counted,     \* the stores progress.discoveredInBoundary is the number of
  resaved      \* pairs saved by other runs since

dashboardVars == <<vars, categories, counted, resaved>>

\* ST_Contains: the edges are not inside.
Contains(b, at) ==
  /\ b.minLat < at[1] /\ at[1] < b.maxLat
  /\ b.minLng < at[2] /\ at[2] < b.maxLng

\* The rows of the market's categories, clipped to its boundary.
RowsInMarket ==
  {r \in store : CategoryOf[r[1]] \in categories /\ Contains(Boundary, Place[r[2]])}

\* A count of all that the tiles hold.
CountUnclipped ==
  {r[2] : r \in {q \in store : /\ CategoryOf[q[1]] \in categories
                             /\ TileOf[q[1]] \in tileKeysForBbox(Boundary)}}

\* Each element once, in whichever tiles it is (DISTINCT ON).
countDiscoveredInMarket ==
  {r[2] : r \in {q \in RowsInMarket : TileOf[q[1]] \in tileKeysForBbox(Boundary)}}

\* The same without a look at the tiles.
findDiscoveredStores == {r[2] : r \in RowsInMarket}

DashboardInit ==
  /\ Init
  /\ categories \in SUBSET {CategoryOf[p] : p \in Pairs} \ {{}}
  /\ counted = {} /\ resaved = Pairs

\* The market's run is through its tiles.
CountDiscovered ==
  /\ counted' = countDiscoveredInMarket /\ resaved' = {}
  /\ UNCHANGED <<vars, categories>>

Saved == {PairOf[s] : s \in {t \in Saves : save[t] # "done" /\ save'[t] = "done"}}

OtherRuns ==
  /\ Next
  /\ resaved' = resaved \union Saved
  /\ UNCHANGED <<categories, counted>>

DashboardNext == OtherRuns \/ CountDiscovered

DashboardSpec == DashboardInit /\ [][DashboardNext]_dashboardVars

(***************************************************************************)
(* Property                                                                *)
(***************************************************************************)

\* A store that is in none of the tiles it is cached for, for this market.
Stray(x) ==
  LET tiles == {TileOf[r[1]] : r \in {q \in RowsInMarket : q[2] = x}}
  IN tiles # {} /\ \A key \in tiles : ~Inside(tileKeyToBbox(key), Place[x][1], Place[x][2])

\* The dashboard lists what the list of markets counts, although it reads every
\* tile and the count those of the market only: a difference comes of a tile saved
\* since, or of a store that is not in the tile it was fetched for ("a store inside
\* the boundary is necessarily inside a tile that overlaps it",
\* repositories/dashboard.ts:123-126).
ListMatchesCount ==
  /\ \A x \in counted \ findDiscoveredStores :
       \E p \in resaved : CategoryOf[p] \in categories
  /\ \A x \in findDiscoveredStores \ counted :
       \/ \E p \in resaved : <<p, x>> \in store /\ CategoryOf[p] \in categories
       \/ Stray(x)
=============================================================================
