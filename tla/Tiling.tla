-------------------------------- MODULE Tiling --------------------------------
(***************************************************************************)
(* The grid a market is fetched by (api/src/helpers/tiling.ts).            *)
(*                                                                         *)
(* Latitudes and longitudes are whole multiples of a fine unit; a tile is  *)
(* Step units wide, so Math.floor(lat / step) is lat \div Step here, below *)
(* zero too.  A tile key is the pair of its indices.  A box includes its   *)
(* edges, as an Overpass query and ST_Contains' tiles do.                  *)
(***************************************************************************)
EXTENDS Integers, FiniteSets

CONSTANTS
  Step,     \* tileStepDegrees: one tile, in units
  MaxTiles  \* MAX_TILES_PER_MARKET

ASSUME StepAssumption == Step \in Nat \ {0}
ASSUME MaxTilesAssumption == MaxTiles \in Nat

Box(south, west, north, east) ==
  [minLat |-> south, minLng |-> west, maxLat |-> north, maxLng |-> east]

Boxes == [minLat : Int, minLng : Int, maxLat : Int, maxLng : Int]

Proper(b) == b.minLat < b.maxLat /\ b.minLng < b.maxLng

Inside(b, lat, lng) == lat \in b.minLat..b.maxLat /\ lng \in b.minLng..b.maxLng

tileKeyAt(lat, lng) == <<lat \div Step, lng \div Step>>

tileKeyToBbox(key) ==
  Box(key[1] * Step, key[2] * Step, (key[1] + 1) * Step, (key[2] + 1) * Step)

\* Rounding toward zero, as Math.trunc does.
Truncated(n) == IF n < 0 THEN -((-n) \div Step) ELSE n \div Step
TileKeysTruncated(b) ==
  (Truncated(b.minLat)..Truncated(b.maxLat)) \X (Truncated(b.minLng)..Truncated(b.maxLng))

\* The keys tileKeysForBbox lists, unless they are more than MaxTiles.
tileKeysForBbox(b) ==
  ((b.minLat \div Step)..(b.maxLat \div Step)) \X ((b.minLng \div Step)..(b.maxLng \div Step))

TooManyTiles(b) == Cardinality(tileKeysForBbox(b)) > MaxTiles
=============================================================================
