----------------------------- MODULE MarketBoundary -----------------------------
(***************************************************************************)
(* The rectangle of a market, from the city's box to the row: the map's    *)
(* handles (BoundaryEditor.tsx), the four fields (BoundaryFields.tsx),     *)
(* lib/boundary.ts, and the checks of POST /markets (routes/market.ts).    *)
(*                                                                         *)
(* Coordinates are whole units on a plane, so an area is a product; turf   *)
(* and ST_Area measure it on the globe.  What is typed in a field counts   *)
(* when it is committed, if it is a number.                                *)
(***************************************************************************)
EXTENDS Tiling

CONSTANTS
  MinSpan,    \* MIN_SPAN_DEGREES
  MaxArea,    \* MAX_AREA_SQ_KM, config.marketMaxAreaSqKm
  LatLimit,   \* 90 degrees
  LngLimit,   \* 180 degrees
  CityBoxes,  \* the boxes a city can have: city_bbox_ordered lets edges coincide
  Positions,  \* bound: where a corner may be dragged, what may be typed
  Shifts,     \* bound: how far one drag of the move handle goes
  Reach,      \* bound: how far from the origin the rectangle is taken
  NoBox

ASSUME BoundaryAssumption ==
  /\ MinSpan \in Nat \ {0} /\ MaxArea \in Nat
  /\ LatLimit \in Nat /\ LngLimit \in Nat
  /\ Positions \subseteq Int /\ Shifts \subseteq Int /\ Reach \in Nat
  /\ CityBoxes \subseteq {b \in Boxes : b.minLat <= b.maxLat /\ b.minLng <= b.maxLng}
ASSUME NoBoxAssumption == NoBox \notin Boxes

VARIABLES
  bounds,      \* the rectangle on the map
  dragOrigin,  \* the rectangle where the move handle was picked up
  market,      \* market.boundary
  tiles,       \* the keys discoverTiles made of it
  thrown       \* or it threw

boundaryVars == <<bounds, dragOrigin, market, tiles, thrown>>

Edges == {"minLat", "minLng", "maxLat", "maxLng"}
Corners == {"sw", "nw", "ne", "se"}

BoundaryTypeOK ==
  /\ bounds \in Boxes \union {NoBox} /\ dragOrigin \in Boxes \union {NoBox}
  /\ market = NoBox
     \/ /\ {market.minLat, market.maxLat} \subseteq (-LatLimit)..LatLimit
        /\ {market.minLng, market.maxLng} \subseteq (-LngLimit)..LngLimit
  /\ tiles \subseteq Int \X Int /\ thrown \in BOOLEAN

BoundaryInit ==
  /\ bounds = NoBox /\ dragOrigin = NoBox /\ market = NoBox
  /\ tiles = {} /\ thrown = FALSE

Lower(a, b) == IF a <= b THEN a ELSE b
Higher(a, b) == IF a >= b THEN a ELSE b

\* Edges put in order, and left on one line when they meet there.
OnlyOrdered(b) ==
  Box(Lower(b.minLat, b.maxLat), Lower(b.minLng, b.maxLng),
      Higher(b.minLat, b.maxLat), Higher(b.minLng, b.maxLng))

normalizeBounds(b) ==
  LET south == Lower(b.minLat, b.maxLat)
      west == Lower(b.minLng, b.maxLng)
  IN Box(south, west,
         Higher(Higher(b.minLat, b.maxLat), south + MinSpan),
         Higher(Higher(b.minLng, b.maxLng), west + MinSpan))

Area(b) == (b.maxLat - b.minLat) * (b.maxLng - b.minLng)

\* Of the same height and width.
SameSpans(b, c) ==
  /\ b.maxLat - b.minLat = c.maxLat - c.minLat
  /\ b.maxLng - b.minLng = c.maxLng - c.minLng

\* A rectangle within the cap stays, one without an inside too; another becomes one about its centre that
\* is: exactly to scale in the code, rounded to units here.
shrinkToLimit(b) ==
  IF Area(b) <= MaxArea
  THEN {b}
  ELSE {r \in {Box(b.minLat + i, b.minLng + j, b.maxLat - i, b.maxLng - j) :
                  i \in 0..(b.maxLat - b.minLat), j \in 0..(b.maxLng - b.minLng)} :
          Proper(r) /\ Area(r) <= MaxArea}

withCorner(b, corner, lat, lng) ==
  Box(IF corner \in {"sw", "se"} THEN lat ELSE b.minLat,
      IF corner \in {"sw", "nw"} THEN lng ELSE b.minLng,
      IF corner \in {"nw", "ne"} THEN lat ELSE b.maxLat,
      IF corner \in {"ne", "se"} THEN lng ELSE b.maxLng)

Shifted(b, dLat, dLng) ==
  Box(b.minLat + dLat, b.minLng + dLng, b.maxLat + dLat, b.maxLng + dLng)

\* The city's box arrives, perhaps in the middle of a drag.
LoadCity ==
  /\ \E b \in CityBoxes : bounds' \in shrinkToLimit(b)
  /\ UNCHANGED <<dragOrigin, market, tiles, thrown>>

\* The request for the box of the city chosen next fails, or no city is chosen:
\* the map and the fields go with the rectangle.
ClearCity ==
  /\ bounds # NoBox
  /\ bounds' = NoBox /\ dragOrigin' = NoBox
  /\ UNCHANGED <<market, tiles, thrown>>

DragCorner(corner, lat, lng) ==
  /\ bounds # NoBox /\ dragOrigin = NoBox
  /\ bounds' = normalizeBounds(withCorner(bounds, corner, lat, lng))
  /\ UNCHANGED <<dragOrigin, market, tiles, thrown>>

PickUp ==
  /\ bounds # NoBox /\ dragOrigin = NoBox
  /\ dragOrigin' = bounds
  /\ UNCHANGED <<bounds, market, tiles, thrown>>

WithinReach(b) ==
  {b.minLat, b.minLng, b.maxLat, b.maxLng} \subseteq (-Reach)..Reach

Move(dLat, dLng) ==
  /\ dragOrigin # NoBox
  /\ WithinReach(Shifted(dragOrigin, dLat, dLng))
  /\ bounds' = Shifted(dragOrigin, dLat, dLng)
  /\ UNCHANGED <<dragOrigin, market, tiles, thrown>>

Drop ==
  /\ dragOrigin # NoBox
  /\ dragOrigin' = NoBox
  /\ UNCHANGED <<bounds, market, tiles, thrown>>

\* A number is in a field when Enter is hit or the focus leaves it.
CommitField(edge, value) ==
  /\ bounds # NoBox
  /\ bounds' = normalizeBounds([bounds EXCEPT ![edge] = value])
  /\ UNCHANGED <<dragOrigin, market, tiles, thrown>>

\* The latitudes taken for longitudes.
ValidSwapped(b) ==
  /\ {b.minLat, b.maxLat} \subseteq (-LngLimit)..LngLimit
  /\ {b.minLng, b.maxLng} \subseteq (-LatLimit)..LatLimit
  /\ Proper(b)

\* parseBoundary, of numbers.
ValidBoundary(b) ==
  /\ {b.minLat, b.maxLat} \subseteq (-LatLimit)..LatLimit
  /\ {b.minLng, b.maxLng} \subseteq (-LngLimit)..LngLimit
  /\ Proper(b)

\* The request goes out with the rectangle as it is, and is accepted or gets an
\* error; the page is left with an accepted one.
Submit ==
  /\ bounds # NoBox /\ dragOrigin = NoBox /\ market = NoBox
  /\ ValidBoundary(bounds) /\ Area(bounds) <= MaxArea
  /\ market' = bounds
  /\ bounds' = NoBox /\ UNCHANGED <<dragOrigin, tiles, thrown>>

Edit ==
  \/ \E corner \in Corners, lat, lng \in Positions : DragCorner(corner, lat, lng)
  \/ \E edge \in Edges, value \in Positions : CommitField(edge, value)

Draw ==
  \/ LoadCity \/ ClearCity
  \/ Edit
  \/ PickUp \/ Drop
  \/ \E dLat, dLng \in Shifts : Move(dLat, dLng)

\* discoverTiles cuts the boundary; too many tiles throw, at every attempt alike.
Decompose ==
  /\ market # NoBox /\ tiles = {} /\ ~thrown
  /\ IF TooManyTiles(market)
     THEN thrown' = TRUE /\ UNCHANGED tiles
     ELSE tiles' = tileKeysForBbox(market) /\ UNCHANGED thrown
  /\ UNCHANGED <<bounds, dragOrigin, market>>

BoundaryNext == (market = NoBox /\ (Draw \/ Submit)) \/ Decompose

BoundarySpec == BoundaryInit /\ [][BoundaryNext]_boundaryVars

(***************************************************************************)
(* Properties                                                              *)
(***************************************************************************)

\* No sequence of drags, shifts, typed edges and late city boxes turns the rectangle
\* over or collapses it (lib/boundary.ts:40-57), except that a city whose own box has
\* no inside puts it on the map as it is (lines 64-66), where it may be moved about.
CollapsedOnlyByCity ==
  bounds # NoBox =>
    Proper(bounds) \/ \E b \in CityBoxes : ~Proper(b) /\ SameSpans(bounds, b)

\* The tiles of a market cover it, edges, corners and the far side of the equator
\* included, and each of them meets it, so that no request is spent on ground that
\* cannot be in it ("Every tile the bounds touch", tiling.ts:50-75).
TilesFitMarket ==
  LET Meet(key, lat, lng) == Inside(tileKeyToBbox(key), lat, lng)
      latitudes == market.minLat..market.maxLat
      longitudes == market.minLng..market.maxLng
  IN tiles # {} =>
       /\ \A lat \in latitudes, lng \in longitudes : \E key \in tiles : Meet(key, lat, lng)
       /\ \A key \in tiles : \E lat \in latitudes, lng \in longitudes : Meet(key, lat, lng)
=============================================================================
