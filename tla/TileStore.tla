------------------------------ MODULE TileStore ------------------------------
(***************************************************************************)
(* What the tile cache promises the runs and dashboards that share it: the *)
(* stores cached for a tile and category are those of one Overpass answer, *)
(* replaced as a whole, and a stale tile keeps them.                       *)
(***************************************************************************)
CONSTANTS
  Pairs,  \* tile and category
  Shops   \* OpenStreetMap elements

VARIABLES
  fetch,    \* tile_fetch: missing, stale or fresh
  contents  \* discovered_store of each pair

TypeOK ==
  /\ fetch \in [Pairs -> {"missing", "stale", "fresh"}]
  /\ contents \in [Pairs -> SUBSET Shops]

Init ==
  /\ TypeOK
  /\ \A p \in Pairs : fetch[p] = "missing" => contents[p] = {}

Save(p, answer) ==
  /\ fetch' = [fetch EXCEPT ![p] = "fresh"]
  /\ contents' = [contents EXCEPT ![p] = answer]

\* The freshness interval ends: the rows stay, for the markets that show them.
Expire(p) ==
  /\ fetch[p] = "fresh"
  /\ fetch' = [fetch EXCEPT ![p] = "stale"]
  /\ UNCHANGED contents

Next == \E p \in Pairs : Expire(p) \/ \E answer \in SUBSET Shops : Save(p, answer)

Spec == Init /\ [][Next]_<<fetch, contents>>
=============================================================================
