------------------------------ MODULE MCDashboard ------------------------------
(* An instance of Dashboard: two saves of the pair p1 and one of p2; the     *)
(* market is within the tile of p1, x1 within the market, and x2 in its tile *)
(* but not within it.  p2 is another category's and of the next tile.        *)
EXTENDS Dashboard, TLC

CONSTANTS p1, p2, s1, s2, s3, x1, x2

SamePairTwice == (s1 :> p1) @@ (s2 :> p1) @@ (s3 :> p2)

TwoTiles == (p1 :> <<0, 0>>) @@ (p2 :> <<1, 0>>)
TwoCategories == (p1 :> "grocery") @@ (p2 :> "pharmacy")
Places == (x1 :> <<2, 1>>) @@ (x2 :> <<1, 3>>)
Market == Box(0, 0, 3, 2)

SameSaves == Permutations({s1, s2})
=============================================================================
