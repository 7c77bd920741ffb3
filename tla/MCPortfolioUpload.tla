--------------------------- MODULE MCPortfolioUpload ---------------------------
(* Instances of PortfolioUpload: each upload has a row with coordinates and, *)
(* where there are two, one without.  Two uploads suffice for a delete that  *)
(* misses rows; with three, one is refused on account of another's delete.   *)
EXTENDS PortfolioUpload, TLC

CONSTANTS u1, u2, u3, a1, a2, b1, b2, c1

TwoUploads == (a1 :> u1) @@ (a2 :> u1) @@ (b1 :> u2) @@ (b2 :> u2)

ThreeUploads == (a1 :> u1) @@ (b1 :> u2) @@ (b2 :> u2) @@ (c1 :> u3)
=============================================================================
