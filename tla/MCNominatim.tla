------------------------------ MODULE MCNominatim ------------------------------
(* An instance of Nominatim: two rows of one address, one whose address      *)
(* comes to nothing.                                                         *)
EXTENDS Nominatim, TLC

CONSTANTS row1, row2, row3, key

KeyOfRows == (row1 :> key) @@ (row2 :> key) @@ (row3 :> NoKey)

CONSTANT c1

CityOfRequests == [r \in Requests |-> c1]

Symmetry == Permutations(Points) \union Permutations(Requests)
=============================================================================
