-------------------------------- MODULE MCForms --------------------------------
(* An instance of Forms.  Files: one row of every kind under a full header,  *)
(* files of two rows or none, and one file for every check that refuses it.  *)
(* A tile is three units; rectangles lie across the equator, touch tile      *)
(* borders and reach a unit beyond what the server accepts.                  *)
EXTENDS Forms, TLC

SomeHeaders == REQUIRED_HEADERS \union Coordinates \union {"Store Name"}
Normalized == [h \in SomeHeaders |-> IF h = "Store Name" THEN "store_name" ELSE h]

Full == <<"store_name", "address", "city", "state", "country", "category",
          "latitude", "longitude">>
File(header, records) ==
  [type |-> "csv", size |-> "fits", parses |-> TRUE, header |-> header, records |-> records]
Row(name, address, lat, lng) ==
  ("store_name" :> name) @@ ("address" :> address)
    @@ ("latitude" :> lat) @@ ("longitude" :> lng)

Good == Row("text", "text", "number", "number")
ByAddress == Row("text", "text", "blank", "blank")
Half == Row("text", "blank", "number", "blank")

OneRow ==
  {File(Full, <<Row(n, a, x, y)>>) :
     n, a \in {"blank", "text"}, x, y \in Cells}

SomeFiles ==
  OneRow
  \union {File(Full, <<Good, ByAddress>>), File(Full, <<Good, Half>>), File(Full, <<>>),
          File(SubSeq(Full, 1, 6), <<Good>>),                   \* no coordinates
          File(SubSeq(Full, 1, 5), <<Good>>),                   \* no category
          File([Full EXCEPT ![1] = "Store Name"], <<Good>>),
          File(Append(Full, "Store Name"), <<Good>>)}
  \union {[File(Full, <<Good>>) EXCEPT !.type = "other"],
          [File(Full, <<Good>>) EXCEPT !.size = "tooLarge"],
          [File(Full, <<Good>>) EXCEPT !.parses = FALSE]}

\* One within the cap, one beyond it, and one that is a line.
SomeCities == {Box(-1, -1, 2, 1), Box(-3, -3, 3, 3), Box(0, -2, 0, 1)}
FewPositions == {-2, 0, 3}
FewShifts == {-2, 0, 1}
=============================================================================
