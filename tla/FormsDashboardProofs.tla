-------------------------- MODULE FormsDashboardProofs --------------------------
(***************************************************************************)
(* From what a user enters to what the dashboard reads: theorems about     *)
(* Forms and about Dashboard, which share the lemmas about tiles.          *)
(*                                                                         *)
(* Whatever the sizes of tiles, caps and cities, and however far drags and *)
(* typed numbers go: only a city without an inside puts a rectangle without *)
(* one on the map, and the tiles of a market are those that meet it.       *)
(* Whatever the files: the server takes the usable ones, and the way on    *)
(* opens with stores only.                                                 *)
(*                                                                         *)
(* For any tiles, stores and overlapping saves: the transaction of         *)
(* saveTileStores is never refused by the unique constraint, and readers   *)
(* see the cache TileStore promises.  Both rest on the row lock of the     *)
(* upsert: an open save holds the tile_fetch row of its tile, so what it   *)
(* has deleted is still all the tile has when it commits.  And for any     *)
(* market, tiles and places of stores, what its dashboard lists is what    *)
(* was counted for it, but for later saves and strays.                     *)
(***************************************************************************)
EXTENDS Forms, Dashboard, SequenceTheorems, TLAPS

(***************************************************************************)
(* The grid                                                                *)
(***************************************************************************)

\* A position is in the tile that division finds for it.
LEMMA FloorLemma ==
  ASSUME NEW n \in Int
  PROVE  /\ n \div Step \in Int
         /\ (n \div Step) * Step \in Int /\ (n \div Step + 1) * Step \in Int
         /\ (n \div Step) * Step <= n /\ n < (n \div Step + 1) * Step
BY StepAssumption

\* A tile further on starts no earlier.
LEMMA ScaleLemma ==
  ASSUME NEW a \in Int, NEW b \in Int, a <= b
  PROVE  a * Step \in Int /\ b * Step \in Int /\ a * Step <= b * Step
BY StepAssumption

LEMMA FloorMonotone ==
  ASSUME NEW a \in Int, NEW b \in Int, a <= b
  PROVE  a \div Step <= b \div Step
<1>1. SUFFICES ASSUME b \div Step + 1 <= a \div Step PROVE FALSE
  BY FloorLemma
<1>2. (b \div Step + 1) * Step <= (a \div Step) * Step
  BY <1>1, FloorLemma, ScaleLemma
<1>3. QED
  BY <1>2, FloorLemma

\* A range of positions and the tiles of it, on one axis: every position is in one
\* of them, and each of them has a position of the range.
LEMMA AxisLemma ==
  ASSUME NEW low \in Int, NEW high \in Int, low <= high
  PROVE  /\ \A n \in low..high : /\ n \div Step \in (low \div Step)..(high \div Step)
                                 /\ n \in ((n \div Step) * Step)..((n \div Step + 1) * Step)
         /\ \A i \in (low \div Step)..(high \div Step) :
              \E n \in low..high : n \in (i * Step)..((i + 1) * Step)
<1>1. ASSUME NEW n \in low..high
      PROVE  /\ n \div Step \in (low \div Step)..(high \div Step)
             /\ n \in ((n \div Step) * Step)..((n \div Step + 1) * Step)
  <2>1. low \div Step <= n \div Step /\ n \div Step <= high \div Step
    BY FloorMonotone
  <2>2. n \in ((n \div Step) * Step)..((n \div Step + 1) * Step)
    BY FloorLemma
  <2>3. QED
    BY <2>1, <2>2, FloorLemma
<1>2. ASSUME NEW i \in (low \div Step)..(high \div Step)
      PROVE  \E n \in low..high : n \in (i * Step)..((i + 1) * Step)
  <2>1. i \in Int /\ low \div Step <= i /\ i <= high \div Step
    BY FloorLemma
  <2>2. i * Step \in Int /\ i * Step <= (high \div Step) * Step
    BY <2>1, FloorLemma, ScaleLemma
  <2>3. i * Step <= high
    BY <2>2, FloorLemma
  <2>4. (low \div Step + 1) * Step <= (i + 1) * Step /\ (i + 1) * Step \in Int
    <3>1. /\ low \div Step + 1 \in Int /\ i + 1 \in Int
          /\ low \div Step + 1 <= i + 1
      BY <2>1, FloorLemma
    <3>2. QED
      BY <3>1, ScaleLemma
  <2>5. low <= (i + 1) * Step
    BY <2>4, FloorLemma
  <2>6. i * Step <= (i + 1) * Step
    BY <2>1, ScaleLemma
  <2>7. CASE i * Step <= low
    BY <2>2, <2>4, <2>5, <2>7
  <2>8. CASE low <= i * Step
    BY <2>2, <2>3, <2>4, <2>6, <2>8
  <2>9. QED
    BY <2>2, <2>7, <2>8
<1>3. QED
  BY <1>1, <1>2

(***************************************************************************)
(* The rectangle                                                           *)
(***************************************************************************)

Solid(b) == b \in Boxes /\ Proper(b)

\* A box a rectangle may be: one with an inside, or a city's that has none, moved.
Drawable(b) ==
  /\ b \in Boxes
  /\ Proper(b) \/ \E c \in CityBoxes : ~Proper(c) /\ SameSpans(b, c)

\* What is on the map or picked up is drawable, what was accepted has an inside, and
\* the tiles are those of what was accepted.
BoxInv ==
  /\ bounds # NoBox => Drawable(bounds)
  /\ dragOrigin # NoBox => Drawable(dragOrigin)
  /\ market # NoBox => Solid(market)
  /\ tiles # {} => market # NoBox /\ tiles = tileKeysForBbox(market)

LEMMA BoxLemma ==
  ASSUME NEW a \in Int, NEW b \in Int, NEW c \in Int, NEW d \in Int
  PROVE  /\ Box(a, b, c, d) \in Boxes
         /\ Box(a, b, c, d).minLat = a /\ Box(a, b, c, d).minLng = b
         /\ Box(a, b, c, d).maxLat = c /\ Box(a, b, c, d).maxLng = d
BY DEF Box, Boxes

LEMMA NormalizeLemma ==
  ASSUME NEW b \in Boxes
  PROVE  Drawable(normalizeBounds(b))
<1> DEFINE south == Lower(b.minLat, b.maxLat)
           west == Lower(b.minLng, b.maxLng)
           north == Higher(Higher(b.minLat, b.maxLat), south + MinSpan)
           east == Higher(Higher(b.minLng, b.maxLng), west + MinSpan)
<1>1. b.minLat \in Int /\ b.minLng \in Int /\ b.maxLat \in Int /\ b.maxLng \in Int
  BY DEF Boxes
<1>2. south \in Int /\ north \in Int /\ south < north
  BY <1>1, BoundaryAssumption DEF Lower, Higher
<1>3. west \in Int /\ east \in Int /\ west < east
  BY <1>1, BoundaryAssumption DEF Lower, Higher
<1>4. normalizeBounds(b) = Box(south, west, north, east)
  BY DEF normalizeBounds
<1>5. QED
  BY <1>2, <1>3, <1>4, BoxLemma DEF Solid, Drawable, Proper

LEMMA ShrinkLemma ==
  ASSUME NEW b \in CityBoxes, NEW r \in shrinkToLimit(b)
  PROVE  Drawable(r)
<1>1. b \in Boxes
  BY BoundaryAssumption
<1>2. CASE Area(b) <= MaxArea
  <2>1. r = b
    BY <1>2 DEF shrinkToLimit
  <2>2. SameSpans(b, b)
    BY DEF SameSpans
  <2>3. QED
    BY <1>1, <2>1, <2>2 DEF Drawable
<1>3. CASE ~(Area(b) <= MaxArea)
  <2>1. Proper(r)
    BY <1>3 DEF shrinkToLimit
  <2>2. PICK i \in 0..(b.maxLat - b.minLat), j \in 0..(b.maxLng - b.minLng) :
          r = Box(b.minLat + i, b.minLng + j, b.maxLat - i, b.maxLng - j)
    BY <1>3 DEF shrinkToLimit
  <2>3. r \in Boxes
    BY <1>1, <2>2 DEF Box, Boxes
  <2>4. QED
    BY <2>1, <2>3 DEF Drawable
<1>4. QED
  BY <1>2, <1>3

LEMMA CornerLemma ==
  ASSUME NEW b \in Boxes, NEW corner \in Corners, NEW lat \in Int, NEW lng \in Int
  PROVE  withCorner(b, corner, lat, lng) \in Boxes
BY DEF withCorner, Box, Boxes

LEMMA ShiftLemma ==
  ASSUME NEW b, Drawable(b), NEW dLat \in Int, NEW dLng \in Int
  PROVE  Drawable(Shifted(b, dLat, dLng))
<1> DEFINE s == Shifted(b, dLat, dLng)
<1>1. b \in Boxes
  BY DEF Drawable
<1>2. /\ b.minLat \in Int /\ b.minLng \in Int /\ b.maxLat \in Int /\ b.maxLng \in Int
      /\ s \in Boxes
      /\ s.minLat = b.minLat + dLat /\ s.minLng = b.minLng + dLng
      /\ s.maxLat = b.maxLat + dLat /\ s.maxLng = b.maxLng + dLng
  BY <1>1 DEF Shifted, Box, Boxes
<1>3. /\ s.maxLat - s.minLat = b.maxLat - b.minLat
      /\ s.maxLng - s.minLng = b.maxLng - b.minLng
  BY <1>2
<1>4. CASE Proper(b)
  BY <1>2, <1>4 DEF Proper, Drawable
<1>5. ASSUME NEW c \in CityBoxes, ~Proper(c), SameSpans(b, c)
      PROVE  Drawable(s)
  <2>1. SameSpans(s, c)
    BY <1>3, <1>5 DEF SameSpans
  <2>2. QED
    BY <1>2, <1>5, <2>1 DEF Drawable
<1>6. QED
  BY <1>4, <1>5 DEF Drawable

LEMMA BoxStep == BoxInv /\ [FormsNext]_formVars => BoxInv'
<1> SUFFICES ASSUME BoxInv, [FormsNext]_formVars PROVE BoxInv'
  OBVIOUS
<1>1. CASE UNCHANGED boundaryVars
  BY <1>1 DEF boundaryVars, BoxInv
<1>2. CASE LoadCity
  <2>1. Drawable(bounds')
    BY <1>2, ShrinkLemma DEF LoadCity
  <2>2. QED
    BY <1>2, <2>1 DEF LoadCity, BoxInv
<1>3. CASE ClearCity
  BY <1>3 DEF ClearCity, BoxInv
<1>4. ASSUME NEW corner \in Corners, NEW lat \in Positions, NEW lng \in Positions,
             DragCorner(corner, lat, lng)
      PROVE  BoxInv'
  <2>1. bounds \in Boxes /\ lat \in Int /\ lng \in Int
    BY <1>4, BoundaryAssumption DEF DragCorner, BoxInv, Drawable
  <2>2. Drawable(bounds')
    BY <1>4, <2>1, CornerLemma, NormalizeLemma DEF DragCorner
  <2>3. QED
    BY <1>4, <2>2 DEF DragCorner, BoxInv
<1>5. CASE PickUp
  BY <1>5 DEF PickUp, BoxInv
<1>6. CASE Drop
  BY <1>6 DEF Drop, BoxInv
<1>7. ASSUME NEW dLat \in Shifts, NEW dLng \in Shifts, Move(dLat, dLng)
      PROVE  BoxInv'
  <2>1. Drawable(dragOrigin) /\ dLat \in Int /\ dLng \in Int
    BY <1>7, BoundaryAssumption DEF Move, BoxInv
  <2>2. Drawable(bounds')
    BY <1>7, <2>1, ShiftLemma DEF Move
  <2>3. QED
    BY <1>7, <2>2 DEF Move, BoxInv
<1>8. ASSUME NEW edge \in Edges, NEW value \in Positions, CommitField(edge, value)
      PROVE  BoxInv'
  <2>1. [bounds EXCEPT ![edge] = value] \in Boxes
    <3>1. bounds \in Boxes /\ value \in Int
      BY <1>8, BoundaryAssumption DEF CommitField, BoxInv, Drawable
    <3>2. QED
      BY <3>1 DEF Boxes, Edges
  <2>2. Drawable(bounds')
    BY <1>8, <2>1, NormalizeLemma DEF CommitField
  <2>3. QED
    BY <1>8, <2>2 DEF CommitField, BoxInv
<1>9. CASE market = NoBox /\ Submit
  <2>1. Solid(market')
    BY <1>9 DEF Submit, ValidBoundary, BoxInv, Drawable, Solid
  <2>2. tiles' = {} \/ tiles # {}
    BY <1>9 DEF Submit
  <2>3. QED
    BY <1>9, <2>1, <2>2 DEF Submit, BoxInv
<1>10. CASE Decompose
  <2>1. market' = market /\ bounds' = bounds /\ dragOrigin' = dragOrigin
    BY <1>10 DEF Decompose
  <2>2. tiles' = tiles \/ tiles' = tileKeysForBbox(market)
    BY <1>10 DEF Decompose
  <2>3. tileKeysForBbox(market)' = tileKeysForBbox(market)
    BY <2>1 DEF tileKeysForBbox
  <2>4. market # NoBox
    BY <1>10 DEF Decompose
  <2>5. QED
    BY <2>1, <2>2, <2>3, <2>4 DEF BoxInv
<1>11. CASE BoundaryNext
  BY <1>2, <1>3, <1>4, <1>5, <1>6, <1>7, <1>8, <1>9, <1>10, <1>11 DEF BoundaryNext, Draw, Edit
<1>12. QED
  BY <1>1, <1>11 DEF FormsNext, FillUpload, Continue, FillSetup, formVars

LEMMA BoxInvHolds == FormsSpec => []BoxInv
<1>1. FormsInit => BoxInv
  BY DEF FormsInit, BoundaryInit, BoxInv
<1>2. QED
  BY <1>1, BoxStep, PTL DEF FormsSpec

\* No sequence of drags, shifts, typed edges and late city boxes turns the rectangle
\* over or takes its inside, whatever boxes cities have (edges may coincide, as
\* city_bbox_ordered allows) and however far the handles go: only a city's own box
\* can be without one (lib/boundary.ts:40-66).
THEOREM ProperTheorem == FormsSpec => []CollapsedOnlyByCity
<1>1. BoxInv => CollapsedOnlyByCity
  BY DEF BoxInv, Drawable, CollapsedOnlyByCity
<1>2. QED
  BY <1>1, BoxInvHolds, PTL

LEMMA TilesOfBox ==
  ASSUME NEW b, Solid(b)
  PROVE  /\ \A lat \in b.minLat..b.maxLat, lng \in b.minLng..b.maxLng :
              \E key \in tileKeysForBbox(b) : Inside(tileKeyToBbox(key), lat, lng)
         /\ \A key \in tileKeysForBbox(b) :
              \E lat \in b.minLat..b.maxLat, lng \in b.minLng..b.maxLng :
                Inside(tileKeyToBbox(key), lat, lng)
<1>1. /\ b.minLat \in Int /\ b.minLng \in Int /\ b.maxLat \in Int /\ b.maxLng \in Int
      /\ b.minLat <= b.maxLat /\ b.minLng <= b.maxLng
  BY DEF Solid, Boxes, Proper
<1>2. ASSUME NEW i, NEW j, NEW lat, NEW lng
      PROVE  Inside(tileKeyToBbox(<<i, j>>), lat, lng)
               <=> /\ lat \in (i * Step)..((i + 1) * Step)
                   /\ lng \in (j * Step)..((j + 1) * Step)
  BY DEF Inside, tileKeyToBbox, Box
<1>3. ASSUME NEW lat \in b.minLat..b.maxLat, NEW lng \in b.minLng..b.maxLng
      PROVE  \E key \in tileKeysForBbox(b) : Inside(tileKeyToBbox(key), lat, lng)
  <2>1. <<lat \div Step, lng \div Step>> \in tileKeysForBbox(b)
    BY <1>1, AxisLemma DEF tileKeysForBbox
  <2>2. Inside(tileKeyToBbox(<<lat \div Step, lng \div Step>>), lat, lng)
    <3>1. lat \in ((lat \div Step) * Step)..((lat \div Step + 1) * Step)
      BY <1>1, AxisLemma
    <3>2. lng \in ((lng \div Step) * Step)..((lng \div Step + 1) * Step)
      BY <1>1, AxisLemma
    <3>3. QED
      BY <1>2, <3>1, <3>2
  <2>3. QED
    BY <2>1, <2>2
<1>4. ASSUME NEW key \in tileKeysForBbox(b)
      PROVE  \E lat \in b.minLat..b.maxLat, lng \in b.minLng..b.maxLng :
               Inside(tileKeyToBbox(key), lat, lng)
  <2>1. PICK i \in (b.minLat \div Step)..(b.maxLat \div Step),
             j \in (b.minLng \div Step)..(b.maxLng \div Step) : key = <<i, j>>
    BY DEF tileKeysForBbox
  <2>2. PICK lat \in b.minLat..b.maxLat : lat \in (i * Step)..((i + 1) * Step)
    BY <1>1, AxisLemma
  <2>3. PICK lng \in b.minLng..b.maxLng : lng \in (j * Step)..((j + 1) * Step)
    BY <1>1, AxisLemma
  <2>4. QED
    BY <1>2, <2>1, <2>2, <2>3
<1>5. QED
  BY <1>3, <1>4

\* For every size of a tile and of a market: the tiles fetched cover the market, and
\* none of them is off it (tiling.ts:50-75).
THEOREM TilesTheorem == FormsSpec => []TilesFitMarket
<1>1. BoxInv => TilesFitMarket
  <2> SUFFICES ASSUME BoxInv, tiles # {} PROVE TilesFitMarket
    BY DEF TilesFitMarket
  <2>1. Solid(market) /\ tiles = tileKeysForBbox(market)
    BY DEF BoxInv
  <2>2. QED
    BY <2>1, TilesOfBox DEF TilesFitMarket
<1>2. QED
  BY <1>1, BoxInvHolds, PTL

(***************************************************************************)
(* The file                                                                *)
(***************************************************************************)

\* What a file is, field by field.
LEMMA FileLemma ==
  ASSUME NEW f \in Files
  PROVE  /\ f.type \in {"csv", "other"} /\ f.size \in {"fits", "tooLarge"}
         /\ f.parses \in BOOLEAN
         /\ DOMAIN f.header = 1..Len(f.header) /\ Len(f.header) \in Nat
         /\ DOMAIN f.records = 1..Len(f.records) /\ Len(f.records) \in Nat
         /\ f.records = <<>> <=> Len(f.records) = 0
<1> DEFINE Records == [{"store_name", "address"} \union Coordinates -> Cells]
<1>1. /\ f.type \in {"csv", "other"} /\ f.size \in {"fits", "tooLarge"}
      /\ f.parses \in BOOLEAN /\ f.header \in Seq(Headers) /\ f.records \in Seq(Records)
  BY DEF Files
<1>2. DOMAIN f.header = 1..Len(f.header) /\ Len(f.header) \in Nat
  BY <1>1, LenProperties
<1>3. DOMAIN f.records = 1..Len(f.records) /\ Len(f.records) \in Nat
  BY <1>1, LenProperties
<1>4. f.records = <<>> <=> Len(f.records) = 0
  BY <1>1, EmptySeq
<1>5. QED
  BY <1>1, <1>2, <1>3, <1>4

LEMMA HeaderLemma ==
  ASSUME NEW f \in Files
  PROVE  findDuplicates(f) = {} <=> OneColumnEach(f)
<1>1. DOMAIN f.header = 1..Len(f.header) /\ Len(f.header) \in Nat
  BY FileLemma
<1>2. findDuplicates(f) = {} <=>
        \A j \in 1..Len(f.header) : \A k \in 1..(j - 1) :
          normalizeHeader[f.header[k]] # normalizeHeader[f.header[j]]
  BY <1>1 DEF findDuplicates
<1>3. OneColumnEach(f) <=>
        \A i, j \in 1..Len(f.header) :
          normalizeHeader[f.header[i]] = normalizeHeader[f.header[j]] => i = j
  BY <1>1 DEF OneColumnEach
<1>4. ASSUME \A j \in 1..Len(f.header) : \A k \in 1..(j - 1) :
               normalizeHeader[f.header[k]] # normalizeHeader[f.header[j]],
             NEW i \in 1..Len(f.header), NEW j \in 1..Len(f.header),
             normalizeHeader[f.header[i]] = normalizeHeader[f.header[j]]
      PROVE  i = j
  <2>1. ~(i < j)
    <3>1. i < j => i \in 1..(j - 1)
      BY <1>1
    <3>2. QED
      BY <1>4, <3>1
  <2>2. ~(j < i)
    <3>1. j < i => j \in 1..(i - 1)
      BY <1>1
    <3>2. QED
      BY <1>4, <3>1
  <2>3. QED
    BY <1>1, <2>1, <2>2
<1>5. ASSUME \A i, j \in 1..Len(f.header) :
               normalizeHeader[f.header[i]] = normalizeHeader[f.header[j]] => i = j,
             NEW j \in 1..Len(f.header), NEW k \in 1..(j - 1)
      PROVE  normalizeHeader[f.header[k]] # normalizeHeader[f.header[j]]
  <2>1. k \in 1..Len(f.header) /\ k # j
    BY <1>1
  <2>2. QED
    BY <1>5, <2>1
<1>6. QED
  BY <1>2, <1>3, <1>4, <1>5

LEMMA RowLemma ==
  ASSUME NEW f, NEW i
  PROVE  RowErrors(f, i) = {} <=> Usable(f, i)
<1>1. RowErrors(f, i) = {} <=>
        /\ Given(f, i, "store_name")
        /\ \A c \in Coordinates : Given(f, i, c) => Parsed(f, i, c)
        /\ Placed(f, i) => \A c \in Coordinates : Given(f, i, c)
        /\ Given(f, i, "address") \/ Placed(f, i)
  BY DEF RowErrors, CoordinateErrors, PairErrors
<1>2. QED
  BY <1>1 DEF Given, Placed, Parsed, Coordinates, Usable

\* The checks of the server, one after the other, refuse what the reference does.
LEMMA VerdictLemma ==
  ASSUME NEW f \in Files
  PROVE  AcceptedIffUsable(f)
<1>1. Verdict(f) = "ok" <=>
        /\ f.type # "other" /\ f.size # "tooLarge" /\ f.parses
        /\ findDuplicates(f) = {} /\ REQUIRED_HEADERS \subseteq ColumnsOf(f)
        /\ f.records # <<>>
        /\ \A i \in DOMAIN f.records : RowErrors(f, i) = {}
  BY DEF Verdict, NoRows
<1>2. f.records # <<>> <=> Len(f.records) > 0
  BY FileLemma
<1>3. (\A i \in DOMAIN f.records : RowErrors(f, i) = {})
        <=> \A i \in 1..Len(f.records) : Usable(f, i)
  BY FileLemma, RowLemma
<1>4. QED
  BY <1>1, <1>2, <1>3, FileLemma, HeaderLemma DEF AcceptedIffUsable

\* What the server makes of a file: rows, some of them when it takes the file.
LEMMA HandledLemma ==
  ASSUME NEW f \in Offered
  PROVE  /\ Handled(f) \in [verdict : Verdicts, rows : Seq(Rows)]
         /\ Handled(f).verdict = "ok" => Handled(f).rows # <<>>
<1>1. f \in Files
  BY OfferedAssumption
<1>2. Verdict(f) \in Verdicts
  BY DEF Verdict, Verdicts
<1>3. StoredRows(f) \in Seq(Rows)
  <2>1. StoredRows(f) \in [1..Len(f.records) -> Rows] /\ Len(f.records) \in Nat
    BY <1>1, FileLemma DEF StoredRows, Rows, Given, Parsed
  <2>2. QED
    BY <2>1, SeqDef
<1>4. <<>> \in Seq(Rows)
  BY EmptySeq
<1>5. ASSUME Verdict(f) = "ok" PROVE StoredRows(f) # <<>>
  <2>1. f.records # <<>>
    BY <1>5 DEF Verdict, NoRows
  <2>2. 1 \in 1..Len(f.records) /\ DOMAIN StoredRows(f) = 1..Len(f.records)
    BY <1>1, <2>1, FileLemma DEF StoredRows
  <2>3. DOMAIN <<>> = {}
    OBVIOUS
  <2>4. QED
    BY <2>2, <2>3
<1>6. QED
  BY <1>2, <1>3, <1>4, <1>5 DEF Handled

(***************************************************************************)
(* The upload screen                                                       *)
(***************************************************************************)

\* A request under way has a file of the user's; one that was imported has left
\* stores, and so has one whose result is shown.
UploadInv ==
  /\ UploadTypeOK
  /\ \A r \in Requests : post[r] = "sent" => \E f \in Offered : carries[r] = Handled(f)
  /\ \A r \in Requests : post[r] = "imported" => portfolio # <<>>
  /\ ContinueHasStores

LEMMA UploadInitInv == UploadInit => UploadInv
<1>1. <<>> \in Seq(Rows)
  BY EmptySeq
<1>2. QED
  BY <1>1 DEF UploadInit, UploadInv, UploadTypeOK, ContinueHasStores

LEMMA UploadStep == UploadInv /\ [UploadNext]_uploadVars => UploadInv'
<1> SUFFICES ASSUME UploadInv, [UploadNext]_uploadVars PROVE UploadInv'
  OBVIOUS
<1> USE DEF UploadInv, UploadTypeOK, ContinueHasStores
<1>1. CASE UNCHANGED uploadVars
  BY <1>1 DEF uploadVars
<1>2. ASSUME NEW f \in Offered \union {NoFile}, ChooseFile(f) PROVE UploadInv'
  BY <1>2 DEF ChooseFile
<1>3. ASSUME NEW r \in Requests, Upload(r) PROVE UploadInv'
  <2>1. file \in Offered
    BY <1>3 DEF Upload
  <2>2. Handled(file) \in [verdict : Verdicts, rows : Seq(Rows)]
    BY <2>1, HandledLemma
  <2>3. /\ carries' = [carries EXCEPT ![r] = Handled(file)]
        /\ post' = [post EXCEPT ![r] = "sent"]
        /\ portfolio' = portfolio /\ shown' = "none" /\ uploading' = r /\ file' = file
    BY <1>3 DEF Upload
  <2>4. UploadTypeOK'
    BY <2>2, <2>3
  <2>5. ASSUME NEW q \in Requests, post'[q] = "sent"
        PROVE  \E f \in Offered : carries'[q] = Handled(f)
    BY <2>1, <2>3, <2>5
  <2>6. ASSUME NEW q \in Requests, post'[q] = "imported" PROVE portfolio' # <<>>
    BY <2>3, <2>6
  <2>7. \A f : Handled(f)' = Handled(f)
    BY DEF Handled
  <2>8. QED
    BY <2>3, <2>4, <2>5, <2>6, <2>7
<1>4. ASSUME NEW r \in Requests, NEW outcome \in {"imported", "refused"},
             Reply(r, outcome), portfolio' \in Seq(Rows),
             outcome = "imported" \/ portfolio # <<>> => portfolio' # <<>>
      PROVE  UploadInv'
  BY <1>4 DEF Reply, Handled
<1>5. ASSUME NEW r \in Requests, post[r] = "sent"
      PROVE  /\ carries[r].rows \in Seq(Rows)
             /\ carries[r].verdict = "ok" => carries[r].rows # <<>>
  BY <1>5, HandledLemma
<1>6. ASSUME NEW r \in Requests, Import(r) PROVE UploadInv'
  BY <1>4, <1>5, <1>6 DEF Import, Reply
<1>7. ASSUME NEW r \in Requests, Refuse(r) PROVE UploadInv'
  BY <1>4, <1>7 DEF Refuse
<1>8. ASSUME NEW r \in Requests, Fail(r) PROVE UploadInv'
  BY <1>4, <1>5, <1>8 DEF Fail, Reply
<1>9. CASE Answer
  BY <1>9 DEF Answer
<1>10. CASE GiveUp
  BY <1>10 DEF GiveUp
<1>11. QED
  BY <1>1, <1>2, <1>3, <1>6, <1>7, <1>8, <1>9, <1>10 DEF UploadNext

LEMMA UploadInvHolds == FormsSpec => []UploadInv
<1>1. FormsInit => UploadInv
  BY UploadInitInv DEF FormsInit
<1>2. UploadInv /\ [FormsNext]_formVars => UploadInv'
  <2> SUFFICES ASSUME UploadInv, [FormsNext]_formVars PROVE UploadInv'
    OBVIOUS
  <2>1. CASE Continue
    <3>1. <<>> \in Seq(Rows)
      BY EmptySeq
    <3>2. QED
      BY <2>1, <3>1 DEF Continue, UploadInv, UploadTypeOK, ContinueHasStores
  <2>2. CASE [UploadNext]_uploadVars
    BY <2>2, UploadStep
  <2>3. QED
    BY <2>1, <2>2 DEF FormsNext, FillUpload, FillSetup, formVars
<1>3. QED
  BY <1>1, <1>2, PTL DEF FormsSpec

\* Whatever files a user has, the server takes the usable ones and refuses the others
\* (controllers/portfolio.ts:27-81, helpers/csv.ts).
THEOREM AcceptsTheorem == FormsSpec => []AcceptsExactlyUsable
<1>1. UploadInv => AcceptsExactlyUsable
  <2> SUFFICES ASSUME UploadInv, file # NoFile PROVE AcceptedIffUsable(file)
    BY DEF AcceptsExactlyUsable
  <2>1. file \in Files
    BY OfferedAssumption DEF UploadInv, UploadTypeOK
  <2>2. QED
    BY <2>1, VerdictLemma
<1>2. QED
  BY <1>1, UploadInvHolds, PTL

\* The way on opens with stores only, however many requests overlap and whichever are
\* given up (UploadPage.tsx:63-72).
THEOREM ContinueTheorem == FormsSpec => []ContinueHasStores
<1>1. UploadInv => ContinueHasStores
  BY DEF UploadInv
<1>2. QED
  BY <1>1, UploadInvHolds, PTL

\* An accepted market is within what the server checks.
MarketInv ==
  market = NoBox
    \/ /\ {market.minLat, market.maxLat} \subseteq (-LatLimit)..LatLimit
       /\ {market.minLng, market.maxLng} \subseteq (-LngLimit)..LngLimit

\* Both screens keep their types (UploadPage.tsx:13-61, BoundaryEditor.tsx:95-176).
THEOREM FormsTypeCorrect == FormsSpec => []FormsTypeOK
<1> DEFINE Rest == MarketInv /\ thrown \in BOOLEAN /\ page \in {"upload", "setup"}
<1>1. FormsInit => Rest
  BY DEF FormsInit, BoundaryInit, MarketInv
<1>2. Rest /\ [FormsNext]_formVars => Rest'
  <2> SUFFICES ASSUME Rest, [FormsNext]_formVars PROVE Rest'
    OBVIOUS
  <2>1. CASE UNCHANGED <<market, thrown>>
    BY <2>1 DEF MarketInv, FormsNext, FillUpload, Continue, FillSetup, formVars
  <2>2. CASE Submit /\ FillSetup
    BY <2>2 DEF Submit, FillSetup, ValidBoundary, MarketInv
  <2>3. CASE Decompose /\ FillSetup
    BY <2>3 DEF Decompose, FillSetup, MarketInv
  <2>4. QED
    BY <2>1, <2>2, <2>3
       DEF FormsNext, FillUpload, Continue, FillSetup, formVars, boundaryVars,
           BoundaryNext, Draw, Edit, LoadCity, ClearCity, DragCorner, PickUp, Drop, Move, CommitField
<1>3. BoxInv /\ UploadInv /\ Rest => FormsTypeOK
  <2> SUFFICES ASSUME BoxInv, UploadInv, Rest PROVE BoundaryTypeOK
    BY DEF FormsTypeOK, UploadInv
  <2>1. tiles \subseteq Int \X Int
    <3>1. CASE tiles = {}
      BY <3>1
    <3>2. CASE tiles # {}
      <4>1. market \in Boxes /\ tiles = tileKeysForBbox(market)
        BY <3>2 DEF BoxInv, Solid
      <4>2. QED
        BY <4>1, FloorLemma DEF tileKeysForBbox, Boxes
    <3>3. QED
      BY <3>1, <3>2
  <2>2. QED
    BY <2>1 DEF BoundaryTypeOK, BoxInv, Drawable, Solid, MarketInv
<1>4. QED
  BY <1>1, <1>2, <1>3, BoxInvHolds, UploadInvHolds, PTL DEF FormsSpec

(***************************************************************************)
(* The save of a tile                                                      *)
(***************************************************************************)

\* The row of a tile is held exactly by the open save of it: at most one.
HolderInv ==
  /\ \A s \in Saves : Open(s) => holder[PairOf[s]] = s
  /\ \A p \in Pairs : holder[p] # NoSave =>
       Open(holder[p]) /\ PairOf[holder[p]] = p

\* A save past its DELETE has deleted all its tile has, any other nothing.
DoomedInv ==
  \A s \in Saves :
    doomed[s] = IF save[s] \in {"deleted", "inserted"}
                THEN RowsOf(PairOf[s]) ELSE {}

IInv == TypeOK /\ HolderInv /\ DoomedInv

LEMMA InitIInv == Init => IInv
BY PairOfAssumption, NoSaveAssumption DEF Init, IInv, TypeOK, HolderInv, DoomedInv, Open

\* Types.  Only a commit could disturb them: the rows it removes must not be
\* among those another open save has deleted.
LEMMA TypeStep ==
  ASSUME IInv, [Next]_vars
  PROVE  TypeOK'
<1> USE PairOfAssumption DEF IInv, TypeOK
<1>1. ASSUME NEW s \in Saves, NEW answer \in SUBSET Shops, Upsert(s, answer)
      PROVE  TypeOK'
  BY <1>1 DEF Upsert, Ran
<1>2. ASSUME NEW s \in Saves, Delete(s)
      PROVE  TypeOK'
  <2>1. RowsOf(PairOf[s]) \subseteq store
    BY DEF RowsOf
  <2> QED BY <1>2, <2>1 DEF Delete, Ran
<1>3. ASSUME NEW s \in Saves, Insert(s)
      PROVE  TypeOK'
  BY <1>3 DEF Insert, Ran
<1>4. ASSUME NEW s \in Saves, Commit(s)
      PROVE  TypeOK'
  <2>1. /\ store' \subseteq Pairs \X Shops
        /\ fetch' \in [Pairs -> {"missing", "stale", "fresh"}]
        /\ save' \in [Saves -> {"idle", "upserted", "deleted", "inserted", "done", "failed"}]
        /\ found' \in [Saves -> SUBSET Shops]
    BY <1>4 DEF Commit, Ran
  <2>2. holder' \in [Pairs -> Saves \union {NoSave}]
    BY <1>4 DEF Commit, End
  <2>3. save[s] = "inserted" /\ Open(s)
    BY <1>4 DEF Commit, Ran, Open
  <2>4. ASSUME NEW t \in Saves, t # s
        PROVE  doomed[t] \intersect doomed[s] = {}
    <3>1. CASE save[t] \in {"deleted", "inserted"}
      <4>1. PairOf[t] # PairOf[s]
        BY <2>3, <2>4, <3>1 DEF HolderInv, Open
      <4>2. doomed[t] = RowsOf(PairOf[t]) /\ doomed[s] = RowsOf(PairOf[s])
        BY <2>3, <3>1 DEF DoomedInv
      <4> QED BY <4>1, <4>2 DEF RowsOf
    <3>2. CASE save[t] \notin {"deleted", "inserted"}
      BY <3>2 DEF DoomedInv
    <3> QED BY <3>1, <3>2
  <2>5. doomed' \in [Saves -> SUBSET store']
    <3>1. store' = (store \ doomed[s]) \union ({PairOf[s]} \X found[s])
      BY <1>4 DEF Commit
    <3>2. doomed' = [doomed EXCEPT ![s] = {}]
      BY <1>4 DEF Commit, End
    <3> QED BY <2>4, <3>1, <3>2
  <2> QED BY <2>1, <2>2, <2>5
<1>5. ASSUME NEW s \in Saves, Rollback(s)
      PROVE  TypeOK'
  BY <1>5 DEF Rollback, End
<1>6. ASSUME NEW p \in Pairs, Expire(p)
      PROVE  TypeOK'
  BY <1>6 DEF Expire
<1>7. CASE UNCHANGED vars
  BY <1>7 DEF vars
<1> QED BY <1>1, <1>2, <1>3, <1>4, <1>5, <1>6, <1>7 DEF Next

\* The row lock, taken by the upsert and given up at the transaction's end.
LEMMA HolderStep ==
  ASSUME IInv, [Next]_vars
  PROVE  HolderInv'
<1> USE PairOfAssumption, NoSaveAssumption DEF IInv, TypeOK, HolderInv, Open
<1>1. ASSUME NEW s \in Saves, NEW answer \in SUBSET Shops, Upsert(s, answer)
      PROVE  HolderInv'
  BY <1>1 DEF Upsert, Ran
<1>2. ASSUME NEW s \in Saves, Delete(s)
      PROVE  HolderInv'
  BY <1>2 DEF Delete, Ran
<1>3. ASSUME NEW s \in Saves, Insert(s)
      PROVE  HolderInv'
  BY <1>3 DEF Insert, Ran
<1>4. ASSUME NEW s \in Saves, Commit(s)
      PROVE  HolderInv'
  BY <1>4 DEF Commit, Ran, End
<1>5. ASSUME NEW s \in Saves, Rollback(s)
      PROVE  HolderInv'
  BY <1>5 DEF Rollback, End
<1>6. ASSUME NEW p \in Pairs, Expire(p)
      PROVE  HolderInv'
  BY <1>6 DEF Expire
<1>7. CASE UNCHANGED vars
  BY <1>7 DEF vars
<1> QED BY <1>1, <1>2, <1>3, <1>4, <1>5, <1>6, <1>7 DEF Next

\* Only a commit changes the rows, and no other save of its tile is open.
LEMMA DoomedStep ==
  ASSUME IInv, [Next]_vars
  PROVE  DoomedInv'
<1> USE PairOfAssumption DEF IInv, TypeOK, DoomedInv
<1>1. ASSUME NEW s \in Saves, NEW answer \in SUBSET Shops, Upsert(s, answer)
      PROVE  DoomedInv'
  BY <1>1 DEF Upsert, Ran, RowsOf
<1>2. ASSUME NEW s \in Saves, Delete(s)
      PROVE  DoomedInv'
  BY <1>2 DEF Delete, Ran, RowsOf
<1>3. ASSUME NEW s \in Saves, Insert(s)
      PROVE  DoomedInv'
  BY <1>3 DEF Insert, Ran, RowsOf
<1>4. ASSUME NEW s \in Saves, Commit(s)
      PROVE  DoomedInv'
  <2>1. /\ save[s] = "inserted"
        /\ save' = [save EXCEPT ![s] = "done"]
        /\ doomed' = [doomed EXCEPT ![s] = {}]
        /\ store' = (store \ doomed[s]) \union ({PairOf[s]} \X found[s])
    BY <1>4 DEF Commit, Ran, End
  <2>2. doomed[s] = RowsOf(PairOf[s])
    BY <2>1
  <2>3. ASSUME NEW t \in Saves, t # s, save[t] \in {"deleted", "inserted"}
        PROVE  doomed'[t] = RowsOf(PairOf[t])'
    <3>1. PairOf[t] # PairOf[s]
      BY <2>1, <2>3 DEF HolderInv, Open
    <3>2. doomed'[t] = RowsOf(PairOf[t])
      BY <2>1, <2>3
    <3>3. RowsOf(PairOf[t])' = RowsOf(PairOf[t])
      BY <2>1, <2>2, <3>1 DEF RowsOf
    <3> QED BY <3>2, <3>3
  <2> QED BY <2>1, <2>3
<1>5. ASSUME NEW s \in Saves, Rollback(s)
      PROVE  DoomedInv'
  BY <1>5 DEF Rollback, End, RowsOf
<1>6. ASSUME NEW p \in Pairs, Expire(p)
      PROVE  DoomedInv'
  BY <1>6 DEF Expire, RowsOf
<1>7. CASE UNCHANGED vars
  BY <1>7 DEF vars, RowsOf
<1> QED BY <1>1, <1>2, <1>3, <1>4, <1>5, <1>6, <1>7 DEF Next

LEMMA SpecIInv == Spec => []IInv
<1>1. IInv /\ [Next]_vars => IInv'
  BY TypeStep, HolderStep, DoomedStep DEF IInv
<1> QED BY InitIInv, <1>1, PTL DEF Spec

\* The types hold: what a transaction has deleted is among the committed rows
\* until it ends (repositories/discovery.ts:26-87).
THEOREM SaveTypeCorrect == Spec => []TypeOK
<1>1. IInv => TypeOK
  BY DEF IInv
<1> QED BY SpecIInv, <1>1, PTL

\* The unique constraint never refuses a save, whatever saves of the same tile
\* overlap it (repositories/discovery.ts:40-53).
THEOREM NeverRefusedTheorem == Spec => []NeverRefused
<1>1. IInv => NeverRefused
  BY PairOfAssumption DEF IInv, DoomedInv, NeverRefused, Duplicates, RowsOf
<1> QED BY SpecIInv, <1>1, PTL

\* What a commit leaves: its tile has the answer's stores, every other its own.
LEMMA CommitSaves ==
  ASSUME IInv, NEW s \in Saves, Commit(s)
  PROVE  Cache!Save(PairOf[s], found[s])
<1> DEFINE old(p) == {x \in Shops : <<p, x>> \in store}
<1>1. /\ doomed[s] = RowsOf(PairOf[s])
      /\ store' = (store \ doomed[s]) \union ({PairOf[s]} \X found[s])
  BY DEF Commit, Ran, IInv, DoomedInv
<1>2. found[s] \subseteq Shops /\ PairOf[s] \in Pairs
  BY PairOfAssumption DEF IInv, TypeOK
<1>3. ASSUME NEW p \in Pairs
      PROVE  old(p)' = IF p = PairOf[s] THEN found[s] ELSE old(p)
  BY <1>1, <1>2, <1>3 DEF RowsOf
<1>4. [p \in Pairs |-> old(p)]' = [[p \in Pairs |-> old(p)] EXCEPT ![PairOf[s]] = found[s]]
  BY <1>2, <1>3
<1>5. fetch' = [fetch EXCEPT ![PairOf[s]] = "fresh"]
  BY DEF Commit
<1> QED BY <1>4, <1>5 DEF Cache!Save

\* The transaction implements the cache: a commit is a Save of TileStore, an
\* expiry its Expire, and no other statement shows (repositories/discovery.ts:26-87).
THEOREM TileStoreTheorem == Spec => ImplementsTileStore
<1>1. Init => Cache!Init
  <2>1. SUFFICES ASSUME Init PROVE Cache!Init
    OBVIOUS
  <2>2. Cache!TypeOK
    BY <2>1 DEF Init, Cache!TypeOK
  <2>3. ASSUME NEW p \in Pairs, fetch[p] = "missing"
        PROVE  {x \in Shops : <<p, x>> \in store} = {}
    BY <2>1, <2>3 DEF Init
  <2> QED BY <2>2, <2>3 DEF Cache!Init
<1>2. ASSUME IInv, [Next]_vars
      PROVE  [Cache!Next]_<<fetch, [p \in Pairs |-> {x \in Shops : <<p, x>> \in store}]>>
  <2>1. CASE UNCHANGED <<fetch, store>>
    BY <2>1
  <2>2. ASSUME NEW s \in Saves, Commit(s)
        PROVE  Cache!Next
    <3>1. Cache!Save(PairOf[s], found[s])
      BY <1>2, <2>2, CommitSaves
    <3>2. found[s] \in SUBSET Shops /\ PairOf[s] \in Pairs
      BY <1>2, PairOfAssumption DEF IInv, TypeOK
    <3> QED BY <3>1, <3>2 DEF Cache!Next, Cache!Save
  <2>3. ASSUME NEW p \in Pairs, Expire(p)
        PROVE  Cache!Next
    <3>1. Cache!Expire(p)
      BY <2>3 DEF Expire, Cache!Expire
    <3> QED BY <3>1 DEF Cache!Next
  <2>4. \/ UNCHANGED <<fetch, store>>
        \/ \E s \in Saves : Commit(s)
        \/ \E p \in Pairs : Expire(p)
    BY <1>2 DEF Next, vars, Upsert, Delete, Insert, Rollback
  <2> QED BY <2>1, <2>2, <2>3, <2>4
<1> QED BY <1>1, <1>2, SpecIInv, PTL DEF Spec, ImplementsTileStore, Cache!Spec

(***************************************************************************)
(* List and count                                                          *)
(***************************************************************************)

\* A tile that has a position within a range of them on one axis, edges not
\* counted, is among those the range touches.
LEMMA InnerTileLemma ==
  ASSUME NEW low \in Int, NEW high \in Int, NEW n \in Int, NEW i \in Int,
         low < n, n < high, n \in (i * Step)..((i + 1) * Step)
  PROVE  i \in (low \div Step)..(high \div Step)
<1>1. /\ low \div Step \in Int /\ low \div Step <= i
      /\ high \div Step \in Int /\ i <= high \div Step
  BY StepAssumption
<1> QED BY <1>1

\* A store in the market and in a tile is in one of the market's tiles.
LEMMA TileOfMarket ==
  ASSUME NEW key \in Int \X Int, NEW at \in Int \X Int,
         Contains(Boundary, at), Inside(tileKeyToBbox(key), at[1], at[2])
  PROVE  key \in tileKeysForBbox(Boundary)
<1> USE DashboardAssumption DEF Boxes
<1>1. /\ Boundary.minLat < at[1] /\ at[1] < Boundary.maxLat
      /\ Boundary.minLng < at[2] /\ at[2] < Boundary.maxLng
  BY DEF Contains
<1>2. /\ at[1] \in (key[1] * Step)..((key[1] + 1) * Step)
      /\ at[2] \in (key[2] * Step)..((key[2] + 1) * Step)
  BY DEF Inside, tileKeyToBbox, Box
<1>3. key[1] \in (Boundary.minLat \div Step)..(Boundary.maxLat \div Step)
  BY <1>1, <1>2, InnerTileLemma
<1>4. key[2] \in (Boundary.minLng \div Step)..(Boundary.maxLng \div Step)
  BY <1>1, <1>2, InnerTileLemma
<1> QED BY <1>3, <1>4 DEF tileKeysForBbox

\* A row of the market that was there at the count was counted, unless its tile is
\* none of the market's; and what was counted is gone only after a save.
CountInv ==
  /\ \A r \in RowsInMarket :
       \/ r[1] \in resaved \/ r[2] \in counted
       \/ TileOf[r[1]] \notin tileKeysForBbox(Boundary)
  /\ \A x \in counted \ findDiscoveredStores :
       \E p \in resaved : CategoryOf[p] \in categories

DashboardInv == IInv /\ CountInv

LEMMA DashboardInvInit == DashboardInit => DashboardInv
<1> SUFFICES ASSUME DashboardInit PROVE CountInv
  BY InitIInv DEF DashboardInit, DashboardInv
<1>1. \A r \in RowsInMarket : r[1] \in Pairs
  BY DEF RowsInMarket, DashboardInit, Init
<1> QED BY <1>1 DEF DashboardInit, CountInv

LEMMA StepIInv == IInv /\ [Next]_vars => IInv'
BY TypeStep, HolderStep, DoomedStep DEF IInv

\* A commit is the only step that changes rows: those of its pair, which is then
\* saved since the count.
LEMMA OtherRows ==
  ASSUME IInv, Next
  PROVE  \A p \in Pairs : p \notin Saved => RowsOf(p)' = RowsOf(p)
<1>1. CASE UNCHANGED store
  BY <1>1 DEF RowsOf
<1>2. ASSUME NEW s \in Saves, Commit(s)
      PROVE  \A p \in Pairs : p \notin Saved => RowsOf(p)' = RowsOf(p)
  <2>1. PairOf[s] \in Saved
    BY <1>2 DEF Commit, Ran, Saved, IInv, TypeOK
  <2>2. store' = (store \ RowsOf(PairOf[s])) \union ({PairOf[s]} \X found[s])
    BY <1>2 DEF Commit, Ran, IInv, DoomedInv
  <2> QED BY <2>1, <2>2 DEF RowsOf
<1>3. \/ UNCHANGED store
      \/ \E s \in Saves : Commit(s)
  BY DEF Next, Upsert, Delete, Insert, Rollback, Expire
<1> QED BY <1>1, <1>2, <1>3

LEMMA CountStep == DashboardInv /\ [DashboardNext]_dashboardVars => CountInv'
<1> SUFFICES ASSUME DashboardInv, [DashboardNext]_dashboardVars PROVE CountInv'
  OBVIOUS
<1> USE DEF DashboardInv
<1>1. CASE UNCHANGED dashboardVars
  BY <1>1 DEF dashboardVars, vars, CountInv, RowsInMarket, findDiscoveredStores
<1>2. CASE CountDiscovered
  BY <1>2 DEF CountDiscovered, vars, CountInv, RowsInMarket, findDiscoveredStores,
              countDiscoveredInMarket
<1>3. CASE OtherRuns
  <2>1. /\ resaved' = resaved \union Saved
        /\ categories' = categories /\ counted' = counted
        /\ store \subseteq Pairs \X Shops /\ store' \subseteq Pairs \X Shops
    BY <1>3, StepIInv DEF OtherRuns, IInv, TypeOK
  <2>2. \A p \in Pairs : p \notin Saved => RowsOf(p)' = RowsOf(p)
    BY <1>3, OtherRows DEF OtherRuns
  <2>3. ASSUME NEW r \in RowsInMarket'
        PROVE  \/ r[1] \in resaved' \/ r[2] \in counted'
               \/ TileOf[r[1]] \notin tileKeysForBbox(Boundary)
    <3>1. CASE r[1] \in Saved
      BY <2>1, <3>1
    <3>2. CASE r[1] \notin Saved
      <4>1. r \in RowsOf(r[1])' /\ r[1] \in Pairs
        BY <2>1 DEF RowsInMarket, RowsOf
      <4>2. r \in RowsInMarket
        BY <2>1, <2>2, <3>2, <4>1 DEF RowsInMarket, RowsOf
      <4> QED BY <2>1, <4>2 DEF CountInv
    <3> QED BY <3>1, <3>2
  <2>4. ASSUME NEW x \in counted' \ findDiscoveredStores'
        PROVE  \E p \in resaved' : CategoryOf[p] \in categories'
    <3>1. CASE x \notin findDiscoveredStores
      BY <2>1, <2>4, <3>1 DEF CountInv
    <3>2. CASE x \in findDiscoveredStores
      <4>1. PICK r \in RowsInMarket : r[2] = x
        BY <3>2 DEF findDiscoveredStores
      <4>2. r[1] \in Pairs /\ CategoryOf[r[1]] \in categories /\ r \in RowsOf(r[1])
        BY <2>1 DEF RowsInMarket, RowsOf
      <4>3. r \notin RowsInMarket'
        BY <2>4, <4>1 DEF findDiscoveredStores
      <4>4. r \notin store'
        BY <2>1, <4>3, <4>1 DEF RowsInMarket
      <4>5. r[1] \in Saved
        BY <2>2, <4>2, <4>4 DEF RowsOf
      <4> QED BY <2>1, <4>2, <4>5
    <3> QED BY <3>1, <3>2
  <2> QED BY <2>3, <2>4 DEF CountInv
<1> QED BY <1>1, <1>2, <1>3 DEF DashboardNext

\* For every market and cache: the dashboard's list and the count of the list of
\* markets differ by saves made since and by strays only
\* (repositories/dashboard.ts:119-127).
THEOREM ListTheorem == DashboardSpec => []ListMatchesCount
<1>1. DashboardInv /\ [DashboardNext]_dashboardVars => DashboardInv'
  <2> SUFFICES ASSUME DashboardInv, [DashboardNext]_dashboardVars PROVE IInv'
    BY CountStep DEF DashboardInv
  <2>1. [Next]_vars
    BY DEF DashboardNext, OtherRuns, CountDiscovered, dashboardVars
  <2> QED BY <2>1, StepIInv DEF DashboardInv
<1>2. DashboardInv => ListMatchesCount
  <2> SUFFICES ASSUME DashboardInv, NEW x \in findDiscoveredStores \ counted,
                      \A p \in resaved : ~(<<p, x>> \in store /\ CategoryOf[p] \in categories)
               PROVE  Stray(x)
    BY DEF DashboardInv, CountInv, ListMatchesCount
  <2> DEFINE rows == {q \in RowsInMarket : q[2] = x}
  <2>1. rows # {}
    BY DEF findDiscoveredStores
  <2>2. ASSUME NEW q \in rows
        PROVE  ~Inside(tileKeyToBbox(TileOf[q[1]]), Place[x][1], Place[x][2])
    <3>1. /\ q = <<q[1], x>> /\ q \in store /\ q[1] \in Pairs /\ x \in Shops
          /\ CategoryOf[q[1]] \in categories /\ Contains(Boundary, Place[x])
      BY DEF DashboardInv, IInv, TypeOK, RowsInMarket
    <3>2. TileOf[q[1]] \notin tileKeysForBbox(Boundary)
      BY <3>1 DEF DashboardInv, CountInv
    <3>3. TileOf[q[1]] \in Int \X Int /\ Place[x] \in Int \X Int
      BY <3>1, DashboardAssumption
    <3> QED BY <3>1, <3>2, <3>3, TileOfMarket
  <2> QED BY <2>1, <2>2 DEF Stray
<1> QED BY <1>1, <1>2, DashboardInvInit, PTL DEF DashboardSpec
=================================================================================
