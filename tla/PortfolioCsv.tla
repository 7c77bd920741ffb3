------------------------------ MODULE PortfolioCsv ------------------------------
(***************************************************************************)
(* What the server makes of an uploaded file (routes/portfolio.ts,         *)
(* controllers/portfolio.ts, helpers/csv.ts): the one check that refuses   *)
(* it, or the rows it stores.                                              *)
(*                                                                         *)
(* A cell is the class of its text: blank, some text, a number within a    *)
(* coordinate's limits or one beyond them.  The columns that only describe *)
(* a store are left out of the records.                                    *)
(***************************************************************************)
EXTENDS FiniteSets, Sequences, Functions

CONSTANTS
  Headers,         \* headers as files spell them
  normalizeHeader  \* the column name each becomes: trimmed, lower case, with _

ASSUME HeaderAssumption == normalizeHeader \in [Headers -> STRING]

REQUIRED_HEADERS == {"store_name", "address", "city", "state", "country", "category"}
Coordinates == {"latitude", "longitude"}
Cells == {"blank", "text", "number", "far"}

Files ==
  [type : {"csv", "other"},      \* by its media type or its name
   size : {"fits", "tooLarge"},  \* against MAX_UPLOAD_BYTES
   parses : BOOLEAN,             \* csv-parse gets through it
   header : Seq(Headers),
   records : Seq([{"store_name", "address"} \union Coordinates -> Cells])]

ColumnsOf(file) == {normalizeHeader[h] : h \in Range(file.header)}

\* Duplicates of the headers as they are spelt.
RepeatedHeaders(file) ==
  {file.header[i] : i \in {j \in DOMAIN file.header :
                             \E k \in 1..(j - 1) : file.header[k] = file.header[j]}}

findDuplicates(file) ==
  {normalizeHeader[file.header[i]] :
     i \in {j \in DOMAIN file.header :
              \E k \in 1..(j - 1) :
                normalizeHeader[file.header[k]] = normalizeHeader[file.header[j]]}}

\* A column the file has not is undefined in its records, and so blank.
Cell(file, i, column) ==
  IF column \in ColumnsOf(file) THEN file.records[i][column] ELSE "blank"

Given(file, i, column) == Cell(file, i, column) # "blank"
Placed(file, i) == \E c \in Coordinates : Given(file, i, c)

\* parseCoordinate: a number within its limits, or null, with an error unless blank.
Parsed(file, i, column) == Cell(file, i, column) = "number"
CoordinateErrors(file, i) ==
  {c \in Coordinates : Given(file, i, c) /\ ~Parsed(file, i, c)}

\* One coordinate without the other: the error is the other's.
PairErrors(file, i) == {c \in Coordinates : Placed(file, i) /\ ~Given(file, i, c)}

\* validateRow: the columns it has an error for.
RowErrors(file, i) ==
  {c \in {"store_name"} : ~Given(file, i, c)}
  \union CoordinateErrors(file, i)
  \union PairErrors(file, i)
  \union {c \in {"address"} : ~Given(file, i, c) /\ ~Placed(file, i)}

NoRows(file) == file.records = <<>>

Verdicts ==
  {"unsupported", "tooLarge", "malformed", "duplicateColumns", "missingColumns", "noRows",
   "invalidRows", "ok"}

\* The check that refuses the file is the first that fails.
Verdict(file) ==
  IF file.type = "other" THEN "unsupported"
  ELSE IF file.size = "tooLarge" THEN "tooLarge"
  ELSE IF ~file.parses THEN "malformed"
  ELSE IF findDuplicates(file) # {} THEN "duplicateColumns"
  ELSE IF ~(REQUIRED_HEADERS \subseteq ColumnsOf(file)) THEN "missingColumns"
  ELSE IF NoRows(file) THEN "noRows"
  ELSE IF \E i \in DOMAIN file.records : RowErrors(file, i) # {} THEN "invalidRows"
  ELSE "ok"

\* What the table keeps of each row: whether it has a name and an address, and a
\* location, which takes both coordinates.
StoredRows(file) ==
  [i \in DOMAIN file.records |->
     [named |-> Given(file, i, "store_name"),
      addressed |-> Given(file, i, "address"),
      located |-> \A c \in Coordinates : Parsed(file, i, c)]]

(***************************************************************************)
(* Reference                                                               *)
(***************************************************************************)

\* A row a market can use: it has a name, and a whole position or, with nothing in
\* either coordinate, an address to find it by.
Usable(file, i) ==
  /\ Cell(file, i, "store_name") # "blank"
  /\ \/ Cell(file, i, "latitude") = "number" /\ Cell(file, i, "longitude") = "number"
     \/ /\ Cell(file, i, "latitude") = "blank" /\ Cell(file, i, "longitude") = "blank"
        /\ Cell(file, i, "address") # "blank"

OneColumnEach(file) ==
  \A i, j \in DOMAIN file.header :
    normalizeHeader[file.header[i]] = normalizeHeader[file.header[j]] => i = j

\* The file is taken exactly when it is a CSV file that can be read, every column
\* has one header, the required ones are there, and it has rows, usable ones only.
AcceptedIffUsable(file) ==
  Verdict(file) = "ok" <=>
    /\ file.type = "csv" /\ file.size = "fits" /\ file.parses
    /\ OneColumnEach(file) /\ REQUIRED_HEADERS \subseteq ColumnsOf(file)
    /\ Len(file.records) > 0
    /\ \A i \in 1..Len(file.records) : Usable(file, i)
=============================================================================
