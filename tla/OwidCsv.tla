------------------------------- MODULE OwidCsv -------------------------------
(***************************************************************************)
(* Our World in Data's CSV download (sources/owid_csv.py): one body, a     *)
(* filter over its columns, and the rows that are left made into           *)
(* observations.                                                           *)
(***************************************************************************)
EXTENDS Extraction

CONSTANTS
    Downloads,      \* bodies: [columns, rows], or Unparseable
    Unparseable

CsvRow == [code : Text, year : Year, value : Rate]

ASSUME DownloadsAssumption ==
    \A body \in Downloads \ {Unparseable} : body.rows \in Seq(CsvRow)

REQUIRED_COLUMNS == {"entity", "code", "year", "sl_uem_totl_zs"}

(* pd.to_numeric(year) >= min_year: a text that is no number compares as   *)
(* false, a fraction or infinity as the number it is (the fractions here   *)
(* are later than any MIN_YEAR).                                           *)
Reaches(year) == year = Fractional \/ (year \in Int /\ year >= config.min_year)

(* Faulty: the frame is not filtered by year.                              *)
InFrameAnyYear(row) ==
    /\ row.code \in Codes \ Aggregates
    /\ Wants(row.code)

(* The filter in pandas; it matches the code as it is written.             *)
InFrame(row) ==
    /\ row.code \in Codes \ Aggregates
    /\ Wants(row.code)
    /\ Reaches(row.year)

(* ValueMissing is a RecordRejected and nothing catches it before.         *)
CsvRowFate(row) ==
    IF ~InFrame(row) THEN "skipped"
    ELSE IF Create(row.code, row.year, row.value) = "observed" THEN "observed"
    ELSE "rejected"

CsvReadable(body) ==
    /\ body # Unparseable
    /\ REQUIRED_COLUMNS \subseteq body.columns

ReadsFrame == CsvReadable(published) /\ Receives(published.rows)

FrameRaises == ~CsvReadable(published) /\ DocumentRaises

ClassifiesCsvRow ==
    Takes(CsvRowFate(NextRow), Observed(NextRow.code, NextRow.year, NextRow.value))

OwidStep == ReadsFrame \/ FrameRaises \/ ClassifiesCsvRow \/ Ends("returned")
=============================================================================
