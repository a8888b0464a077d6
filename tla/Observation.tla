----------------------------- MODULE Observation -----------------------------
(***************************************************************************)
(* Making one observation out of the raw fields of a source's row          *)
(* (domain/records.py with domain/normalize.py), and the constraints the   *)
(* observations table puts on what is stored.                              *)
(*                                                                         *)
(* A field is a text known by what its parser reads: an integer; Missing,  *)
(* one of the markers that mean "no figure"; Garbled, no number at all; or *)
(* for a year Fractional, a number of no whole year such as 2020.0 or inf. *)
(***************************************************************************)
EXTENDS Integers, Sequences

CONSTANTS
    Codes,          \* texts of the shape AAA
    Aggregates,     \* KNOWN_AGGREGATE_CODES
    Spellings,      \* other texts -> the text strip().upper() makes of them
    Malformed,      \* a text of another shape, and not blank
    ThisYear,
    Missing,
    Garbled,
    Fractional

ASSUME ThisYearAssumption == ThisYear \in 1960..2099
ASSUME SpellingsAssumption == DOMAIN Spellings \cap Codes = {}
ASSUME MarkersAssumption ==
    /\ Missing \notin Int /\ Garbled \notin Int /\ Fractional \notin Int
    /\ Malformed \notin Codes /\ Missing \notin Codes

(* What the fields of a row may hold.                                      *)
Text == Codes \cup DOMAIN Spellings \cup {Malformed, Missing}
Year == Int \cup {Missing, Garbled, Fractional}
Rate == Int \cup {Missing, Garbled}

MIN_SUPPORTED_YEAR == 1960

Upper(text) == IF text \in DOMAIN Spellings THEN Spellings[text] ELSE text

IsCountry(text) == Upper(text) \in Codes \ Aggregates
IsYear(year) == year \in MIN_SUPPORTED_YEAR..(ThisYear + 1)
IsRate(value) == value \in 0..100

(* Faulty: any number is a figure.                                         *)
CreateAnyFigure(text, year, value) ==
    IF ~IsCountry(text) \/ ~IsYear(year) THEN "rejected"
    ELSE IF value = Missing THEN "missing"
    ELSE IF value \in Int THEN "observed"
    ELSE "rejected"

(* Observation.create, which looks at the country, then the year, then the *)
(* figure, and stops at the first that is unusable.                        *)
Create(text, year, value) ==
    IF ~IsCountry(text) \/ ~IsYear(year) THEN "rejected"
    ELSE IF value = Missing THEN "missing"
    ELSE IF IsRate(value) THEN "observed"
    ELSE "rejected"

Observed(text, year, value) == [fact |-> <<Upper(text), year>>, value |-> value]

(* A canonical record, attributed to its source by whoever holds it.       *)
Observations == [fact : Codes \X Int, value : Int]

(* The CHECK constraints of the observations table.                        *)
FitsSchema(row) ==
    /\ row.fact[1] \in Codes
    /\ row.fact[2] \in 1960..2100
    /\ row.value \in 0..100
=============================================================================
