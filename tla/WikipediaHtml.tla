---------------------------- MODULE WikipediaHtml ----------------------------
(***************************************************************************)
(* Wikipedia's table (sources/wikipedia_html.py): two header rows, the     *)
(* column of one publisher found in the second, and that column read for   *)
(* the countries the pipeline tracks.                                      *)
(*                                                                         *)
(* A cell is a text known by what three parsers read in it: a country's    *)
(* name, a figure, and a publisher with a year.  Its field "of" is whose   *)
(* figure it is, which no parser can see.                                  *)
(***************************************************************************)
EXTENDS Extraction

CONSTANTS
    Articles,               \* sequences of table rows, or NoTable
    NoTable,
    COUNTRY_NAME_TO_ISO3,   \* cleaned name -> code
    NoName,                 \* a text with nothing left when cleaned
    OtherName,              \* any other text
    Providers               \* what a header cell may name, or no provider

ASSUME TrackedAssumption ==
    \A name \in DOMAIN COUNTRY_NAME_TO_ISO3 :
        COUNTRY_NAME_TO_ISO3[name] \in Codes \ Aggregates
ASSUME NoNameAssumption == NoName \notin DOMAIN COUNTRY_NAME_TO_ISO3

Cell == [name : DOMAIN COUNTRY_NAME_TO_ISO3 \cup {NoName, OtherName},
         figure : Rate, label : [provider : Providers, year : Nat], of : Providers]

ASSUME ArticlesAssumption ==
    \A article \in Articles \ {NoTable} : article \in Seq(Seq(Cell))

PROVIDER == "CIA"

VARIABLE column     \* what _locate_column found: an offset and a year

NoColumn == [offset |-> 0, year |-> 0]

(* The first cell whose text is PROVIDER and a year in brackets.           *)
Locates(header, offset) ==
    /\ header[offset + 1].label.provider = PROVIDER
    /\ \A i \in 1..offset : header[i].label.provider # PROVIDER

Located(header) == {offset \in 0..(Len(header) - 1) : Locates(header, offset)}

TableReadable(article) ==
    /\ article # NoTable
    /\ Len(article) >= 3
    /\ Located(article[2]) # {}

ReadsTable ==
    /\ TableReadable(published)
    /\ Receives(SubSeq(published, 3, Len(published)))
    /\ \E offset \in Located(published[2]) :
           column' = [offset |-> offset, year |-> published[2][offset + 1].label.year]

TableRaises ==
    /\ ~TableReadable(published)
    /\ DocumentRaises
    /\ UNCHANGED column

(* Faulty: the country's cell is not counted.                              *)
value_indexUncounted == column.offset

(* One past the offset, for the country's cell in front (from zero).       *)
value_index == column.offset + 1

ValueCell(row) == row[value_index + 1]
Tracked(row) == row[1].name \in DOMAIN COUNTRY_NAME_TO_ISO3
Iso3(row) == COUNTRY_NAME_TO_ISO3[row[1].name]

TableRowFate(row) ==
    IF Len(row) <= value_index THEN "skipped"
    ELSE IF row[1].name = NoName THEN "rejected"
    ELSE IF ~Tracked(row) \/ ~Wants(Iso3(row)) THEN "skipped"
    ELSE LET made == Create(Iso3(row), column.year, ValueCell(row).figure) IN
         IF made = "missing" THEN "skipped" ELSE made

ClassifiesTableRow ==
    /\ Takes(TableRowFate(NextRow),
             Observed(Iso3(NextRow), column.year, ValueCell(NextRow).figure))
    /\ UNCHANGED column

(* Every row skipped is taken for a change of the layout.                  *)
NothingRead == observations = <<>> /\ rejections = 0

ReadsNothing == NothingRead /\ Ends("raised") /\ UNCHANGED column

ReadsSomething == ~NothingRead /\ Ends("returned") /\ UNCHANGED column

WikipediaStep ==
    \/ ReadsTable \/ TableRaises \/ ClassifiesTableRow
    \/ ReadsNothing \/ ReadsSomething
=============================================================================
