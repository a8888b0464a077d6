------------------------------- MODULE Sources -------------------------------
(***************************************************************************)
(* One extraction by any of the three sources of default_sources()         *)
(* (sources/__init__.py), in any environment and against whatever its      *)
(* publisher serves: what a call of source.extract(config) does before the *)
(* runner sees its result.                                                 *)
(***************************************************************************)
EXTENDS WorldBank, OwidCsv, WikipediaHtml

VARIABLE source

vars == <<extractionVars, page, steady, column, source>>

Keys == {"world_bank_api", "owid_csv", "wikipedia_cia"}

Serves(key) ==
    CASE key = "world_bank_api" -> Tables
      [] key = "owid_csv" -> Downloads
      [] key = "wikipedia_cia" -> Articles

RowsOf(key) ==
    CASE key = "world_bank_api" -> ApiRecord
      [] key = "owid_csv" -> CsvRow
      [] key = "wikipedia_cia" -> Seq(Cell)

Init ==
    /\ ExtractionInit
    /\ source \in Keys
    /\ published \in Serves(source)
    /\ page = 1
    /\ steady = TRUE
    /\ column = NoColumn

WorldBankExtracts ==
    /\ source = "world_bank_api"
    /\ WorldBankStep
    /\ UNCHANGED <<column, source>>

OwidExtracts ==
    /\ source = "owid_csv"
    /\ OwidStep
    /\ UNCHANGED <<page, steady, column, source>>

WikipediaExtracts ==
    /\ source = "wikipedia_cia"
    /\ WikipediaStep
    /\ UNCHANGED <<page, steady, source>>

Extracts ==
    \/ Starts /\ UNCHANGED <<page, steady, column, source>>
    \/ WorldBankExtracts \/ OwidExtracts \/ WikipediaExtracts

Republishes ==
    /\ source = "world_bank_api"
    /\ Republish
    /\ UNCHANGED <<column, source>>

Terminated == Ended /\ UNCHANGED vars

Next == Extracts \/ Republishes \/ Terminated

Spec == Init /\ [][Next]_vars

(* A request is answered or times out, and a sleep ends.                   *)
FairSpec == Spec /\ WF_vars(Extracts)

-----------------------------------------------------------------------------
(* Properties                                                              *)

(* The shape of the state.                                                 *)
TypeOK ==
    /\ FetchTypeOK
    /\ env \in Envs
    /\ source \in Keys
    /\ published \in Serves(source)
    /\ pc \in {"configure", "request", "fetching", "reading",
               "returned", "raised", "refused"}
    /\ rows \in Seq(RowsOf(source))
    /\ done \in 0..Len(rows)
    /\ observations \in Seq(Observations)
    /\ page \in 1..(MAX_PAGES + 1)
    /\ rejections \in Nat
    /\ skipped \in Nat
    /\ steady \in BOOLEAN
    /\ column \in [offset : Nat, year : Nat]

(* HTTP_MAX_RETRIES retries are that many requests and one more, for every *)
(* document a source fetches and whatever it is answered: never one too    *)
(* many, and one too few only for an answer that will not change           *)
(* (http.py 51-89, config.py 85).                                          *)
BudgetKept ==
    /\ CountsAttempts
    /\ pc \in {"fetching", "reading"} =>
           fetch.attempts = 1 + OrDefault(env.http_max_retries, 3)

(* An extraction that returns has read the whole document, every row once  *)
(* and in order - or, of the API, its first MAX_PAGES pages, unless it     *)
(* changed its table or its page total meanwhile (world_bank.py 91-150,    *)
(* owid_csv.py 85-104, wikipedia_html.py 120).                             *)
WholeDocument ==
    CASE source = "world_bank_api" ->
             SubSeq(published, 1, IF Len(published) < MAX_PAGES * PAGE_SIZE
                                    THEN Len(published) ELSE MAX_PAGES * PAGE_SIZE)
      [] source = "owid_csv" -> published.rows
      [] source = "wikipedia_cia" -> SubSeq(published, 3, Len(published))

ReadsWholeDocument ==
    (pc = "returned" /\ steady) => rows = WholeDocument /\ AllRead

(* What counts as a rejection: a row in scope that could not be read, and  *)
(* in the CSV, where nothing sets the two apart, one whose figure is blank *)
(* (BlanksAreNotRejections).                                               *)
Unreadable(row) ==
    \/ /\ source = "world_bank_api"
       /\ \/ row = NotAnObject
          \/ /\ Upper(row.code) # Missing
             /\ Upper(row.code) \notin Aggregates
             /\ Wants(Upper(row.code))
             /\ \/ ~IsCountry(row.code)
                \/ ~IsYear(row.year)
                \/ row.value # Missing /\ ~IsRate(row.value)
    \/ /\ source = "owid_csv"
       /\ row.code \in Codes \ Aggregates
       /\ Wants(row.code)
       /\ row.year = Fractional \/ (row.year \in Int /\ row.year >= config.min_year)
       /\ ~IsCountry(row.code) \/ ~IsYear(row.year) \/ ~IsRate(row.value)
    \/ /\ source = "wikipedia_cia"
       /\ Len(row) > column.offset + 1
       /\ \/ row[1].name = NoName
          \/ /\ Tracked(row)
             /\ Wants(Iso3(row))
             /\ LET figure == row[column.offset + 2].figure
                IN  ~IsYear(column.year) \/ (figure # Missing /\ ~IsRate(figure))

(* Every row read is an observation, a rejection or a skip, once, page     *)
(* after page, and the rejections are exactly the rows that could not be   *)
(* read, a blank figure of the CSV among them: the counts the ledger gets  *)
(* (records.py 68-90).                                                     *)
EveryRowCounted ==
    /\ Len(observations) + rejections + skipped = done
    /\ rejections = Cardinality({i \in 1..done : Unreadable(rows[i])})

(* The countries and the first year the environment asks for.              *)
AsksFor(iso3) ==
    LET filter == env.country_filter
        named == {i \in DOMAIN filter : filter[i] # Unset}
    IN  named = {} \/ \E i \in named : Upper(filter[i]) = iso3

FirstYear == OrDefault(env.min_year, 2010)

(* Whatever the publisher serves, what goes to the loader fits the table's *)
(* constraints, is of no aggregate, and is of a country the environment    *)
(* asks for.  What the API and the CSV give is also of no year before      *)
(* MIN_YEAR; of the article nothing bounds the year but the table, since   *)
(* its source never reads min_year (world_bank.py 99-139, owid_csv.py      *)
(* 89-116, wikipedia_html.py 120-157, config.py 76-88).                    *)
StaysInScope ==
    \A i \in 1..Len(observations) :
        LET o == observations[i] IN
        /\ FitsSchema(o)
        /\ o.fact[1] \notin Aggregates
        /\ AsksFor(o.fact[1])
        /\ source \in {"world_bank_api", "owid_csv"} => o.fact[2] >= FirstYear

(* A table row whose cells stand under the header's, the country in front. *)
Aligned(row) ==
    /\ Len(row) = Len(published[2]) + 1
    /\ \A i \in 1..Len(published[2]) : row[i + 1].of = published[2][i].label.provider

(* As long as the rows stand under the header, every figure taken from the *)
(* article is PROVIDER's own for that country and the year its header      *)
(* names, wherever in the table the column is (wikipedia_html.py 72-93,    *)
(* 122-152; README 231-233).                                               *)
ReadsProvidersColumn ==
    (source = "wikipedia_cia" /\ \A i \in 1..Len(rows) : Aligned(rows[i])) =>
        \A k \in 1..Len(observations) :
            \E i \in 1..done, j \in 1..Len(published[2]) :
                LET cell == rows[i][j + 1]
                    label == published[2][j].label
                IN  /\ cell.of = PROVIDER
                    /\ Tracked(rows[i])
                    /\ observations[k] = [fact |-> <<Iso3(rows[i]), label.year>>,
                                          value |-> cell.figure]

(* Whatever the publisher answers and however often it publishes, the      *)
(* extraction ends (world_bank.py 35-36, 92; http.py 62-89).               *)
ExtractEnds == <>Ended

(* "Counting both as rejections means nobody ever looks at either": what   *)
(* errors.py 61-72 says of a figure left blank.                            *)
BlanksAreNotRejections ==
    source = "owid_csv" =>
        rejections <= Cardinality({i \in 1..done : rows[i].value # Missing})

(* "MIN_YEAR bound[s] the load" (README 130; .env.example 16-18, "Ignore   *)
(* observations before this year").                                        *)
MinYearBoundsLoad ==
    \A i \in 1..Len(observations) : observations[i].fact[2] >= FirstYear
=============================================================================
