------------------------------ MODULE WorldBank ------------------------------
(***************************************************************************)
(* The World Bank API (sources/world_bank.py): page after page, every      *)
(* record classified.  The API may publish another table between two       *)
(* requests, and may misreport how many pages there are.                   *)
(***************************************************************************)
EXTENDS Extraction

CONSTANTS
    Tables,         \* what the API may publish: sequences of records
    PAGE_SIZE,
    MAX_PAGES,
    NotAnObject,    \* a record that is no JSON object
    OddTotals       \* page totals a misbehaving API reports

ASSUME PagingAssumption == PAGE_SIZE \in Nat \ {0} /\ MAX_PAGES \in Nat \ {0}
ApiRecord == [code : Text, year : Year, value : Rate] \cup {NotAnObject}

ASSUME TablesAssumption == Tables \subseteq Seq(ApiRecord)

VARIABLES
    page,
    steady      \* history: one table throughout, and its true page total

-----------------------------------------------------------------------------
(* One record                                                              *)

(* Blank codes, aggregates and countries nobody asked for are skipped      *)
(* before anything can be wrong with them; a code of another shape is      *)
(* nobody's to skip when every country is wanted.                          *)
OutOfScope(code) ==
    \/ code = Missing
    \/ code \in Aggregates
    \/ ~Wants(code)

(* Faulty: a figure left blank is a rejection.                             *)
RecordFateOfBlanks(record) ==
    IF record = NotAnObject THEN "rejected"
    ELSE IF OutOfScope(Upper(record.code)) THEN "skipped"
    ELSE LET made == Create(record.code, record.year, record.value) IN
         IF made = "observed" /\ record.year < config.min_year THEN "skipped"
         ELSE IF made = "missing" THEN "rejected"
         ELSE made

RecordFate(record) ==
    IF record = NotAnObject THEN "rejected"
    ELSE IF OutOfScope(Upper(record.code)) THEN "skipped"
    ELSE LET made == Create(record.code, record.year, record.value) IN
         IF made = "missing" \/ (made = "observed" /\ record.year < config.min_year)
           THEN "skipped"
           ELSE made

-----------------------------------------------------------------------------
(* One page                                                                *)

PageOf(table, n) ==
    LET upto == n * PAGE_SIZE IN
    SubSeq(table, upto - PAGE_SIZE + 1, IF upto < Len(table) THEN upto ELSE Len(table))

PagesIn(table) == (Len(table) + PAGE_SIZE - 1) \div PAGE_SIZE

ReadsPage ==
    /\ Receives(PageOf(published, page))
    /\ UNCHANGED <<page, steady>>

(* Not JSON, an error envelope, or metadata and rows of the wrong shapes.  *)
EnvelopeRaises == DocumentRaises /\ UNCHANGED <<page, steady>>

ClassifiesRecord ==
    /\ Takes(RecordFate(NextRow), Observed(NextRow.code, NextRow.year, NextRow.value))
    /\ UNCHANGED <<page, steady>>

(* The total the metadata of the page gives: as nothing is published while *)
(* a page is being read, that of the table it came from, or a misreport.   *)
Reports(total) ==
    /\ total \in {PagesIn(published)} \cup OddTotals
    /\ steady' = (steady /\ total = PagesIn(published))

(* Faulty: pages counted from zero.                                        *)
MorePagesFromZero(total) == total \in Int /\ page + 1 < total

MorePages(total) == total \in Int /\ page < total

(* Faulty: the limit is looked at one page late.                           *)
TurnsPageLate(total) ==
    /\ Reports(total)
    /\ MorePages(total)
    /\ Ends(IF page <= MAX_PAGES THEN "request" ELSE "returned")
    /\ page' = page + 1

TurnsPage(total) ==
    /\ Reports(total)
    /\ MorePages(total)
    /\ Ends(IF page < MAX_PAGES THEN "request" ELSE "returned")
    /\ page' = page + 1

LastPage(total) ==
    /\ Reports(total)
    /\ ~MorePages(total)
    /\ Ends("returned")
    /\ UNCHANGED page

WorldBankStep ==
    \/ ReadsPage \/ EnvelopeRaises \/ ClassifiesRecord
    \/ \E total \in {PagesIn(published)} \cup OddTotals : TurnsPage(total) \/ LastPage(total)

(* A release of new figures.  Published while a page is being read, it     *)
(* makes no difference before the next request.                            *)
Republish ==
    /\ pc \in {"request", "fetching"}
    /\ \E table \in Tables : table # published /\ published' = table
    /\ steady' = FALSE
    /\ UNCHANGED <<fetchVars, env, pc, extraction, page>>
=============================================================================
