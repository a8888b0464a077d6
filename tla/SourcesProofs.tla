---------------------------- MODULE SourcesProofs ----------------------------
(***************************************************************************)
(* What is proved of the three extractions, for every document, every      *)
(* environment and any page size and limit.                                *)
(***************************************************************************)
EXTENDS SourcesProgress, FiniteSetTheorems, FunctionTheorems, SequenceTheorems, TLAPS

-----------------------------------------------------------------------------
(* One row                                                                 *)

(* A text of the shape of a code is its own upper-case form.               *)
LEMMA CodeIsUpper == \A code \in Codes : Upper(code) = code
  BY SpellingsAssumption DEF Upper

(* Whatever Observation.create lets through is a record the table takes    *)
(* (records.py 33-55 against the constraints of 001_initial_schema.sql).   *)
LEMMA CreatedFits ==
  ASSUME NEW text, NEW year, NEW value, Create(text, year, value) = "observed"
  PROVE  /\ Observed(text, year, value) \in Observations
         /\ FitsSchema(Observed(text, year, value))
         /\ Upper(text) \in Codes \ Aggregates
  <1>1. IsCountry(text) /\ IsYear(year) /\ IsRate(value)
    BY DEF Create
  <1>2. year \in 1960..2100 /\ value \in 0..100
    BY <1>1, ThisYearAssumption DEF IsYear, IsRate, MIN_SUPPORTED_YEAR
  <1> QED
    BY <1>1, <1>2 DEF IsCountry, Observed, Observations, FitsSchema

(* A record of the API becomes an observation only in scope.               *)
LEMMA RecordInScope ==
  ASSUME NEW record, RecordFate(record) = "observed"
  PROVE  /\ Create(record.code, record.year, record.value) = "observed"
         /\ Wants(Upper(record.code))
         /\ ~(record.year < config.min_year)
  BY DEF RecordFate, OutOfScope

(* So does a row of the CSV.                                               *)
LEMMA CsvRowInScope ==
  ASSUME NEW row, CsvRowFate(row) = "observed"
  PROVE  /\ Create(row.code, row.year, row.value) = "observed"
         /\ row.code \in Codes \ Aggregates
         /\ Wants(row.code)
         /\ Reaches(row.year)
  BY DEF CsvRowFate, InFrame

(* And a row of the article, which is read in two places.                  *)
LEMMA TableRowInScope ==
  ASSUME NEW row, TableRowFate(row) = "observed"
  PROVE  /\ Create(Iso3(row), column.year, ValueCell(row).figure) = "observed"
         /\ Tracked(row)
         /\ Wants(Iso3(row))
         /\ ~(Len(row) <= value_index)
  BY DEF TableRowFate

(* What becomes of a row, whichever source it is of.                       *)
Fate(row) ==
    CASE source = "world_bank_api" -> RecordFate(row)
      [] source = "owid_csv" -> CsvRowFate(row)
      [] source = "wikipedia_cia" -> TableRowFate(row)

Made(row) ==
    IF source = "wikipedia_cia"
      THEN Observed(Iso3(row), column.year, ValueCell(row).figure)
      ELSE Observed(row.code, row.year, row.value)

LEMMA MadeFits ==
  ASSUME source \in Keys, NEW row, Fate(row) = "observed"
  PROVE  Made(row) \in Observations /\ FitsSchema(Made(row))
  <1>1. CASE source = "world_bank_api"
    BY <1>1, RecordInScope, CreatedFits DEF Fate, Made
  <1>2. CASE source = "owid_csv"
    BY <1>2, CsvRowInScope, CreatedFits DEF Fate, Made
  <1>3. CASE source = "wikipedia_cia"
    BY <1>3, TableRowInScope, CreatedFits DEF Fate, Made
  <1> QED
    BY <1>1, <1>2, <1>3 DEF Keys

-----------------------------------------------------------------------------
(* One step                                                                *)

(* The rows and what was made of them are left alone.                      *)
Quiet ==
    /\ UNCHANGED <<extraction, column>>
    /\ pc' # "reading"

Incoming ==
    IF source = "world_bank_api" THEN PageOf(published, page)
    ELSE IF source = "owid_csv" THEN published.rows
    ELSE SubSeq(published, 3, Len(published))

(* A page or a document comes in.                                          *)
ReadsRows ==
    /\ pc = "fetching" /\ pc' = "reading"
    /\ Incoming \in Seq(RowsOf(source))
    /\ rows' = rows \o Incoming
    /\ UNCHANGED <<fetchVars, published, page, steady,
                   done, observations, rejections, skipped>>
    /\ IF source = "wikipedia_cia"
         THEN /\ TableReadable(published)
              /\ column'.offset \in Located(published[2])
              /\ column'.year = published[2][column'.offset + 1].label.year
              /\ column' \in [offset : Nat, year : Nat]
         ELSE UNCHANGED column

TakesRow == Takes(Fate(NextRow), Made(NextRow)) /\ UNCHANGED <<page, steady, column>>

LEMMA PagesAreRecords ==
  ASSUME NEW table \in Seq(ApiRecord), NEW n \in Nat \ {0}
  PROVE  PageOf(table, n) \in Seq(ApiRecord)
  <1> DEFINE first == n * PAGE_SIZE - PAGE_SIZE + 1
             last == IF n * PAGE_SIZE < Len(table) THEN n * PAGE_SIZE ELSE Len(table)
  <1>1. n * PAGE_SIZE \in Nat /\ n * PAGE_SIZE >= PAGE_SIZE
    BY PagingAssumption
  <1>2. first \in Nat \ {0} /\ last \in Nat /\ last <= Len(table)
    BY <1>1, PagingAssumption
  <1> HIDE DEF first, last
  <1>3. SubSeq(table, first, last) \in Seq(ApiRecord)
    BY <1>2
  <1> QED
    BY <1>3 DEF PageOf, first, last

LEMMA ServedIs ==
  ASSUME source \in Keys, published \in Serves(source)
  PROVE  /\ source = "world_bank_api" => published \in Seq(ApiRecord)
         /\ source = "owid_csv" => published \in Downloads
         /\ source = "wikipedia_cia" => published \in Articles
  <1>1. source = "world_bank_api" => published \in Tables
    BY DEF Serves
  <1>2. source = "owid_csv" => published \in Downloads
    BY DEF Serves
  <1>3. source = "wikipedia_cia" => published \in Articles
    BY DEF Serves
  <1> QED
    BY <1>1, <1>2, <1>3, TablesAssumption

LEMMA RowsAre ==
  /\ source = "world_bank_api" => RowsOf(source) = ApiRecord
  /\ source = "owid_csv" => RowsOf(source) = CsvRow
  /\ source = "wikipedia_cia" => RowsOf(source) = Seq(Cell)
  BY DEF RowsOf

LEMMA FateIs ==
  /\ source = "world_bank_api" => \A row : Fate(row) = RecordFate(row)
  /\ source = "owid_csv" => \A row : Fate(row) = CsvRowFate(row)
  /\ source = "wikipedia_cia" => \A row : Fate(row) = TableRowFate(row)
  BY DEF Fate

(* Every step reads rows, takes one, or leaves them alone.                 *)
LEMMA Steps ==
  ASSUME TypeOK, Next
  PROVE  Quiet \/ ReadsRows \/ TakesRow
  <1>1. CASE Starts /\ UNCHANGED <<page, steady, column, source>>
    BY <1>1 DEF Starts, Configured, ConfigurationError, Requests, Fetching,
                FetchBlowsUp, FetchRaises, Goes, Quiet
  <1>2. CASE WorldBankExtracts
    <2>1. source = "world_bank_api" /\ UNCHANGED <<column, source>>
      BY <1>2 DEF WorldBankExtracts
    <2>2. CASE ReadsPage
      <3>1. PageOf(published, page) \in Seq(ApiRecord)
        BY <2>1, ServedIs, PagesAreRecords DEF TypeOK
      <3>2. PageOf(published, page) \in Seq(RowsOf(source))
        BY <2>1, <3>1, RowsAre
      <3> QED
        BY <2>1, <2>2, <3>2 DEF ReadsPage, Receives, Goes, ReadsRows, Incoming
    <2>3. CASE ClassifiesRecord
      BY <2>1, <2>3, FateIs DEF ClassifiesRecord, TakesRow, Made
    <2>4. CASE EnvelopeRaises
      BY <2>1, <2>4 DEF EnvelopeRaises, DocumentRaises, Goes, Quiet
    <2>5. ASSUME NEW total, TurnsPage(total) \/ LastPage(total)
          PROVE  Quiet
      BY <2>1, <2>5 DEF TurnsPage, LastPage, Ends, Goes, Quiet
    <2> QED
      BY <1>2, <2>2, <2>3, <2>4, <2>5 DEF WorldBankExtracts, WorldBankStep
  <1>3. CASE OwidExtracts
    <2>1. source = "owid_csv" /\ UNCHANGED <<page, steady, column, source>>
      BY <1>3 DEF OwidExtracts
    <2>2. CASE ReadsFrame
      <3>1. published.rows \in Seq(RowsOf(source))
        BY <2>1, <2>2, ServedIs, RowsAre, DownloadsAssumption
           DEF TypeOK, ReadsFrame, CsvReadable
      <3> QED
        BY <2>1, <2>2, <3>1 DEF ReadsFrame, Receives, Goes, ReadsRows, Incoming
    <2>3. CASE ClassifiesCsvRow
      BY <2>1, <2>3, FateIs DEF ClassifiesCsvRow, TakesRow, Made
    <2>4. CASE FrameRaises \/ Ends("returned")
      BY <2>1, <2>4 DEF FrameRaises, DocumentRaises, Ends, Goes, Quiet
    <2> QED
      BY <1>3, <2>2, <2>3, <2>4 DEF OwidExtracts, OwidStep
  <1>4. CASE WikipediaExtracts
    <2>1. source = "wikipedia_cia" /\ UNCHANGED <<page, steady, source>>
      BY <1>4 DEF WikipediaExtracts
    <2>2. CASE ReadsTable
      <3>1. published \in Seq(Seq(Cell)) /\ Len(published) >= 3
        BY <2>1, <2>2, ServedIs, ArticlesAssumption DEF TypeOK, ReadsTable, TableReadable
      <3>2. SubSeq(published, 3, Len(published)) \in Seq(Seq(Cell))
        BY <3>1
      <3>3. SubSeq(published, 3, Len(published)) \in Seq(RowsOf(source))
        BY <2>1, <3>2, RowsAre
      <3>4. PICK offset \in Located(published[2]) :
              column' = [offset |-> offset, year |-> published[2][offset + 1].label.year]
        BY <2>2 DEF ReadsTable
      <3>5. published[2] \in Seq(Cell)
        BY <3>1
      <3>6. offset \in Nat /\ published[2][offset + 1] \in Cell
        BY <3>5 DEF Located
      <3>7. published[2][offset + 1].label.year \in Nat
        BY <3>6 DEF Cell
      <3>8. /\ column'.offset \in Located(published[2])
            /\ column'.year = published[2][column'.offset + 1].label.year
            /\ column' \in [offset : Nat, year : Nat]
        BY <3>4, <3>6, <3>7
      <3> QED
        BY <2>1, <2>2, <3>3, <3>8 DEF ReadsTable, Receives, Goes, ReadsRows, Incoming
    <2>3. CASE ClassifiesTableRow
      BY <2>1, <2>3, FateIs DEF ClassifiesTableRow, TakesRow, Made
    <2>4. CASE TableRaises \/ ReadsNothing \/ ReadsSomething
      BY <2>1, <2>4 DEF TableRaises, DocumentRaises, ReadsNothing, ReadsSomething,
                        Ends, Goes, Quiet
    <2> QED
      BY <1>4, <2>2, <2>3, <2>4 DEF WikipediaExtracts, WikipediaStep
  <1>5. CASE Republishes \/ Terminated
    BY <1>5 DEF Republishes, Republish, Terminated, Ended, vars,
       extractionVars, Quiet
  <1> QED
    BY <1>1, <1>2, <1>3, <1>4, <1>5 DEF Next, Extracts

Pcs == {"configure", "request", "fetching", "reading", "returned", "raised", "refused"}

(* What a step does to everything that is not a row.                       *)
Moves ==
    /\ UNCHANGED <<env, source>>
    /\ published' = published \/ (source = "world_bank_api" /\ published' \in Tables)
    /\ pc' \in Pcs
    /\ \/ pc' \in {"configure", "refused"}
       \/ pc \in {"request", "fetching", "reading"}
       \/ Configures(env)
       \/ pc' = pc
    /\ \/ UNCHANGED fetchVars
       \/ pc = "request" /\ FetchBegins(config.http_max_retries)
       \/ pc = "fetching" /\ pc' = "fetching" /\ FetchStep
    /\ pc' = "configure" => pc = "configure" /\ UNCHANGED page
    /\ pc' \in {"fetching", "reading"} =>
           \/ pc = "request" /\ FetchBegins(config.http_max_retries)
           \/ pc \in {"fetching", "reading"}
    /\ pc' = "request" => pc \in {"configure", "request"}
                           \/ (source = "world_bank_api" /\ page' <= MAX_PAGES)
    /\ pc' = "fetching" => pc \in {"request", "fetching"}
    /\ UNCHANGED page
       \/ /\ pc = "reading" /\ pc' \in {"request", "returned"}
          /\ page' = page + 1
    /\ steady' \in BOOLEAN

LEMMA EveryStepMoves ==
  ASSUME TypeOK, Next, pc \in {"request", "fetching", "reading"} => page <= MAX_PAGES
  PROVE  Moves
  <1>t. page \in Nat /\ MAX_PAGES \in Nat /\ steady \in BOOLEAN /\ pc \in Pcs
    BY PagingAssumption DEF TypeOK, Pcs
  <1>1. CASE Starts /\ UNCHANGED <<page, steady, column, source>>
    BY <1>1, <1>t DEF Starts, Configured, ConfigurationError, Requests, Fetching,
                FetchBlowsUp, FetchRaises, Goes, Moves, Pcs
  <1>2. CASE WorldBankExtracts
    <2>1. CASE ReadsPage \/ EnvelopeRaises \/ ClassifiesRecord
      BY <1>2, <2>1, <1>t DEF WorldBankExtracts, ReadsPage, Receives, EnvelopeRaises,
         DocumentRaises, ClassifiesRecord, Takes, Goes, Moves, Pcs
    <2>2. ASSUME NEW total, TurnsPage(total)
          PROVE  Moves
      <3>1. /\ source = "world_bank_api"
            /\ pc = "reading" /\ pc' = (IF page < MAX_PAGES THEN "request" ELSE "returned")
            /\ UNCHANGED <<fetchVars, env, published, source>>
            /\ page' = page + 1
        BY <1>2, <2>2 DEF WorldBankExtracts, TurnsPage, Ends, Goes
      <3>2. steady' \in BOOLEAN
        BY <2>2, <1>t DEF TurnsPage, Reports
      <3> QED
        BY <3>1, <3>2, <1>t DEF Moves, Pcs
    <2>3. ASSUME NEW total, LastPage(total)
          PROVE  Moves
      <3>1. steady' \in BOOLEAN
        BY <2>3, <1>t DEF LastPage, Reports
      <3> QED
        BY <1>2, <2>3, <3>1, <1>t DEF WorldBankExtracts, LastPage, Ends, Goes, Moves, Pcs
    <2> QED
      BY <1>2, <2>1, <2>2, <2>3 DEF WorldBankExtracts, WorldBankStep
  <1>3. CASE OwidExtracts
    BY <1>3, <1>t DEF OwidExtracts, OwidStep, ReadsFrame, Receives, FrameRaises,
       DocumentRaises, ClassifiesCsvRow, Takes, Ends, Goes, Moves, Pcs
  <1>4. CASE WikipediaExtracts
    <2>1. CASE ReadsTable \/ TableRaises
      BY <1>4, <2>1, <1>t DEF WikipediaExtracts, ReadsTable, Receives, TableRaises,
         DocumentRaises, Goes, Moves, Pcs
    <2>2. CASE ClassifiesTableRow \/ ReadsNothing \/ ReadsSomething
      BY <1>4, <2>2, <1>t DEF WikipediaExtracts, ClassifiesTableRow, Takes,
         ReadsNothing, ReadsSomething, Ends, Goes, Moves, Pcs
    <2> QED
      BY <1>4, <2>1, <2>2 DEF WikipediaExtracts, WikipediaStep
  <1>5. CASE Republishes \/ Terminated
    BY <1>5, <1>t DEF Republishes, Republish, Terminated, vars, extractionVars, Moves, Pcs
  <1> QED
    BY <1>1, <1>2, <1>3, <1>4, <1>5 DEF Next, Extracts

-----------------------------------------------------------------------------
(* Type correctness                                                        *)

(* Past the configuration it is one load_config accepts, and no request is *)
(* made for a page beyond the limit.                                       *)
BaseInv ==
    /\ TypeOK
    /\ pc \notin {"configure", "refused"} => Configures(env)
    /\ pc \in {"configure", "request", "fetching", "reading"} => page <= MAX_PAGES

(* load_config lets no count of retries pass but a natural number, and a   *)
(* first year the table takes.                                             *)
LEMMA ConfigIsSane ==
  ASSUME Configures(env)
  PROVE  /\ config.http_max_retries \in Nat
         /\ config.min_year \in Int
         /\ config.min_year >= 1960
  BY UnsetAssumption DEF Configures, ReadsInt, config, Config, OrDefault

LEMMA FetchKeepsType ==
  ASSUME FetchTypeOK, FetchStep
  PROVE  FetchTypeOK'
  <1>1. ASSUME Wakes PROVE FetchTypeOK'
    BY <1>1 DEF Wakes, FetchTypeOK
  <1>2. ASSUME NEW answer \in Answers,
               GetsBody(answer) \/ GetsRefusal(answer)
                 \/ BacksOff(answer) \/ SpendsBudget(answer)
        PROVE  FetchTypeOK'
    BY <1>2 DEF GetsBody, GetsRefusal, BacksOff, SpendsBudget, Get, FetchTypeOK
  <1> QED
    BY <1>1, <1>2 DEF FetchStep

LEMMA FetchBeginsTyped ==
  ASSUME NEW n \in Nat, FetchBegins(n)
  PROVE  FetchTypeOK'
  BY DEF FetchBegins, attempts, FetchTypeOK, Answers

LEMMA TakesKeepsType ==
  ASSUME TypeOK, TakesRow
  PROVE  /\ rows' = rows
         /\ done' \in 0..Len(rows)
         /\ observations' \in Seq(Observations)
         /\ rejections' \in Nat
         /\ skipped' \in Nat
         /\ UNCHANGED column
  <1>1. done \in 0..Len(rows) /\ done # Len(rows) /\ done' = done + 1 /\ Len(rows) \in Nat
    BY DEF TypeOK, TakesRow, Takes, AllRead
  <1>2. rejections' \in Nat /\ skipped' \in Nat
    BY DEF TypeOK, TakesRow, Takes
  <1>3. CASE Fate(NextRow) = "observed"
    <2>1. Made(NextRow) \in Observations
      BY <1>3, MadeFits DEF TypeOK
    <2>2. observations' = Append(observations, Made(NextRow))
      BY <1>3 DEF TakesRow, Takes
    <2>3. observations \in Seq(Observations)
      BY DEF TypeOK
    <2>4. observations' \in Seq(Observations)
      BY <2>1, <2>2, <2>3
    <2> QED
      BY <1>1, <1>2, <2>4 DEF TakesRow, Takes
  <1>4. CASE Fate(NextRow) # "observed"
    <2>1. UNCHANGED observations
      BY <1>4 DEF TakesRow, Takes
    <2> QED
      BY <1>1, <1>2, <2>1 DEF TypeOK, TakesRow, Takes
  <1> QED
    BY <1>3, <1>4

LEMMA InitBase == Init => BaseInv
  <1> SUFFICES ASSUME Init PROVE BaseInv
    OBVIOUS
  <1>1. FetchTypeOK
    BY DEF Init, ExtractionInit, FetchInit, FetchTypeOK, Answers
  <1>2. rows \in Seq(RowsOf(source)) /\ done \in 0..Len(rows)
        /\ observations \in Seq(Observations)
    BY DEF Init, ExtractionInit
  <1>3. page \in 1..(MAX_PAGES + 1) /\ page <= MAX_PAGES
    BY PagingAssumption DEF Init
  <1> QED
    BY <1>1, <1>2, <1>3 DEF Init, ExtractionInit, NoColumn, BaseInv, TypeOK

LEMMA StepBase == BaseInv /\ [Next]_vars => BaseInv'
  <1>1. ASSUME BaseInv, UNCHANGED vars PROVE BaseInv'
    BY <1>1 DEF BaseInv, TypeOK, vars, extractionVars, fetchVars, extraction,
       FetchTypeOK, Configures
  <1>2. ASSUME BaseInv, Next PROVE BaseInv'
    <2>t. TypeOK
      BY <1>2 DEF BaseInv
    <2>m. Moves
      BY <1>2, EveryStepMoves DEF BaseInv
    <2>1. FetchTypeOK'
      <3>1. CASE UNCHANGED fetchVars
        BY <2>t, <3>1 DEF TypeOK, FetchTypeOK, fetchVars
      <3>2. CASE pc = "request" /\ FetchBegins(config.http_max_retries)
        BY <1>2, <3>2, ConfigIsSane, FetchBeginsTyped DEF BaseInv
      <3>3. CASE FetchStep
        BY <2>t, <3>3, FetchKeepsType DEF TypeOK
      <3> QED
        BY <2>m, <3>1, <3>2, <3>3 DEF Moves
    <2>2. env' \in Envs /\ source' \in Keys /\ source' = source /\ env' = env
      BY <2>t, <2>m DEF TypeOK, Moves
    <2>3. published' \in Serves(source')
      BY <2>t, <2>m DEF TypeOK, Moves, Serves
    <2>4. /\ rows' \in Seq(RowsOf(source))
          /\ done' \in 0..Len(rows')
          /\ observations' \in Seq(Observations)
          /\ rejections' \in Nat
          /\ skipped' \in Nat
          /\ column' \in [offset : Nat, year : Nat]
      <3>1. CASE Quiet
        BY <2>t, <3>1 DEF TypeOK, Quiet, extraction
      <3>2. CASE TakesRow
        BY <2>t, <3>2, TakesKeepsType DEF TypeOK
      <3>3. CASE ReadsRows
        <4>1. PICK some \in Seq(RowsOf(source)) : rows' = rows \o some
          BY <3>3 DEF ReadsRows
        <4>2. rows \in Seq(RowsOf(source)) /\ done \in 0..Len(rows)
          BY <2>t DEF TypeOK
        <4>3. rows' \in Seq(RowsOf(source)) /\ Len(rows') = Len(rows) + Len(some)
          BY <4>1, <4>2
        <4>4. done \in 0..Len(rows')
          BY <4>2, <4>3
        <4>5. UNCHANGED <<done, observations, rejections, skipped>>
          BY <3>3 DEF ReadsRows
        <4>6. column' \in [offset : Nat, year : Nat]
          BY <2>t, <3>3 DEF ReadsRows, TypeOK
        <4> QED
          BY <2>t, <4>3, <4>4, <4>5, <4>6 DEF TypeOK
      <3> QED
        BY <1>2, <2>t, <3>1, <3>2, <3>3, Steps
    <2>5. /\ page' \in 1..(MAX_PAGES + 1)
          /\ pc' \in {"configure", "request", "fetching", "reading"} => page' <= MAX_PAGES
      BY <1>2, <2>t, <2>m, PagingAssumption DEF BaseInv, TypeOK, Moves
    <2>6. steady' \in BOOLEAN /\ pc' \in Pcs
      BY <2>m DEF Moves
    <2>7. pc' \notin {"configure", "refused"} => Configures(env')
      BY <1>2, <2>2, <2>m DEF BaseInv, Moves
    <2>8. TypeOK'
      BY <2>1, <2>2, <2>3, <2>4, <2>5, <2>6 DEF TypeOK, Pcs
    <2> QED
      BY <2>2, <2>5, <2>7, <2>8 DEF BaseInv
  <1> QED
    BY <1>1, <1>2

(* Every variable keeps its type, and no page beyond the limit is asked    *)
(* for, whatever page totals the API reports (world_bank.py 35-36, 91-103).*)
THEOREM ExtractionTypeCorrect == Spec => []TypeOK
  <1>1. BaseInv => TypeOK
    BY DEF BaseInv
  <1> QED
    BY <1>1, InitBase, StepBase, PTL DEF Spec

-----------------------------------------------------------------------------
(* The budget                                                              *)

LEMMA FetchKeepsCount ==
  ASSUME FetchTypeOK, CountsAttempts, FetchStep
  PROVE  CountsAttempts' /\ fetch'.attempts = fetch.attempts
  <1>1. CASE Wakes
    BY <1>1 DEF Wakes, FetchTypeOK, CountsAttempts
  <1>2. ASSUME NEW answer \in Answers,
               GetsBody(answer) \/ GetsRefusal(answer)
                 \/ BacksOff(answer) \/ SpendsBudget(answer)
        PROVE  CountsAttempts' /\ fetch'.attempts = fetch.attempts
    BY <1>2 DEF GetsBody, GetsRefusal, BacksOff, SpendsBudget, Get, FetchTypeOK,
                CountsAttempts
  <1> QED
    BY <1>1, <1>2 DEF FetchStep

(* No fetch sends more requests than HTTP_MAX_RETRIES allows, and none     *)
(* gives up sooner while the answer may still change (http.py 51-89).      *)
THEOREM ExtractionKeepsBudget == Spec => []BudgetKept
  <1>1. Init => BudgetKept
    BY DEF Init, ExtractionInit, FetchInit, BudgetKept, CountsAttempts
  <1>2. BaseInv /\ BudgetKept /\ [Next]_vars => BudgetKept'
    <2>1. ASSUME BudgetKept, UNCHANGED vars PROVE BudgetKept'
      BY <2>1 DEF BudgetKept, CountsAttempts, vars, extractionVars, fetchVars
    <2>2. ASSUME BaseInv, BudgetKept, Next PROVE BudgetKept'
      <3>t. FetchTypeOK /\ CountsAttempts
        BY <2>2 DEF BaseInv, TypeOK, BudgetKept
      <3>m. Moves
        BY <2>2, EveryStepMoves DEF BaseInv
      <3>1. CASE /\ UNCHANGED fetchVars
                 /\ pc' \in {"fetching", "reading"} => pc \in {"fetching", "reading"}
        BY <2>2, <3>1, <3>m DEF BudgetKept, CountsAttempts, fetchVars, Moves
      <3>2. CASE pc = "request" /\ FetchBegins(config.http_max_retries)
        <4>1. CountsAttempts'
          BY <3>2 DEF FetchBegins, CountsAttempts
        <4>2. fetch'.attempts = OrDefault(env.http_max_retries, 3) + 1
          BY <3>2 DEF FetchBegins, attempts, config, Config
        <4>3. config.http_max_retries \in Nat
          BY <2>2, <3>2, ConfigIsSane DEF BaseInv
        <4>4. OrDefault(env.http_max_retries, 3) \in Nat
          BY <4>3 DEF config, Config
        <4> QED
          BY <3>m, <4>1, <4>2, <4>4 DEF BudgetKept, Moves
      <3>3. CASE pc = "fetching" /\ pc' = "fetching" /\ FetchStep
        BY <2>2, <3>t, <3>m, <3>3, FetchKeepsCount DEF BudgetKept, Moves
      <3> QED
        BY <3>m, <3>1, <3>2, <3>3 DEF Moves
    <2> QED
      BY <2>1, <2>2
  <1> QED
    BY <1>1, <1>2, InitBase, StepBase, PTL DEF Spec

-----------------------------------------------------------------------------
(* The waits                                                               *)

(* The provers know nothing of an exponent that is no literal, but the     *)
(* library counts subsets by one: 2^n is how many a set of n elements has. *)
LEMMA PowerCountsSubsets ==
  ASSUME NEW n \in Nat
  PROVE  /\ IsFiniteSet(SUBSET (1..n))
         /\ Cardinality(SUBSET (1..n)) = 2^n
         /\ 2^n \in Nat
  <1>1. IsFiniteSet(1..n) /\ Cardinality(1..n) = n
    BY FS_Interval
  <1>2. IsFiniteSet(SUBSET (1..n)) /\ Cardinality(SUBSET (1..n)) = 2^Cardinality(1..n)
    BY <1>1, FS_SUBSET
  <1>3. Cardinality(SUBSET (1..n)) \in Nat
    BY <1>2, FS_CardinalityType
  <1> QED
    BY <1>1, <1>2, <1>3

LEMMA NoPower == 2^0 = 1
  <1>1. SUBSET (1..0) = {{}}
    OBVIOUS
  <1>2. Cardinality({{}}) = 1
    BY FS_Singleton
  <1>3. Cardinality(SUBSET (1..0)) = 2^0
    BY PowerCountsSubsets
  <1> QED
    BY <1>1, <1>2, <1>3

(* The subsets with the new element are as many as those without it.       *)
LEMMA NextPower ==
  ASSUME NEW n \in Nat
  PROVE  2^(n + 1) = 2 * 2^n
  <1> DEFINE old == SUBSET (1..n)
             new == {T \cup {n + 1} : T \in old}
             adds == [T \in old |-> T \cup {n + 1}]
             before == 2^n
             after == 2^(n + 1)
  <1>1. adds \in Bijection(old, new)
    <2>1. adds \in [old -> new]
      OBVIOUS
    <2>2. ASSUME NEW S \in old, NEW T \in old, adds[S] = adds[T]
          PROVE  S = T
      <3>1. n + 1 \notin S /\ n + 1 \notin T
        OBVIOUS
      <3>2. S \cup {n + 1} = T \cup {n + 1}
        BY <2>2
      <3> QED
        BY <3>1, <3>2
    <2>3. \A R \in new : \E T \in old : adds[T] = R
      OBVIOUS
    <2> QED
      BY <2>1, <2>2, <2>3, Fun_IsBij
  <1>2. IsFiniteSet(old) /\ Cardinality(old) = before /\ before \in Nat
    BY PowerCountsSubsets
  <1>3. IsFiniteSet(new) /\ Cardinality(new) = before
    BY <1>1, <1>2, FS_Bijection DEF ExistsBijection
  <1>4. SUBSET (1..(n + 1)) = old \cup new
    <2>1. ASSUME NEW S \in SUBSET (1..(n + 1)) PROVE S \in old \cup new
      <3>1. CASE n + 1 \in S
        <4>1. S \ {n + 1} \in old /\ S = (S \ {n + 1}) \cup {n + 1}
          BY <3>1
        <4> QED
          BY <4>1
      <3>2. CASE n + 1 \notin S
        BY <3>2
      <3> QED
        BY <3>1, <3>2
    <2>2. \A S \in old \cup new : S \in SUBSET (1..(n + 1))
      OBVIOUS
    <2> QED
      BY <2>1, <2>2
  <1>5. old \cap new = {}
    OBVIOUS
  <1>6. Cardinality(SUBSET (1..(n + 1))) = after
    BY PowerCountsSubsets
  <1> HIDE DEF old, new, before, after
  <1>7. Cardinality(old \cup new) =
            Cardinality(old) + Cardinality(new) - Cardinality(old \cap new)
    BY <1>2, <1>3, FS_Union
  <1>8. Cardinality(old \cap new) = 0
    BY <1>5, FS_EmptySet
  <1>9. before \in Nat /\ after = before + before - 0
    BY <1>2, <1>3, <1>4, <1>6, <1>7, <1>8
  <1>10. after = 2 * before
    BY <1>9
  <1> QED
    BY <1>10 DEF before, after

LEMMA FetchDoubles ==
  ASSUME FetchTypeOK, CountsAttempts, WaitsDouble, FetchStep
  PROVE  WaitsDouble'
  <1> DEFINE tried == fetch.attempt - 1
  <1>t. tried \in Nat /\ tried + 1 = fetch.attempt
    BY DEF FetchTypeOK
  <1> HIDE DEF tried
  <1>1. 2^tried \in Nat /\ 2^(tried + 1) = 2 * 2^tried
    BY <1>t, PowerCountsSubsets, NextPower
  <1>2. CASE Wakes
    <2>1. waited' = waited /\ fetch'.state = "sending" /\ fetch'.attempt - 1 = fetch.attempt
      BY <1>2 DEF Wakes, FetchTypeOK
    <2>2. gets = fetch.attempt /\ fetch.state = "sleeping"
      BY <1>2 DEF Wakes, CountsAttempts, FetchTypeOK
    <2> QED
      BY <2>1, <2>2 DEF WaitsDouble
  <1>3. ASSUME NEW answer \in Answers, GetsBody(answer) \/ GetsRefusal(answer)
                                         \/ SpendsBudget(answer)
        PROVE  WaitsDouble'
    <2>1. /\ fetch.state = "sending" /\ fetch'.state # "sleeping"
          /\ fetch'.attempt = fetch.attempt /\ waited' = waited
      BY <1>3 DEF GetsBody, GetsRefusal, SpendsBudget, Get
    <2> QED
      BY <2>1 DEF WaitsDouble
  <1>4. ASSUME NEW answer \in Answers, BacksOff(answer)
        PROVE  WaitsDouble'
    <2>1. /\ fetch.state = "sending" /\ fetch'.state = "sleeping"
          /\ gets' = gets + 1 /\ waited' = waited + 2^tried
      BY <1>4 DEF BacksOff, Get, tried
    <2>2. gets' = tried + 1
      BY <1>t, <2>1 DEF CountsAttempts, FetchTypeOK
    <2>3. waited = 2^tried - 1 /\ waited \in Nat
      BY <2>1 DEF WaitsDouble, tried
    <2> DEFINE before == 2^tried
               after == 2^(tried + 1)
    <2>4. before \in Nat /\ after = 2 * before /\ waited' = waited + before /\ waited = before - 1
      BY <1>1, <2>1, <2>3
    <2> HIDE DEF before, after
    <2>5. waited' = after - 1 /\ waited' \in Nat
      BY <2>3, <2>4
    <2>6. waited' = 2^(gets') - 1
      BY <2>2, <2>5 DEF after
    <2> QED
      BY <2>1, <2>5, <2>6 DEF WaitsDouble
  <1> QED
    BY <1>2, <1>3, <1>4 DEF FetchStep

(* Whatever a server answers, and however many retries are configured,     *)
(* each wait is twice the one before and a fetch sleeps 2^retries - 1      *)
(* seconds at most (http.py 77-87).                                        *)
THEOREM WaitsAreDoubled == Spec => []WaitsDouble
  <1>1. Init => WaitsDouble
    BY NoPower DEF Init, ExtractionInit, FetchInit, WaitsDouble
  <1>2. BaseInv /\ BudgetKept /\ WaitsDouble /\ [Next]_vars => WaitsDouble'
    <2>1. ASSUME WaitsDouble, UNCHANGED fetchVars PROVE WaitsDouble'
      BY <2>1 DEF WaitsDouble, fetchVars
    <2>2. ASSUME NEW n, FetchBegins(n) PROVE WaitsDouble'
      BY <2>2, NoPower DEF FetchBegins, WaitsDouble
    <2>3. ASSUME BaseInv, BudgetKept, WaitsDouble, Next PROVE WaitsDouble'
      <3>1. FetchTypeOK /\ CountsAttempts /\ Moves
        BY <2>3, EveryStepMoves DEF BaseInv, TypeOK, BudgetKept
      <3> QED
        BY <2>1, <2>2, <2>3, <3>1, FetchDoubles DEF Moves
    <2>4. UNCHANGED vars => UNCHANGED fetchVars
      BY DEF vars, extractionVars
    <2> QED
      BY <2>1, <2>3, <2>4
  <1> QED
    BY <1>1, <1>2, InitBase, StepBase, ExtractionKeepsBudget, PTL DEF Spec

-----------------------------------------------------------------------------
(* The counts                                                              *)

(* The bulk sources read once, so that nothing is classified before.       *)
BulkInv ==
    (source # "world_bank_api" /\ pc \in {"configure", "request", "fetching"}) =>
        rows = <<>>

LEMMA ApiUnreadable ==
  ASSUME source = "world_bank_api", NEW row
  PROVE  Unreadable(row) <=> Fate(row) = "rejected"
  <1>1. Unreadable(row) <=>
             \/ row = NotAnObject
             \/ /\ Upper(row.code) # Missing
                /\ Upper(row.code) \notin Aggregates
                /\ Wants(Upper(row.code))
                /\ \/ ~IsCountry(row.code)
                   \/ ~IsYear(row.year)
                   \/ row.value # Missing /\ ~IsRate(row.value)
    BY DEF Unreadable
  <1> QED
    BY <1>1, FateIs DEF RecordFate, OutOfScope, Create

LEMMA CsvUnreadable ==
  ASSUME source = "owid_csv", NEW row
  PROVE  Unreadable(row) <=> Fate(row) = "rejected"
  <1>1. Unreadable(row) <=>
             /\ row.code \in Codes \ Aggregates
             /\ Wants(row.code)
             /\ row.year = Fractional \/ (row.year \in Int /\ row.year >= config.min_year)
             /\ ~IsCountry(row.code) \/ ~IsYear(row.year) \/ ~IsRate(row.value)
    BY DEF Unreadable
  <1>2. ~IsRate(Missing)
    BY MarkersAssumption DEF IsRate
  <1> QED
    BY <1>1, <1>2, FateIs DEF CsvRowFate, InFrame, Reaches, Create

LEMMA TableUnreadable ==
  ASSUME source = "wikipedia_cia", NEW row \in Seq(Cell), column \in [offset : Nat, year : Nat]
  PROVE  Unreadable(row) <=> Fate(row) = "rejected"
  <1>1. Unreadable(row) <=>
             /\ Len(row) > column.offset + 1
             /\ \/ row[1].name = NoName
                \/ /\ Tracked(row)
                   /\ Wants(Iso3(row))
                   /\ \/ ~IsYear(column.year)
                      \/ /\ row[column.offset + 2].figure # Missing
                         /\ ~IsRate(row[column.offset + 2].figure)
    BY DEF Unreadable
  <1>2. Len(row) \in Nat /\ column.offset \in Nat
    OBVIOUS
  <1>3. /\ ~(Len(row) <= value_index) <=> Len(row) > column.offset + 1
        /\ ValueCell(row) = row[column.offset + 2]
    BY <1>2 DEF value_index, ValueCell
  <1>4. row[1].name = NoName => ~Tracked(row)
    BY NoNameAssumption DEF Tracked
  <1>5. Tracked(row) => IsCountry(Iso3(row))
    BY TrackedAssumption, CodeIsUpper DEF Tracked, Iso3, IsCountry
  <1>6. Fate(row) = TableRowFate(row)
    BY FateIs
  <1> QED
    BY <1>1, <1>3, <1>4, <1>5, <1>6 DEF TableRowFate, Create

LEMMA RejectsTheUnreadable ==
  ASSUME TypeOK, NEW row \in RowsOf(source)
  PROVE  Unreadable(row) <=> Fate(row) = "rejected"
  BY ApiUnreadable, CsvUnreadable, TableUnreadable, RowsAre DEF TypeOK, Keys

UnreadableRows == {row \in RowsOf(source) : Unreadable(row)}

Rejected == {i \in 1..done : rows[i] \in UnreadableRows}

CountInv ==
    /\ BulkInv
    /\ Len(observations) + rejections + skipped = done
    /\ rejections = Cardinality(Rejected)

LEMMA SameUnreadable ==
  ASSUME UNCHANGED <<env, source, column>>
  PROVE  UnreadableRows' = UnreadableRows
  BY DEF UnreadableRows, Unreadable, Wants, config, Tracked, Iso3

LEMMA CountedImpliesProperty == TypeOK /\ CountInv => EveryRowCounted
  <1> SUFFICES ASSUME TypeOK, CountInv PROVE EveryRowCounted
    OBVIOUS
  <1>1. \A i \in 1..done : rows[i] \in RowsOf(source)
    BY DEF TypeOK
  <1>2. Rejected = {i \in 1..done : Unreadable(rows[i])}
    BY <1>1 DEF Rejected, UnreadableRows
  <1> QED
    BY <1>2 DEF CountInv, EveryRowCounted

LEMMA RejectedIsFinite ==
  ASSUME TypeOK
  PROVE  IsFiniteSet(Rejected) /\ Cardinality(Rejected) \in Nat
  <1>1. done \in Nat
    BY DEF TypeOK
  <1>2. IsFiniteSet(1..done)
    BY <1>1, FS_Interval
  <1>3. Rejected \subseteq 1..done
    BY DEF Rejected
  <1> QED
    BY <1>2, <1>3, FS_Subset, FS_CardinalityType

LEMMA TakingCounts ==
  ASSUME TypeOK, CountInv, TakesRow, UNCHANGED <<env, source>>
  PROVE  CountInv'
  <1>1. /\ done \in Nat /\ done + 1 \in 1..Len(rows) /\ done' = done + 1 /\ rows' = rows
        /\ pc' = "reading"
    BY DEF TypeOK, TakesRow, Takes, AllRead
  <1>2. NextRow \in RowsOf(source)
    BY <1>1 DEF TypeOK, NextRow
  <1>3. UnreadableRows' = UnreadableRows
    BY SameUnreadable DEF TakesRow
  <1>4. NextRow \in UnreadableRows <=> Fate(NextRow) = "rejected"
    BY <1>2, RejectsTheUnreadable DEF UnreadableRows
  <1>5. Rejected' = {i \in 1..(done + 1) : rows[i] \in UnreadableRows}
    BY <1>1, <1>3 DEF Rejected
  <1>6. BulkInv'
    BY <1>1 DEF BulkInv
  <1>n. /\ Len(observations) \in Nat /\ rejections \in Nat /\ skipped \in Nat
        /\ Len(observations) + rejections + skipped = done
        /\ rejections = Cardinality(Rejected)
    BY DEF TypeOK, CountInv
  <1>7. CASE Fate(NextRow) = "rejected"
    <2>1. Rejected' = Rejected \cup {done + 1} /\ done + 1 \notin Rejected
      BY <1>1, <1>4, <1>5, <1>7 DEF Rejected, NextRow
    <2>2. Cardinality(Rejected') = Cardinality(Rejected) + 1
      BY <2>1, RejectedIsFinite, FS_AddElement
    <2>3. rejections' = rejections + 1 /\ UNCHANGED <<observations, skipped>>
      BY <1>7 DEF TakesRow, Takes
    <2> QED
      BY <1>1, <1>6, <1>n, <2>2, <2>3 DEF CountInv
  <1>8. CASE Fate(NextRow) # "rejected"
    <2>1. Rejected' = Rejected
      BY <1>1, <1>4, <1>5, <1>8 DEF Rejected, NextRow
    <2>2. UNCHANGED rejections
      BY <1>8 DEF TakesRow, Takes
    <2>3. CASE Fate(NextRow) = "observed"
      <3>1. observations' = Append(observations, Made(NextRow)) /\ skipped' = skipped
        BY <2>3 DEF TakesRow, Takes
      <3>2. observations \in Seq(Observations) /\ Made(NextRow) \in Observations
        BY <2>3, MadeFits DEF TypeOK
      <3>3. Len(observations') = Len(observations) + 1 /\ Len(observations) \in Nat
        BY <3>1, <3>2
      <3>4. skipped' = skipped
        BY <3>1
      <3>5. Len(observations') + rejections' + skipped' = done'
        BY <1>1, <1>n, <2>2, <3>3, <3>4
      <3> QED
        BY <1>6, <1>n, <2>1, <2>2, <3>5 DEF CountInv
    <2>4. CASE Fate(NextRow) # "observed"
      <3>1. observations' = observations /\ skipped' = skipped + 1
        BY <1>8, <2>4 DEF TakesRow, Takes
      <3> QED
        BY <1>1, <1>6, <1>n, <2>1, <2>2, <3>1 DEF CountInv
    <2> QED
      BY <2>3, <2>4
  <1> QED
    BY <1>7, <1>8

LEMMA ReadingCounts ==
  ASSUME TypeOK, CountInv, ReadsRows, UNCHANGED <<env, source>>
  PROVE  CountInv'
  <1>1. PICK some \in Seq(RowsOf(source)) : rows' = rows \o some
    BY DEF ReadsRows
  <1>2. /\ rows \in Seq(RowsOf(source)) /\ done \in Nat /\ done <= Len(rows)
        /\ done' = done /\ pc = "fetching" /\ pc' = "reading"
    BY DEF TypeOK, ReadsRows
  <1>3. BulkInv'
    BY <1>2 DEF BulkInv
  <1>4. Rejected' = Rejected
    <2>1. CASE source = "world_bank_api"
      <3>1. UnreadableRows' = UnreadableRows
        BY <2>1, SameUnreadable DEF ReadsRows
      <3>2. \A i \in 1..done : rows'[i] = rows[i]
        BY <1>1, <1>2
      <3> QED
        BY <1>2, <3>1, <3>2 DEF Rejected
    <2>2. CASE source # "world_bank_api"
      <3>1. rows = <<>>
        BY <1>2, <2>2 DEF CountInv, BulkInv
      <3>2. done = 0 /\ done' = 0
        BY <1>2, <3>1
      <3>3. 1..done = {} /\ 1..done' = {}
        BY <3>2
      <3> QED
        BY <3>3 DEF Rejected
    <2> QED
      BY <2>1, <2>2
  <1>5. UNCHANGED <<observations, rejections, skipped>>
    BY DEF ReadsRows
  <1> QED
    BY <1>2, <1>3, <1>4, <1>5 DEF CountInv

LEMMA InitCounts == Init => CountInv
  <1> SUFFICES ASSUME Init PROVE CountInv
    OBVIOUS
  <1>1. rows = <<>> /\ done = 0 /\ observations = <<>> /\ rejections = 0 /\ skipped = 0
    BY DEF Init, ExtractionInit
  <1>2. 1..done = {}
    BY <1>1
  <1>3. Rejected = {}
    BY <1>2 DEF Rejected
  <1> QED
    BY <1>1, <1>3, FS_EmptySet DEF CountInv, BulkInv

LEMMA StepCounts == BaseInv /\ CountInv /\ [Next]_vars => CountInv'
  <1>1. ASSUME CountInv, UNCHANGED <<extraction, column, env, source>>,
               pc' \in {"configure", "request", "fetching"} =>
                   source = "world_bank_api" \/ pc \in {"configure", "request", "fetching"}
        PROVE  CountInv'
    <2>1. Rejected' = Rejected
      BY <1>1, SameUnreadable DEF extraction, Rejected
    <2>2. BulkInv'
      BY <1>1 DEF CountInv, BulkInv, extraction
    <2> QED
      BY <1>1, <2>1, <2>2 DEF CountInv, extraction
  <1>2. ASSUME CountInv, UNCHANGED vars PROVE CountInv'
    BY <1>1, <1>2 DEF vars, extractionVars
  <1>3. ASSUME BaseInv, CountInv, Next PROVE CountInv'
    <2>t. TypeOK
      BY <1>3 DEF BaseInv
    <2>m. Moves
      BY <1>3, EveryStepMoves DEF BaseInv
    <2>1. UNCHANGED <<env, source>>
      BY <2>m DEF Moves
    <2>2. CASE Quiet
      BY <1>1, <1>3, <2>1, <2>2, <2>m DEF Moves, Quiet
    <2> QED
      BY <1>3, <2>t, <2>1, <2>2, Steps, TakingCounts, ReadingCounts
  <1> QED
    BY <1>2, <1>3

(* Every row is counted once, whatever it holds and however many pages the *)
(* document came in, and the rejections are the rows that could not be     *)
(* read (records.py 68-90, world_bank.py 129-143, owid_csv.py 106-117,     *)
(* wikipedia_html.py 126-152).                                             *)
THEOREM RowsAreCounted == Spec => []EveryRowCounted
  <1> QED
    BY InitBase, StepBase, InitCounts, StepCounts, CountedImpliesProperty, PTL
       DEF Spec, BaseInv

-----------------------------------------------------------------------------
(* What is asked for                                                       *)

AskedFor ==
    {o \in Observations :
        /\ FitsSchema(o)
        /\ o.fact[1] \notin Aggregates
        /\ AsksFor(o.fact[1])
        /\ source # "wikipedia_cia" => o.fact[2] >= FirstYear}

AskedInv == observations \in Seq(AskedFor)

LEMMA SameAsked ==
  ASSUME UNCHANGED <<env, source>>
  PROVE  AskedFor' = AskedFor
  BY DEF AskedFor, AsksFor, FirstYear

LEMMA WantsWhatIsAsked == \A iso3 : Wants(iso3) <=> AsksFor(iso3)
  <1> DEFINE filter == env.country_filter
             named == {i \in DOMAIN filter : filter[i] # Unset}
  <1>1. config.country_filter = {Upper(filter[i]) : i \in named}
    BY DEF config, Config
  <1>2. \A iso3 : AsksFor(iso3) <=> (named = {} \/ \E i \in named : Upper(filter[i]) = iso3)
    BY DEF AsksFor
  <1> HIDE DEF named, filter
  <1> QED
    BY <1>1, <1>2 DEF Wants

LEMMA MadeIsAsked ==
  ASSUME BaseInv, pc = "reading", NEW row, Fate(row) = "observed"
  PROVE  Made(row) \in AskedFor
  <1>1. Made(row) \in Observations /\ FitsSchema(Made(row))
    BY MadeFits DEF BaseInv, TypeOK
  <1>2. config.min_year = FirstYear /\ config.min_year \in Int
    BY ConfigIsSane DEF BaseInv, config, Config, FirstYear
  <1>3. CASE source = "world_bank_api"
    <2>1. /\ Create(row.code, row.year, row.value) = "observed"
          /\ Wants(Upper(row.code)) /\ ~(row.year < config.min_year)
      BY <1>3, FateIs, RecordInScope
    <2>2. Upper(row.code) \in Codes \ Aggregates /\ row.year \in Int
      BY <2>1, ThisYearAssumption DEF Create, IsCountry, IsYear, MIN_SUPPORTED_YEAR
    <2>3. Made(row).fact = <<Upper(row.code), row.year>>
      BY <1>3 DEF Made, Observed
    <2>4. row.year >= FirstYear
      BY <1>2, <2>1, <2>2
    <2> QED
      BY <1>1, <2>1, <2>2, <2>3, <2>4, WantsWhatIsAsked DEF AskedFor
  <1>4. CASE source = "owid_csv"
    <2>1. /\ Create(row.code, row.year, row.value) = "observed"
          /\ row.code \in Codes \ Aggregates
          /\ Wants(row.code) /\ Reaches(row.year)
      BY <1>4, FateIs, CsvRowInScope
    <2>2. Upper(row.code) = row.code /\ row.year \in Int
      BY <2>1, CodeIsUpper DEF Create, IsYear, MIN_SUPPORTED_YEAR
    <2>3. Made(row).fact = <<row.code, row.year>>
      BY <1>4, <2>2 DEF Made, Observed
    <2>4. row.year >= FirstYear
      BY <1>2, <2>1, <2>2, MarkersAssumption DEF Reaches
    <2> QED
      BY <1>1, <2>1, <2>3, <2>4, WantsWhatIsAsked DEF AskedFor
  <1>5. CASE source = "wikipedia_cia"
    <2>1. Tracked(row) /\ Wants(Iso3(row))
      BY <1>5, FateIs, TableRowInScope
    <2>2. Iso3(row) \in Codes \ Aggregates /\ Upper(Iso3(row)) = Iso3(row)
      BY <2>1, TrackedAssumption, CodeIsUpper DEF Tracked, Iso3
    <2>3. Made(row).fact[1] = Iso3(row)
      BY <1>5, <2>2 DEF Made, Observed
    <2> QED
      BY <1>1, <1>5, <2>1, <2>2, <2>3, WantsWhatIsAsked DEF AskedFor
  <1> QED
    BY <1>3, <1>4, <1>5 DEF BaseInv, TypeOK, Keys

LEMMA StepKeepsAsked == BaseInv /\ AskedInv /\ [Next]_vars => AskedInv'
  <1>1. ASSUME AskedInv, UNCHANGED <<env, source, observations>> PROVE AskedInv'
    BY <1>1, SameAsked DEF AskedInv
  <1>2. ASSUME BaseInv, AskedInv, Next PROVE AskedInv'
    <2>1. UNCHANGED <<env, source>>
      BY <1>2, EveryStepMoves DEF BaseInv, Moves
    <2>2. CASE Quiet \/ ReadsRows
      BY <1>1, <1>2, <2>1, <2>2 DEF Quiet, extraction, ReadsRows
    <2>3. CASE TakesRow
      <3>1. CASE Fate(NextRow) = "observed"
        <4>1. Made(NextRow) \in AskedFor
          BY <1>2, <2>3, <3>1, MadeIsAsked DEF TakesRow, Takes
        <4>2. observations' = Append(observations, Made(NextRow))
          BY <2>3, <3>1 DEF TakesRow, Takes
        <4>3. observations \in Seq(AskedFor)
          BY <1>2 DEF AskedInv
        <4>4. observations' \in Seq(AskedFor)
          BY <4>1, <4>2, <4>3
        <4> QED
          BY <2>1, <4>4, SameAsked DEF AskedInv
      <3>2. CASE Fate(NextRow) # "observed"
        BY <1>1, <1>2, <2>1, <2>3, <3>2 DEF TakesRow, Takes
      <3> QED
        BY <3>1, <3>2
    <2> QED
      BY <1>2, <2>2, <2>3, Steps DEF BaseInv
  <1> QED
    BY <1>1, <1>2 DEF vars, extractionVars, extraction

(* Whatever the publisher serves, no observation reaches the loader of a   *)
(* country outside COUNTRIES, of an aggregate, or that a constraint of the *)
(* table would refuse, and the API and the CSV contribute none from before *)
(* MIN_YEAR.  The article is not held to the first year, in the code as in *)
(* the formula (world_bank.py 99-139, owid_csv.py 89-116,                  *)
(* wikipedia_html.py 120-157).                                             *)
THEOREM ObservationsStayInScope == Spec => []StaysInScope
  <1>1. Init => AskedInv
    BY DEF Init, ExtractionInit, AskedInv
  <1>2. AskedInv => StaysInScope
    <2> SUFFICES ASSUME AskedInv PROVE StaysInScope
      OBVIOUS
    <2>1. \A i \in 1..Len(observations) : observations[i] \in AskedFor
      BY DEF AskedInv
    <2> QED
      BY <2>1 DEF StaysInScope, AskedFor
  <1> QED
    BY <1>1, <1>2, InitBase, StepBase, StepKeepsAsked, PTL DEF Spec

-----------------------------------------------------------------------------
(* Whose figures                                                           *)

(* The column is PROVIDER's in the header, and every observation comes of  *)
(* a row already classified, out of that column.                           *)
ColumnInv ==
    source = "wikipedia_cia" =>
        /\ (pc = "reading" \/ observations # <<>>) =>
               /\ TableReadable(published)
               /\ column.offset \in Located(published[2])
               /\ column.year = published[2][column.offset + 1].label.year
        /\ \A k \in 1..Len(observations) : \E i \in 1..done :
               Tracked(rows[i]) /\ observations[k] = Made(rows[i])


LEMMA StepKeepsColumn == BaseInv /\ ColumnInv /\ BulkInv /\ [Next]_vars => ColumnInv'
  <1> SUFFICES ASSUME BaseInv, ColumnInv, BulkInv, [Next]_vars,
                      source' = "wikipedia_cia"
               PROVE  ColumnInv'
    BY DEF ColumnInv
  <1>1. ASSUME UNCHANGED <<source, column, published, rows, done, observations>>,
               pc' = "reading" => pc = "reading"
        PROVE  ColumnInv'
    BY <1>1 DEF ColumnInv, Made, ValueCell, value_index, Iso3
  <1>2. CASE UNCHANGED vars
    BY <1>1, <1>2 DEF vars, extractionVars, extraction
  <1>3. CASE Next
    <2>t. TypeOK /\ Moves
      BY <1>3, EveryStepMoves DEF BaseInv
    <2>1. source = "wikipedia_cia" /\ UNCHANGED <<env, source, published>>
      BY <2>t DEF Moves
    <2>2. CASE Quiet
      BY <1>1, <2>1, <2>2 DEF Quiet, extraction
    <2>3. CASE ReadsRows
      <3>1. rows = <<>> /\ done = 0 /\ done' = 0
        BY <2>t, <2>1, <2>3 DEF BulkInv, ReadsRows, TypeOK
      <3>2. 1..done = {}
        BY <3>1
      <3>3. 1..Len(observations) = {} /\ observations' = observations
        BY <2>1, <2>3, <3>2 DEF ColumnInv, ReadsRows
      <3>4. /\ TableReadable(published')
            /\ column'.offset \in Located(published'[2])
            /\ column'.year = published'[2][column'.offset + 1].label.year
        BY <2>1, <2>3 DEF ReadsRows
      <3> QED
        BY <3>3, <3>4 DEF ColumnInv
    <2>4. CASE TakesRow
      <3>1. /\ pc = "reading" /\ UNCHANGED <<rows, column>>
            /\ done \in Nat /\ done' = done + 1
        BY <2>t, <2>4 DEF TakesRow, Takes, TypeOK
      <3>2. /\ TableReadable(published')
            /\ column'.offset \in Located(published'[2])
            /\ column'.year = published'[2][column'.offset + 1].label.year
        BY <2>1, <3>1 DEF ColumnInv
      <3>3. \A k \in 1..Len(observations') : \E i \in 1..(done + 1) :
                Tracked(rows[i]) /\ observations'[k] = Made(rows[i])
        <4>1. \A k \in 1..Len(observations) : \E i \in 1..(done + 1) :
                  Tracked(rows[i]) /\ observations[k] = Made(rows[i])
          BY <2>1, <3>1 DEF ColumnInv
        <4>2. CASE Fate(NextRow) # "observed"
          BY <2>4, <4>1, <4>2 DEF TakesRow, Takes
        <4>3. CASE Fate(NextRow) = "observed"
          <5>1. observations' = Append(observations, Made(NextRow))
            BY <2>4, <4>3 DEF TakesRow, Takes
          <5>2. Tracked(NextRow)
            BY <2>1, <4>3, FateIs, TableRowInScope
          <5>3. /\ observations \in Seq(Observations) /\ Made(NextRow) \in Observations
            BY <2>t, <4>3, MadeFits DEF TypeOK
          <5>4. \A k \in 1..Len(observations') :
                    \/ observations'[k] = observations[k] /\ k \in 1..Len(observations)
                    \/ observations'[k] = Made(NextRow)
            BY <5>1, <5>3
          <5>5. NextRow = rows[done + 1] /\ done + 1 \in 1..(done + 1)
            BY <3>1 DEF NextRow
          <5> QED
            BY <4>1, <5>2, <5>4, <5>5
        <4> QED
          BY <4>2, <4>3
      <3>4. \A k \in 1..Len(observations') : \E i \in 1..done' :
                Tracked(rows'[i]) /\ observations'[k] = Made(rows[i])
        BY <3>1, <3>3
      <3>5. \A k \in 1..Len(observations') : \E i \in 1..done' :
                (Tracked(rows[i]) /\ observations[k] = Made(rows[i]))'
        BY <2>1, <3>1, <3>4 DEF Made, ValueCell, value_index, Iso3
      <3> QED
        BY <3>2, <3>5 DEF ColumnInv
    <2> QED
      BY <1>3, <2>t, <2>2, <2>3, <2>4, Steps
  <1> QED
    BY <1>2, <1>3

LEMMA ColumnIsProviders == BaseInv /\ ColumnInv => ReadsProvidersColumn
  <1> SUFFICES ASSUME BaseInv, ColumnInv, source = "wikipedia_cia",
                      \A i \in 1..Len(rows) : Aligned(rows[i]),
                      NEW k \in 1..Len(observations)
               PROVE  \E i \in 1..done, j \in 1..Len(published[2]) :
                          /\ rows[i][j + 1].of = PROVIDER
                          /\ Tracked(rows[i])
                          /\ observations[k] =
                               [fact |-> <<Iso3(rows[i]), published[2][j].label.year>>,
                                value |-> rows[i][j + 1].figure]
    BY DEF ReadsProvidersColumn
  <1>1. PICK i \in 1..done : Tracked(rows[i]) /\ observations[k] = Made(rows[i])
    BY DEF ColumnInv
  <1>2. observations # <<>>
    BY DEF BaseInv, TypeOK
  <1>3. /\ TableReadable(published)
        /\ column.offset \in Located(published[2])
        /\ column.year = published[2][column.offset + 1].label.year
    BY <1>2 DEF ColumnInv
  <1>4. published \in Seq(Seq(Cell)) /\ Len(published) >= 3
    BY <1>3, ServedIs, ArticlesAssumption DEF BaseInv, TypeOK, TableReadable
  <1>5. published[2] \in Seq(Cell)
    BY <1>4
  <1> DEFINE j == column.offset + 1
  <1>6. j \in 1..Len(published[2]) /\ column.offset \in Nat
    BY <1>3, <1>5 DEF Located
  <1>7. published[2][j].label.provider = PROVIDER
    BY <1>3 DEF Located, Locates
  <1>8. i \in 1..Len(rows)
    BY DEF BaseInv, TypeOK
  <1>9. rows[i][j + 1].of = PROVIDER
    BY <1>6, <1>7, <1>8 DEF Aligned
  <1>10. value_index + 1 = j + 1
    BY DEF value_index
  <1>11. Upper(Iso3(rows[i])) = Iso3(rows[i])
    BY <1>1, TrackedAssumption, CodeIsUpper DEF Tracked, Iso3
  <1>12. Made(rows[i]) = [fact |-> <<Iso3(rows[i]), published[2][j].label.year>>,
                          value |-> rows[i][j + 1].figure]
    BY <1>3, <1>10, <1>11 DEF Made, Observed, ValueCell
  <1> QED
    BY <1>1, <1>6, <1>9, <1>12

(* In a table whose rows stand under their header every figure is of the   *)
(* publisher asked for, whichever column of how many is theirs             *)
(* (wikipedia_html.py 72-93, 122-152).                                     *)
THEOREM FiguresAreProviders == Spec => []ReadsProvidersColumn
  <1>1. Init => ColumnInv
    <2> SUFFICES ASSUME Init PROVE ColumnInv
      OBVIOUS
    <2>1. observations = <<>> /\ pc = "configure"
      BY DEF Init, ExtractionInit
    <2>2. 1..Len(observations) = {}
      BY <2>1
    <2> QED
      BY <2>1, <2>2 DEF ColumnInv
  <1>2. CountInv => BulkInv
    BY DEF CountInv
  <1> QED
    BY <1>1, <1>2, InitBase, StepBase, InitCounts, StepCounts, StepKeepsColumn,
       ColumnIsProviders, PTL DEF Spec

-----------------------------------------------------------------------------
(* The whole document                                                      *)

FirstPages(table, n) ==
    SubSeq(table, 1, IF Len(table) < n * PAGE_SIZE THEN Len(table) ELSE n * PAGE_SIZE)

(* A page continues where the one before it ended.                         *)
LEMMA PagesJoin ==
  ASSUME NEW table \in Seq(ApiRecord), NEW n \in Nat \ {0}
  PROVE  FirstPages(table, n - 1) \o PageOf(table, n) = FirstPages(table, n)
  <1> DEFINE a == (n - 1) * PAGE_SIZE
             b == n * PAGE_SIZE
             end == IF b < Len(table) THEN b ELSE Len(table)
  <1>1. a \in Nat /\ b \in Nat /\ b - PAGE_SIZE = a /\ a < b /\ Len(table) \in Nat
    BY PagingAssumption
  <1>2. PageOf(table, n) = SubSeq(table, a + 1, end)
    BY <1>1 DEF PageOf
  <1>3. FirstPages(table, n) = SubSeq(table, 1, end)
    BY <1>1 DEF FirstPages
  <1>4. FirstPages(table, n - 1) = SubSeq(table, 1, IF Len(table) < a THEN Len(table) ELSE a)
    BY <1>1 DEF FirstPages
  <1> HIDE DEF a, b
  <1>5. CASE a <= Len(table)
    <2>1. a \in (1 - 1)..Len(table) /\ end \in a..Len(table) /\ 1 \in 1..(Len(table) + 1)
      BY <1>1, <1>5
    <2>2. SubSeq(table, 1, a) \o SubSeq(table, a + 1, end) = SubSeq(table, 1, end)
      BY <2>1, ConcatAdjacentSubSeq
    <2>3. (IF Len(table) < a THEN Len(table) ELSE a) = a
      BY <1>1, <1>5
    <2>4. FirstPages(table, n - 1) = SubSeq(table, 1, a)
      BY <1>4, <2>3
    <2> HIDE DEF end
    <2> QED
      BY <1>2, <1>3, <2>2, <2>4
  <1>6. CASE Len(table) < a
    <2>1. end = Len(table) /\ end < a + 1 /\ a + 1 \in Int /\ end \in Int
      BY <1>1, <1>6
    <2>2. SubSeq(table, a + 1, end) = <<>>
      BY <2>1, SubSeqEmpty
    <2>3. SubSeq(table, 1, Len(table)) = table
      BY SubSeqFull
    <2>4. table \o <<>> = table
      BY ConcatEmptySeq
    <2> QED
      BY <1>2, <1>3, <1>4, <1>6, <2>1, <2>2, <2>3, <2>4
  <1> QED
    BY <1>1, <1>5, <1>6

(* There is no page after the last.                                        *)
LEMMA LastPageReachesEnd ==
  ASSUME NEW table \in Seq(ApiRecord), NEW n \in Nat, ~(n < PagesIn(table))
  PROVE  Len(table) <= n * PAGE_SIZE
  <1> DEFINE q == PagesIn(table)
  <1>0. Len(table) \in Nat /\ PAGE_SIZE \in Nat \ {0}
    BY PagingAssumption
  <1>1. q \in Int /\ Len(table) + PAGE_SIZE - 1 < (q + 1) * PAGE_SIZE
    BY <1>0 DEF PagesIn
  <1> HIDE DEF q
  <1>2. q <= n
    BY <1>1 DEF q
  <1>3. (q + 1) * PAGE_SIZE <= (n + 1) * PAGE_SIZE
    BY <1>0, <1>1, <1>2
  <1>4. (n + 1) * PAGE_SIZE = n * PAGE_SIZE + PAGE_SIZE /\ n * PAGE_SIZE \in Int
    BY <1>0
  <1> QED
    BY <1>0, <1>1, <1>3, <1>4

LEMMA WholeTable ==
  ASSUME NEW table \in Seq(ApiRecord), NEW n \in Nat, n <= MAX_PAGES,
         n = MAX_PAGES \/ ~(n < PagesIn(table))
  PROVE  FirstPages(table, n) = FirstPages(table, MAX_PAGES)
  <1>1. CASE n = MAX_PAGES
    BY <1>1
  <1>2. CASE ~(n < PagesIn(table))
    <2>1. Len(table) <= n * PAGE_SIZE
      BY <1>2, LastPageReachesEnd
    <2>2. n * PAGE_SIZE <= MAX_PAGES * PAGE_SIZE /\ n * PAGE_SIZE \in Nat
          /\ MAX_PAGES * PAGE_SIZE \in Nat /\ Len(table) \in Nat
      BY PagingAssumption
    <2> DEFINE a == IF Len(table) < n * PAGE_SIZE THEN Len(table) ELSE n * PAGE_SIZE
               b == IF Len(table) < MAX_PAGES * PAGE_SIZE
                      THEN Len(table) ELSE MAX_PAGES * PAGE_SIZE
    <2>3. FirstPages(table, n) = SubSeq(table, 1, a)
      BY DEF FirstPages
    <2>4. FirstPages(table, MAX_PAGES) = SubSeq(table, 1, b)
      BY DEF FirstPages
    <2>5. a = b
      BY <2>1, <2>2
    <2> HIDE DEF a, b
    <2> QED
      BY <2>3, <2>4, <2>5
  <1> QED
    BY <1>1, <1>2

LEMMA WholeIs ==
  /\ source = "world_bank_api" => WholeDocument = FirstPages(published, MAX_PAGES)
  /\ source = "owid_csv" => WholeDocument = published.rows
  /\ source = "wikipedia_cia" => WholeDocument = SubSeq(published, 3, Len(published))
  <1>1. source = "world_bank_api" => WholeDocument = FirstPages(published, MAX_PAGES)
    BY DEF WholeDocument, FirstPages
  <1>2. source = "owid_csv" => WholeDocument = published.rows
    BY DEF WholeDocument
  <1>3. source = "wikipedia_cia" => WholeDocument = SubSeq(published, 3, Len(published))
    BY DEF WholeDocument
  <1> QED
    BY <1>1, <1>2, <1>3

DocumentInv ==
    /\ BulkInv
    /\ (source = "world_bank_api" /\ steady) =>
           /\ pc \in {"configure", "request", "fetching"} =>
                  rows = FirstPages(published, page - 1)
           /\ pc = "reading" => rows = FirstPages(published, page)
    /\ (source # "world_bank_api" /\ pc = "reading") => rows = WholeDocument
    /\ (pc = "returned" /\ steady) => rows = WholeDocument /\ AllRead

(* How an extraction leaves the loop over the rows of a page.              *)
LEMMA Leaving ==
  ASSUME BaseInv, Next, pc = "reading", pc' # "reading"
  PROVE  /\ AllRead
         /\ UNCHANGED <<published, source>>
         /\ source = "world_bank_api" /\ steady' /\ pc' = "request" =>
                steady /\ page' = page + 1
         /\ source = "world_bank_api" /\ steady' /\ pc' = "returned" =>
                steady /\ (page = MAX_PAGES \/ ~(page < PagesIn(published)))
         /\ source # "world_bank_api" => pc' # "request"
  <1>1. TypeOK /\ page \in Nat /\ page <= MAX_PAGES /\ MAX_PAGES \in Nat
    BY PagingAssumption DEF BaseInv, TypeOK
  <1>2. CASE Starts \/ Republishes \/ Terminated
    BY <1>2 DEF Starts, Configured, ConfigurationError, Requests, Fetching, FetchBlowsUp,
       FetchRaises, Goes, Republishes, Republish, Terminated, Ended
  <1>3. CASE WorldBankExtracts
    <2>1. source = "world_bank_api" /\ UNCHANGED source
      BY <1>3 DEF WorldBankExtracts
    <2>2. ~(ReadsPage \/ EnvelopeRaises \/ ClassifiesRecord)
      BY DEF ReadsPage, Receives, EnvelopeRaises, DocumentRaises, ClassifiesRecord, Takes,
         Goes
    <2>3. PICK total \in {PagesIn(published)} \cup OddTotals :
              TurnsPage(total) \/ LastPage(total)
      BY <1>3, <2>2 DEF WorldBankExtracts, WorldBankStep
    <2>4. /\ AllRead /\ UNCHANGED published
          /\ steady' = (steady /\ total = PagesIn(published))
      BY <2>3 DEF TurnsPage, LastPage, Ends, Reports
    <2>5. CASE TurnsPage(total)
      <3>1. page' = page + 1 /\ pc' = (IF page < MAX_PAGES THEN "request" ELSE "returned")
        BY <2>5 DEF TurnsPage, Ends, Goes
      <3>2. page = MAX_PAGES \/ pc' = "request"
        BY <1>1, <3>1
      <3>3. AllRead /\ UNCHANGED <<published, source>> /\ (steady' => steady)
        BY <2>1, <2>4
      <3> QED
        BY <2>1, <3>1, <3>2, <3>3
    <2>6. CASE LastPage(total)
      <3>1. pc' = "returned" /\ ~MorePages(total)
        BY <2>6 DEF LastPage, Ends, Goes
      <3>2. published \in Seq(ApiRecord)
        BY <1>1, <2>1, ServedIs DEF TypeOK
      <3>3. PagesIn(published) \in Int
        BY <3>2, PagingAssumption DEF PagesIn
      <3> QED
        BY <2>1, <2>4, <3>1, <3>3 DEF MorePages
    <2> QED
      BY <2>3, <2>5, <2>6
  <1>4. CASE OwidExtracts
    BY <1>4 DEF OwidExtracts, OwidStep, ReadsFrame, Receives, FrameRaises, DocumentRaises,
       ClassifiesCsvRow, Takes, Ends, Goes
  <1>5. CASE WikipediaExtracts
    BY <1>5 DEF WikipediaExtracts, WikipediaStep, ReadsTable, Receives, TableRaises,
       DocumentRaises, ClassifiesTableRow, Takes, ReadsNothing, ReadsSomething, Ends, Goes
  <1> QED
    BY <1>2, <1>3, <1>4, <1>5 DEF Next, Extracts

(* Publishing does not go unnoticed, and nothing else is.                  *)
LEMMA Staying ==
  ASSUME Next, pc # "reading"
  PROVE  /\ UNCHANGED page
         /\ steady' => steady /\ UNCHANGED published
         /\ source # "world_bank_api" => UNCHANGED published
         /\ pc' = "returned" => pc = "returned"
         /\ pc' \in {"configure", "request", "fetching"} =>
                pc \in {"configure", "request", "fetching"}
  <1>1. CASE Starts /\ UNCHANGED <<page, steady, column, source>>
    BY <1>1 DEF Starts, Configured, ConfigurationError, Requests, Fetching, FetchBlowsUp,
       FetchRaises, Goes
  <1>2. CASE WorldBankExtracts
    <2>1. ReadsPage \/ EnvelopeRaises
      BY <1>2 DEF WorldBankExtracts, WorldBankStep, ClassifiesRecord, Takes, TurnsPage,
         LastPage, Ends, Goes
    <2> QED
      BY <2>1 DEF ReadsPage, Receives, EnvelopeRaises, DocumentRaises, Goes
  <1>3. CASE OwidExtracts
    BY <1>3 DEF OwidExtracts, OwidStep, ReadsFrame, Receives, FrameRaises, DocumentRaises,
       ClassifiesCsvRow, Takes, Ends, Goes
  <1>4. CASE WikipediaExtracts
    BY <1>4 DEF WikipediaExtracts, WikipediaStep, ReadsTable, Receives, TableRaises,
       DocumentRaises, ClassifiesTableRow, Takes, ReadsNothing, ReadsSomething, Ends, Goes
  <1>5. CASE Republishes \/ Terminated
    BY <1>5 DEF Republishes, Republish, Terminated, vars, extractionVars
  <1> QED
    BY <1>1, <1>2, <1>3, <1>4, <1>5 DEF Next, Extracts

LEMMA SameWhole ==
  ASSUME UNCHANGED <<source, published>>
  PROVE  WholeDocument' = WholeDocument
  BY DEF WholeDocument

LEMMA ReadingKeepsDocument ==
  ASSUME BaseInv, DocumentInv, ReadsRows, UNCHANGED source
  PROVE  DocumentInv'
  <1>1. /\ pc = "fetching" /\ pc' = "reading" /\ rows' = rows \o Incoming
        /\ UNCHANGED <<published, page, steady>>
    BY DEF ReadsRows
  <1>2. CASE source = "world_bank_api"
    <2>1. Incoming = PageOf(published, page) /\ published \in Seq(ApiRecord)
          /\ page \in Nat \ {0}
      BY <1>2, ServedIs, PagingAssumption DEF Incoming, BaseInv, TypeOK
    <2>2. steady => rows = FirstPages(published, page - 1)
      BY <1>1, <1>2 DEF DocumentInv
    <2>3. steady => rows' = FirstPages(published, page)
      BY <1>1, <2>1, <2>2, PagesJoin
    <2>4. FirstPages(published', page') = FirstPages(published, page)
      BY <1>1
    <2> QED
      BY <1>1, <1>2, <2>3, <2>4 DEF DocumentInv, BulkInv
  <1>3. CASE source # "world_bank_api"
    <2>1. rows = <<>>
      BY <1>1, <1>3 DEF DocumentInv, BulkInv
    <2>2. Incoming \in Seq(RowsOf(source))
      BY DEF ReadsRows
    <2>3. rows' = Incoming
      BY <1>1, <2>1, <2>2, ConcatEmptySeq
    <2>4. Incoming = WholeDocument
      BY <1>3, WholeIs DEF Incoming, BaseInv, TypeOK, Keys
    <2>5. WholeDocument' = WholeDocument
      BY <1>1, SameWhole
    <2> QED
      BY <1>1, <1>3, <2>3, <2>4, <2>5 DEF DocumentInv, BulkInv
  <1> QED
    BY <1>2, <1>3

LEMMA WaitingKeepsDocument ==
  ASSUME BaseInv, DocumentInv, Next, Quiet, pc # "reading", UNCHANGED source
  PROVE  DocumentInv'
  <1>1. /\ UNCHANGED <<page, rows, done>> /\ pc' # "reading"
        /\ steady' => steady /\ UNCHANGED published
        /\ source # "world_bank_api" => UNCHANGED published
        /\ pc' = "returned" => pc = "returned"
        /\ pc' \in {"configure", "request", "fetching"} =>
                pc \in {"configure", "request", "fetching"}
    BY Staying DEF Quiet, extraction
  <1>2. BulkInv'
    BY <1>1 DEF DocumentInv, BulkInv
  <1>3. (source = "world_bank_api" /\ steady') =>
            FirstPages(published', page' - 1) = FirstPages(published, page - 1)
    BY <1>1
  <1>4. (pc' = "returned" /\ steady') => (rows = WholeDocument /\ AllRead)
    BY <1>1 DEF DocumentInv
  <1>5. steady' => WholeDocument' = WholeDocument
    BY <1>1, SameWhole
  <1> QED
    BY <1>1, <1>2, <1>3, <1>4, <1>5 DEF DocumentInv, AllRead

LEMMA LeavingKeepsDocument ==
  ASSUME BaseInv, DocumentInv, Next, Quiet, pc = "reading", UNCHANGED source
  PROVE  DocumentInv'
  <1>1. UNCHANGED <<rows, done>> /\ pc' # "reading"
    BY DEF Quiet, extraction
  <1>2. /\ AllRead
        /\ UNCHANGED <<published, source>>
        /\ source = "world_bank_api" /\ steady' /\ pc' = "request" =>
                steady /\ page' = page + 1
        /\ source = "world_bank_api" /\ steady' /\ pc' = "returned" =>
                steady /\ (page = MAX_PAGES \/ ~(page < PagesIn(published)))
        /\ source # "world_bank_api" => pc' # "request"
    BY <1>1, Leaving
  <1>3. pc' \notin {"configure", "fetching"}
    BY EveryStepMoves DEF BaseInv, Moves
  <1>4. page \in Nat /\ page <= MAX_PAGES
    BY PagingAssumption DEF BaseInv, TypeOK
  <1>5. BulkInv'
    BY <1>2, <1>3 DEF BulkInv
  <1>6. (source = "world_bank_api" /\ steady' /\ pc' = "request") =>
            rows' = FirstPages(published', page' - 1)
    <2> SUFFICES ASSUME source = "world_bank_api", steady', pc' = "request"
                 PROVE  rows' = FirstPages(published', page' - 1)
      OBVIOUS
    <2>1. page' - 1 = page
      BY <1>2, <1>4
    <2>2. rows = FirstPages(published, page)
      BY <1>2 DEF DocumentInv
    <2> QED
      BY <1>1, <1>2, <2>1, <2>2
  <1>7. (pc' = "returned" /\ steady') => rows = WholeDocument
    <2>1. CASE source = "world_bank_api" /\ pc' = "returned" /\ steady'
      <3>1. rows = FirstPages(published, page)
        BY <1>2, <2>1 DEF DocumentInv
      <3>2. published \in Seq(ApiRecord)
        BY <2>1, ServedIs DEF BaseInv, TypeOK
      <3>3. FirstPages(published, page) = FirstPages(published, MAX_PAGES)
        BY <1>2, <1>4, <2>1, <3>2, WholeTable
      <3> QED
        BY <2>1, <3>1, <3>3, WholeIs
    <2>2. CASE source # "world_bank_api"
      BY <2>2 DEF DocumentInv
    <2> QED
      BY <2>1, <2>2
  <1>8. WholeDocument' = WholeDocument
    BY <1>2, SameWhole
  <1> QED
    BY <1>1, <1>2, <1>3, <1>5, <1>6, <1>7, <1>8 DEF DocumentInv, AllRead

LEMMA InitDocument == Init => DocumentInv
  <1> SUFFICES ASSUME Init PROVE DocumentInv
    OBVIOUS
  <1>1. rows = <<>> /\ page = 1 /\ pc = "configure" /\ published \in Serves(source)
        /\ source \in Keys
    BY DEF Init, ExtractionInit
  <1>2. source = "world_bank_api" => rows = FirstPages(published, page - 1)
    <2> SUFFICES ASSUME source = "world_bank_api"
                 PROVE  rows = FirstPages(published, page - 1)
      OBVIOUS
    <2>1. Len(published) \in Nat
      BY <1>1, ServedIs
    <2>2. (page - 1) * PAGE_SIZE = 0
      BY <1>1, PagingAssumption
    <2>3. FirstPages(published, page - 1) = SubSeq(published, 1, 0)
      BY <2>1, <2>2 DEF FirstPages
    <2> QED
      BY <1>1, <2>3, SubSeqEmpty
  <1> QED
    BY <1>1, <1>2 DEF DocumentInv, BulkInv

LEMMA StepKeepsDocument == BaseInv /\ DocumentInv /\ [Next]_vars => DocumentInv'
  <1>1. ASSUME DocumentInv, UNCHANGED <<source, published, pc, page, steady, rows>>,
               done' = done \/ pc # "returned"
        PROVE  DocumentInv'
    <2>1. WholeDocument' = WholeDocument
      BY <1>1, SameWhole
    <2>2. /\ FirstPages(published', page') = FirstPages(published, page)
          /\ FirstPages(published', page' - 1) = FirstPages(published, page - 1)
      BY <1>1
    <2> QED
      BY <1>1, <2>1, <2>2 DEF DocumentInv, BulkInv, AllRead
  <1>2. ASSUME DocumentInv, UNCHANGED vars PROVE DocumentInv'
    BY <1>1, <1>2 DEF vars, extractionVars, extraction
  <1>3. ASSUME BaseInv, DocumentInv, Next PROVE DocumentInv'
    <2>1. UNCHANGED source
      BY <1>3, EveryStepMoves DEF BaseInv, Moves
    <2>2. CASE TakesRow
      BY <1>1, <1>3, <2>1, <2>2 DEF TakesRow, Takes
    <2> QED
      BY <1>3, <2>1, <2>2, Steps, ReadingKeepsDocument, WaitingKeepsDocument,
         LeavingKeepsDocument DEF BaseInv
  <1> QED
    BY <1>2, <1>3

(* An extraction that returns has read the document to its end, or the API *)
(* to the page limit: no page twice, none left out, for any page size and  *)
(* limit, unless the API publishes or misreports in between                *)
(* (world_bank.py 91-150, owid_csv.py 85-104, wikipedia_html.py 120).      *)
THEOREM DocumentIsRead == Spec => []ReadsWholeDocument
  <1>1. DocumentInv => ReadsWholeDocument
    BY DEF DocumentInv, ReadsWholeDocument
  <1> QED
    BY <1>1, InitBase, StepBase, InitDocument, StepKeepsDocument, PTL DEF Spec

-----------------------------------------------------------------------------
(* What is left to do                                                      *)

LEMMA PhasesAre ==
  \A phase \in Pcs : PhasesLeft[phase] \in Nat
  BY DEF Pcs, PhasesLeft

LEMMA FetchLeftType ==
  ASSUME FetchTypeOK
  PROVE  FetchLeft \in Nat
  BY DEF FetchTypeOK, FetchLeft

LEMMA RemainingType ==
  ASSUME TypeOK
  PROVE  /\ Remaining \in Triples
         /\ MAX_PAGES + 1 - page \in Nat
         /\ PhasesLeft[pc] \in Nat
         /\ PhaseLeft \in Nat
  <1>1. MAX_PAGES + 1 - page \in Nat
    BY PagingAssumption DEF TypeOK
  <1>2. PhasesLeft[pc] \in Nat
    BY PhasesAre DEF TypeOK, Pcs
  <1>3. FetchLeft \in Nat
    BY FetchLeftType DEF TypeOK
  <1>4. Len(rows) - done \in Nat
    BY DEF TypeOK
  <1>5. PhaseLeft \in Nat
    BY <1>3, <1>4 DEF PhaseLeft
  <1> QED
    BY <1>1, <1>2, <1>5 DEF Remaining, Triples

(* A phase that ends spends, whatever the next one begins with.            *)
LEMMA PhaseSpends ==
  ASSUME page' = page, PhasesLeft[pc'] < PhasesLeft[pc]
  PROVE  Shrinks(Remaining', Remaining)
  BY DEF Remaining, Shrinks

(* So does one that goes on.                                               *)
LEMMA WorkSpends ==
  ASSUME page' = page, pc' = pc, PhaseLeft' < PhaseLeft
  PROVE  Shrinks(Remaining', Remaining)
  BY DEF Remaining, Shrinks

LEMMA FetchingSpends ==
  ASSUME FetchTypeOK, FetchStep
  PROVE  FetchLeft' < FetchLeft
  <1>1. CASE Wakes
    BY <1>1 DEF Wakes, FetchTypeOK, FetchLeft
  <1>2. ASSUME NEW answer \in Answers,
               GetsBody(answer) \/ GetsRefusal(answer)
                 \/ BacksOff(answer) \/ SpendsBudget(answer)
        PROVE  FetchLeft' < FetchLeft
    <2>1. /\ fetch.state = "sending" /\ fetch'.state \in {"body", "unavailable", "sleeping"}
          /\ fetch'.attempt = fetch.attempt /\ fetch'.attempts = fetch.attempts
      BY <1>2 DEF GetsBody, GetsRefusal, BacksOff, SpendsBudget, Get
    <2> QED
      BY <2>1 DEF FetchTypeOK, FetchLeft
  <1> QED
    BY <1>1, <1>2 DEF FetchStep

LEMMA TakingSpends ==
  ASSUME TypeOK, NEW fate, NEW observation, Takes(fate, observation), page' = page
  PROVE  Shrinks(Remaining', Remaining)
  <1>1. pc = "reading" /\ pc' = pc /\ rows' = rows /\ done' = done + 1
    BY DEF Takes
  <1>2. PhaseLeft' < PhaseLeft
    BY <1>1 DEF PhaseLeft, TypeOK
  <1> QED
    BY <1>1, <1>2, WorkSpends

LEMMA ExtractionStepSpends ==
  ASSUME BaseInv, Next
  PROVE  \/ Shrinks(Remaining', Remaining)
         \/ published' # published /\ Remaining' = Remaining
         \/ UNCHANGED vars
  <1>t. TypeOK /\ FetchTypeOK
    BY DEF BaseInv, TypeOK
  <1>1. CASE Starts /\ UNCHANGED <<page, steady, column, source>>
    <2>1. CASE Fetching
      <3>1. FetchLeft' < FetchLeft
        BY <1>t, <2>1, FetchingSpends DEF Fetching
      <3>2. pc = "fetching" /\ pc' = pc
        BY <2>1 DEF Fetching
      <3>3. PhaseLeft = FetchLeft /\ PhaseLeft' = FetchLeft'
        BY <3>2 DEF PhaseLeft
      <3> QED
        BY <1>1, <3>1, <3>2, <3>3, WorkSpends
    <2>2. CASE Configured \/ ConfigurationError \/ Requests \/ FetchBlowsUp \/ FetchRaises
      <3>1. PhasesLeft[pc'] < PhasesLeft[pc]
        BY <2>2 DEF Configured, ConfigurationError, Requests, FetchBlowsUp,
                    FetchRaises, Goes, PhasesLeft
      <3> QED
        BY <1>1, <3>1, PhaseSpends
    <2> QED
      BY <1>1, <2>1, <2>2 DEF Starts
  <1>2. CASE WorldBankExtracts
    <2>1. CASE ReadsPage \/ EnvelopeRaises
      <3>1. page' = page /\ PhasesLeft[pc'] < PhasesLeft[pc]
        BY <2>1 DEF ReadsPage, Receives, EnvelopeRaises, DocumentRaises, Goes, PhasesLeft
      <3> QED
        BY <3>1, PhaseSpends
    <2>2. CASE ClassifiesRecord
      BY <1>t, <2>2, TakingSpends DEF ClassifiesRecord
    <2>3. ASSUME NEW total, TurnsPage(total)
          PROVE  Shrinks(Remaining', Remaining)
      <3>1. page' = page + 1 /\ MAX_PAGES + 1 - page \in Nat /\ page \in Nat
        BY <1>t, <2>3, RemainingType DEF TurnsPage, TypeOK
      <3>2. MAX_PAGES + 1 - page' < MAX_PAGES + 1 - page
        BY <3>1, PagingAssumption
      <3> QED
        BY <3>2 DEF Remaining, Shrinks
    <2>4. ASSUME NEW total, LastPage(total)
          PROVE  Shrinks(Remaining', Remaining)
      <3>1. page' = page /\ PhasesLeft[pc'] < PhasesLeft[pc]
        BY <2>4 DEF LastPage, Ends, Goes, PhasesLeft
      <3> QED
        BY <3>1, PhaseSpends
    <2> QED
      BY <1>2, <2>1, <2>2, <2>3, <2>4 DEF WorldBankExtracts, WorldBankStep
  <1>3. CASE OwidExtracts
    <2>1. CASE ClassifiesCsvRow
      BY <1>t, <1>3, <2>1, TakingSpends DEF ClassifiesCsvRow, OwidExtracts
    <2>2. CASE ReadsFrame \/ FrameRaises \/ Ends("returned")
      <3>1. PhasesLeft[pc'] < PhasesLeft[pc]
        BY <2>2 DEF ReadsFrame, Receives, FrameRaises, DocumentRaises, Ends, Goes, PhasesLeft
      <3> QED
        BY <1>3, <3>1, PhaseSpends DEF OwidExtracts
    <2> QED
      BY <1>3, <2>1, <2>2 DEF OwidExtracts, OwidStep
  <1>4. CASE WikipediaExtracts
    <2>1. CASE ClassifiesTableRow
      BY <1>t, <1>4, <2>1, TakingSpends DEF ClassifiesTableRow, WikipediaExtracts
    <2>2. CASE ReadsTable \/ TableRaises \/ ReadsNothing \/ ReadsSomething
      <3>1. PhasesLeft[pc'] < PhasesLeft[pc]
        BY <2>2 DEF ReadsTable, Receives, TableRaises, DocumentRaises, ReadsNothing,
                    ReadsSomething, Ends, Goes, PhasesLeft
      <3> QED
        BY <1>4, <3>1, PhaseSpends DEF WikipediaExtracts
    <2> QED
      BY <1>4, <2>1, <2>2 DEF WikipediaExtracts, WikipediaStep
  <1>5. CASE Republishes
    <2>1. published' # published /\ UNCHANGED <<fetchVars, pc, extraction, page>>
      BY <1>5 DEF Republishes, Republish
    <2> QED
      BY <2>1 DEF Remaining, PhaseLeft, FetchLeft, fetchVars, extraction
  <1>6. CASE Terminated
    BY <1>6 DEF Terminated
  <1> QED
    BY <1>1, <1>2, <1>3, <1>4, <1>5, <1>6 DEF Next, Extracts

(* Whatever page totals the API reports, whatever is published meanwhile,  *)
(* and for any limit on the pages and any budget: an extraction spends a   *)
(* natural amount with each of its steps, so it can take only so many      *)
(* (world_bank.py 91-150, http.py 62-89).                                  *)
THEOREM ExtractionsSpend == Spec => ExtractSpends
  <1>1. BaseInv => Remaining \in Triples
    BY RemainingType DEF BaseInv
  <1>2. /\ BaseInv /\ [Next]_vars
        /\ Remaining \in Triples /\ (Remaining \in Triples)'
        => [/\ Remaining \in Triples /\ Remaining' \in Triples
            /\ \/ Shrinks(Remaining', Remaining)
               \/ published' # published /\ Remaining' = Remaining]_vars
    BY ExtractionStepSpends
  <1> QED
    BY <1>1, <1>2, InitBase, StepBase, PTL DEF Spec, ExtractSpends
=============================================================================
