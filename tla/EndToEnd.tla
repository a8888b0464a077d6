------------------------------- MODULE EndToEnd -------------------------------
(***************************************************************************)
(* One invocation of `labour-etl run` from its environment to the figures  *)
(* in the table: load_config, the extraction of each source of             *)
(* default_sources() request by request and row by row, and the load and   *)
(* the ledger of Pipeline, beside other invocations on the same database   *)
(* (cli.py, pipeline/runner.py, sources/__init__.py).                      *)
(*                                                                         *)
(* Sources gives the extraction of the invocation that is watched, and     *)
(* Pipeline everything else; of the others' extractions only the result is *)
(* known, as in Pipeline.                                                  *)
(***************************************************************************)
EXTENDS Sources

CONSTANTS
    Procs,
    watched,        \* the invocation whose extractions are in detail
    Publications,   \* what the extractions of the others may return
    NoRow

VARIABLES obs, registered, run, entry, clock, txn,
          stage, idx, ext, changed, outcome, landed

(* Most reliable first.                                                    *)
default_sources == <<"world_bank_api", "owid_csv", "wikipedia_cia">>

(* The rows one source can have: there is one indicator.                   *)
NaturalKeys == (Codes \ Aggregates) \X (MIN_SUPPORTED_YEAR..(ThisYear + 1))

Extractions == [rows : Seq([fact : NaturalKeys, value : Int]),
                rejected : Nat, skipped : Nat]

P == INSTANCE Pipeline WITH
         Sources <- Keys, SourceOrder <- default_sources,
         Facts <- NaturalKeys, Values <- Int, Refused <- Int \ (0..100),
         pc <- stage

ASSUME WatchedAssumption == watched \in Procs
ASSUME OthersAssumption == Publications \subseteq Extractions
ASSUME NoCellAssumption == NoRow \notin P!Row /\ NoRow \notin Int

pipelineVars == <<obs, registered, run, entry, clock, txn,
                  stage, idx, ext, changed, outcome, landed>>
wholeVars == <<vars, pipelineVars>>

WholeInit == Init /\ P!Init /\ source = P!Source(watched)

(* main() has not returned with a ConfigurationError, and has its config.  *)
HasConfig == pc \notin {"configure", "refused"}

LoadsConfig ==
    /\ stage[watched] \notin P!Gone
    /\ Configured \/ ConfigurationError
    /\ UNCHANGED <<page, steady, column, source, pipelineVars>>

(* Faulty: one list of observations for all the sources.                   *)
CallsExtractKeepsRows ==
    /\ HasConfig
    /\ P!StartSourceRun(watched)
    /\ source' = P!Source(watched)
    /\ published' \in Serves(source')
    /\ pc' = "request"
    /\ page' = 1 /\ steady' = TRUE /\ column' = NoColumn
    /\ rows' = <<>> /\ done' = 0 /\ rejections' = 0 /\ skipped' = 0
    /\ UNCHANGED <<fetchVars, env, observations>>

(* Whatever the publisher has by then; nothing is kept of the source       *)
(* before it.                                                              *)
CallsExtract ==
    /\ HasConfig
    /\ P!StartSourceRun(watched)
    /\ source' = P!Source(watched)
    /\ published' \in Serves(source')
    /\ pc' = "request"
    /\ page' = 1 /\ steady' = TRUE /\ column' = NoColumn
    /\ rows' = <<>> /\ done' = 0
    /\ observations' = <<>> /\ rejections' = 0 /\ skipped' = 0
    /\ UNCHANGED <<fetchVars, env>>

Extracting ==
    /\ stage[watched] = "extract"
    /\ Extracts \/ Republishes
    /\ UNCHANGED pipelineVars

ExtractionResult ==
    [rows |-> observations, rejected |-> rejections, skipped |-> skipped]

(* Faulty: the rejections are left behind.                                 *)
ReturnsNoRejections ==
    /\ pc = "returned"
    /\ P!Transition(watched, "extract", "load")
    /\ ext' = [ext EXCEPT ![watched] = [ExtractionResult EXCEPT !.rejected = 0]]
    /\ UNCHANGED <<vars, obs, registered, run, entry, clock, txn, idx, changed,
                   outcome, landed>>

Returns ==
    /\ pc = "returned"
    /\ P!Transition(watched, "extract", "load")
    /\ ext' = [ext EXCEPT ![watched] = ExtractionResult]
    /\ UNCHANGED <<vars, obs, registered, run, entry, clock, txn, idx, changed,
                   outcome, landed>>

Raises == pc = "raised" /\ P!ExtractRaises(watched) /\ UNCHANGED vars

(* The statements of run_pipeline before and after an extraction.          *)
Proceeds ==
    /\ HasConfig
    /\ stage[watched] \notin {"open_source", "extract"}
    /\ P!Step(watched)
    /\ UNCHANGED vars

(* A ledger write raises where there is one: of the writes around an       *)
(* extraction the one before it may be committed and its answer lost.      *)
WriteRaises ==
    /\ HasConfig
    /\ stage[watched] = "extract" => pc = "request" /\ page = 1
    /\ P!LedgerRaises(watched)

Fails ==
    /\ pc # "refused"
    /\ P!ServerError(watched) \/ WriteRaises \/ P!Dies(watched)
    /\ UNCHANGED vars

Others ==
    /\ \E q \in Procs \ {watched} :
           P!Step(q) \/ P!ServerError(q) \/ P!LedgerRaises(q) \/ P!Dies(q)
    /\ UNCHANGED vars

WholeOver ==
    /\ \A p \in Procs : \/ stage[p] \in {"done"} \cup P!Gone
                        \/ p = watched /\ pc = "refused"
    /\ UNCHANGED wholeVars

WholeNext == \/ LoadsConfig \/ CallsExtract \/ Extracting \/ Returns \/ Raises
             \/ Proceeds \/ Fails \/ Others \/ WholeOver

WholeSpec == WholeInit /\ [][WholeNext]_wholeVars

-----------------------------------------------------------------------------
(* Properties                                                              *)

(* What the publisher served to the extraction in hand; of an API that     *)
(* changed its table meanwhile, what was read of both.                     *)
Document == IF steady THEN WholeDocument ELSE rows

(* A row that says something: a figure in range, of a country and a year   *)
(* that exist and were asked for.                                          *)
Usable(row) ==
    \/ /\ source = "world_bank_api"
       /\ row # NotAnObject
       /\ IsCountry(row.code) /\ AsksFor(Upper(row.code))
       /\ IsYear(row.year) /\ row.year >= FirstYear
       /\ IsRate(row.value)
    \/ /\ source = "owid_csv"
       /\ row.code \in Codes \ Aggregates /\ AsksFor(row.code)
       /\ IsYear(row.year) /\ row.year >= FirstYear
       /\ IsRate(row.value)
    \/ /\ source = "wikipedia_cia"
       /\ Len(row) > column.offset + 1
       /\ Tracked(row) /\ AsksFor(Iso3(row))
       /\ IsYear(column.year)
       /\ IsRate(row[column.offset + 2].figure)

(* What it says.                                                           *)
Reading(row) ==
    IF source = "wikipedia_cia"
      THEN [fact |-> <<Iso3(row), column.year>>, value |-> row[column.offset + 2].figure]
      ELSE [fact |-> <<Upper(row.code), row.year>>, value |-> row.value]

UsableRows(some) == {i \in 1..Len(some) : Usable(some[i])}
RowsAbout(some, f) == {i \in UsableRows(some) : Reading(some[i]).fact = f}

(* A commit makes the table say what the document said: for every fact of  *)
(* which it has a usable row the figure of the last such row, and for all  *)
(* others what the table held before, whatever is loaded beside it         *)
(* (records.py 31-61, runner.py 87-118, loader.py 23-75).                  *)
LandsWhatWasServed ==
    [][\A s \in Keys : s \in landed'[watched] \ landed[watched] =>
         /\ s = source
         /\ \A f \in NaturalKeys :
              \/ RowsAbout(Document, f) = {} /\ obs'[s][f] = obs[s][f]
              \/ \E i \in RowsAbout(Document, f) :
                     /\ \A j \in RowsAbout(Document, f) : j <= i
                     /\ obs'[s][f] # NoRow
                     /\ obs'[s][f].value = Reading(Document[i]).value]_wholeVars

(* The closed entry of a source that was read accounts for every row of    *)
(* its document: those that landed are its usable rows, the rejected those *)
(* that could not be read (for the CSV the blank ones too), and the rest   *)
(* were out of scope or, elsewhere, blank (runner.py 106-132, records.py   *)
(* 68-90, owid_csv.py 114, 001_initial_schema.sql 63-70).                  *)
LedgerCountsDocument ==
    [][\A s \in Keys :
         (/\ entry'[watched][s] # entry[watched][s]
          /\ stage[watched] \in {"close_loaded", "close_rolled_back"}) =>
             LET counts == entry'[watched][s].counts IN
             /\ s = source
             /\ counts.extracted + counts.skipped = Len(Document)
             /\ counts.extracted - counts.rejected = Cardinality(UsableRows(Document))
             /\ counts.rejected =
                    Cardinality({i \in 1..Len(Document) : Unreadable(Document[i])})
             /\ counts.loaded = IF stage[watched] = "close_loaded"
                                  THEN Cardinality(UsableRows(Document)) ELSE 0]_wholeVars

(* No load of these sources is turned down for what is in it: every row    *)
(* passes the constraints of the table, and its source is registered by    *)
(* then (normalize.py, records.py 33-55 against 001_initial_schema.sql     *)
(* 19-40).                                                                 *)
LoadsAreAccepted ==
    stage[watched] = "load" =>
        /\ P!Source(watched) \in registered
        /\ \A i \in 1..Len(P!Rows(watched)) :
               /\ P!Rows(watched)[i].fact \in NaturalKeys
               /\ FitsSchema(P!Rows(watched)[i])
               /\ P!Rows(watched)[i].value \notin Int \ (0..100)
=============================================================================
