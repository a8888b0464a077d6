------------------------------- MODULE Readers -------------------------------
(***************************************************************************)
(* The two commands that only read, beside the runs that write:            *)
(* `labour-etl status`, whose two statements see two snapshots, and        *)
(* `labour-etl report`, one statement over observation_reconciliation      *)
(* (cli.py, db/migrations/002_reconciliation_view.sql).                    *)
(***************************************************************************)
EXTENDS PipelineInv

CONSTANTS NoRun

ASSUME NoRunAssumption == NoRun \notin Procs

VARIABLES
    latest,     \* the run started last, or NoRun
    screen      \* what one invocation of status has printed so far

readersVars == <<vars, latest, screen>>

NoDetails == [s \in Sources |-> "none"]

ReadersInit ==
    /\ Init
    /\ latest = NoRun
    /\ screen = [state |-> "blank", run |-> NoRun, status |-> "none",
                 ok |-> {}, total |-> {}, details |-> NoDetails]

Opens(p) == run[p] = "none" /\ run'[p] # "none"

Writes ==
    /\ Next
    /\ \/ \E p \in Procs : Opens(p) /\ latest' = p
       \/ (\A p \in Procs : ~Opens(p)) /\ UNCHANGED latest
    /\ UNCHANGED screen

-----------------------------------------------------------------------------
(* status                                                                  *)

(* Faulty: without the FILTER, every entry counts as ok.                   *)
OkUnfiltered(p) == {s \in Sources : entry[p][s].status # "none"}

Ok(p) == {s \in Sources : entry[p][s].status = "succeeded"}
Total(p) == {s \in Sources : entry[p][s].status # "none"}

(* The first statement: every run joined with its entries.  The lines of   *)
(* the other runs come from the same snapshot and play no further part.    *)
ListsRuns ==
    /\ screen.state = "blank"
    /\ latest # NoRun
    /\ screen' = [state |-> "listed", run |-> latest, status |-> run[latest],
                  ok |-> Ok(latest), total |-> Total(latest), details |-> NoDetails]
    /\ UNCHANGED <<vars, latest>>

NoRunsYet ==
    /\ screen.state = "blank"
    /\ latest = NoRun
    /\ screen' = [state |-> "empty", run |-> NoRun, status |-> "none",
                  ok |-> {}, total |-> {}, details |-> NoDetails]
    /\ UNCHANGED <<vars, latest>>

(* The second: the entries of the run in the first line, as they are now.  *)
ShowsEntries ==
    /\ screen.state = "listed"
    /\ screen' = [state |-> "shown", run |-> screen.run, status |-> screen.status,
                  ok |-> screen.ok, total |-> screen.total,
                  details |-> [s \in Sources |-> entry[screen.run][s].status]]
    /\ UNCHANGED <<vars, latest>>

ReadersNext == Writes \/ ListsRuns \/ NoRunsYet \/ ShowsEntries

ReadersSpec == ReadersInit /\ [][ReadersNext]_readersVars

-----------------------------------------------------------------------------
(* The view                                                                *)

values_by_source(f) ==
    [s \in {t \in Sources : obs[t][f] # NoRow} |-> obs[s][f].value]

source_count(f) == Cardinality(DOMAIN values_by_source(f))

(* The rows report shows: WHERE source_count > 1.                          *)
Compared == {f \in Facts : source_count(f) > 1}

-----------------------------------------------------------------------------
(* Properties                                                              *)

(* The two halves of a screen may come from two moments, but never against *)
(* each other: what the first line counts is among the entries below it,   *)
(* and under a finished run the entries are exactly those that were        *)
(* counted and the verdict is theirs (cli.py 80-125).                      *)
StatusAgrees ==
    screen.state = "shown" =>
        LET succeeded == {s \in Sources : screen.details[s] = "succeeded"}
            listed == {s \in Sources : screen.details[s] # "none"}
        IN  /\ screen.ok \subseteq succeeded
            /\ screen.total \subseteq listed
            /\ screen.status # "running" =>
                   /\ screen.ok = succeeded
                   /\ screen.total = Sources
                   /\ \A s \in Sources : screen.details[s] \in Closed
                   /\ (screen.status = "succeeded") <=> (succeeded = Sources)
                   /\ (screen.status = "failed") <=> (succeeded = {})

(* A figure in the report moves only in the step in which a load of that   *)
(* source lands, to the figure that load carries for the fact: no failed   *)
(* or partial extraction takes away or replaces what was there before, and *)
(* a fact once compared stays compared (runner.py 3-8, errors.py 18-20,    *)
(* 002_reconciliation_view.sql 8-20).                                      *)
ReportMovesWithLoads ==
    [][/\ \A f \in Facts, s \in Sources :
            Figures(obs'[s])[f] # Figures(obs[s])[f] =>
              \E p \in Procs :
                  /\ LandsNow(p, s)
                  /\ f \in Covered(Rows(p))
                  /\ Figures(obs'[s])[f] = Rows(p)[LastFor(Rows(p), f)].value
       /\ Compared \subseteq Compared']_readersVars
=============================================================================
