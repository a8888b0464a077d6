------------------------------ MODULE Pipeline ------------------------------
(***************************************************************************)
(* One or more invocations of `labour-etl run` against one PostgreSQL      *)
(* database: pipeline/runner.py with the ledger writes of                  *)
(* pipeline/ledger.py and the load of pipeline/loader.py, down to the      *)
(* single upsert, its row lock and its transaction.                        *)
(*                                                                         *)
(* Every ledger function commits on its own, so each is one step; the load *)
(* of a source is a transaction of many steps, interleaved with the steps  *)
(* of every other invocation.  Between any two steps an exception that     *)
(* nothing catches may take a process out of the run, or a kill.           *)
(***************************************************************************)
EXTENDS Loader

CONSTANTS
    Procs,          \* invocations of `labour-etl run`
    Sources,        \* source keys
    SourceOrder,    \* the tuple default_sources() returns
    Publications    \* the extractions a source may return

ASSUME SourceOrderAssumption ==
    /\ SourceOrder \in Seq(Sources)
    /\ SourceOrder # <<>>
    /\ \A s \in Sources : \E i \in 1..Len(SourceOrder) : SourceOrder[i] = s
    /\ \A i, j \in 1..Len(SourceOrder) :
           SourceOrder[i] = SourceOrder[j] => i = j

ASSUME PublicationsAssumption ==
    Publications \subseteq
        [rows : Seq(IncomingRow), rejected : Nat, skipped : Nat]

NoExtraction == [rows |-> <<>>, rejected |-> 0, skipped |-> 0]

(* The transaction of a load.  stamp is the ordinal of its BEGIN, 0 while  *)
(* there is none; next counts the rows already executed; image holds the   *)
(* uncommitted cells of the facts it has row locks on.                     *)
NoTxn == [stamp |-> 0, next |-> 0, locked |-> {}, image |-> EmptyTable]

VARIABLES
    \* -- the database -------------------------------------------------
    obs,            \* source -> its committed observations
    registered,     \* keys in the sources table
    run,            \* process -> status of its pipeline_runs row
    entry,          \* process -> source -> its source_runs row
    clock,          \* ordinal of the latest BEGIN of a load
    txn,            \* process -> its open load transaction
    \* -- each process -------------------------------------------------
    pc,
    idx,            \* position in SourceOrder
    ext,            \* what extract() returned
    changed,        \* cursor.rowcount of the load
    outcome,        \* source -> SourceOutcome.succeeded, or "none"
    \* -- history ------------------------------------------------------
    landed          \* process -> the sources whose load it has committed

vars == <<obs, registered, run, entry, clock, txn,
          pc, idx, ext, changed, outcome, landed>>

Source(p) == SourceOrder[idx[p]]
Rows(p) == ext[p].rows

Zero == [extracted |-> 0, loaded |-> 0, rejected |-> 0, skipped |-> 0]
NoEntry == [status |-> "none", counts |-> Zero]

Init ==
    /\ obs = [s \in Sources |-> EmptyTable]
    /\ registered = {}
    /\ run = [p \in Procs |-> "none"]
    /\ entry = [p \in Procs |-> [s \in Sources |-> NoEntry]]
    /\ clock = 0
    /\ txn = [p \in Procs |-> NoTxn]
    /\ pc = [p \in Procs |-> "register"]
    /\ idx = [p \in Procs |-> 1]
    /\ ext = [p \in Procs |-> NoExtraction]
    /\ changed = [p \in Procs |-> 0]
    /\ outcome = [p \in Procs |-> [s \in Sources |-> "none"]]
    /\ landed = [p \in Procs |-> {}]

Transition(p, from, to) ==
    /\ pc[p] = from
    /\ pc' = [pc EXCEPT ![p] = to]

-----------------------------------------------------------------------------
(* The opening ledger writes                                               *)

UpsertSources(p) ==
    /\ Transition(p, "register", "open_run")
    /\ registered' = Sources
    /\ UNCHANGED <<obs, run, entry, clock, txn, idx, ext, changed, outcome, landed>>

StartRun(p) ==
    /\ Transition(p, "open_run", "open_source")
    /\ run' = [run EXCEPT ![p] = "running"]
    /\ UNCHANGED <<obs, registered, entry, clock, txn, idx, ext, changed,
                   outcome, landed>>

(* Faulty: the entries of all sources are opened with the first.           *)
StartSourceRunOpensAll(p) ==
    /\ Transition(p, "open_source", "extract")
    /\ entry' = [entry EXCEPT ![p] = [s \in Sources |->
                     IF @[s].status = "none" THEN [@[s] EXCEPT !.status = "running"] ELSE @[s]]]
    /\ UNCHANGED <<obs, registered, run, clock, txn, idx, ext, changed, outcome, landed>>

(* Committed before extract() is called, so that a source that hangs or    *)
(* kills the process has left a trace.                                     *)
StartSourceRun(p) ==
    /\ Transition(p, "open_source", "extract")
    /\ entry' = [entry EXCEPT ![p][Source(p)].status = "running"]
    /\ UNCHANGED <<obs, registered, run, clock, txn, idx, ext, changed,
                   outcome, landed>>

-----------------------------------------------------------------------------
(* Extraction, outside any transaction                                     *)

Extract(p) ==
    /\ Transition(p, "extract", "load")
    /\ \E x \in Publications : ext' = [ext EXCEPT ![p] = x]
    /\ UNCHANGED <<obs, registered, run, entry, clock, txn, idx, changed,
                   outcome, landed>>

(* SourceUnavailable, or anything else extract() raises.                   *)
ExtractRaises(p) ==
    /\ Transition(p, "extract", "close_unextracted")
    /\ UNCHANGED <<obs, registered, run, entry, clock, txn, idx, ext, changed,
                   outcome, landed>>

-----------------------------------------------------------------------------
(* The load: one transaction, one upsert per row                           *)

(* The first statement of executemany opens the transaction; an extraction *)
(* without rows never gets here.                                           *)
BeginLoad(p) ==
    /\ pc[p] = "load"
    /\ txn[p].stamp = 0
    /\ Rows(p) # <<>>
    /\ clock' = clock + 1
    /\ txn' = [txn EXCEPT ![p] = [stamp |-> clock + 1, next |-> 0,
                                  locked |-> {}, image |-> EmptyTable]]
    /\ UNCHANGED <<obs, registered, run, entry, pc, idx, ext, changed, outcome, landed>>

Executing(p) ==
    /\ pc[p] = "load"
    /\ txn[p].stamp # 0
    /\ txn[p].next < Len(Rows(p))

NextRow(p) == Rows(p)[txn[p].next + 1]

(* Faulty: only rows the upsert moved are locked.                          *)
HoldsMoved(q, s, f) ==
    Source(q) = s /\ f \in txn[q].locked /\ txn[q].image[f] # obs[s][f]

(* q holds the lock on fact f of source s.  The conflict clause locks the  *)
(* row it meets even when its WHERE leaves the row alone, and an insert    *)
(* not yet committed makes a second one wait.                              *)
Holds(q, s, f) == Source(q) = s /\ f \in txn[q].locked

WaitsFor(p, q) ==
    /\ p # q
    /\ Executing(p)
    /\ Holds(q, Source(p), NextRow(p).fact)

(* READ COMMITTED: the upsert meets the latest committed row, or the       *)
(* transaction's own.                                                      *)
VisibleCell(p, f) ==
    IF f \in txn[p].locked THEN txn[p].image[f] ELSE obs[Source(p)][f]

(* Faulty: nothing checks the figure.                                      *)
UpsertRowUnchecked(p) ==
    LET row == NextRow(p) IN
    /\ Executing(p)
    /\ \A q \in Procs : ~WaitsFor(p, q)
    /\ txn' = [txn EXCEPT ![p].next = @ + 1, ![p].locked = @ \cup {row.fact},
           ![p].image[row.fact] = Upsert(VisibleCell(p, row.fact), row.value, txn[p].stamp)]
    /\ UNCHANGED <<obs, registered, run, entry, clock, pc, idx, ext, changed, outcome, landed>>

(* Faulty: a row found as it should be is not remembered as locked.        *)
UpsertRowForgets(p) ==
    LET row == NextRow(p)
        cell == VisibleCell(p, row.fact)
    IN  /\ Executing(p)
        /\ \A q \in Procs : ~WaitsFor(p, q)
        /\ txn' = IF Moves(cell, row.value)
                    THEN [txn EXCEPT ![p].next = @ + 1, ![p].locked = @ \cup {row.fact},
                             ![p].image[row.fact] = Upsert(cell, row.value, txn[p].stamp)]
                    ELSE [txn EXCEPT ![p].next = @ + 1]
        /\ UNCHANGED <<obs, registered, run, entry, clock, pc, idx, ext, changed,
                       outcome, landed>>

(* Faulty: autocommit, every row visible as soon as it is written.         *)
UpsertRowAutocommits(p) ==
    LET row == NextRow(p) IN
    /\ Executing(p)
    /\ txn' = [txn EXCEPT ![p].next = @ + 1]
    /\ obs' = [obs EXCEPT ![Source(p)][row.fact] = Upsert(@, row.value, txn[p].stamp)]
    /\ UNCHANGED <<registered, run, entry, clock, pc, idx, ext, changed, outcome, landed>>

(* Faulty: counts the rows sent, not the rows moved.                       *)
UpsertRowCountsAll(p) ==
    LET row == NextRow(p) IN
    /\ Executing(p)
    /\ \A q \in Procs : ~WaitsFor(p, q)
    /\ txn' = [txn EXCEPT ![p].next = @ + 1, ![p].locked = @ \cup {row.fact},
           ![p].image[row.fact] = Upsert(VisibleCell(p, row.fact), row.value, txn[p].stamp)]
    /\ changed' = [changed EXCEPT ![p] = @ + 1]
    /\ UNCHANGED <<obs, registered, run, entry, clock, pc, idx, ext, outcome, landed>>

UpsertRow(p) ==
    LET row == NextRow(p)
        cell == VisibleCell(p, row.fact)
    IN  /\ Executing(p)
        /\ row.value \notin Refused
        /\ Source(p) \in registered
        /\ \A q \in Procs : ~WaitsFor(p, q)
        /\ txn' = [txn EXCEPT ![p] =
               [stamp  |-> @.stamp,
                next   |-> @.next + 1,
                locked |-> @.locked \cup {row.fact},
                image  |-> [@.image EXCEPT ![row.fact] =
                                Upsert(cell, row.value, txn[p].stamp)]]]
        /\ changed' = [changed EXCEPT
                         ![p] = @ + (IF Moves(cell, row.value) THEN 1 ELSE 0)]
        /\ UNCHANGED <<obs, registered, run, entry, clock, pc, idx, ext, outcome, landed>>

(* Faulty: the failed transaction is left as it is.                        *)
AbortKeepsLocks(p) ==
    /\ Transition(p, "load", "close_rolled_back")
    /\ UNCHANGED <<obs, registered, run, entry, clock, txn, idx, ext, changed,
                   outcome, landed>>

(* Faulty: a load that was rolled back is extracted again.                 *)
AbortRetries(p) ==
    /\ Transition(p, "load", "extract")
    /\ txn' = [txn EXCEPT ![p] = NoTxn]
    /\ UNCHANGED <<obs, registered, run, entry, clock, idx, ext, changed,
                   outcome, landed>>

(* The server aborts the transaction, which releases its row locks, and    *)
(* the runner rolls back.                                                  *)
Abort(p) ==
    /\ Transition(p, "load", "close_rolled_back")
    /\ txn' = [txn EXCEPT ![p] = NoTxn]
    /\ UNCHANGED <<obs, registered, run, entry, clock, idx, ext, changed,
                   outcome, landed>>

(* A CHECK constraint or the foreign key refuses the row.                  *)
RowRefused(p) ==
    /\ Executing(p)
    /\ NextRow(p).value \in Refused \/ Source(p) \notin registered
    /\ Abort(p)

OnCycle(p) ==
    \E cycle \in SUBSET Procs :
        /\ p \in cycle
        /\ \A a \in cycle : /\ \E b \in cycle : WaitsFor(a, b)
                            /\ \E b \in cycle : WaitsFor(b, a)

(* The deadlock detector aborts one member of a cycle of waiters.          *)
DeadlockVictim(p) ==
    /\ OnCycle(p)
    /\ Abort(p)

(* Any other error of a statement or of the commit: the disk is full, the  *)
(* statement is cancelled.                                                 *)
ServerError(p) ==
    /\ txn[p].stamp # 0
    /\ Abort(p)

(* Faulty: the extraction takes the place of what the source had.          *)
CommitLoadReplaces(p) ==
    /\ Transition(p, "load", "close_loaded")
    /\ txn[p].next = Len(Rows(p))
    /\ obs' = [obs EXCEPT ![Source(p)] =
                  [f \in Facts |-> IF f \in txn[p].locked THEN txn[p].image[f] ELSE NoRow]]
    /\ landed' = [landed EXCEPT ![p] = @ \cup {Source(p)}]
    /\ txn' = [txn EXCEPT ![p] = NoTxn]
    /\ UNCHANGED <<registered, run, entry, clock, idx, ext, changed, outcome>>

CommitLoad(p) ==
    /\ Transition(p, "load", "close_loaded")
    /\ txn[p].next = Len(Rows(p))
    /\ obs' = [obs EXCEPT ![Source(p)] = [f \in Facts |-> VisibleCell(p, f)]]
    /\ landed' = [landed EXCEPT ![p] = @ \cup {Source(p)}]
    /\ txn' = [txn EXCEPT ![p] = NoTxn]
    /\ UNCHANGED <<registered, run, entry, clock, idx, ext, changed, outcome>>

-----------------------------------------------------------------------------
(* The closing ledger writes                                               *)

Counts(p, loaded) ==
    [extracted |-> Len(Rows(p)) + ext[p].rejected,
     loaded    |-> loaded,
     rejected  |-> ext[p].rejected,
     skipped   |-> ext[p].skipped]

(* Faulty: a failed source ends the loop.                                  *)
FinishSourceRunStops(p, from, status, counts) ==
    /\ pc[p] = from
    /\ entry' = [entry EXCEPT ![p][Source(p)] = [status |-> status, counts |-> counts]]
    /\ outcome' = [outcome EXCEPT ![p][Source(p)] = status]
    /\ IF idx[p] < Len(SourceOrder) /\ status = "succeeded"
         THEN idx' = [idx EXCEPT ![p] = @ + 1] /\ pc' = [pc EXCEPT ![p] = "open_source"]
         ELSE UNCHANGED idx /\ pc' = [pc EXCEPT ![p] = "close_run"]
    /\ ext' = [ext EXCEPT ![p] = NoExtraction]
    /\ changed' = [changed EXCEPT ![p] = 0]
    /\ UNCHANGED <<obs, registered, run, clock, txn, landed>>

(* Write the entry, return the outcome (the locals go with it), and go on  *)
(* to the next source.                                                     *)
FinishSourceRun(p, from, status, counts) ==
    /\ pc[p] = from
    /\ entry' = [entry EXCEPT ![p][Source(p)] = [status |-> status, counts |-> counts]]
    /\ outcome' = [outcome EXCEPT ![p][Source(p)] = status]
    /\ \/ /\ idx[p] < Len(SourceOrder)
          /\ idx' = [idx EXCEPT ![p] = @ + 1]
          /\ pc' = [pc EXCEPT ![p] = "open_source"]
       \/ /\ idx[p] = Len(SourceOrder)
          /\ pc' = [pc EXCEPT ![p] = "close_run"]
          /\ UNCHANGED idx
    /\ ext' = [ext EXCEPT ![p] = NoExtraction]
    /\ changed' = [changed EXCEPT ![p] = 0]
    /\ UNCHANGED <<obs, registered, run, clock, txn, landed>>

CloseUnextracted(p) == FinishSourceRun(p, "close_unextracted", "failed", Zero)

(* Faulty: reports as loaded what was rolled back.                         *)
CloseRolledBackBoasts(p) ==
    FinishSourceRun(p, "close_rolled_back", "failed", Counts(p, Len(Rows(p))))

CloseRolledBack(p) == FinishSourceRun(p, "close_rolled_back", "failed", Counts(p, 0))
CloseLoaded(p) ==
    FinishSourceRun(p, "close_loaded", "succeeded", Counts(p, Len(Rows(p))))

Verdict(p) ==
    IF \A s \in Sources : outcome[p][s] = "succeeded" THEN "succeeded"
    ELSE IF \A s \in Sources : outcome[p][s] # "succeeded" THEN "failed"
    ELSE "partial"

FinishRun(p) ==
    /\ Transition(p, "close_run", "done")
    /\ run' = [run EXCEPT ![p] = Verdict(p)]
    /\ UNCHANGED <<obs, registered, entry, clock, txn, idx, ext, changed,
                   outcome, landed>>

(* Faulty: a partial run is an alert.                                      *)
ExitCodeStrict(status) == IF status = "succeeded" THEN 0 ELSE 1

ExitCode(status) == IF status \in {"succeeded", "partial"} THEN 0 ELSE 1

-----------------------------------------------------------------------------

(* The two ways out of a run that has not finished.                        *)
Gone == {"raised", "dead"}

(* The connection ends, and the server drops whatever transaction was      *)
(* open.  The last write may have been committed before, like any other    *)
(* (which is that write, and then this).                                   *)
Leaves(p, way) ==
    /\ pc[p] \notin {"done"} \cup Gone
    /\ pc' = [pc EXCEPT ![p] = way]
    /\ txn' = [txn EXCEPT ![p] = NoTxn]
    /\ \/ UNCHANGED run
       \/ pc[p] = "close_run" /\ run' = [run EXCEPT ![p] = Verdict(p)]
    /\ UNCHANGED <<obs, registered, entry, clock, idx, ext, changed, outcome, landed>>

(* A ledger write raises, or the rollback of a load whose connection is    *)
(* lost: no EtlError, so it leaves the loop and main() too, and the        *)
(* interpreter exits 1.                                                    *)
LedgerRaises(p) == Leaves(p, "raised")

(* The process is killed.                                                  *)
Dies(p) == Leaves(p, "dead")

Step(p) ==
    \/ UpsertSources(p)    \/ StartRun(p)        \/ StartSourceRun(p)
    \/ Extract(p)          \/ ExtractRaises(p)
    \/ BeginLoad(p)        \/ UpsertRow(p)       \/ CommitLoad(p)
    \/ RowRefused(p)       \/ DeadlockVictim(p)
    \/ CloseUnextracted(p) \/ CloseRolledBack(p) \/ CloseLoaded(p)
    \/ FinishRun(p)

(* Every invocation has returned or is gone.                               *)
Terminated ==
    /\ \A p \in Procs : pc[p] \in {"done"} \cup Gone
    /\ UNCHANGED vars

Next ==
    \/ \E p \in Procs : Step(p) \/ ServerError(p) \/ LedgerRaises(p) \/ Dies(p)
    \/ Terminated

Spec == Init /\ [][Next]_vars

(* A live process keeps running: every request has a timeout and a bounded *)
(* number of retries, and the server answers, if only by aborting.         *)
Fairness == \A p \in Procs : WF_vars(Step(p))

FairSpec == Spec /\ Fairness

-----------------------------------------------------------------------------
(* Properties                                                              *)

Phases == {"register", "open_run", "open_source", "extract", "load",
           "close_unextracted", "close_rolled_back", "close_loaded",
           "close_run", "done"} \cup Gone

SourceCounts == [extracted : Nat, loaded : Nat, rejected : Nat, skipped : Nat]
Closed == {"succeeded", "failed"}

(* The shape of the state: what each table, each local variable and the    *)
(* open transaction can hold.                                              *)
TypeOK ==
    /\ obs \in [Sources -> Table]
    /\ registered \in SUBSET Sources
    /\ run \in [Procs -> {"none", "running", "succeeded", "partial", "failed"}]
    /\ entry \in [Procs -> [Sources ->
           [status : {"none", "running"} \cup Closed, counts : SourceCounts]]]
    /\ clock \in Nat
    /\ txn \in [Procs -> [stamp : Nat, next : Nat, locked : SUBSET Facts,
                          image : Table]]
    /\ pc \in [Procs -> Phases]
    /\ idx \in [Procs -> 1..Len(SourceOrder)]
    /\ ext \in [Procs -> [rows : Seq(IncomingRow), rejected : Nat, skipped : Nat]]
    /\ changed \in [Procs -> Nat]
    /\ outcome \in [Procs -> [Sources -> {"none"} \cup Closed]]
    /\ landed \in [Procs -> SUBSET Sources]

(* The ledger says which sources landed: a succeeded entry belongs to a    *)
(* source whose load this run committed, a failed one (and any that claims *)
(* no rows) to one it did not; the two disagree only between the commit of *)
(* the load and the separate commit of its entry, or for ever when the     *)
(* run was left there (runner.py 116-132).                                 *)
LedgerMatchesData ==
    \A p \in Procs, s \in Sources :
        LET status == entry[p][s].status IN
        /\ status = "succeeded" => s \in landed[p]
        /\ status \in {"none", "failed"} => s \notin landed[p]
        /\ entry[p][s].counts.loaded > 0 => s \in landed[p]
        /\ (status = "running" /\ s \in landed[p]) =>
               s = Source(p) /\ pc[p] \in {"close_loaded"} \cup Gone

(* A run closes only with an answer for every source, and its status and   *)
(* exit code are those of the data it really committed (runner.py 158-168, *)
(* 69-78).                                                                 *)
VerdictMatchesData ==
    \A p \in Procs : run[p] \notin {"none", "running"} =>
        /\ \A s \in Sources : entry[p][s].status \in Closed
        /\ (run[p] = "succeeded") <=> (landed[p] = Sources)
        /\ (ExitCode(run[p]) = 1) <=> (landed[p] = {})

(* Nobody moves a row under an open load: a locked fact has one holder,    *)
(* and the holder's copy still descends from the row a reader sees, also   *)
(* where its upsert left that row alone.                                   *)
NoLostUpdate ==
    \A p \in Procs : pc[p] = "load" => \A f \in txn[p].locked :
        LET committed == obs[Source(p)][f]
            mine == txn[p].image[f]
        IN  /\ \A q \in Procs \ {p} : ~Holds(q, Source(p), f)
            /\ mine # NoRow
            /\ mine.firstSeen = IF committed = NoRow THEN txn[p].stamp
                                                     ELSE committed.firstSeen
            /\ mine.updatedAt # txn[p].stamp =>
                   committed # NoRow /\ mine = committed

LandsNow(p, s) == s \in landed'[p] \ landed[p]

(* A row keeps its first_seen_at for ever, and updated_at moves exactly    *)
(* when the figure does (loader.py 23-38), whoever overlaps whom - as long *)
(* as the extraction does not contradict itself.                           *)
UpdatedAtHonest ==
    [][\A p \in Procs, s \in Sources :
         (LandsNow(p, s) /\ Unambiguous(Rows(p))) =>
           \A f \in Facts : obs[s][f] # NoRow =>
             /\ obs'[s][f].firstSeen = obs[s][f].firstSeen
             /\ (obs'[s][f].value # obs[s][f].value)
                  <=> (obs'[s][f].updatedAt # obs[s][f].updatedAt)]_vars

(* The reported `changed` is the number of facts whose row moved: 0 says   *)
(* that the load changed nothing (loader.py 71-75).                        *)
ChangedCountsMoves ==
    [][\A p \in Procs, s \in Sources :
         (LandsNow(p, s) /\ Unambiguous(Rows(p))) =>
           changed[p] = Cardinality({f \in Facts : obs'[s][f] # obs[s][f]})]_vars

(* Every invocation that neither a kill nor an exception of a ledger write *)
(* takes out of its run closes it: overlapping loads never block each      *)
(* other for ever, and no failure of a source keeps the rest from their    *)
(* turn.                                                                   *)
EveryRunCloses ==
    \A p \in Procs :
        <>(pc[p] \in Gone \/ run[p] \in {"succeeded", "partial", "failed"})

(* The runs promise no more than RunPromise says, and keep it.             *)
Promise == INSTANCE RunPromise WITH
    figures <- [s \in Sources |-> Figures(obs[s])],
    entry   <- [p \in Procs |-> [s \in Sources |-> entry[p][s].status]],
    verdict <- run

KeepsPromise == Promise!Spec

(* What the comment at loader.py 27-30 says of updated_at, with no         *)
(* condition on the extraction.                                            *)
UpdatedAtMeansChanged ==
    [][\A s \in Sources, f \in Facts :
         (/\ obs[s][f] # NoRow
          /\ obs'[s][f] # NoRow
          /\ obs'[s][f].updatedAt # obs[s][f].updatedAt)
             => obs'[s][f].value # obs[s][f].value]_vars
=============================================================================
