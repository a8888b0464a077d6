---------------------------- MODULE ReadersProofs ----------------------------
(***************************************************************************)
(* What status and report show, for any number of runs, sources and facts. *)
(***************************************************************************)
EXTENDS Readers, PipelineRefinement, FiniteSetTheorems

(* The readers change nothing: beside them the pipeline is still itself.   *)
THEOREM ReadersOnlyRead == ReadersSpec => Spec
<1>1. ReadersInit => Init
      BY DEF ReadersInit
<1>2. [ReadersNext]_readersVars => [Next]_vars
      BY DEF ReadersNext, Writes, ListsRuns, NoRunsYet, ShowsEntries, readersVars
<1>. QED  BY <1>1, <1>2, PTL DEF ReadersSpec, Spec

-----------------------------------------------------------------------------
(* status                                                                  *)

LatestInv == latest # NoRun => latest \in Procs /\ run[latest] # "none"

(* What the first statement read still holds, or has grown; of a run that  *)
(* was closed by then it is final.                                         *)
HeadingInv ==
    screen.state = "listed" =>
        LET p == screen.run IN
        /\ p \in Procs
        /\ screen.ok \subseteq Ok(p)
        /\ screen.total \subseteq Total(p)
        /\ screen.status # "running" =>
               /\ pc[p] \in {"done"} \cup Gone
               /\ run[p] # "none"
               /\ screen.status = run[p]
               /\ screen.ok = Ok(p)
               /\ screen.total = Total(p)

(* A settled entry stays, and the entries of a run that is over do.        *)
LEMMA EntriesGrow ==
    ASSUME TypeOK, LedgerInv, [Next]_vars, NEW p \in Procs
    PROVE  /\ run[p] # "none" => run'[p] # "none"
           /\ \A s \in Sources :
                  /\ entry[p][s].status # "none" => entry'[p][s].status # "none"
                  /\ entry[p][s].status = "succeeded" => entry'[p][s].status = "succeeded"
           /\ pc[p] \in {"done"} \cup Gone =>
                  pc'[p] = pc[p] /\ run'[p] = run[p] /\ entry'[p] = entry[p]
<1>1. CASE UNCHANGED vars \/ Terminated
      BY <1>1 DEF vars, Terminated
<1>2. ASSUME NEW q \in Procs, Step(q) \/ ServerError(q) \/ LedgerRaises(q) \/ Dies(q), q # p
      PROVE  run'[p] = run[p] /\ entry'[p] = entry[p] /\ pc'[p] = pc[p]
      BY <1>2, StepIsLocal
<1>3. ASSUME Step(p) \/ ServerError(p) \/ LedgerRaises(p) \/ Dies(p)
      PROVE  /\ pc[p] \notin {"done"} \cup Gone
             /\ run[p] # "none" => run'[p] # "none"
             /\ \A s \in Sources :
                    /\ entry[p][s].status # "none" => entry'[p][s].status # "none"
                    /\ entry[p][s].status = "succeeded" =>
                           entry'[p][s].status = "succeeded"
  <2>0. /\ Source(p) \in Sources /\ CurrentSourceInv(p) /\ RunRowInv(p)
        /\ run \in [Procs -> {"none", "running", "succeeded", "partial", "failed"}]
        /\ entry \in [Procs -> [Sources ->
               [status : {"none", "running"} \cup Closed, counts : SourceCounts]]]
        BY SourceType DEF TypeOK, LedgerInv, RunInv
  <2>1. CASE StartRun(p) \/ FinishRun(p)
        BY <2>0, <2>1 DEF StartRun, FinishRun, Transition, Verdict, Gone
  <2>2. CASE StartSourceRun(p)
        BY <2>0, <2>2 DEF StartSourceRun, Transition, CurrentSourceInv, Untouched, Gone
  <2>3. ASSUME NEW from \in {"close_unextracted", "close_rolled_back", "close_loaded"},
               NEW status \in Closed, NEW counts,
               FinishSourceRun(p, from, status, counts)
        PROVE  /\ pc[p] \notin {"done"} \cup Gone /\ run' = run
               /\ entry[p][Source(p)].status = "running"
               /\ entry'[p][Source(p)].status = status
               /\ \A s \in Sources \ {Source(p)} : entry'[p][s] = entry[p][s]
        BY <2>0, <2>3 DEF FinishSourceRun, CurrentSourceInv, InProgress, Gone
  <2>4. CASE CloseUnextracted(p) \/ CloseRolledBack(p) \/ CloseLoaded(p)
        BY <2>3, <2>4 DEF CloseUnextracted, CloseRolledBack, CloseLoaded, Closed
  <2>5. CASE \/ UpsertSources(p) \/ Extract(p) \/ ExtractRaises(p) \/ BeginLoad(p)
             \/ UpsertRow(p) \/ CommitLoad(p) \/ RowRefused(p) \/ DeadlockVictim(p)
        BY <2>5 DEF UpsertSources, Extract, ExtractRaises, BeginLoad, UpsertRow, Executing,
           CommitLoad, RowRefused, DeadlockVictim, Abort, Transition, Gone
  <2>6. CASE ServerError(p)
        BY <2>6 DEF ServerError, Abort, Transition, Gone
  <2>7. CASE LedgerRaises(p) \/ Dies(p)
        BY <2>0, <2>7 DEF LedgerRaises, Dies, Leaves, Verdict
  <2>. QED  BY <1>3, <2>1, <2>2, <2>4, <2>5, <2>6, <2>7 DEF Step
<1>. QED  BY <1>1, <1>2, <1>3 DEF Next

(* Of a run that is over, the entries are those its verdict was made of.   *)
LEMMA FinalEntries ==
    ASSUME TypeOK, LedgerInv, NEW p \in Procs, run[p] \notin {"none", "running"}
    PROVE  /\ pc[p] \in {"done"} \cup Gone
           /\ Total(p) = Sources
           /\ \A s \in Sources : entry[p][s].status \in Closed
           /\ (run[p] = "succeeded") <=> (Ok(p) = Sources)
           /\ (run[p] = "failed") <=> (Ok(p) = {})
<1>1. LedgerMatchesData /\ VerdictMatchesData
      BY LedgerInvMatchesData, LedgerInvJustifiesVerdict
<1>2. /\ \A s \in Sources : entry[p][s].status \in Closed
      /\ (run[p] = "succeeded") <=> (landed[p] = Sources)
      /\ (ExitCode(run[p]) = 1) <=> (landed[p] = {})
      BY <1>1 DEF VerdictMatchesData
<1>3. run[p] \in {"succeeded", "partial", "failed"} /\ landed[p] \subseteq Sources
      BY DEF TypeOK
<1>4. (run[p] = "failed") <=> (landed[p] = {})
      BY <1>2, <1>3 DEF ExitCode
<1>5. \A s \in Sources : s \in landed[p] <=> entry[p][s].status = "succeeded"
      BY <1>1, <1>2 DEF LedgerMatchesData, Closed
<1>6. Ok(p) = landed[p]
      BY <1>3, <1>5 DEF Ok
<1>7. Total(p) = Sources
      BY <1>2 DEF Total, Closed
<1>8. pc[p] \in {"done"} \cup Gone
      BY DEF TypeOK, LedgerInv, RunInv, RunRowInv, Phases
<1>. QED  BY <1>2, <1>4, <1>6, <1>7, <1>8

LEMMA StepKeepsHeading ==
    ASSUME TypeOK, LedgerInv, LatestInv, HeadingInv, [ReadersNext]_readersVars
    PROVE  LatestInv' /\ HeadingInv'
<1>0. [Next]_vars
      BY DEF ReadersNext, Writes, ListsRuns, NoRunsYet, ShowsEntries, readersVars
<1>1. LatestInv'
  <2>1. CASE latest' = latest
        BY <1>0, <2>1, EntriesGrow DEF LatestInv
  <2>2. CASE \E p \in Procs : Opens(p) /\ latest' = p
        BY <2>2 DEF LatestInv, Opens
  <2>. QED  BY <2>1, <2>2 DEF ReadersNext, Writes, ListsRuns, NoRunsYet, ShowsEntries,
                              readersVars
<1>2. HeadingInv'
  <2>1. CASE UNCHANGED screen
    <3>. SUFFICES ASSUME screen.state = "listed" PROVE HeadingInv'
         BY <2>1 DEF HeadingInv
    <3>. DEFINE p == screen.run
    <3>1. p \in Procs
          BY DEF HeadingInv
    <3>2. Ok(p) \subseteq Ok(p)' /\ Total(p) \subseteq Total(p)'
          BY <1>0, <2>1, <3>1, EntriesGrow DEF Ok, Total
    <3>3. pc[p] \in {"done"} \cup Gone =>
              /\ pc'[p] = pc[p] /\ run'[p] = run[p]
              /\ Ok(p)' = Ok(p) /\ Total(p)' = Total(p)
          BY <1>0, <2>1, <3>1, EntriesGrow DEF Ok, Total
    <3>. QED  BY <2>1, <3>1, <3>2, <3>3 DEF HeadingInv, Ok, Total
  <2>2. CASE ListsRuns
    <3>1. /\ latest \in Procs /\ run[latest] # "none"
          /\ screen' = [state |-> "listed", run |-> latest, status |-> run[latest],
                  ok |-> Ok(latest), total |-> Total(latest), details |-> NoDetails]
          /\ UNCHANGED <<entry, run, pc>>
          BY <2>2 DEF ListsRuns, LatestInv, vars
    <3>2. run[latest] # "running" => pc[latest] \in {"done"} \cup Gone
          BY <3>1, FinalEntries
    <3>. QED  BY <3>1, <3>2 DEF HeadingInv, Ok, Total
  <2>3. CASE NoRunsYet \/ ShowsEntries
        BY <2>3 DEF NoRunsYet, ShowsEntries, HeadingInv
  <2>. QED  BY <2>1, <2>2, <2>3 DEF ReadersNext, Writes, readersVars
<1>. QED  BY <1>1, <1>2

LEMMA ShownAgrees ==
    ASSUME TypeOK, LedgerInv, LatestInv, HeadingInv, StatusAgrees,
           [ReadersNext]_readersVars
    PROVE  StatusAgrees'
<1>1. CASE UNCHANGED screen
      BY <1>1 DEF StatusAgrees
<1>2. CASE ListsRuns \/ NoRunsYet
      BY <1>2 DEF ListsRuns, NoRunsYet, StatusAgrees
<1>3. CASE ShowsEntries
  <2>. DEFINE p == screen.run
              details == [s \in Sources |-> entry[p][s].status]
              succeeded == {s \in Sources : details[s] = "succeeded"}
              listed == {s \in Sources : details[s] # "none"}
  <2>1. /\ p \in Procs /\ screen.ok \subseteq Ok(p) /\ screen.total \subseteq Total(p)
        /\ screen.status # "running" =>
               /\ run[p] # "none" /\ screen.status = run[p]
               /\ screen.ok = Ok(p) /\ screen.total = Total(p)
        BY <1>3 DEF ShowsEntries, HeadingInv
  <2>2. succeeded = Ok(p) /\ listed = Total(p)
        BY DEF Ok, Total
  <2>3. /\ screen'.ok = screen.ok /\ screen'.total = screen.total
        /\ screen'.status = screen.status /\ screen'.details = details
        BY <1>3 DEF ShowsEntries
  <2>4. ASSUME screen.status # "running"
        PROVE  /\ Total(p) = Sources
               /\ \A s \in Sources : entry[p][s].status \in Closed
               /\ (screen.status = "succeeded") <=> (Ok(p) = Sources)
               /\ (screen.status = "failed") <=> (Ok(p) = {})
    <3>1. run[p] \notin {"none", "running"}
          BY <2>1, <2>4
    <3>. QED  BY <2>1, <2>4, <3>1, FinalEntries
  <2>5. \A s \in Sources : details[s] = entry[p][s].status
        OBVIOUS
  <2>. HIDE DEF details
  <2>. QED  BY <2>1, <2>2, <2>3, <2>4, <2>5 DEF StatusAgrees
<1>. QED  BY <1>1, <1>2, <1>3 DEF ReadersNext, Writes, readersVars

(* The two statements of status never show a screen that contradicts       *)
(* itself, whatever runs between them (cli.py 80-125).                     *)
THEOREM StatusIsConsistent == ReadersSpec => []StatusAgrees
<1>1. ReadersInit => LatestInv /\ HeadingInv /\ StatusAgrees
      BY DEF ReadersInit, LatestInv, HeadingInv, StatusAgrees
<1>2. TypeOK /\ LedgerInv /\ LatestInv /\ HeadingInv /\ [ReadersNext]_readersVars
        => LatestInv' /\ HeadingInv'
      BY StepKeepsHeading
<1>3. TypeOK /\ LedgerInv /\ LatestInv /\ HeadingInv /\ StatusAgrees
        /\ [ReadersNext]_readersVars => StatusAgrees'
      BY ShownAgrees
<1>. QED  BY <1>1, <1>2, <1>3, ReadersOnlyRead, LedgerInductive, PTL DEF ReadersSpec

-----------------------------------------------------------------------------
(* report                                                                  *)

LEMMA SourcesAreFinite == IsFiniteSet(Sources)
<1>. DEFINE order == [i \in 1..Len(SourceOrder) |-> SourceOrder[i]]
<1>1. IsFiniteSet(1..Len(SourceOrder))
      BY SourceOrderAssumption, FS_Interval
<1>2. order \in Surjection(1..Len(SourceOrder), Sources)
      BY SourceOrderAssumption DEF Surjection
<1>. QED  BY <1>1, <1>2, FS_Surjection

(* The view changes only where a load is committed.                        *)
LEMMA OnlyLoadsMoveFigures ==
    ASSUME TypeOK, LedgerInv, LoadInv, [Next]_vars, NEW s \in Sources, obs'[s] # obs[s]
    PROVE  \E p \in Procs : CommitLoad(p) /\ LandsNow(p, s) /\ s = Source(p)
<1>1. PICK p \in Procs : Step(p) \/ ServerError(p) \/ LedgerRaises(p) \/ Dies(p)
      BY DEF Next, Terminated, vars
<1>2. CommitLoad(p)
  <2>1. ~Abort(p)
        BY DEF Abort
  <2>. QED  BY <1>1, <2>1
            DEF Step, UpsertSources, StartRun, StartSourceRun, Extract, ExtractRaises,
                BeginLoad, UpsertRow, RowRefused, DeadlockVictim, ServerError,
                CloseUnextracted, CloseRolledBack, CloseLoaded, FinishSourceRun,
                FinishRun, LedgerRaises, Dies, Leaves
<1>3. s = Source(p) /\ pc[p] = "load"
      BY <1>2 DEF CommitLoad, Transition, TypeOK
<1>4. s \notin landed[p]
      BY <1>3 DEF LedgerInv, RunInv, CurrentSourceInv
<1>5. s \in landed'[p]
      BY <1>2, <1>3 DEF CommitLoad, TypeOK
<1>. QED  BY <1>2, <1>3, <1>4, <1>5 DEF LandsNow

LEMMA FiguresMoveWithLoads ==
    ASSUME TypeOK, LedgerInv, LoadInv, [Next]_vars, NEW s \in Sources, NEW f \in Facts,
           Figures(obs'[s])[f] # Figures(obs[s])[f]
    PROVE  \E p \in Procs :
               /\ LandsNow(p, s)
               /\ f \in Covered(Rows(p))
               /\ Figures(obs'[s])[f] = Rows(p)[LastFor(Rows(p), f)].value
<1>1. PICK p \in Procs : CommitLoad(p) /\ LandsNow(p, s) /\ s = Source(p)
      BY OnlyLoadsMoveFigures
<1>2. Figures(obs'[s]) = Overlay(Figures(obs[s]), Rows(p))
      BY <1>1, CommitLandsWhole
<1>. QED  BY <1>1, <1>2 DEF Overlay

LEMMA RowsStay ==
    ASSUME TypeOK, LedgerInv, LoadInv, [Next]_vars, NEW s \in Sources, NEW f \in Facts,
           obs[s][f] # NoRow
    PROVE  obs'[s][f] # NoRow
<1>1. CASE obs'[s] = obs[s]
      BY <1>1
<1>2. CASE obs'[s] # obs[s]
  <2>1. PICK p \in Procs : CommitLoad(p) /\ s = Source(p)
        BY <1>2, OnlyLoadsMoveFigures
  <2>2. obs'[s][f] = VisibleCell(p, f)
        BY <2>1 DEF CommitLoad, TypeOK
  <2>3. ImageInv(p)
        BY DEF LoadInv
  <2>4. f \in txn[p].locked => txn[p].image[f] # NoRow
        BY <2>3 DEF ImageInv
  <2>. QED  BY <2>1, <2>2, <2>4 DEF VisibleCell
<1>. QED  BY <1>1, <1>2

LEMMA ComparedStays ==
    ASSUME TypeOK, LedgerInv, LoadInv, [Next]_vars
    PROVE  Compared \subseteq Compared'
<1>. SUFFICES ASSUME NEW f \in Facts, source_count(f) > 1
              PROVE  source_count(f)' > 1
     BY DEF Compared
<1>. DEFINE before == {t \in Sources : obs[t][f] # NoRow}
            after == {t \in Sources : obs'[t][f] # NoRow}
<1>1. source_count(f) = Cardinality(before) /\ source_count(f)' = Cardinality(after)
      BY DEF source_count, values_by_source
<1>2. before \subseteq after
      BY RowsStay
<1>3. IsFiniteSet(after) /\ IsFiniteSet(before)
      BY SourcesAreFinite, FS_Subset
<1>4. Cardinality(before) <= Cardinality(after)
      BY <1>2, <1>3, FS_Subset
<1>5. Cardinality(before) \in Nat /\ Cardinality(after) \in Nat
      BY <1>3, FS_CardinalityType
<1>. QED  BY <1>1, <1>4, <1>5

(* What report shows moves only where a load lands, to the figure of that  *)
(* load, and no comparison is ever lost: nothing a run does short of a     *)
(* commit reaches the view (runner.py 116-124, 002_reconciliation_view.sql *)
(* 8-20).                                                                  *)
THEOREM ReportIsStable == ReadersSpec => ReportMovesWithLoads
<1>1. TypeOK /\ LedgerInv /\ LoadInv /\ [ReadersNext]_readersVars =>
        [/\ \A f \in Facts, s \in Sources :
              Figures(obs'[s])[f] # Figures(obs[s])[f] =>
                \E p \in Procs :
                    /\ LandsNow(p, s)
                    /\ f \in Covered(Rows(p))
                    /\ Figures(obs'[s])[f] = Rows(p)[LastFor(Rows(p), f)].value
         /\ Compared \subseteq Compared']_readersVars
  <2>1. [ReadersNext]_readersVars => [Next]_vars
        BY DEF ReadersNext, Writes, ListsRuns, NoRunsYet, ShowsEntries, readersVars
  <2>. QED  BY <2>1, FiguresMoveWithLoads, ComparedStays
<1>. QED  BY <1>1, ReadersOnlyRead, LedgerInductive, LoadInductive, PTL
          DEF ReadersSpec, ReportMovesWithLoads
=============================================================================
