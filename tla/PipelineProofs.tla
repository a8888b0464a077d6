--------------------------- MODULE PipelineProofs ---------------------------
(***************************************************************************)
(* What holds of Pipeline for every number of invocations, every tuple of  *)
(* sources, every set of facts and figures and every feed.                 *)
(***************************************************************************)
EXTENDS PipelineInv, TLAPS

Extractions == [rows : Seq(IncomingRow), rejected : Nat, skipped : Nat]

-----------------------------------------------------------------------------
(* Lemmas about the operators                                              *)

(* An upsert of a figure the schema accepts leaves a well-formed row.      *)
LEMMA UpsertType ==
    ASSUME NEW cell \in Cell, NEW value \in Values \ Refused, NEW stamp \in Nat
    PROVE  Upsert(cell, value, stamp) \in Row
<1>1. CASE cell = NoRow
      BY <1>1 DEF Upsert, Row
<1>2. CASE cell # NoRow
      BY <1>2 DEF Upsert, Cell, Row
<1>. QED  BY <1>1, <1>2

LEMMA EmptyTableType == EmptyTable \in Table
BY DEF EmptyTable, Table, Cell

LEMMA DistinctSources ==
    ASSUME NEW i \in 1..Len(SourceOrder), NEW j \in 1..Len(SourceOrder)
    PROVE  /\ SourceOrder[i] \in Sources
           /\ i # j => SourceOrder[i] # SourceOrder[j]
BY SourceOrderAssumption

LEMMA SourceType ==
    ASSUME TypeOK, NEW p \in Procs
    PROVE  Source(p) \in Sources
BY SourceOrderAssumption DEF TypeOK, Source

-----------------------------------------------------------------------------
(* Type correctness                                                        *)

LEMMA InitType == Init => TypeOK
<1>. SUFFICES ASSUME Init PROVE TypeOK
     OBVIOUS
<1>1. 1 \in 1..Len(SourceOrder)
      BY SourceOrderAssumption
<1>2. NoEntry \in [status : {"none", "running"} \cup Closed, counts : SourceCounts]
      BY DEF NoEntry, Zero, SourceCounts
<1>3. NoExtraction \in Extractions
      BY DEF NoExtraction, Extractions
<1>4. NoTxn \in [stamp : Nat, next : Nat, locked : SUBSET Facts, image : Table]
      BY EmptyTableType DEF NoTxn
<1>. QED  BY <1>1, <1>2, <1>3, <1>4, EmptyTableType
          DEF Init, TypeOK, Phases, Extractions

LEMMA StepType ==
    ASSUME TypeOK, NEW p \in Procs, Step(p) \/ ServerError(p) \/ LedgerRaises(p) \/ Dies(p)
    PROVE  TypeOK'
<1>0. NoTxn \in [stamp : Nat, next : Nat, locked : SUBSET Facts, image : Table]
      BY EmptyTableType DEF NoTxn
<1>s. Source(p) \in Sources
      BY SourceType
<1>a. ASSUME Abort(p) PROVE TypeOK'
      BY <1>0, <1>a DEF TypeOK, Abort, Transition, Phases
<1>f. ASSUME NEW from, NEW status \in Closed, NEW counts \in SourceCounts,
             FinishSourceRun(p, from, status, counts)
      PROVE  TypeOK'
  <2>1. NoExtraction \in Extractions
        BY DEF NoExtraction, Extractions
  <2>2. idx[p] \in 1..Len(SourceOrder) /\ Len(SourceOrder) \in Nat
        BY SourceOrderAssumption DEF TypeOK
  <2>3. entry' \in [Procs -> [Sources ->
           [status : {"none", "running"} \cup Closed, counts : SourceCounts]]]
        BY <1>f, <1>s DEF FinishSourceRun, TypeOK
  <2>4. outcome' \in [Procs -> [Sources -> {"none"} \cup Closed]]
        BY <1>f, <1>s DEF FinishSourceRun, TypeOK
  <2>5. CASE idx[p] < Len(SourceOrder)
    <3>1. idx[p] + 1 \in 1..Len(SourceOrder)
          BY <2>2, <2>5
    <3>2. idx' = [idx EXCEPT ![p] = @ + 1] /\ pc' = [pc EXCEPT ![p] = "open_source"]
          BY <1>f, <2>2, <2>5 DEF FinishSourceRun
    <3>. QED  BY <1>f, <2>1, <2>3, <2>4, <3>1, <3>2
              DEF FinishSourceRun, TypeOK, Extractions, Phases
  <2>6. CASE idx[p] = Len(SourceOrder)
    <3>1. UNCHANGED idx /\ pc' = [pc EXCEPT ![p] = "close_run"]
          BY <1>f, <2>2, <2>6 DEF FinishSourceRun
    <3>. QED  BY <1>f, <2>1, <2>3, <2>4, <3>1
              DEF FinishSourceRun, TypeOK, Extractions, Phases
  <2>. QED  BY <1>f, <2>5, <2>6 DEF FinishSourceRun
<1>1. CASE UpsertSources(p)
      BY <1>1 DEF TypeOK, UpsertSources, Transition, Phases
<1>2. CASE StartRun(p)
      BY <1>2 DEF TypeOK, StartRun, Transition, Phases
<1>3. CASE StartSourceRun(p)
  <2>2. entry[p][Source(p)] \in [status : {"none", "running"} \cup Closed,
                                 counts : SourceCounts]
        BY <1>s DEF TypeOK
  <2>3. [entry[p][Source(p)] EXCEPT !.status = "running"] \in
           [status : {"none", "running"} \cup Closed, counts : SourceCounts]
        BY <2>2
  <2>1. entry' \in [Procs -> [Sources ->
           [status : {"none", "running"} \cup Closed, counts : SourceCounts]]]
        BY <1>3, <1>s, <2>3 DEF StartSourceRun, TypeOK
  <2>. QED  BY <1>3, <2>1 DEF TypeOK, StartSourceRun, Transition, Phases
<1>4. CASE Extract(p)
      BY <1>4, PublicationsAssumption DEF TypeOK, Extract, Transition, Phases
<1>5. CASE ExtractRaises(p)
      BY <1>5 DEF TypeOK, ExtractRaises, Transition, Phases
<1>6. CASE BeginLoad(p)
  <2>2. [stamp |-> clock + 1, next |-> 0, locked |-> {}, image |-> EmptyTable]
           \in [stamp : Nat, next : Nat, locked : SUBSET Facts, image : Table]
        BY EmptyTableType DEF TypeOK
  <2>. QED  BY <1>6, <2>2 DEF TypeOK, BeginLoad
<1>7. CASE UpsertRow(p)
  <2>. DEFINE row == NextRow(p)
              cell == VisibleCell(p, row.fact)
  <2>1. row \in IncomingRow
        BY <1>7 DEF UpsertRow, Executing, NextRow, Rows, TypeOK
  <2>2. cell \in Cell
        BY <2>1, <1>s DEF VisibleCell, TypeOK, Table, IncomingRow
  <2>3. Upsert(cell, row.value, txn[p].stamp) \in Cell
        BY <1>7, <2>1, <2>2, UpsertType DEF UpsertRow, TypeOK, Cell, IncomingRow
  <2>6. txn[p].image \in Table /\ txn[p].locked \in SUBSET Facts
         /\ txn[p].stamp \in Nat /\ txn[p].next \in Nat
        BY DEF TypeOK
  <2>7. [txn[p].image EXCEPT ![row.fact] = Upsert(cell, row.value, txn[p].stamp)]
           \in Table
        BY <2>3, <2>6 DEF Table
  <2>4. txn' \in [Procs -> [stamp : Nat, next : Nat, locked : SUBSET Facts,
                            image : Table]]
        BY <1>7, <2>1, <2>6, <2>7 DEF UpsertRow, TypeOK, IncomingRow
  <2>5. changed' \in [Procs -> Nat]
        BY <1>7 DEF UpsertRow, TypeOK
  <2>. QED  BY <1>7, <2>4, <2>5 DEF UpsertRow, TypeOK
<1>8. CASE CommitLoad(p)
  <2>1. [f \in Facts |-> VisibleCell(p, f)] \in Table
        BY <1>s DEF VisibleCell, TypeOK, Table
  <2>. QED  BY <1>0, <1>8, <1>s, <2>1 DEF CommitLoad, Transition, TypeOK, Phases
<1>9. CASE RowRefused(p)
      BY <1>9, <1>a DEF RowRefused
<1>10. CASE DeadlockVictim(p)
      BY <1>10, <1>a DEF DeadlockVictim
<1>11. CASE CloseUnextracted(p)
      BY <1>11, <1>f DEF CloseUnextracted, Zero, SourceCounts, Closed
<1>12. CASE CloseRolledBack(p) \/ CloseLoaded(p)
  <2>1. Counts(p, 0) \in SourceCounts /\ Counts(p, Len(Rows(p))) \in SourceCounts
        BY DEF Counts, SourceCounts, Rows, TypeOK
  <2>. QED  BY <1>12, <1>f, <2>1 DEF CloseRolledBack, CloseLoaded, Closed
<1>13. CASE FinishRun(p)
      BY <1>13 DEF TypeOK, FinishRun, Transition, Phases, Verdict
<1>14. CASE ServerError(p)
      BY <1>14, <1>a DEF ServerError
<1>15. CASE LedgerRaises(p) \/ Dies(p)
  <2>1. PICK way \in Gone : Leaves(p, way)
        BY <1>15 DEF LedgerRaises, Dies, Gone
  <2>2. run' \in [Procs -> {"none", "running", "succeeded", "partial", "failed"}]
        BY <2>1 DEF TypeOK, Leaves, Verdict
  <2>. QED  BY <1>0, <2>1, <2>2 DEF TypeOK, Leaves, Phases
<1>. QED  BY <1>1, <1>2, <1>3, <1>4, <1>5, <1>6, <1>7, <1>8, <1>9, <1>10,
             <1>11, <1>12, <1>13, <1>14, <1>15 DEF Step

(* Every reachable state is well formed: no table, ledger row or local     *)
(* ever holds a figure the schema refuses or a status it does not know.    *)
THEOREM TypeCorrect == Spec => []TypeOK
<1>1. Init => TypeOK
      BY InitType
<1>2. TypeOK /\ [Next]_vars => TypeOK'
  <2>. SUFFICES ASSUME TypeOK, [Next]_vars PROVE TypeOK'
       OBVIOUS
  <2>1. CASE UNCHANGED vars
        BY <2>1 DEF TypeOK, vars
  <2>. QED  BY <2>1, StepType DEF Next, Terminated
<1>. QED  BY <1>1, <1>2, PTL DEF Spec

-----------------------------------------------------------------------------
(* The ledger                                                              *)

LEMMA InitLedger == Init => LedgerInv
<1>. SUFFICES ASSUME Init, NEW p \in Procs PROVE RunInv(p)
     BY DEF LedgerInv
<1>1. \A i \in 1..Len(SourceOrder) : SourceOrder[i] \in Sources
      BY SourceOrderAssumption
<1>2. 1 \in 1..Len(SourceOrder)
      BY SourceOrderAssumption
<1>3. \A s \in Sources : Untouched(p, s)
      BY DEF Init, Untouched, NoEntry, Zero
<1>4. pc[p] = "register" /\ idx[p] = 1 /\ run[p] = "none"
      BY DEF Init
<1>5. CurrentSourceInv(p)
      BY <1>1, <1>2, <1>3, <1>4 DEF CurrentSourceInv, Source
<1>6. RunRowInv(p)
      BY <1>4 DEF RunRowInv
<1>7. LoopInv(p)
      BY <1>1, <1>3, <1>4 DEF LoopInv
<1>. QED  BY <1>5, <1>6, <1>7 DEF RunInv

(* What a run knows and has recorded is its own: nobody else writes it.    *)
LEMMA OthersKeepLedger ==
    ASSUME TypeOK, NEW q \in Procs, RunInv(q),
           pc'[q] = pc[q], idx'[q] = idx[q], run'[q] = run[q],
           entry'[q] = entry[q], outcome'[q] = outcome[q], landed'[q] = landed[q]
    PROVE  RunInv(q)'
<1>1. \A s \in Sources : /\ Untouched(q, s)' <=> Untouched(q, s)
                         /\ InProgress(q, s)' <=> InProgress(q, s)
                         /\ Settled(q, s)' <=> Settled(q, s)
      BY DEF Untouched, InProgress, Settled
<1>2. Source(q)' = Source(q) /\ Source(q) \in Sources
      BY SourceType DEF Source
<1>3. CurrentSourceInv(q)'
      BY <1>1, <1>2 DEF RunInv, CurrentSourceInv
<1>4. RunRowInv(q)'
  <2>1. Verdict(q)' = Verdict(q) /\ AllSettled(q)' = AllSettled(q)
        BY <1>1, <1>2 DEF Verdict, AllSettled
  <2>. QED  BY <2>1 DEF RunInv, RunRowInv
<1>5. LoopInv(q)'
      BY <1>1, SourceOrderAssumption DEF RunInv, LoopInv
<1>. QED  BY <1>3, <1>4, <1>5 DEF RunInv

(* A step that leaves the ledger alone and stays inside one stage of the   *)
(* loop over the sources keeps the run's invariant.                        *)
LEMMA QuietStepKeepsLedger ==
    ASSUME TypeOK, NEW p \in Procs, RunInv(p),
           idx'[p] = idx[p], run'[p] = run[p],
           entry'[p] = entry[p], outcome'[p] = outcome[p], landed'[p] = landed[p],
           \/ pc[p] = "register" /\ pc'[p] = "open_run"
           \/ /\ pc[p] \in {"extract", "load"}
              /\ pc'[p] \in {"load", "close_unextracted", "close_rolled_back"}
           \/ pc[p] \notin {"done"} \cup Gone /\ pc'[p] \in Gone
    PROVE  RunInv(p)'
<1>1. \A s \in Sources : /\ Untouched(p, s)' <=> Untouched(p, s)
                         /\ InProgress(p, s)' <=> InProgress(p, s)
                         /\ Settled(p, s)' <=> Settled(p, s)
      BY DEF Untouched, InProgress, Settled
<1>2. Source(p)' = Source(p) /\ Source(p) \in Sources
      BY SourceType DEF Source
<1>3. CurrentSourceInv(p)'
      BY <1>1, <1>2 DEF RunInv, CurrentSourceInv, TypeOK, Phases, Gone
<1>4. RunRowInv(p)'
      BY DEF RunInv, RunRowInv, Gone
<1>5. LoopInv(p)'
      BY <1>1, SourceOrderAssumption DEF RunInv, LoopInv
<1>. QED  BY <1>3, <1>4, <1>5 DEF RunInv

(* A step that touches only the current source's entry, outcome or landing *)
(* leaves every other position of the loop as it is.                       *)
LEMMA OtherSources ==
    ASSUME TypeOK, NEW p \in Procs, LoopInv(p), idx'[p] = idx[p],
           \A s \in Sources \ {Source(p)} :
               /\ entry'[p][s] = entry[p][s]
               /\ outcome'[p][s] = outcome[p][s]
               /\ s \in landed'[p] <=> s \in landed[p]
    PROVE  /\ LoopInv(p)'
           /\ \A i \in 1..Len(SourceOrder) : i < idx[p] => Settled(p, SourceOrder[i])'
           /\ \A i \in 1..Len(SourceOrder) : i > idx[p] => Untouched(p, SourceOrder[i])'
<1>1. idx[p] \in 1..Len(SourceOrder)
      BY DEF TypeOK
<1>2. \A i \in 1..Len(SourceOrder) : i # idx[p] =>
          SourceOrder[i] \in Sources \ {Source(p)}
      BY <1>1, DistinctSources DEF Source
<1>3. \A i \in 1..Len(SourceOrder) : i < idx[p] => Settled(p, SourceOrder[i])'
      BY <1>1, <1>2 DEF LoopInv, Settled
<1>4. \A i \in 1..Len(SourceOrder) : i > idx[p] => Untouched(p, SourceOrder[i])'
      BY <1>1, <1>2 DEF LoopInv, Untouched
<1>. QED  BY <1>3, <1>4 DEF LoopInv

LEMMA FinishSourceRunKeepsLedger ==
    ASSUME TypeOK, NEW p \in Procs, RunInv(p),
           NEW from \in {"close_unextracted", "close_rolled_back", "close_loaded"},
           NEW status \in Closed, NEW counts \in SourceCounts,
           FinishSourceRun(p, from, status, counts),
           status = "succeeded" <=> Source(p) \in landed[p],
           counts.loaded > 0 => Source(p) \in landed[p]
    PROVE  RunInv(p)'
<1>1. PICK k \in 1..Len(SourceOrder) : idx[p] = k
      BY DEF TypeOK
<1>2. Len(SourceOrder) \in Nat
      BY SourceOrderAssumption
<1>3. Source(p) = SourceOrder[k] /\ SourceOrder[k] \in Sources
      BY <1>1, DistinctSources DEF Source
<1>4. /\ entry'[p] = [entry[p] EXCEPT ![SourceOrder[k]] =
                          [status |-> status, counts |-> counts]]
      /\ outcome'[p] = [outcome[p] EXCEPT ![SourceOrder[k]] = status]
      /\ landed' = landed /\ run' = run
      BY <1>3 DEF FinishSourceRun, TypeOK
<1>5. Settled(p, SourceOrder[k])'
  <2>1. /\ entry'[p][SourceOrder[k]] = [status |-> status, counts |-> counts]
        /\ outcome'[p][SourceOrder[k]] = status
        BY <1>3, <1>4 DEF TypeOK
  <2>2. status = "succeeded" <=> SourceOrder[k] \in landed'[p]
        BY <1>3, <1>4
  <2>3. counts.loaded > 0 => SourceOrder[k] \in landed'[p]
        BY <1>3, <1>4
  <2>. QED  BY <2>1, <2>2, <2>3 DEF Settled
<1>6. /\ \A i \in 1..Len(SourceOrder) : i < k => Settled(p, SourceOrder[i])'
      /\ \A i \in 1..Len(SourceOrder) : i > k => Untouched(p, SourceOrder[i])'
  <2>1. \A i \in 1..Len(SourceOrder) : i # k =>
            SourceOrder[i] \in Sources /\ SourceOrder[i] # SourceOrder[k]
        BY DistinctSources
  <2>2. LoopInv(p)
        BY DEF RunInv
  <2>. QED  BY <1>1, <1>4, <2>1, <2>2 DEF LoopInv, Settled, Untouched, TypeOK
<1>7. run[p] = "running"
      BY DEF RunInv, RunRowInv, FinishSourceRun, Gone
<1>8. CASE k < Len(SourceOrder)
  <2>1. idx'[p] = k + 1 /\ pc'[p] = "open_source"
        BY <1>1, <1>2, <1>8 DEF FinishSourceRun, TypeOK
  <2>2. k + 1 \in 1..Len(SourceOrder)
        BY <1>2, <1>8
  <2>3. Untouched(p, SourceOrder[k + 1])'
        BY <1>6, <2>2
  <2>4. Source(p)' = SourceOrder[k + 1]
        BY <2>1 DEF Source
  <2>5. CurrentSourceInv(p)'
        BY <2>1, <2>3, <2>4 DEF CurrentSourceInv, Gone
  <2>6. \A i \in 1..Len(SourceOrder) : i < k + 1 => i < k \/ i = k
        BY <1>2
  <2>7. \A i \in 1..Len(SourceOrder) : i > k + 1 => i > k
        BY <1>2
  <2>8. LoopInv(p)'
        BY <1>5, <1>6, <2>1, <2>6, <2>7 DEF LoopInv
  <2>9. RunRowInv(p)'
        BY <1>4, <1>7, <2>1 DEF RunRowInv, Gone
  <2>. QED  BY <2>5, <2>8, <2>9 DEF RunInv
<1>9. CASE k = Len(SourceOrder)
  <2>1. idx'[p] = k /\ pc'[p] = "close_run"
        BY <1>1, <1>2, <1>9 DEF FinishSourceRun, TypeOK
  <2>2. Source(p)' = SourceOrder[k]
        BY <2>1 DEF Source
  <2>3. CurrentSourceInv(p)'
        BY <1>5, <1>9, <2>1, <2>2 DEF CurrentSourceInv, Gone
  <2>4. LoopInv(p)'
        BY <1>6, <2>1 DEF LoopInv
  <2>5. RunRowInv(p)'
        BY <1>4, <1>7, <2>1 DEF RunRowInv, Gone
  <2>. QED  BY <2>3, <2>4, <2>5 DEF RunInv
<1>. QED  BY <1>2, <1>8, <1>9

LEMMA StepKeepsRun ==
    ASSUME TypeOK, NEW p \in Procs, RunInv(p), Step(p) \/ ServerError(p) \/ LedgerRaises(p) \/ Dies(p)
    PROVE  RunInv(p)'
<1>0. /\ Source(p) \in Sources
      /\ CurrentSourceInv(p) /\ RunRowInv(p) /\ LoopInv(p)
      BY SourceType DEF RunInv
<1>a. ASSUME Abort(p) PROVE RunInv(p)'
      BY <1>a, QuietStepKeepsLedger DEF Abort, Transition, TypeOK
<1>1. CASE UpsertSources(p)
      BY <1>1, QuietStepKeepsLedger DEF UpsertSources, Transition, TypeOK
<1>2. CASE StartRun(p)
  <2>1. /\ pc[p] = "open_run" /\ pc'[p] = "open_source" /\ run'[p] = "running"
        /\ UNCHANGED <<idx, entry, outcome, landed>>
        BY <1>2 DEF StartRun, Transition, TypeOK
  <2>2. Untouched(p, Source(p))' /\ idx'[p] = idx[p]
        BY <1>0, <2>1 DEF CurrentSourceInv, Untouched, Source
  <2>3. CurrentSourceInv(p)' /\ RunRowInv(p)'
        BY <2>1, <2>2 DEF CurrentSourceInv, RunRowInv, Gone
  <2>4. LoopInv(p)'
        BY <1>0, <2>1 DEF LoopInv, Settled, Untouched
  <2>. QED  BY <2>3, <2>4 DEF RunInv
<1>3. CASE StartSourceRun(p)
  <2>1. /\ pc[p] = "open_source" /\ pc'[p] = "extract"
        /\ UNCHANGED <<idx, outcome, landed, run>>
        /\ entry'[p] = [entry[p] EXCEPT ![Source(p)].status = "running"]
        BY <1>3 DEF StartSourceRun, Transition, TypeOK
  <2>2. /\ entry'[p][Source(p)].status = "running"
        /\ entry'[p][Source(p)].counts = entry[p][Source(p)].counts
        /\ \A s \in Sources \ {Source(p)} : entry'[p][s] = entry[p][s]
        BY <1>0, <2>1 DEF TypeOK
  <2>3. Source(p)' = Source(p)
        BY <2>1 DEF Source
  <2>4. Untouched(p, Source(p))
        BY <1>0, <2>1 DEF CurrentSourceInv
  <2>5. InProgress(p, Source(p))' /\ Source(p)' \notin landed'[p]
        BY <2>1, <2>2, <2>3, <2>4 DEF Untouched, InProgress
  <2>6. CurrentSourceInv(p)' /\ RunRowInv(p)'
        BY <1>0, <2>1, <2>5 DEF CurrentSourceInv, RunRowInv, Gone
  <2>7. LoopInv(p)'
        BY <1>0, <2>1, <2>2, OtherSources
  <2>. QED  BY <2>6, <2>7 DEF RunInv
<1>4. CASE Extract(p)
      BY <1>4, QuietStepKeepsLedger DEF Extract, Transition, TypeOK
<1>5. CASE ExtractRaises(p)
      BY <1>5, QuietStepKeepsLedger DEF ExtractRaises, Transition, TypeOK
<1>6. CASE BeginLoad(p)
      BY <1>6, QuietStepKeepsLedger DEF BeginLoad, TypeOK
<1>7. CASE UpsertRow(p)
      BY <1>7, QuietStepKeepsLedger DEF UpsertRow, Executing, TypeOK
<1>8. CASE CommitLoad(p)
  <2>1. /\ pc[p] = "load" /\ pc'[p] = "close_loaded"
        /\ UNCHANGED <<idx, outcome, entry, run>>
        /\ landed'[p] = landed[p] \cup {Source(p)}
        BY <1>8 DEF CommitLoad, Transition, TypeOK
  <2>2. Source(p)' = Source(p)
        BY <2>1 DEF Source
  <2>3. InProgress(p, Source(p))
        BY <1>0, <2>1 DEF CurrentSourceInv
  <2>4. InProgress(p, Source(p))' /\ Source(p)' \in landed'[p]
        BY <2>1, <2>2, <2>3 DEF InProgress
  <2>5. CurrentSourceInv(p)' /\ RunRowInv(p)'
        BY <1>0, <2>1, <2>4 DEF CurrentSourceInv, RunRowInv, Gone
  <2>6. LoopInv(p)'
        BY <1>0, <2>1, OtherSources
  <2>. QED  BY <2>5, <2>6 DEF RunInv
<1>9. CASE RowRefused(p)
      BY <1>9, <1>a DEF RowRefused
<1>10. CASE DeadlockVictim(p)
      BY <1>10, <1>a DEF DeadlockVictim
<1>11. CASE CloseUnextracted(p)
  <2>1. Zero \in SourceCounts /\ ~(Zero.loaded > 0)
        BY DEF Zero, SourceCounts
  <2>2. Source(p) \notin landed[p]
        BY <1>0, <1>11 DEF CurrentSourceInv, CloseUnextracted, FinishSourceRun
  <2>. QED  BY <1>11, <2>1, <2>2, FinishSourceRunKeepsLedger
            DEF CloseUnextracted, Closed
<1>12. CASE CloseRolledBack(p)
  <2>1. Counts(p, 0) \in SourceCounts /\ ~(Counts(p, 0).loaded > 0)
        BY DEF Counts, SourceCounts, Rows, TypeOK
  <2>2. Source(p) \notin landed[p]
        BY <1>0, <1>12 DEF CurrentSourceInv, CloseRolledBack, FinishSourceRun
  <2>. QED  BY <1>12, <2>1, <2>2, FinishSourceRunKeepsLedger
            DEF CloseRolledBack, Closed
<1>13. CASE CloseLoaded(p)
  <2>1. Counts(p, Len(Rows(p))) \in SourceCounts
        BY DEF Counts, SourceCounts, Rows, TypeOK
  <2>2. Source(p) \in landed[p]
        BY <1>0, <1>13 DEF CurrentSourceInv, CloseLoaded, FinishSourceRun
  <2>. QED  BY <1>13, <2>1, <2>2, FinishSourceRunKeepsLedger DEF CloseLoaded, Closed
<1>14. CASE FinishRun(p)
  <2>1. /\ pc[p] = "close_run" /\ pc'[p] = "done"
        /\ UNCHANGED <<idx, outcome, entry, landed>>
        /\ run'[p] = Verdict(p)
        BY <1>14 DEF FinishRun, Transition, TypeOK
  <2>2. Verdict(p)' = Verdict(p) /\ Source(p)' = Source(p)
        BY <2>1 DEF Verdict, Source
  <2>3. Settled(p, Source(p)) /\ idx[p] = Len(SourceOrder)
        BY <1>0, <2>1 DEF CurrentSourceInv
  <2>4. Settled(p, Source(p))' /\ idx'[p] = Len(SourceOrder)
        BY <2>1, <2>2, <2>3 DEF Settled
  <2>5. CurrentSourceInv(p)' /\ RunRowInv(p)'
        BY <2>1, <2>2, <2>4 DEF CurrentSourceInv, RunRowInv, Gone
  <2>6. LoopInv(p)'
        BY <1>0, <2>1 DEF LoopInv, Settled, Untouched
  <2>. QED  BY <2>5, <2>6 DEF RunInv
<1>15. CASE ServerError(p)
      BY <1>15, <1>a DEF ServerError
<1>16. CASE LedgerRaises(p) \/ Dies(p)
  <2>1. PICK way \in Gone : Leaves(p, way)
        BY <1>16 DEF LedgerRaises, Dies, Gone
  <2>2. /\ pc[p] \notin {"done"} \cup Gone /\ pc'[p] \in Gone
        /\ UNCHANGED <<idx, outcome, entry, landed>>
        BY <2>1 DEF Leaves, TypeOK
  <2>3. CASE UNCHANGED run
        BY <2>2, <2>3, QuietStepKeepsLedger
  <2>4. CASE pc[p] = "close_run" /\ run' = [run EXCEPT ![p] = Verdict(p)]
    <3>1. Verdict(p)' = Verdict(p) /\ Source(p)' = Source(p) /\ run'[p] = Verdict(p)
          BY <2>2, <2>4 DEF Verdict, Source, TypeOK
    <3>2. AllSettled(p)
          BY <1>0, <2>4 DEF CurrentSourceInv, AllSettled
    <3>3. AllSettled(p)'
          BY <2>2, <3>1, <3>2 DEF AllSettled, Settled
    <3>4. CurrentSourceInv(p)' /\ RunRowInv(p)'
          BY <2>2, <3>1, <3>3 DEF CurrentSourceInv, RunRowInv, AllSettled, Gone
    <3>5. LoopInv(p)'
          BY <1>0, <2>2 DEF LoopInv, Settled, Untouched
    <3>. QED  BY <3>4, <3>5 DEF RunInv
  <2>. QED  BY <2>1, <2>3, <2>4 DEF Leaves
<1>. QED  BY <1>1, <1>2, <1>3, <1>4, <1>5, <1>6, <1>7, <1>8, <1>9, <1>10,
             <1>11, <1>12, <1>13, <1>14, <1>15, <1>16 DEF Step

LEMMA StepIsLocal ==
    ASSUME TypeOK, NEW p \in Procs, Step(p) \/ ServerError(p) \/ LedgerRaises(p) \/ Dies(p),
           NEW q \in Procs \ {p}
    PROVE  /\ pc'[q] = pc[q] /\ idx'[q] = idx[q] /\ run'[q] = run[q]
           /\ entry'[q] = entry[q] /\ outcome'[q] = outcome[q]
           /\ landed'[q] = landed[q] /\ txn'[q] = txn[q]
           /\ ext'[q] = ext[q] /\ changed'[q] = changed[q]
<1>a. ASSUME Abort(p) PROVE \A r \in Procs \ {p} :
          /\ pc'[r] = pc[r] /\ idx'[r] = idx[r] /\ run'[r] = run[r]
          /\ entry'[r] = entry[r] /\ outcome'[r] = outcome[r]
          /\ landed'[r] = landed[r] /\ txn'[r] = txn[r]
          /\ ext'[r] = ext[r] /\ changed'[r] = changed[r]
      BY <1>a DEF Abort, Transition, TypeOK
<1>1. CASE UpsertSources(p) \/ StartRun(p) \/ StartSourceRun(p) \/ Extract(p)
      BY <1>1 DEF UpsertSources, StartRun, StartSourceRun, Extract, Transition, TypeOK
<1>2. CASE ExtractRaises(p) \/ BeginLoad(p) \/ UpsertRow(p)
      BY <1>2 DEF ExtractRaises, BeginLoad, UpsertRow, Transition, TypeOK
<1>3. CASE CommitLoad(p) \/ FinishRun(p) \/ LedgerRaises(p) \/ Dies(p)
      BY <1>3 DEF CommitLoad, FinishRun, LedgerRaises, Dies, Leaves, Transition, TypeOK
<1>4. CASE RowRefused(p) \/ DeadlockVictim(p) \/ ServerError(p)
      BY <1>4, <1>a DEF RowRefused, DeadlockVictim, ServerError
<1>5. CASE CloseUnextracted(p) \/ CloseRolledBack(p) \/ CloseLoaded(p)
      BY <1>5 DEF CloseUnextracted, CloseRolledBack, CloseLoaded, FinishSourceRun, TypeOK
<1>. QED  BY <1>1, <1>2, <1>3, <1>4, <1>5 DEF Step

LEMMA StepKeepsLedger ==
    ASSUME TypeOK, LedgerInv, [Next]_vars
    PROVE  LedgerInv'
<1>1. CASE UNCHANGED vars
  <2>. SUFFICES ASSUME NEW q \in Procs PROVE RunInv(q)'
       BY DEF LedgerInv
  <2>. QED  BY <1>1, OthersKeepLedger DEF vars, LedgerInv
<1>2. ASSUME NEW p \in Procs, Step(p) \/ ServerError(p) \/ LedgerRaises(p) \/ Dies(p)
      PROVE  LedgerInv'
  <2>. SUFFICES ASSUME NEW q \in Procs PROVE RunInv(q)'
       BY DEF LedgerInv
  <2>1. RunInv(p) /\ RunInv(q)
        BY DEF LedgerInv
  <2>2. CASE q = p
        BY <1>2, <2>1, <2>2, StepKeepsRun
  <2>3. CASE q # p
        BY <1>2, <2>1, <2>3, StepIsLocal, OthersKeepLedger
  <2>. QED  BY <2>2, <2>3
<1>. QED  BY <1>1, <1>2 DEF Next, Terminated

THEOREM LedgerInductive == Spec => [](TypeOK /\ LedgerInv)
<1>1. Init => LedgerInv
      BY InitLedger
<1>2. TypeOK /\ LedgerInv /\ [Next]_vars => LedgerInv'
      BY StepKeepsLedger
<1>. QED  BY <1>1, <1>2, TypeCorrect, PTL DEF Spec

LEMMA LedgerInvMatchesData ==
    ASSUME TypeOK, LedgerInv
    PROVE  LedgerMatchesData
<1>. SUFFICES ASSUME NEW p \in Procs, NEW s \in Sources
              PROVE  LET status == entry[p][s].status IN
                     /\ status = "succeeded" => s \in landed[p]
                     /\ status \in {"none", "failed"} => s \notin landed[p]
                     /\ entry[p][s].counts.loaded > 0 => s \in landed[p]
                     /\ (status = "running" /\ s \in landed[p]) =>
                            s = Source(p) /\ pc[p] \in {"close_loaded"} \cup Gone
     BY DEF LedgerMatchesData
<1>1. PICK i \in 1..Len(SourceOrder) : SourceOrder[i] = s
      BY SourceOrderAssumption
<1>2. RunInv(p) /\ idx[p] \in 1..Len(SourceOrder) /\ pc[p] \in Phases
      BY DEF LedgerInv, TypeOK
<1>3. entry[p][s].counts.loaded \in Nat
      BY DEF TypeOK, SourceCounts
<1>4. CASE i < idx[p]
      BY <1>1, <1>2, <1>4 DEF RunInv, LoopInv, Settled, Closed
<1>5. CASE i > idx[p]
      BY <1>1, <1>2, <1>3, <1>5 DEF RunInv, LoopInv, Untouched
<1>6. CASE i = idx[p]
  <2>1. s = Source(p)
        BY <1>1, <1>6 DEF Source
  <2>2. \/ Untouched(p, s)
        \/ Settled(p, s)
        \/ /\ InProgress(p, s)
           /\ s \in landed[p] => pc[p] \in {"close_loaded"} \cup Gone
        BY <1>2, <2>1 DEF RunInv, CurrentSourceInv, Phases
  <2>. QED  BY <1>3, <2>1, <2>2 DEF Untouched, InProgress, Settled, Closed
<1>. QED  BY <1>1, <1>2, <1>4, <1>5, <1>6

LEMMA LedgerInvJustifiesVerdict ==
    ASSUME TypeOK, LedgerInv
    PROVE  VerdictMatchesData
<1>. SUFFICES ASSUME NEW p \in Procs, run[p] \notin {"none", "running"}
              PROVE  /\ \A s \in Sources : entry[p][s].status \in Closed
                     /\ (run[p] = "succeeded") <=> (landed[p] = Sources)
                     /\ (ExitCode(run[p]) = 1) <=> (landed[p] = {})
     BY DEF VerdictMatchesData
<1>1. RunInv(p) /\ pc[p] \in Phases
      BY DEF LedgerInv, TypeOK
<1>3. run[p] = Verdict(p) /\ Settled(p, Source(p)) /\ idx[p] = Len(SourceOrder)
      BY <1>1 DEF RunInv, RunRowInv, CurrentSourceInv, AllSettled, Phases
<1>4. ASSUME NEW s \in Sources PROVE Settled(p, s)
  <2>1. PICK i \in 1..Len(SourceOrder) : SourceOrder[i] = s
        BY SourceOrderAssumption
  <2>2. Len(SourceOrder) \in Nat /\ (i = Len(SourceOrder) \/ i < Len(SourceOrder))
        BY SourceOrderAssumption
  <2>3. CASE i = Len(SourceOrder)
        BY <1>3, <2>1, <2>3 DEF Source
  <2>4. CASE i < Len(SourceOrder)
        BY <1>1, <1>3, <2>1, <2>4 DEF RunInv, LoopInv
  <2>. QED  BY <2>2, <2>3, <2>4
<1>5. \A s \in Sources : /\ entry[p][s].status \in Closed
                         /\ (s \in landed[p]) <=> (outcome[p][s] = "succeeded")
      BY <1>4 DEF Settled
<1>6. landed[p] \subseteq Sources
      BY DEF TypeOK
<1>7. PICK s0 \in Sources : TRUE
      BY SourceOrderAssumption
<1>8. (landed[p] = Sources) <=> \A s \in Sources : outcome[p][s] = "succeeded"
      BY <1>5, <1>6
<1>9. (landed[p] = {}) <=> \A s \in Sources : outcome[p][s] # "succeeded"
      BY <1>5, <1>6
<1>. QED  BY <1>3, <1>5, <1>7, <1>8, <1>9 DEF Verdict, ExitCode

(* The ledger is honest: an entry that says "succeeded" belongs to a load  *)
(* that was committed and one that says "failed" to one that was not,      *)
(* however many runs overlap and wherever they are killed.                 *)
THEOREM LedgerHonest == Spec => []LedgerMatchesData
BY LedgerInductive, LedgerInvMatchesData, PTL

(* No run closes before all its sources have, and its status and exit code *)
(* are those of the data it committed.                                     *)
THEOREM VerdictHonest == Spec => []VerdictMatchesData
BY LedgerInductive, LedgerInvJustifiesVerdict, PTL

-----------------------------------------------------------------------------
(* The load transactions: row locks, the uncommitted image and what a      *)
(* commit makes visible.                                                   *)

LoadInvOf(p) ==
    /\ pc[p] # "load" => txn[p] = NoTxn
    /\ ImageInv(p)
    /\ LockInv(p)
    /\ RestampInv(p)

LEMMA LoadInvSplit == LoadInv <=> StampInv /\ \A p \in Procs : LoadInvOf(p)
BY DEF LoadInv, LoadInvOf

LEMMA UpsertFacts ==
    ASSUME NEW cell \in Cell, NEW value \in Values \ Refused, NEW stamp \in Nat
    PROVE  LET new == Upsert(cell, value, stamp) IN
           /\ new # NoRow
           /\ new.value = value
           /\ new.firstSeen = IF cell = NoRow THEN stamp ELSE cell.firstSeen
           /\ \/ new.updatedAt = stamp /\ (cell # NoRow => cell.value # value)
              \/ cell # NoRow /\ new = cell
<1>1. Upsert(cell, value, stamp) \in Row
      BY UpsertType
<1>2. Upsert(cell, value, stamp) # NoRow
      BY <1>1, NoRowAssumption
<1>3. CASE cell = NoRow
      BY <1>2, <1>3 DEF Upsert
<1>4. CASE cell # NoRow /\ cell.value # value
      BY <1>2, <1>4 DEF Upsert, Cell, Row
<1>5. CASE cell # NoRow /\ cell.value = value
      BY <1>2, <1>5 DEF Upsert
<1>. QED  BY <1>3, <1>4, <1>5

(* Without a transaction there is nothing to hold or to lose.              *)
LEMMA NoTxnLoadInv ==
    ASSUME TypeOK, NEW p \in Procs, txn[p].locked = {}, txn[p].next = 0,
           pc[p] # "load" => txn[p] = NoTxn
    PROVE  LoadInvOf(p)
<1>1. Rows(p) \in Seq(IncomingRow)
      BY DEF TypeOK, Rows
<1>2. Len(Rows(p)) \in Nat
      BY <1>1
<1>. QED  BY <1>2 DEF LoadInvOf, ImageInv, LockInv, RestampInv

LEMMA InitLoad == Init => LoadInv
<1>. SUFFICES ASSUME Init PROVE LoadInv
     OBVIOUS
<1>1. TypeOK
      BY InitType
<1>2. \A p \in Procs : txn[p] = NoTxn
      BY DEF Init
<1>3. StampInv
  <2>1. \A s \in Sources, f \in Facts : obs[s][f] = NoRow
        BY DEF Init, EmptyTable
  <2>2. \A p \in Procs : txn[p].stamp = 0
        BY <1>2 DEF NoTxn
  <2>. QED  BY <2>1, <2>2 DEF Init, StampInv
<1>4. ASSUME NEW p \in Procs PROVE LoadInvOf(p)
  <2>1. txn[p].locked = {} /\ txn[p].next = 0 /\ txn[p] = NoTxn
        BY <1>2 DEF NoTxn
  <2>. QED  BY <1>1, <2>1, NoTxnLoadInv
<1>. QED  BY <1>3, <1>4, LoadInvSplit

(* A step that neither commits, opens nor extends a load: every process    *)
(* keeps its transaction, or has none afterwards.                          *)
LEMMA QuietStepKeepsLoad ==
    ASSUME TypeOK, TypeOK', LoadInv,
           UNCHANGED <<obs, clock>>,
           \A q \in Procs :
               /\ pc'[q] # "load" => txn'[q] = NoTxn
               /\ \/ txn'[q] = NoTxn
                  \/ txn'[q] = txn[q] /\ idx'[q] = idx[q] /\ ext'[q] = ext[q]
    PROVE  LoadInv'
<1>1. NoTxn.stamp = 0 /\ NoTxn.locked = {} /\ NoTxn.next = 0
      BY DEF NoTxn
<1>2. StampInv'
  <2>1. \A q \in Procs : txn'[q].stamp = 0 \/ txn'[q].stamp = txn[q].stamp
        BY <1>1
  <2>2. clock \in Nat
        BY DEF TypeOK
  <2>. QED  BY <2>1, <2>2 DEF LoadInv, StampInv
<1>3. ASSUME NEW q \in Procs PROVE LoadInvOf(q)'
  <2>1. CASE txn'[q] = NoTxn
    <3>1. Rows(q)' \in Seq(IncomingRow)
          BY DEF TypeOK, Rows
    <3>2. Len(Rows(q)') \in Nat
          BY <3>1
    <3>. QED  BY <1>1, <2>1, <3>2 DEF LoadInvOf, ImageInv, LockInv, RestampInv
  <2>2. CASE txn'[q] # NoTxn
    <3>1. /\ txn'[q] = txn[q] /\ Rows(q)' = Rows(q) /\ Source(q)' = Source(q)
          /\ pc'[q] = "load"
          BY <2>2 DEF Rows, Source
    <3>2. ImageInv(q)' /\ RestampInv(q)'
          BY <3>1 DEF LoadInv, ImageInv, RestampInv
    <3>3. ASSUME NEW r \in Procs, NEW f, Holds(r, Source(q), f)'
          PROVE  Holds(r, Source(q), f)
          BY <1>1, <3>1, <3>3 DEF Holds, Source
    <3>4. LockInv(q)'
          BY <3>1, <3>3 DEF LoadInv, LockInv
    <3>. QED  BY <3>1, <3>2, <3>4 DEF LoadInvOf
  <2>. QED  BY <2>1, <2>2
<1>4. LoadInv' <=> StampInv' /\ \A p \in Procs : LoadInvOf(p)'
      BY DEF LoadInv, LoadInvOf
<1>. QED  BY <1>2, <1>3, <1>4

(* The invariants of a process whose own transaction, extraction and       *)
(* source stay, on rows nobody moves, while nobody else gains a lock it    *)
(* holds.                                                                  *)
LEMMA OthersKeepLoad ==
    ASSUME NEW q \in Procs, LoadInvOf(q),
           pc'[q] = pc[q], txn'[q] = txn[q], idx'[q] = idx[q], ext'[q] = ext[q],
           \A f \in txn[q].locked : obs'[Source(q)][f] = obs[Source(q)][f],
           \A r \in Procs \ {q}, f \in txn[q].locked : ~Holds(r, Source(q), f)'
    PROVE  LoadInvOf(q)'
<1>1. Rows(q)' = Rows(q) /\ Source(q)' = Source(q)
      BY DEF Rows, Source
<1>2. ImageInv(q)'
      BY <1>1 DEF LoadInvOf, ImageInv
<1>3. LockInv(q)'
      BY <1>1 DEF LoadInvOf, LockInv, Holds
<1>4. RestampInv(q)'
      BY <1>1 DEF LoadInvOf, RestampInv
<1>. QED  BY <1>2, <1>3, <1>4 DEF LoadInvOf

LEMMA BeginLoadKeepsLoad ==
    ASSUME TypeOK, TypeOK', LoadInv, NEW p \in Procs, BeginLoad(p)
    PROVE  LoadInv'
<1>1. /\ txn'[p] = [stamp |-> clock + 1, next |-> 0, locked |-> {},
                    image |-> EmptyTable]
      /\ \A q \in Procs \ {p} : txn'[q] = txn[q]
      /\ clock' = clock + 1
      /\ UNCHANGED <<obs, pc, idx, ext>>
      /\ pc[p] = "load"
      BY DEF BeginLoad, TypeOK
<1>2. clock \in Nat /\ \A q \in Procs : txn[q].stamp \in Nat
      BY DEF TypeOK
<1>3. StampInv'
  <2>1. \A q \in Procs : txn[q].stamp <= clock
        BY DEF LoadInv, StampInv
  <2>2. \A q \in Procs : txn'[q].stamp <= clock'
        BY <1>1, <1>2, <2>1
  <2>3. \A q, r \in Procs : q # r /\ txn'[q].stamp # 0 =>
            txn'[q].stamp # txn'[r].stamp
        BY <1>1, <1>2, <2>1 DEF LoadInv, StampInv
  <2>4. \A s \in Sources, f \in Facts : obs[s][f] # NoRow =>
            obs[s][f].updatedAt \in Nat /\ obs[s][f].updatedAt <= clock
        BY DEF LoadInv, StampInv, TypeOK, Table, Cell, Row
  <2>5. ASSUME NEW s \in Sources, NEW f \in Facts, obs'[s][f] # NoRow
        PROVE  /\ obs'[s][f].updatedAt <= clock'
               /\ \A q \in Procs : txn'[q].stamp # 0 =>
                      obs'[s][f].updatedAt # txn'[q].stamp
        BY <1>1, <1>2, <2>4, <2>5 DEF LoadInv, StampInv
  <2>. QED  BY <2>2, <2>3, <2>5 DEF StampInv
<1>4. ASSUME NEW q \in Procs PROVE LoadInvOf(q)'
  <2>1. LoadInvOf(q)
        BY DEF LoadInv, LoadInvOf
  <2>2. CASE q = p
    <3>1. Rows(q)' \in Seq(IncomingRow)
          BY DEF TypeOK, Rows
    <3>2. Len(Rows(q)') \in Nat
          BY <3>1
    <3>. QED  BY <1>1, <2>2, <3>2 DEF LoadInvOf, ImageInv, LockInv, RestampInv
  <2>3. CASE q # p
    <3>1. \A r \in Procs \ {q}, f \in txn[q].locked : ~Holds(r, Source(q), f)'
          BY <1>1, <2>1, <2>3 DEF LoadInvOf, LockInv, Holds, Source
    <3>. QED  BY <1>1, <2>1, <2>3, <3>1, OthersKeepLoad
  <2>. QED  BY <2>2, <2>3
<1>. QED  BY <1>3, <1>4 DEF LoadInv, LoadInvOf

LEMMA UpsertRowKeepsLoad ==
    ASSUME TypeOK, TypeOK', LoadInv, NEW p \in Procs, UpsertRow(p)
    PROVE  LoadInv'
<1>. DEFINE n == txn[p].next
            row == NextRow(p)
            cell == VisibleCell(p, row.fact)
            new == Upsert(cell, row.value, txn[p].stamp)
            committed == obs[Source(p)][row.fact]
<1>1. /\ Executing(p) /\ pc[p] = "load" /\ txn[p].stamp # 0
      /\ n \in Nat /\ n < Len(Rows(p))
      /\ Rows(p) \in Seq(IncomingRow) /\ Len(Rows(p)) \in Nat
      /\ row = Rows(p)[n + 1] /\ row \in IncomingRow
      /\ row.value \in Values \ Refused /\ row.fact \in Facts
  <2>1. /\ Executing(p) /\ row.value \notin Refused
        BY DEF UpsertRow
  <2>2. /\ n \in Nat /\ Rows(p) \in Seq(IncomingRow)
        BY DEF TypeOK, Rows
  <2>3. /\ pc[p] = "load" /\ txn[p].stamp # 0 /\ n < Len(Rows(p))
        BY <2>1 DEF Executing
  <2>4. /\ Len(Rows(p)) \in Nat /\ n + 1 \in 1..Len(Rows(p))
        BY <2>2, <2>3
  <2>5. row = Rows(p)[n + 1] /\ row \in IncomingRow
        BY <2>2, <2>4 DEF NextRow
  <2>. QED  BY <2>1, <2>2, <2>3, <2>4, <2>5 DEF IncomingRow
<1>2. /\ txn'[p].stamp = txn[p].stamp
      /\ txn'[p].next = n + 1
      /\ txn'[p].locked = txn[p].locked \cup {row.fact}
      /\ txn'[p].image = [txn[p].image EXCEPT ![row.fact] = new]
      /\ \A q \in Procs \ {p} : txn'[q] = txn[q]
      /\ UNCHANGED <<obs, clock, pc, idx, ext>>
      BY DEF UpsertRow, TypeOK
<1>3. /\ Source(p) \in Sources /\ committed \in Cell
      /\ txn[p].image \in Table /\ txn[p].locked \subseteq Facts
      /\ txn[p].stamp \in Nat
  <2>1. Source(p) \in Sources
        BY SourceType
  <2>2. obs \in [Sources -> Table]
        BY DEF TypeOK
  <2>3. txn[p] \in [stamp : Nat, next : Nat, locked : SUBSET Facts, image : Table]
        BY DEF TypeOK
  <2>4. row.fact \in Facts
        BY <1>1
  <2>5. obs[Source(p)] \in Table
        BY <2>1, <2>2
  <2>6. committed \in Cell
        BY <2>4, <2>5 DEF Table
  <2>7. /\ txn[p].image \in Table /\ txn[p].locked \subseteq Facts
        /\ txn[p].stamp \in Nat
        BY <2>3
  <2>. QED  BY <2>1, <2>6, <2>7
<1>4. /\ txn'[p].image[row.fact] = new
      /\ \A f \in Facts \ {row.fact} : txn'[p].image[f] = txn[p].image[f]
      BY <1>1, <1>2, <1>3 DEF Table
<1>5. cell \in Cell
      BY <1>1, <1>3 DEF VisibleCell, Table
<1>6. /\ new # NoRow /\ new.value = row.value
      /\ new.firstSeen = IF cell = NoRow THEN txn[p].stamp ELSE cell.firstSeen
      /\ \/ new.updatedAt = txn[p].stamp /\ (cell # NoRow => cell.value # row.value)
         \/ cell # NoRow /\ new = cell
      BY <1>1, <1>3, <1>5, UpsertFacts
<1>7. \A q \in Procs \ {p} : Source(q) = Source(p) => row.fact \notin txn[q].locked
      BY <1>1 DEF UpsertRow, WaitsFor, Holds
<1>8. \A q \in Procs : LoadInvOf(q)
      BY DEF LoadInv, LoadInvOf
<1>9. /\ row.fact \in txn[p].locked => cell = txn[p].image[row.fact] /\ cell # NoRow
      /\ row.fact \notin txn[p].locked => cell = committed
      BY <1>8 DEF VisibleCell, LoadInvOf, ImageInv
<1>10. StampInv'
       BY <1>2 DEF LoadInv, StampInv
<1>11. Rows(p)' = Rows(p) /\ Source(p)' = Source(p)
       BY <1>2 DEF Rows, Source
<1>12. ImageInv(p)'
  <2>1. ImageInv(p)
        BY <1>8 DEF LoadInvOf
  <2>2. n + 1 <= Len(Rows(p)) /\ n + 1 # 0
        BY <1>1
  <2>3. \A i \in 1..(n + 1) : Rows(p)[i].fact \in txn'[p].locked
        BY <1>1, <1>2, <2>1 DEF ImageInv
  <2>4. ASSUME NEW f \in txn'[p].locked
        PROVE  /\ txn'[p].image[f] # NoRow
               /\ \E i \in 1..(n + 1) :
                      /\ Rows(p)[i].fact = f
                      /\ txn'[p].image[f].value = Rows(p)[i].value
                      /\ \A j \in 1..(n + 1) : j > i => Rows(p)[j].fact # f
    <3>1. CASE f = row.fact
      <4>1. n + 1 \in 1..(n + 1) /\ \A j \in 1..(n + 1) : ~(j > n + 1)
            BY <1>1
      <4>. QED  BY <1>1, <1>4, <1>6, <3>1, <4>1
    <3>2. CASE f # row.fact
      <4>1. f \in txn[p].locked /\ f \in Facts /\ txn'[p].image[f] = txn[p].image[f]
            BY <1>2, <1>3, <1>4, <3>2
      <4>2. PICK i \in 1..n : /\ Rows(p)[i].fact = f
                              /\ txn[p].image[f].value = Rows(p)[i].value
                              /\ \A j \in 1..n : j > i => Rows(p)[j].fact # f
            BY <2>1, <4>1 DEF ImageInv
      <4>3. \A j \in 1..(n + 1) : j \in 1..n \/ j = n + 1
            BY <1>1
      <4>4. \A j \in 1..(n + 1) : j > i => Rows(p)[j].fact # f
            BY <1>1, <3>2, <4>2, <4>3
      <4>5. i \in 1..(n + 1)
            BY <1>1
      <4>6. txn[p].image[f] # NoRow
            BY <2>1, <4>1 DEF ImageInv
      <4>. QED  BY <4>1, <4>2, <4>4, <4>5, <4>6
    <3>. QED  BY <3>1, <3>2
  <2>. QED  BY <1>1, <1>2, <1>11, <2>2, <2>3, <2>4 DEF ImageInv
<1>13. LockInv(p)'
  <2>1. ASSUME NEW f \in txn'[p].locked
        PROVE  /\ \A q \in Procs \ {p} : ~Holds(q, Source(p), f)'
               /\ txn'[p].image[f].firstSeen =
                      IF obs[Source(p)][f] = NoRow THEN txn[p].stamp
                                                   ELSE obs[Source(p)][f].firstSeen
               /\ txn'[p].image[f].updatedAt # txn[p].stamp =>
                      /\ obs[Source(p)][f] # NoRow
                      /\ txn'[p].image[f] = obs[Source(p)][f]
    <3>1. CASE f = row.fact
      <4>1. \A q \in Procs \ {p} : ~Holds(q, Source(p), f)'
            BY <1>2, <1>7, <1>11, <3>1 DEF Holds, Source
      <4>2. CASE row.fact \notin txn[p].locked
            BY <1>4, <1>6, <1>9, <3>1, <4>1, <4>2
      <4>3. CASE row.fact \in txn[p].locked
            BY <1>4, <1>6, <1>8, <1>9, <3>1, <4>1, <4>3 DEF LoadInvOf, LockInv
      <4>. QED  BY <4>2, <4>3
    <3>2. CASE f # row.fact
      <4>1. f \in txn[p].locked /\ txn'[p].image[f] = txn[p].image[f]
            BY <1>2, <1>3, <1>4, <3>2
      <4>2. \A q \in Procs \ {p} : ~Holds(q, Source(p), f)'
            BY <1>2, <1>8, <1>11, <4>1 DEF LoadInvOf, LockInv, Holds, Source
      <4>. QED  BY <1>8, <4>1, <4>2 DEF LoadInvOf, LockInv
    <3>. QED  BY <3>1, <3>2
  <2>. QED  BY <1>2, <1>11, <2>1 DEF LockInv, Holds
<1>14. RestampInv(p)'
  <2>. SUFFICES ASSUME Unambiguous(Rows(p)), NEW f \in txn'[p].locked,
                       obs[Source(p)][f] # NoRow,
                       txn'[p].image[f].updatedAt = txn[p].stamp
                PROVE  txn'[p].image[f].value # obs[Source(p)][f].value
       BY <1>2, <1>11 DEF RestampInv
  <2>1. CASE f # row.fact
        BY <1>2, <1>3, <1>4, <1>8, <2>1 DEF LoadInvOf, RestampInv
  <2>2. CASE f = row.fact /\ row.fact \notin txn[p].locked
    <3>1. committed.updatedAt # txn[p].stamp
          BY <1>1, <1>3, <2>2 DEF LoadInv, StampInv
    <3>. QED  BY <1>4, <1>6, <1>9, <2>2, <3>1
  <2>3. CASE f = row.fact /\ row.fact \in txn[p].locked
    <3>1. PICK i \in 1..n : /\ Rows(p)[i].fact = f
                            /\ txn[p].image[f].value = Rows(p)[i].value
          BY <1>8, <2>3 DEF LoadInvOf, ImageInv
    <3>2. i \in DOMAIN Rows(p) /\ n + 1 \in DOMAIN Rows(p)
          BY <1>1, <3>1
    <3>3. txn[p].image[f].value = row.value
          BY <1>1, <2>3, <3>1, <3>2 DEF Unambiguous
    <3>4. new = txn[p].image[f]
          BY <1>6, <1>9, <2>3, <3>3
    <3>. QED  BY <1>4, <1>8, <2>3, <3>4 DEF LoadInvOf, RestampInv
  <2>. QED  BY <2>1, <2>2, <2>3
<1>15. ASSUME NEW q \in Procs PROVE LoadInvOf(q)'
  <2>1. CASE q = p
        BY <1>1, <1>2, <1>12, <1>13, <1>14, <2>1 DEF LoadInvOf
  <2>2. CASE q # p
    <3>1. \A r \in Procs \ {q}, f \in txn[q].locked : ~Holds(r, Source(q), f)
          BY <1>8 DEF LoadInvOf, LockInv
    <3>2. \A r \in Procs \ {q}, f \in txn[q].locked : ~Holds(r, Source(q), f)'
          BY <1>2, <1>7, <2>2, <3>1 DEF Holds, Source
    <3>. QED  BY <1>2, <1>8, <2>2, <3>2, OthersKeepLoad
  <2>. QED  BY <2>1, <2>2
<1>. QED  BY <1>10, <1>15 DEF LoadInv, LoadInvOf

LEMMA CommitLoadFacts ==
    ASSUME TypeOK, LoadInv, NEW p \in Procs, CommitLoad(p)
    PROVE  /\ pc[p] = "load" /\ Source(p) \in Sources
           /\ Rows(p) \in Seq(IncomingRow) /\ txn[p].next = Len(Rows(p))
           /\ ImageInv(p) /\ LockInv(p) /\ RestampInv(p)
           /\ txn[p].locked \subseteq Facts /\ txn[p].image \in Table
           /\ \A s \in Sources \ {Source(p)} : obs'[s] = obs[s]
           /\ \A f \in txn[p].locked : obs'[Source(p)][f] = txn[p].image[f]
           /\ \A f \in Facts \ txn[p].locked :
                  obs'[Source(p)][f] = obs[Source(p)][f]
           /\ txn'[p] = NoTxn /\ \A q \in Procs \ {p} : txn'[q] = txn[q]
           /\ pc'[p] # "load" /\ \A q \in Procs \ {p} : pc'[q] = pc[q]
           /\ UNCHANGED <<clock, idx, ext>>
           /\ obs' = [obs EXCEPT ![Source(p)] = [f \in Facts |-> VisibleCell(p, f)]]
           /\ landed' = [landed EXCEPT ![p] = @ \cup {Source(p)}]
<1>1. Source(p) \in Sources
      BY SourceType
<1>2. obs' = [obs EXCEPT ![Source(p)] = [f \in Facts |-> VisibleCell(p, f)]]
      BY DEF CommitLoad
<1>3. /\ txn[p].locked \subseteq Facts /\ txn[p].image \in Table
      /\ Rows(p) \in Seq(IncomingRow)
      BY DEF TypeOK, Rows
<1>4. obs'[Source(p)] = [f \in Facts |-> VisibleCell(p, f)]
      BY <1>1, <1>2 DEF TypeOK
<1>5. /\ \A f \in txn[p].locked : obs'[Source(p)][f] = txn[p].image[f]
      /\ \A f \in Facts \ txn[p].locked : obs'[Source(p)][f] = obs[Source(p)][f]
      BY <1>3, <1>4 DEF VisibleCell
<1>6. \A s \in Sources \ {Source(p)} : obs'[s] = obs[s]
      BY <1>2 DEF TypeOK
<1>7. /\ pc[p] = "load" /\ txn[p].next = Len(Rows(p))
      /\ txn'[p] = NoTxn /\ \A q \in Procs \ {p} : txn'[q] = txn[q]
      /\ pc'[p] # "load" /\ \A q \in Procs \ {p} : pc'[q] = pc[q]
      /\ UNCHANGED <<clock, idx, ext>>
      /\ landed' = [landed EXCEPT ![p] = @ \cup {Source(p)}]
      BY DEF CommitLoad, Transition, TypeOK
<1>8. ImageInv(p) /\ LockInv(p) /\ RestampInv(p)
      BY DEF LoadInv
<1>. QED  BY <1>1, <1>2, <1>3, <1>5, <1>6, <1>7, <1>8

LEMMA CommitLoadKeepsLoad ==
    ASSUME TypeOK, TypeOK', LoadInv, NEW p \in Procs, CommitLoad(p)
    PROVE  LoadInv'
<1>. USE CommitLoadFacts
<1>1. NoTxn.stamp = 0 /\ NoTxn.locked = {} /\ NoTxn.next = 0
      BY DEF NoTxn
<1>2. StampInv'
  <2>0. clock \in Nat /\ \A q \in Procs : txn[q].stamp \in Nat
        BY DEF TypeOK
  <2>1. /\ \A q \in Procs : txn'[q].stamp <= clock'
        /\ \A q, r \in Procs : q # r /\ txn'[q].stamp # 0 =>
               txn'[q].stamp # txn'[r].stamp
        BY <1>1, <2>0 DEF LoadInv, StampInv
  <2>2. ASSUME NEW s \in Sources, NEW f \in Facts, obs'[s][f] # NoRow
        PROVE  /\ obs'[s][f].updatedAt <= clock'
               /\ \A q \in Procs : txn'[q].stamp # 0 =>
                      obs'[s][f].updatedAt # txn'[q].stamp
    <3>1. CASE obs'[s][f] = obs[s][f]
          BY <1>1, <2>2, <3>1 DEF LoadInv, StampInv
    <3>2. CASE obs'[s][f] # obs[s][f]
      <4>1. s = Source(p) /\ f \in txn[p].locked /\ obs'[s][f] = txn[p].image[f]
            BY <3>2
      <4>2. obs'[s][f].updatedAt = txn[p].stamp
            BY <3>2, <4>1 DEF LockInv
      <4>. QED  BY <1>1, <4>2 DEF LoadInv, StampInv
    <3>. QED  BY <3>1, <3>2
  <2>. QED  BY <2>1, <2>2 DEF StampInv
<1>3. ASSUME NEW q \in Procs PROVE LoadInvOf(q)'
  <2>1. CASE q = p
    <3>1. Rows(q)' \in Seq(IncomingRow)
          BY DEF TypeOK, Rows
    <3>2. Len(Rows(q)') \in Nat
          BY <3>1
    <3>. QED  BY <1>1, <2>1, <3>2 DEF LoadInvOf, ImageInv, LockInv, RestampInv
  <2>2. CASE q # p
    <3>1. LoadInvOf(q) /\ txn[q].locked \subseteq Facts
          BY DEF LoadInv, LoadInvOf, TypeOK
    <3>2. \A f \in txn[q].locked : Source(q) = Source(p) => f \notin txn[p].locked
          BY <2>2, <3>1 DEF LoadInvOf, LockInv, Holds
    <3>3. Source(q) \in Sources
          BY SourceType
    <3>4. \A f \in txn[q].locked : obs'[Source(q)][f] = obs[Source(q)][f]
          BY <3>1, <3>2, <3>3
    <3>5. \A r \in Procs : txn'[r].locked \subseteq txn[r].locked
          BY <1>1
    <3>6. idx' = idx
          OBVIOUS
    <3>7. \A r \in Procs \ {q}, f \in txn[q].locked : ~Holds(r, Source(q), f)
          BY <3>1 DEF LoadInvOf, LockInv
    <3>8. \A r \in Procs \ {q}, f \in txn[q].locked : ~Holds(r, Source(q), f)'
          BY <3>5, <3>6, <3>7 DEF Holds, Source
    <3>. QED  BY <2>2, <3>1, <3>4, <3>8, OthersKeepLoad
  <2>. QED  BY <2>1, <2>2
<1>. QED  BY <1>2, <1>3 DEF LoadInv, LoadInvOf

LEMMA StepKeepsLoad ==
    ASSUME TypeOK, TypeOK', LoadInv, [Next]_vars
    PROVE  LoadInv'
<1>0. \A q \in Procs : pc[q] # "load" => txn[q] = NoTxn
      BY DEF LoadInv
<1>1. CASE UNCHANGED vars
      BY <1>0, <1>1, QuietStepKeepsLoad DEF vars
<1>2. ASSUME NEW p \in Procs, Step(p) \/ ServerError(p) \/ LedgerRaises(p) \/ Dies(p)
      PROVE  LoadInv'
  <2>1. CASE UpsertSources(p) \/ StartRun(p) \/ StartSourceRun(p)
        BY <1>0, <2>1, QuietStepKeepsLoad
        DEF UpsertSources, StartRun, StartSourceRun, Transition, TypeOK
  <2>2. CASE Extract(p)
    <3>1. \A q \in Procs \ {p} : pc'[q] = pc[q] /\ ext'[q] = ext[q]
          BY <2>2 DEF Extract, Transition, TypeOK
    <3>2. txn[p] = NoTxn /\ UNCHANGED <<obs, clock, txn, idx>>
          BY <1>0, <2>2 DEF Extract, Transition
    <3>. QED  BY <1>0, <3>1, <3>2, QuietStepKeepsLoad
  <2>3. CASE ExtractRaises(p) \/ FinishRun(p)
        BY <1>0, <2>3, QuietStepKeepsLoad DEF ExtractRaises, FinishRun, Transition, TypeOK
  <2>4. CASE RowRefused(p) \/ DeadlockVictim(p) \/ ServerError(p) \/ LedgerRaises(p) \/ Dies(p)
    <3>1. /\ UNCHANGED <<obs, clock, idx, ext>> /\ txn'[p] = NoTxn
          /\ \A q \in Procs \ {p} : pc'[q] = pc[q] /\ txn'[q] = txn[q]
          BY <2>4 DEF RowRefused, DeadlockVictim, ServerError, Abort, LedgerRaises,
                      Dies, Leaves, Transition, TypeOK
    <3>. QED  BY <1>0, <3>1, QuietStepKeepsLoad
  <2>5. CASE CloseUnextracted(p) \/ CloseRolledBack(p) \/ CloseLoaded(p)
    <3>1. /\ UNCHANGED <<obs, clock, txn>> /\ pc[p] # "load" /\ pc'[p] # "load"
          /\ \A q \in Procs \ {p} :
                 pc'[q] = pc[q] /\ idx'[q] = idx[q] /\ ext'[q] = ext[q]
          BY <2>5 DEF CloseUnextracted, CloseRolledBack, CloseLoaded,
                      FinishSourceRun, TypeOK
    <3>. QED  BY <1>0, <3>1, QuietStepKeepsLoad
  <2>6. CASE BeginLoad(p)
        BY <2>6, BeginLoadKeepsLoad
  <2>7. CASE UpsertRow(p)
        BY <2>7, UpsertRowKeepsLoad
  <2>8. CASE CommitLoad(p)
        BY <2>8, CommitLoadKeepsLoad
  <2>. QED  BY <1>2, <2>1, <2>2, <2>3, <2>4, <2>5, <2>6, <2>7, <2>8 DEF Step
<1>. QED  BY <1>1, <1>2 DEF Next, Terminated

THEOREM LoadInductive == Spec => []LoadInv
<1>1. Init => LoadInv
      BY InitLoad
<1>2. TypeOK /\ TypeOK' /\ LoadInv /\ [Next]_vars => LoadInv'
      BY StepKeepsLoad
<1>. QED  BY <1>1, <1>2, TypeCorrect, PTL DEF Spec

(* Overlapping loads never move a row under each other: while a load is    *)
(* open, each fact it wrote has it as its only writer and its copy         *)
(* descends from the row a reader sees.                                    *)
THEOREM RowLocksHold == Spec => []NoLostUpdate
<1>1. LoadInv => NoLostUpdate
      BY DEF LoadInv, ImageInv, LockInv, NoLostUpdate
<1>. QED  BY <1>1, LoadInductive, PTL
=============================================================================
