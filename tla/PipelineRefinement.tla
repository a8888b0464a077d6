------------------------- MODULE PipelineRefinement -------------------------
(***************************************************************************)
(* What a commit does: it lands the whole extraction, as RunPromise        *)
(* promises, updated_at is honest, and `changed` counts the rows it moves. *)
(***************************************************************************)
EXTENDS PipelineProofs, FiniteSetTheorems

-----------------------------------------------------------------------------
(* What a commit makes visible                                             *)

(* The last row for a fact is unique, so CHOOSE finds it.                  *)
LEMMA LastForIsTheLast ==
    ASSUME NEW rows \in Seq(IncomingRow), NEW f,
           NEW i \in DOMAIN rows, IsLastFor(rows, i, f)
    PROVE  LastFor(rows, f) = i
<1>1. IsLastFor(rows, LastFor(rows, f), f) /\ LastFor(rows, f) \in DOMAIN rows
      BY DEF LastFor, IsLastFor
<1>2. i \in Int /\ LastFor(rows, f) \in Int
      BY <1>1
<1>3. ~(i > LastFor(rows, f)) /\ ~(LastFor(rows, f) > i)
      BY <1>1 DEF IsLastFor
<1>. QED  BY <1>2, <1>3

(* The commit of a load lands the whole extraction and nothing else: what  *)
(* readers see is the old table overlaid with the extraction's rows.       *)
LEMMA CommitLandsWhole ==
    ASSUME TypeOK, LoadInv, NEW p \in Procs, CommitLoad(p)
    PROVE  Figures(obs'[Source(p)]) = Overlay(Figures(obs[Source(p)]), Rows(p))
<1>. DEFINE rows == Rows(p)
            s == Source(p)
<1>1. /\ rows \in Seq(IncomingRow) /\ txn[p].next = Len(rows)
      /\ ImageInv(p) /\ txn[p].locked \subseteq Facts
      /\ \A f \in txn[p].locked : obs'[s][f] = txn[p].image[f]
      /\ \A f \in Facts \ txn[p].locked : obs'[s][f] = obs[s][f]
      BY CommitLoadFacts
<1>2. DOMAIN rows = 1..Len(rows)
      BY <1>1
<1>3. ASSUME NEW f \in Facts
      PROVE  Figures(obs'[s])[f] = Overlay(Figures(obs[s]), rows)[f]
  <2>1. CASE f \in txn[p].locked
    <3>1. PICK i \in 1..Len(rows) :
              /\ rows[i].fact = f
              /\ txn[p].image[f].value = rows[i].value
              /\ \A j \in 1..Len(rows) : j > i => rows[j].fact # f
          BY <1>1, <2>1 DEF ImageInv
    <3>2. i \in DOMAIN rows /\ IsLastFor(rows, i, f) /\ f \in Covered(rows)
          BY <1>2, <3>1 DEF IsLastFor, Covered
    <3>3. LastFor(rows, f) = i
          BY <1>1, <3>2, LastForIsTheLast
    <3>4. txn[p].image[f] # NoRow
          BY <1>1, <2>1 DEF ImageInv
    <3>. QED  BY <1>1, <2>1, <3>1, <3>2, <3>3, <3>4 DEF Figures, Overlay
  <2>2. CASE f \notin txn[p].locked
    <3>1. f \notin Covered(rows)
          BY <1>1, <1>2, <2>2 DEF ImageInv, Covered
    <3>. QED  BY <1>1, <2>2, <3>1 DEF Figures, Overlay
  <2>. QED  BY <2>1, <2>2
<1>. QED  BY <1>3 DEF Figures, Overlay

-----------------------------------------------------------------------------
(* updated_at                                                              *)

LEMMA CommitHonest ==
    ASSUME TypeOK, LoadInv, NEW p \in Procs, CommitLoad(p),
           Unambiguous(Rows(p)), NEW f \in Facts, obs[Source(p)][f] # NoRow
    PROVE  LET s == Source(p) IN
           /\ obs'[s][f].firstSeen = obs[s][f].firstSeen
           /\ (obs'[s][f].value # obs[s][f].value)
                <=> (obs'[s][f].updatedAt # obs[s][f].updatedAt)
<1>1. /\ ImageInv(p) /\ LockInv(p) /\ RestampInv(p)
      /\ \A g \in txn[p].locked : obs'[Source(p)][g] = txn[p].image[g]
      /\ \A g \in Facts \ txn[p].locked : obs'[Source(p)][g] = obs[Source(p)][g]
      /\ Source(p) \in Sources
      BY CommitLoadFacts
<1>2. CASE f \notin txn[p].locked
      BY <1>1, <1>2
<1>3. CASE f \in txn[p].locked
  <2>1. txn[p].image[f].firstSeen = obs[Source(p)][f].firstSeen
        BY <1>1, <1>3 DEF LockInv
  <2>2. CASE txn[p].image[f].updatedAt # txn[p].stamp
        BY <1>1, <1>3, <2>2 DEF LockInv
  <2>3. CASE txn[p].image[f].updatedAt = txn[p].stamp
    <3>1. txn[p].image[f].value # obs[Source(p)][f].value
          BY <1>1, <1>3, <2>3 DEF RestampInv
    <3>2. txn[p].stamp # 0
          BY <1>1, <1>3 DEF ImageInv
    <3>3. obs[Source(p)][f].updatedAt # txn[p].stamp
          BY <1>1, <3>2 DEF LoadInv, StampInv
    <3>. QED  BY <1>1, <1>3, <2>1, <2>3, <3>1, <3>3
  <2>. QED  BY <2>2, <2>3
<1>. QED  BY <1>2, <1>3

(* Only the commit of a load lands anything.                               *)
LEMMA OnlyCommitLands ==
    ASSUME TypeOK, [Next]_vars, NEW p \in Procs, NEW s \in Sources, LandsNow(p, s)
    PROVE  CommitLoad(p) /\ s = Source(p)
<1>1. landed' # landed
      BY DEF LandsNow
<1>2. PICK q \in Procs : Step(q) \/ ServerError(q) \/ LedgerRaises(q) \/ Dies(q)
      BY <1>1 DEF Next, Terminated, vars
<1>3. CommitLoad(q)
  <2>1. ~Abort(q)
        BY <1>1 DEF Abort
  <2>. QED  BY <1>1, <1>2, <2>1
            DEF Step, UpsertSources, StartRun, StartSourceRun, Extract, ExtractRaises,
                BeginLoad, UpsertRow, RowRefused, DeadlockVictim, ServerError,
                CloseUnextracted, CloseRolledBack, CloseLoaded, FinishSourceRun,
                FinishRun, LedgerRaises, Dies, Leaves
<1>. QED  BY <1>3 DEF CommitLoad, LandsNow, TypeOK

(* updated_at means "when this figure last changed": whatever runs overlap *)
(* it, a load of an extraction that does not contradict itself moves it    *)
(* exactly where it moves the figure, and never touches first_seen_at.     *)
THEOREM UpdatedAtIsHonest == Spec => UpdatedAtHonest
<1>1. TypeOK /\ LoadInv /\ [Next]_vars =>
        [\A p \in Procs, s \in Sources :
           (LandsNow(p, s) /\ Unambiguous(Rows(p))) =>
             \A f \in Facts : obs[s][f] # NoRow =>
               /\ obs'[s][f].firstSeen = obs[s][f].firstSeen
               /\ (obs'[s][f].value # obs[s][f].value)
                    <=> (obs'[s][f].updatedAt # obs[s][f].updatedAt)]_vars
  <2>. SUFFICES ASSUME TypeOK, LoadInv, [Next]_vars,
                       NEW p \in Procs, NEW s \in Sources,
                       LandsNow(p, s), Unambiguous(Rows(p)),
                       NEW f \in Facts, obs[s][f] # NoRow
                PROVE  /\ obs'[s][f].firstSeen = obs[s][f].firstSeen
                       /\ (obs'[s][f].value # obs[s][f].value)
                            <=> (obs'[s][f].updatedAt # obs[s][f].updatedAt)
       OBVIOUS
  <2>1. CommitLoad(p) /\ s = Source(p)
        BY OnlyCommitLands
  <2>. QED  BY <2>1, CommitHonest
<1>. QED  BY <1>1, TypeCorrect, LoadInductive, PTL DEF Spec, UpdatedAtHonest

-----------------------------------------------------------------------------
(* The refinement                                                          *)

(* What is being loaded is what a source returned.                         *)
PublishedInv == \A p \in Procs : pc[p] = "load" => ext[p] \in Publications

LEMMA PublishedInductive == Spec => []PublishedInv
<1>1. Init => PublishedInv
      BY DEF Init, PublishedInv
<1>2. TypeOK /\ PublishedInv /\ [Next]_vars => PublishedInv'
  <2>. SUFFICES ASSUME TypeOK, PublishedInv, [Next]_vars,
                       NEW q \in Procs, pc'[q] = "load"
                PROVE  ext'[q] \in Publications
       BY DEF PublishedInv
  <2>1. CASE UNCHANGED vars
        BY <2>1 DEF vars, PublishedInv
  <2>2. ASSUME NEW p \in Procs, Step(p) \/ ServerError(p) \/ LedgerRaises(p) \/ Dies(p)
        PROVE  ext'[q] \in Publications
    <3>1. CASE q # p
          BY <2>2, <3>1, StepIsLocal DEF PublishedInv
    <3>2. CASE q = p /\ Extract(p)
          BY <3>2 DEF Extract, TypeOK
    <3>3. CASE q = p /\ (BeginLoad(p) \/ UpsertRow(p))
          BY <3>3 DEF BeginLoad, UpsertRow, Executing, PublishedInv
    <3>4. CASE q = p /\ ~Extract(p) /\ ~BeginLoad(p) /\ ~UpsertRow(p)
          BY <2>2, <3>4
          DEF Step, UpsertSources, StartRun, StartSourceRun, ExtractRaises, RowRefused,
              DeadlockVictim, ServerError, Abort, CommitLoad, CloseUnextracted,
              CloseRolledBack, CloseLoaded, FinishSourceRun, FinishRun, LedgerRaises, Dies, Leaves,
              Transition, TypeOK
    <3>. QED  BY <3>1, <3>2, <3>3, <3>4
  <2>. QED  BY <2>1, <2>2 DEF Next, Terminated
<1>. QED  BY <1>1, <1>2, TypeCorrect, PTL DEF Spec

FiguresBar == [s \in Sources |-> Figures(obs[s])]
EntryBar == [p \in Procs |-> [s \in Sources |-> entry[p][s].status]]

(* Both sides mean the same by overlaying a table with an extraction.      *)
LEMMA SameOverlay ==
    ASSUME NEW table, NEW rows
    PROVE  Promise!Overlay(table, rows) = Overlay(table, rows)
BY DEF Promise!Overlay, Promise!LastFor, Promise!IsLastFor, Promise!Covered,
       Overlay, LastFor, IsLastFor, Covered

LEMMA InitKeepsPromise == Init => Promise!Init
<1>. SUFFICES ASSUME Init PROVE Promise!Init
     OBVIOUS
<1>1. FiguresBar = [s \in Sources |-> [f \in Facts |-> NoRow]]
      BY DEF FiguresBar, Figures, Init, EmptyTable
<1>2. EntryBar = [p \in Procs |-> [s \in Sources |-> "none"]]
      BY DEF EntryBar, Init, NoEntry
<1>. QED  BY <1>1, <1>2 DEF Promise!Init, Init, FiguresBar, EntryBar

(* Closing an entry in the ledger is closing it in the promise.            *)
LEMMA FinishKeepsPromise ==
    ASSUME TypeOK, LedgerInv, NEW p \in Procs, NEW s \in Sources, s = Source(p),
           NEW from \in {"close_unextracted", "close_rolled_back", "close_loaded"},
           NEW status \in Closed, NEW counts,
           FinishSourceRun(p, from, status, counts),
           status = IF from = "close_loaded" THEN "succeeded" ELSE "failed"
    PROVE  Promise!CloseEntry(p, s)
<1>1. /\ pc[p] = from
      /\ UNCHANGED <<obs, run, landed>>
      /\ entry' = [entry EXCEPT ![p][s] =
                      [status |-> status, counts |-> counts]]
      BY DEF FinishSourceRun
<1>2. /\ InProgress(p, s)
      /\ s \in landed[p] <=> status = "succeeded"
      BY <1>1 DEF LedgerInv, RunInv, CurrentSourceInv
<1>3. EntryBar[p][s] = "running"
      BY <1>1, <1>2 DEF EntryBar, InProgress
<1>4. status = IF s \in landed[p] THEN "succeeded" ELSE "failed"
      BY <1>2 DEF Closed
<1>5. EntryBar' = [EntryBar EXCEPT ![p][s] = status]
      BY <1>1 DEF EntryBar, TypeOK
<1>6. UNCHANGED <<FiguresBar, run, landed>>
      BY <1>1 DEF FiguresBar
<1>. QED  BY <1>3, <1>4, <1>5, <1>6 DEF Promise!CloseEntry, EntryBar, FiguresBar

LEMMA StepKeepsPromise ==
    ASSUME TypeOK, LedgerInv, LoadInv, PublishedInv, [Next]_vars
    PROVE  [Promise!Next]_Promise!vars
<1>1. CASE UNCHANGED vars
      BY <1>1 DEF vars, Promise!vars
<1>2. ASSUME UNCHANGED <<obs, entry, run, landed>>
      PROVE  UNCHANGED Promise!vars
      BY <1>2 DEF Promise!vars
<1>3. ASSUME NEW p \in Procs, Step(p) \/ ServerError(p) \/ LedgerRaises(p) \/ Dies(p)
      PROVE  Promise!Next \/ UNCHANGED Promise!vars
  <2>0. RunInv(p)
        BY DEF LedgerInv
  <2>s. PICK s \in Sources : s = Source(p)
        BY SourceType
  <2>1. CASE StartRun(p)
    <3>1. run[p] = "none" /\ UNCHANGED <<obs, entry, landed>>
          /\ run' = [run EXCEPT ![p] = "running"]
          BY <2>0, <2>1 DEF StartRun, Transition, RunInv, RunRowInv
    <3>2. Promise!OpenRun(p)
          BY <3>1 DEF Promise!OpenRun
    <3>. QED  BY <3>2 DEF Promise!Next
  <2>2. CASE StartSourceRun(p)
    <3>1. /\ pc[p] = "open_source" /\ UNCHANGED <<obs, run, landed>>
          /\ entry' = [entry EXCEPT ![p][s].status = "running"]
          BY <2>s, <2>2 DEF StartSourceRun, Transition
    <3>2. run[p] = "running" /\ Untouched(p, s)
          BY <2>0, <2>s, <3>1 DEF RunInv, RunRowInv, CurrentSourceInv, Gone
    <3>3. ASSUME NEW t \in Sources PROVE entry[p][t].status # "running"
      <4>1. PICK i \in 1..Len(SourceOrder) : SourceOrder[i] = t
            BY SourceOrderAssumption
      <4>2. i < idx[p] \/ i > idx[p] \/ i = idx[p]
            BY DEF TypeOK
      <4>3. Settled(p, t) \/ Untouched(p, t)
            BY <2>0, <2>s, <3>2, <4>1, <4>2 DEF RunInv, LoopInv, Source
      <4>. QED  BY <4>3 DEF Settled, Untouched, Closed
    <3>4. EntryBar' = [EntryBar EXCEPT ![p][s] = "running"]
      <4>1. \A q \in Procs, t \in Sources :
                entry'[q][t].status = IF q = p /\ t = s THEN "running"
                                                      ELSE entry[q][t].status
            BY <3>1 DEF TypeOK
      <4>2. EntryBar' = [q \in Procs |-> [t \in Sources |->
                             IF q = p /\ t = s THEN "running" ELSE entry[q][t].status]]
            BY <4>1 DEF EntryBar
      <4>. QED  BY <4>2 DEF EntryBar
    <3>5. /\ EntryBar[p][s] = "none"
          /\ \A t \in Sources : EntryBar[p][t] # "running"
          BY <3>2, <3>3 DEF EntryBar, Untouched
    <3>6. Promise!OpenEntry(p, s)
          BY <3>1, <3>2, <3>4, <3>5 DEF Promise!OpenEntry, EntryBar
    <3>. QED  BY <3>6 DEF Promise!Next
  <2>3. CASE CommitLoad(p)
    <3>1. /\ pc[p] = "load" /\ UNCHANGED <<entry, run>>
          /\ obs' = [obs EXCEPT ![s] = [f \in Facts |-> VisibleCell(p, f)]]
          /\ landed' = [landed EXCEPT ![p] = @ \cup {s}]
          BY <2>s, <2>3 DEF CommitLoad, Transition
    <3>2. PICK x \in Publications : x = ext[p] /\ Rows(p) = x.rows
          BY <3>1 DEF PublishedInv, Rows
    <3>3. InProgress(p, s) /\ s \notin landed[p]
          BY <2>0, <2>s, <3>1 DEF RunInv, CurrentSourceInv
    <3>4. Figures(obs'[s]) = Overlay(Figures(obs[s]), x.rows)
          BY <2>s, <2>3, <3>2, CommitLandsWhole
    <3>5. FiguresBar' = [FiguresBar EXCEPT ![s] =
                             Overlay(FiguresBar[s], x.rows)]
      <4>1. \A t \in Sources \ {s} : obs'[t] = obs[t]
            BY <3>1 DEF TypeOK
      <4>2. FiguresBar[s] = Figures(obs[s])
            BY DEF FiguresBar
      <4>3. FiguresBar' = [t \in Sources |-> Figures(obs'[t])]
            BY DEF FiguresBar, Figures
      <4>4. \A t \in Sources : Figures(obs'[t]) =
                IF t = s THEN Overlay(FiguresBar[s], x.rows) ELSE FiguresBar[t]
            BY <3>4, <4>1, <4>2 DEF FiguresBar
      <4>. QED  BY <4>3, <4>4 DEF FiguresBar
    <3>6. EntryBar[p][s] = "running"
          BY <3>3 DEF EntryBar, InProgress
    <3>7. UNCHANGED EntryBar
          BY <3>1 DEF EntryBar
    <3>8. Promise!Overlay(FiguresBar[s], x.rows) = Overlay(FiguresBar[s], x.rows)
          BY SameOverlay
    <3>9. Promise!Land(p, s)
          BY <3>1, <3>2, <3>3, <3>5, <3>6, <3>7, <3>8
          DEF Promise!Land, FiguresBar, EntryBar
    <3>. QED  BY <3>9 DEF Promise!Next
  <2>4. CASE CloseUnextracted(p)
    <3>1. Promise!CloseEntry(p, s)
          BY <2>s, <2>4, FinishKeepsPromise DEF CloseUnextracted, Closed
    <3>. QED  BY <3>1 DEF Promise!Next
  <2>5. CASE CloseRolledBack(p)
    <3>1. Promise!CloseEntry(p, s)
          BY <2>s, <2>5, FinishKeepsPromise DEF CloseRolledBack, Closed
    <3>. QED  BY <3>1 DEF Promise!Next
  <2>6. CASE CloseLoaded(p)
    <3>1. Promise!CloseEntry(p, s)
          BY <2>s, <2>6, FinishKeepsPromise DEF CloseLoaded, Closed
    <3>. QED  BY <3>1 DEF Promise!Next
  <2>c. ASSUME pc[p] = "close_run", run' = [run EXCEPT ![p] = Verdict(p)],
               UNCHANGED <<obs, entry, landed>>
        PROVE  Promise!Next
    <3>2. run[p] = "running" /\ Settled(p, Source(p)) /\ idx[p] = Len(SourceOrder)
          BY <2>0, <2>c DEF RunInv, RunRowInv, CurrentSourceInv, Gone
    <3>3. ASSUME NEW t \in Sources PROVE Settled(p, t)
      <4>1. PICK i \in 1..Len(SourceOrder) : SourceOrder[i] = t
            BY SourceOrderAssumption
      <4>2. Len(SourceOrder) \in Nat /\ (i = Len(SourceOrder) \/ i < Len(SourceOrder))
            BY SourceOrderAssumption
      <4>. QED  BY <2>0, <3>2, <4>1, <4>2 DEF RunInv, LoopInv, Source
    <3>4. \A t \in Sources : EntryBar[p][t] \in {"succeeded", "failed"}
          BY <3>3 DEF EntryBar, Settled, Closed
    <3>5. /\ (landed[p] = Sources) <=> \A t \in Sources : outcome[p][t] = "succeeded"
          /\ (landed[p] = {}) <=> \A t \in Sources : outcome[p][t] # "succeeded"
      <4>1. landed[p] \subseteq Sources
            BY DEF TypeOK
      <4>2. \A t \in Sources : (t \in landed[p]) <=> (outcome[p][t] = "succeeded")
            BY <3>3 DEF Settled
      <4>. QED  BY <4>1, <4>2
    <3>6. Verdict(p) = IF landed[p] = Sources THEN "succeeded"
                       ELSE IF landed[p] = {} THEN "failed" ELSE "partial"
          BY <3>5 DEF Verdict
    <3>7. Promise!CloseRun(p)
          BY <2>c, <3>2, <3>4, <3>6 DEF Promise!CloseRun, EntryBar
    <3>. QED  BY <3>7 DEF Promise!Next
  <2>7. CASE FinishRun(p)
        BY <2>c, <2>7 DEF FinishRun, Transition
  <2>8. CASE UpsertSources(p) \/ Extract(p) \/ ExtractRaises(p) \/ BeginLoad(p)
             \/ UpsertRow(p) \/ RowRefused(p) \/ DeadlockVictim(p)
             \/ ServerError(p)
    <3>1. UNCHANGED <<obs, entry, run, landed>>
          BY <2>8 DEF UpsertSources, Extract, ExtractRaises, BeginLoad, UpsertRow,
                      RowRefused, DeadlockVictim, ServerError, Abort
    <3>. QED  BY <1>2, <3>1
  <2>9. CASE LedgerRaises(p) \/ Dies(p)
    <3>1. CASE UNCHANGED run
          BY <1>2, <2>9, <3>1 DEF LedgerRaises, Dies, Leaves
    <3>2. CASE pc[p] = "close_run" /\ run' = [run EXCEPT ![p] = Verdict(p)]
          BY <2>c, <2>9, <3>2 DEF LedgerRaises, Dies, Leaves
    <3>. QED  BY <2>9, <3>1, <3>2 DEF LedgerRaises, Dies, Leaves
  <2>. QED  BY <1>3, <2>1, <2>2, <2>3, <2>4, <2>5, <2>6, <2>7, <2>8, <2>9 DEF Step
<1>. QED  BY <1>1, <1>2, <1>3 DEF Next, Terminated

(* Every behaviour of the runs is one the promise allows: each source lands *)
(* whole and at once or not at all, its entry closes saying which, and the  *)
(* run closes last with the verdict its landings justify.                   *)
THEOREM PipelineKeepsPromise == Spec => KeepsPromise
<1>1. Init => Promise!Init
      BY InitKeepsPromise
<1>2. TypeOK /\ LedgerInv /\ LoadInv /\ PublishedInv /\ [Next]_vars
        => [Promise!Next]_Promise!vars
      BY StepKeepsPromise
<1>. QED  BY <1>1, <1>2, LedgerInductive, LoadInductive, PublishedInductive, PTL
          DEF Spec, Promise!Spec, KeepsPromise

-----------------------------------------------------------------------------
(* The `changed` of a load                                                 *)

(* The rows an open load has stamped as its own.                           *)
Restamped(p) == {f \in txn[p].locked : txn[p].image[f].updatedAt = txn[p].stamp}

Unloaded == {"register", "open_run", "open_source", "extract"}

(* rowcount so far, of an extraction that does not contradict itself.      *)
ChangedInv ==
    \A p \in Procs :
        /\ pc[p] \in Unloaded => changed[p] = 0
        /\ pc[p] = "load" =>
               /\ IsFiniteSet(txn[p].locked)
               /\ Unambiguous(Rows(p)) => changed[p] = Cardinality(Restamped(p))

LEMMA NothingRestamped ==
    ASSUME NEW p \in Procs, txn[p].locked = {}
    PROVE  IsFiniteSet(txn[p].locked) /\ Cardinality(Restamped(p)) = 0
<1>1. Restamped(p) = {}
      BY DEF Restamped
<1>. QED  BY <1>1, FS_EmptySet

LEMMA NothingRestampedNext ==
    ASSUME NEW p \in Procs, txn'[p].locked = {}
    PROVE  IsFiniteSet(txn'[p].locked) /\ Cardinality(Restamped(p)') = 0
<1>1. Restamped(p)' = {}
      BY DEF Restamped
<1>. QED  BY <1>1, FS_EmptySet

(* A row met again is as the load left it; a row met for the first time is *)
(* stamped, and counted, exactly when the upsert moves it.                 *)
LEMMA UpsertRowCounts ==
    ASSUME TypeOK, LoadInv, ChangedInv, NEW p \in Procs, UpsertRow(p)
    PROVE  /\ IsFiniteSet(txn'[p].locked)
           /\ Unambiguous(Rows(p)') => changed'[p] = Cardinality(Restamped(p)')
<1>. DEFINE n == txn[p].next
            row == NextRow(p)
            f == row.fact
            cell == VisibleCell(p, f)
            new == Upsert(cell, row.value, txn[p].stamp)
<1>1. /\ pc[p] = "load" /\ txn[p].stamp # 0 /\ txn[p].stamp \in Nat
      /\ n \in Nat /\ n < Len(Rows(p)) /\ Len(Rows(p)) \in Nat
      /\ Rows(p) \in Seq(IncomingRow)
      /\ row.value \notin Refused
      BY DEF UpsertRow, Executing, TypeOK, Rows
<1>2. row = Rows(p)[n + 1] /\ n + 1 \in DOMAIN Rows(p)
      BY <1>1 DEF NextRow
<1>3. row \in IncomingRow /\ f \in Facts /\ row.value \in Values \ Refused
  <2>1. row \in IncomingRow
        BY <1>1, <1>2
  <2>. QED  BY <1>1, <2>1 DEF IncomingRow
<1>4. /\ txn'[p].stamp = txn[p].stamp
      /\ txn'[p].locked = txn[p].locked \cup {f}
      /\ txn'[p].image = [txn[p].image EXCEPT ![f] = new]
      /\ changed'[p] = changed[p] + (IF Moves(cell, row.value) THEN 1 ELSE 0)
      /\ Rows(p)' = Rows(p)
      BY DEF UpsertRow, TypeOK, Rows
<1>5. /\ Source(p) \in Sources /\ obs[Source(p)] \in Table
      /\ txn[p].image \in Table /\ txn[p].locked \subseteq Facts
      /\ changed[p] \in Nat
      BY SourceType DEF TypeOK
<1>6. cell \in Cell
      BY <1>3, <1>5 DEF VisibleCell, Table
<1>7. /\ txn'[p].image[f] = new
      /\ \A g \in Facts \ {f} : txn'[p].image[g] = txn[p].image[g]
      BY <1>3, <1>4, <1>5 DEF Table
<1>8. IsFiniteSet(txn[p].locked)
      BY <1>1 DEF ChangedInv
<1>9. IsFiniteSet(txn'[p].locked)
      BY <1>4, <1>8, FS_AddElement
<1>10. ASSUME Unambiguous(Rows(p)')
       PROVE  changed'[p] = Cardinality(Restamped(p)')
  <2>1. Unambiguous(Rows(p)) /\ changed[p] = Cardinality(Restamped(p))
        BY <1>1, <1>4, <1>10 DEF ChangedInv
  <2>2. ImageInv(p) /\ StampInv
        BY DEF LoadInv
  <2>3. CASE f \in txn[p].locked
    <3>1. cell = txn[p].image[f] /\ cell # NoRow
          BY <2>2, <2>3 DEF VisibleCell, ImageInv
    <3>2. PICK i \in 1..n : Rows(p)[i].fact = f /\ cell.value = Rows(p)[i].value
          BY <2>2, <2>3, <3>1 DEF ImageInv
    <3>3. i \in DOMAIN Rows(p)
          BY <1>1, <3>2
    <3>4. cell.value = row.value
          BY <1>2, <2>1, <3>2, <3>3 DEF Unambiguous
    <3>5. ~Moves(cell, row.value) /\ new = cell
          BY <3>1, <3>4 DEF Moves, Upsert
    <3>6. Restamped(p)' = Restamped(p)
          BY <1>4, <1>5, <1>7, <2>3, <3>1, <3>5 DEF Restamped
    <3>. QED  BY <1>4, <1>5, <2>1, <3>5, <3>6
  <2>4. CASE f \notin txn[p].locked
    <3>1. cell = obs[Source(p)][f]
          BY <2>4 DEF VisibleCell
    <3>2. cell # NoRow => cell.updatedAt # txn[p].stamp
          BY <1>1, <1>3, <1>5, <2>2, <3>1 DEF StampInv
    <3>3. f \notin Restamped(p) /\ IsFiniteSet(Restamped(p))
          BY <1>8, <2>4, FS_Subset DEF Restamped
    <3>4. CASE Moves(cell, row.value)
      <4>1. new.updatedAt = txn[p].stamp
        <5>1. /\ new.value = row.value
              /\ new.updatedAt = txn[p].stamp \/ (cell # NoRow /\ new = cell)
              BY <1>1, <1>3, <1>6, UpsertFacts
        <5>. QED  BY <3>4, <5>1 DEF Moves
      <4>2. Restamped(p)' = Restamped(p) \cup {f}
            BY <1>4, <1>5, <1>7, <2>4, <4>1 DEF Restamped
      <4>3. Cardinality(Restamped(p)') = Cardinality(Restamped(p)) + 1
            BY <3>3, <4>2, FS_AddElement
      <4>. QED  BY <1>4, <2>1, <3>4, <4>3
    <3>5. CASE ~Moves(cell, row.value)
      <4>1. new = cell /\ cell # NoRow
            BY <3>5 DEF Moves, Upsert
      <4>2. Restamped(p)' = Restamped(p)
            BY <1>4, <1>5, <1>7, <2>4, <3>2, <4>1 DEF Restamped
      <4>. QED  BY <1>4, <1>5, <2>1, <3>5, <4>2
    <3>. QED  BY <3>4, <3>5
  <2>. QED  BY <2>3, <2>4
<1>. QED  BY <1>9, <1>10

LEMMA StepKeepsChanged ==
    ASSUME TypeOK, LoadInv, ChangedInv, [Next]_vars
    PROVE  ChangedInv'
<1>1. CASE UNCHANGED vars
      BY <1>1 DEF vars, ChangedInv, Restamped, Rows
<1>2. ASSUME NEW p \in Procs, Step(p) \/ ServerError(p) \/ LedgerRaises(p) \/ Dies(p), NEW q \in Procs
      PROVE  /\ pc'[q] \in Unloaded => changed'[q] = 0
             /\ pc'[q] = "load" =>
                    /\ IsFiniteSet(txn'[q].locked)
                    /\ Unambiguous(Rows(q)') => changed'[q] = Cardinality(Restamped(q)')
  <2>1. CASE q # p
    <3>1. /\ pc'[q] = pc[q] /\ txn'[q] = txn[q] /\ changed'[q] = changed[q]
          /\ ext'[q] = ext[q]
          BY <1>2, <2>1, StepIsLocal
    <3>. QED  BY <1>2, <3>1 DEF ChangedInv, Restamped, Rows
  <2>2. CASE q = p /\ Extract(p)
    <3>1. /\ pc[p] = "extract" /\ pc'[p] = "load"
          /\ txn' = txn /\ changed' = changed
          BY <2>2 DEF Extract, Transition, TypeOK
    <3>2. txn'[p].locked = {} /\ changed'[p] = 0
          BY <3>1 DEF LoadInv, NoTxn, ChangedInv, Unloaded
    <3>. QED  BY <2>2, <3>1, <3>2, NothingRestampedNext DEF Unloaded
  <2>3. CASE q = p /\ BeginLoad(p)
    <3>1. /\ pc[p] = "load" /\ txn[p].stamp = 0 /\ txn'[p].locked = {}
          /\ UNCHANGED <<pc, changed>> /\ Rows(p)' = Rows(p)
          BY <2>3 DEF BeginLoad, TypeOK, Rows
    <3>2. txn[p].locked = {}
          BY <3>1 DEF LoadInv, ImageInv
    <3>. QED  BY <2>3, <3>1, <3>2, NothingRestamped, NothingRestampedNext
              DEF ChangedInv, Unloaded
  <2>4. CASE q = p /\ UpsertRow(p)
    <3>1. pc'[p] = "load"
          BY <2>4 DEF UpsertRow, Executing
    <3>. QED  BY <2>4, <3>1, UpsertRowCounts DEF Unloaded
  <2>5. CASE q = p /\ (UpsertSources(p) \/ StartRun(p) \/ StartSourceRun(p))
    <3>1. pc[p] \in Unloaded /\ pc'[p] \in Unloaded /\ changed' = changed
          BY <2>5 DEF UpsertSources, StartRun, StartSourceRun, Transition, TypeOK, Unloaded
    <3>. QED  BY <2>5, <3>1 DEF ChangedInv, Unloaded
  <2>6. CASE q = p /\ (CloseUnextracted(p) \/ CloseRolledBack(p) \/ CloseLoaded(p))
    <3>1. pc'[p] # "load" /\ changed'[p] = 0
          BY <2>6 DEF CloseUnextracted, CloseRolledBack, CloseLoaded, FinishSourceRun, TypeOK
    <3>. QED  BY <2>6, <3>1
  <2>7. CASE q = p /\ (\/ ExtractRaises(p) \/ RowRefused(p) \/ DeadlockVictim(p)
                       \/ ServerError(p) \/ CommitLoad(p) \/ FinishRun(p)
                       \/ LedgerRaises(p) \/ Dies(p))
    <3>1. pc'[p] \notin Unloaded \cup {"load"}
          BY <2>7 DEF ExtractRaises, RowRefused, DeadlockVictim, ServerError, Abort,
                      CommitLoad, FinishRun, LedgerRaises, Dies, Leaves, Transition, TypeOK, Unloaded, Gone
    <3>. QED  BY <2>7, <3>1
  <2>. QED  BY <1>2, <2>1, <2>2, <2>3, <2>4, <2>5, <2>6, <2>7 DEF Step
<1>. QED  BY <1>1, <1>2 DEF Next, Terminated, ChangedInv

LEMMA ChangedInductive == Spec => []ChangedInv
<1>1. Init => ChangedInv
      BY DEF Init, ChangedInv
<1>2. TypeOK /\ LoadInv /\ ChangedInv /\ [Next]_vars => ChangedInv'
      BY StepKeepsChanged
<1>. QED  BY <1>1, <1>2, TypeCorrect, LoadInductive, PTL DEF Spec

(* What a commit moves is what its load stamped.                           *)
LEMMA CommitMovesRestamped ==
    ASSUME TypeOK, LoadInv, NEW p \in Procs, CommitLoad(p)
    PROVE  Restamped(p) = {f \in Facts : obs'[Source(p)][f] # obs[Source(p)][f]}
<1>1. /\ ImageInv(p) /\ LockInv(p) /\ StampInv /\ Source(p) \in Sources
      /\ txn[p].locked \subseteq Facts
      /\ \A f \in txn[p].locked : obs'[Source(p)][f] = txn[p].image[f]
      /\ \A f \in Facts \ txn[p].locked : obs'[Source(p)][f] = obs[Source(p)][f]
      BY CommitLoadFacts DEF LoadInv
<1>2. ASSUME NEW f \in txn[p].locked
      PROVE  txn[p].image[f].updatedAt = txn[p].stamp
                 <=> txn[p].image[f] # obs[Source(p)][f]
  <2>1. txn[p].stamp # 0 /\ txn[p].image[f] # NoRow
        BY <1>1, <1>2 DEF ImageInv
  <2>2. obs[Source(p)][f] # NoRow => obs[Source(p)][f].updatedAt # txn[p].stamp
        BY <1>1, <1>2, <2>1 DEF StampInv
  <2>3. txn[p].image[f].updatedAt # txn[p].stamp =>
            txn[p].image[f] = obs[Source(p)][f]
        BY <1>1, <1>2 DEF LockInv
  <2>. QED  BY <2>1, <2>2, <2>3
<1>. QED  BY <1>1, <1>2 DEF Restamped

(* `changed` says how many rows moved: of an extraction that does not      *)
(* contradict itself, whatever overlaps its load, the sum of the row       *)
(* counts is the number of facts whose row differs after the commit.       *)
THEOREM ChangedIsCounted == Spec => ChangedCountsMoves
<1>1. TypeOK /\ LoadInv /\ ChangedInv /\ [Next]_vars =>
        [\A p \in Procs, s \in Sources :
           (LandsNow(p, s) /\ Unambiguous(Rows(p))) =>
             changed[p] = Cardinality({f \in Facts : obs'[s][f] # obs[s][f]})]_vars
  <2>. SUFFICES ASSUME TypeOK, LoadInv, ChangedInv, [Next]_vars,
                       NEW p \in Procs, NEW s \in Sources,
                       LandsNow(p, s), Unambiguous(Rows(p))
                PROVE  changed[p] = Cardinality({f \in Facts : obs'[s][f] # obs[s][f]})
       OBVIOUS
  <2>1. CommitLoad(p) /\ s = Source(p)
        BY OnlyCommitLands
  <2>2. changed[p] = Cardinality(Restamped(p))
        BY <2>1, CommitLoadFacts DEF ChangedInv
  <2>3. Restamped(p) = {f \in Facts : obs'[s][f] # obs[s][f]}
        BY <2>1, CommitMovesRestamped
  <2>. QED  BY <2>2, <2>3
<1>. QED  BY <1>1, TypeCorrect, LoadInductive, ChangedInductive, PTL
          DEF Spec, ChangedCountsMoves
=============================================================================
