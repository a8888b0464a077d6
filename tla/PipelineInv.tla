---------------------------- MODULE PipelineInv -----------------------------
(***************************************************************************)
(* The inductive strengthenings of Pipeline's invariants: where each       *)
(* source of a run stands at every point of the loop over the sources, and *)
(* what an open load transaction has done so far.                          *)
(***************************************************************************)
EXTENDS Pipeline

-----------------------------------------------------------------------------
(* The ledger, source by source                                            *)

Untouched(p, s) ==
    /\ entry[p][s].status = "none"
    /\ entry[p][s].counts.loaded = 0
    /\ outcome[p][s] = "none"
    /\ s \notin landed[p]

InProgress(p, s) ==
    /\ entry[p][s].status = "running"
    /\ entry[p][s].counts.loaded = 0
    /\ outcome[p][s] = "none"

Settled(p, s) ==
    /\ entry[p][s].status \in Closed
    /\ outcome[p][s] = entry[p][s].status
    /\ (s \in landed[p]) <=> (entry[p][s].status = "succeeded")
    /\ entry[p][s].counts.loaded > 0 => s \in landed[p]

(* The source the loop is at.                                              *)
CurrentSourceInv(p) ==
    LET s == Source(p) IN
    /\ pc[p] \in {"register", "open_run", "open_source"} => Untouched(p, s)
    /\ pc[p] \in {"extract", "load", "close_unextracted", "close_rolled_back"} =>
           InProgress(p, s) /\ s \notin landed[p]
    /\ pc[p] = "close_loaded" => InProgress(p, s) /\ s \in landed[p]
    /\ pc[p] \in {"close_run", "done"} => Settled(p, s) /\ idx[p] = Len(SourceOrder)
    /\ pc[p] \in Gone => Untouched(p, s) \/ InProgress(p, s) \/ Settled(p, s)

(* Every source has its outcome, and the run may be closed.                *)
AllSettled(p) == Settled(p, Source(p)) /\ idx[p] = Len(SourceOrder)

RunRowInv(p) ==
    /\ pc[p] \in {"register", "open_run"} => run[p] = "none"
    /\ pc[p] \notin {"register", "open_run", "done"} \cup Gone => run[p] = "running"
    /\ pc[p] \in Gone => \/ run[p] \in {"none", "running"}
                         \/ run[p] = Verdict(p) /\ AllSettled(p)
    /\ pc[p] = "done" => run[p] = Verdict(p)

(* Behind the loop every source is settled, ahead of it none is touched:   *)
(* runner.py 158 with the three ways out of _run_one_source.               *)
LoopInv(p) ==
    \A i \in 1..Len(SourceOrder) :
        /\ i < idx[p] => Settled(p, SourceOrder[i])
        /\ i > idx[p] => Untouched(p, SourceOrder[i])

RunInv(p) == CurrentSourceInv(p) /\ RunRowInv(p) /\ LoopInv(p)

LedgerInv == \A p \in Procs : RunInv(p)

-----------------------------------------------------------------------------
(* The open load                                                           *)

(* The first n rows are in the transaction: exactly their facts are        *)
(* locked, and each holds the figure of the last of its rows.              *)
ImageInv(p) ==
    LET rows == Rows(p)
        n == txn[p].next
    IN  /\ n <= Len(rows)
        /\ txn[p].stamp = 0 => n = 0
        /\ n = 0 => txn[p].locked = {}
        /\ \A i \in 1..n : rows[i].fact \in txn[p].locked
        /\ \A f \in txn[p].locked :
               /\ txn[p].image[f] # NoRow
               /\ \E i \in 1..n :
                      /\ rows[i].fact = f
                      /\ txn[p].image[f].value = rows[i].value
                      /\ \A j \in 1..n : j > i => rows[j].fact # f

(* Row locks are exclusive, and the locked copy descends from the          *)
(* committed row.                                                          *)
LockInv(p) ==
    \A f \in txn[p].locked :
        LET committed == obs[Source(p)][f]
            mine == txn[p].image[f]
        IN  /\ \A q \in Procs \ {p} : ~Holds(q, Source(p), f)
            /\ mine.firstSeen = IF committed = NoRow THEN txn[p].stamp
                                                     ELSE committed.firstSeen
            /\ mine.updatedAt # txn[p].stamp =>
                   committed # NoRow /\ mine = committed

(* BEGINs are numbered, and a stamp on a row is that of a transaction      *)
(* which is over.                                                          *)
StampInv ==
    /\ \A p \in Procs : txn[p].stamp <= clock
    /\ \A p, q \in Procs : p # q /\ txn[p].stamp # 0 => txn[p].stamp # txn[q].stamp
    /\ \A s \in Sources, f \in Facts : obs[s][f] # NoRow =>
           /\ obs[s][f].updatedAt <= clock
           /\ \A p \in Procs : txn[p].stamp # 0 =>
                  obs[s][f].updatedAt # txn[p].stamp

(* An unambiguous load that restamped a row did so because the figure is   *)
(* another one.                                                            *)
RestampInv(p) ==
    Unambiguous(Rows(p)) =>
        \A f \in txn[p].locked :
            obs[Source(p)][f] # NoRow /\ txn[p].image[f].updatedAt = txn[p].stamp =>
                txn[p].image[f].value # obs[Source(p)][f].value

(* loader.py 69-75 inside the transaction of runner.py 116-124.            *)
LoadInv ==
    /\ StampInv
    /\ \A p \in Procs :
           /\ pc[p] # "load" => txn[p] = NoTxn
           /\ ImageInv(p)
           /\ LockInv(p)
           /\ RestampInv(p)
=============================================================================
