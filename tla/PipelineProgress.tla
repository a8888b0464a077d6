-------------------------- MODULE PipelineProgress --------------------------
(***************************************************************************)
(* Why every invocation ends: what it has left to do shrinks with each of  *)
(* its steps, and those that wait for each other's row locks always have   *)
(* one among them that can go on.                                          *)
(***************************************************************************)
EXTENDS PipelineInv, Progress

PhasesLeft ==
    [register |-> 7, open_run |-> 6, open_source |-> 5, extract |-> 4, load |-> 3,
     close_unextracted |-> 2, close_rolled_back |-> 2, close_loaded |-> 2,
     close_run |-> 1, done |-> 0, raised |-> 0, dead |-> 0]

(* The statements of a load, BEGIN among them.                             *)
RowsLeft(p) ==
    IF txn[p].stamp = 0 THEN Len(Rows(p)) + 1 ELSE Len(Rows(p)) - txn[p].next

Remaining(p) == <<Len(SourceOrder) - idx[p], PhasesLeft[pc[p]], RowsLeft(p)>>

(* No source, no load and no row is tried twice, and no step of one run    *)
(* sets another back: whatever an invocation does, its failures included,  *)
(* brings it closer to its end (runner.py 87-168).                         *)
EveryStepSpends ==
    [][\E p \in Procs :
         /\ Remaining(p) \in Triples /\ Remaining(p)' \in Triples
         /\ Shrinks(Remaining(p)', Remaining(p))
         /\ \A q \in Procs \ {p} : Remaining(q)' = Remaining(q)]_vars

-----------------------------------------------------------------------------

Live(p) == pc[p] \notin {"done"} \cup Gone

(* Where a live invocation can go on: out of a load by its next statement, *)
(* its commit, an error of its row, or the deadlock detector.              *)
CanLoad(p) ==
    \/ txn[p].stamp = 0 /\ Rows(p) # <<>>
    \/ txn[p].next = Len(Rows(p))
    \/ /\ Executing(p)
       /\ \/ NextRow(p).value \in Refused
          \/ Source(p) \notin registered
          \/ \A q \in Procs : ~WaitsFor(p, q)
    \/ OnCycle(p)

CanStep(p) == Live(p) /\ (pc[p] = "load" => CanLoad(p))

(* Take any live invocation, with everyone it waits for, everyone those    *)
(* wait for, and so on: one of them can go on.  Overlapping loads wait in  *)
(* no ring the server does not break, and for nobody that is gone          *)
(* (loader.py 69-75, runner.py 116-124).                                   *)
NobodyStuck ==
    \A group \in SUBSET Procs :
        (/\ \E p \in group : Live(p)
         /\ \A p \in group, q \in Procs : WaitsFor(p, q) => q \in group)
            => \E p \in group : CanStep(p)
=============================================================================
