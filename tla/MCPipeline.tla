----------------------------- MODULE MCPipeline -----------------------------
(***************************************************************************)
(* Small instances of Pipeline for TLC: which extractions the sources may  *)
(* return, and how many invocations overlap.                               *)
(***************************************************************************)
EXTENDS PipelineProgress, ScheduledRun, TLC

CONSTANTS wb, owid, wiki, f1, f2, f3, v1, v2, bad

At(fact, value) == [fact |-> fact, value |-> value]
Extraction(rows) == [rows |-> rows, rejected |-> 0, skipped |-> 0]

OneSource == <<wb>>
TwoSources == <<wb, owid>>
ThreeSources == <<wb, owid, wiki>>

(* A figure revised, the same rows in another order, one row the schema    *)
(* refuses after a good one, the same fact twice, and nothing usable.      *)
Revision == Extraction(<<At(f1, v2), At(f2, v1)>>)
Reordered == Extraction(<<At(f2, v1), At(f1, v1)>>)
Poisoned == Extraction(<<At(f1, v2), At(f2, bad)>>)
Contradiction == Extraction(<<At(f1, v2), At(f1, v1)>>)
Barren == [rows |-> <<>>, rejected |-> 1, skipped |-> 2]

MixedFeed == {Revision, Reordered, Poisoned, Contradiction, Barren}
TwoPartFeed == {Revision, Barren}
OneFigureFeed == {Extraction(<<At(f1, v1)>>)}

(* Three loads that can wait for each other in a ring, and a revision of a *)
(* figure two of them carry.                                               *)
RingFeed == {Extraction(<<At(f1, v1), At(f2, v1)>>),
             Extraction(<<At(f2, v1), At(f3, v1)>>),
             Extraction(<<At(f3, v1), At(f1, v1)>>),
             Extraction(<<At(f1, v2)>>)}

(* Nobody is killed and the server makes no error of its own, so that what *)
(* is left to stop a run is the runs themselves.                           *)
CalmNext == (\E p \in Procs : Step(p)) \/ Terminated
CalmSpec == Init /\ [][CalmNext]_vars /\ Fairness

(* Which invocation is which makes no difference.                          *)
AnyOrder == Permutations(Procs)
=============================================================================
