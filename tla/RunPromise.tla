----------------------------- MODULE RunPromise -----------------------------
(***************************************************************************)
(* What `labour-etl run` promises, without a word about how: each source   *)
(* of a run lands whole, in one indivisible step, or does not land at all; *)
(* its ledger entry closes saying which; the run closes once, after every  *)
(* entry, with the verdict the landings justify.  Several runs may share   *)
(* the database, and a run may stop anywhere.                              *)
(***************************************************************************)
EXTENDS Loader

CONSTANTS
    Procs,          \* invocations of `labour-etl run`
    Sources,
    Publications    \* what an extraction of a source can return

VARIABLES
    figures,    \* source -> fact -> the figure a reader sees
    entry,      \* run -> source -> status of its source_runs row
    verdict,    \* run -> status of its pipeline_runs row
    landed      \* run -> the sources whose extraction it has landed

vars == <<figures, entry, verdict, landed>>

Init ==
    /\ figures = [s \in Sources |-> [f \in Facts |-> NoRow]]
    /\ entry = [p \in Procs |-> [s \in Sources |-> "none"]]
    /\ verdict = [p \in Procs |-> "none"]
    /\ landed = [p \in Procs |-> {}]

OpenRun(p) ==
    /\ verdict[p] = "none"
    /\ verdict' = [verdict EXCEPT ![p] = "running"]
    /\ UNCHANGED <<figures, entry, landed>>

(* One source at a time: an entry opens only while no other is running.    *)
OpenEntry(p, s) ==
    /\ verdict[p] = "running"
    /\ entry[p][s] = "none"
    /\ \A t \in Sources : entry[p][t] # "running"
    /\ entry' = [entry EXCEPT ![p][s] = "running"]
    /\ UNCHANGED <<figures, verdict, landed>>

Land(p, s) ==
    /\ entry[p][s] = "running"
    /\ s \notin landed[p]
    /\ \E x \in Publications :
           figures' = [figures EXCEPT ![s] = Overlay(figures[s], x.rows)]
    /\ landed' = [landed EXCEPT ![p] = @ \cup {s}]
    /\ UNCHANGED <<entry, verdict>>

CloseEntry(p, s) ==
    /\ entry[p][s] = "running"
    /\ entry' = [entry EXCEPT ![p][s] =
                     IF s \in landed[p] THEN "succeeded" ELSE "failed"]
    /\ UNCHANGED <<figures, verdict, landed>>

CloseRun(p) ==
    /\ verdict[p] = "running"
    /\ \A s \in Sources : entry[p][s] \in {"succeeded", "failed"}
    /\ verdict' = [verdict EXCEPT ![p] =
                       IF landed[p] = Sources THEN "succeeded"
                       ELSE IF landed[p] = {} THEN "failed"
                       ELSE "partial"]
    /\ UNCHANGED <<figures, entry, landed>>

Next ==
    \E p \in Procs :
        \/ OpenRun(p)
        \/ CloseRun(p)
        \/ \E s \in Sources : OpenEntry(p, s) \/ Land(p, s) \/ CloseEntry(p, s)

Spec == Init /\ [][Next]_vars
=============================================================================
