---------------------------- MODULE SchemaHistory ----------------------------
(***************************************************************************)
(* What a forward-only migrator promises: the schema's history is the      *)
(* files in chronological order, each applied once and whole, and whoever  *)
(* reports success finds every file of its own release in it.              *)
(***************************************************************************)
EXTENDS Integers, Sequences

CONSTANTS
    Migrators,
    Ships       \* migrator -> how many files its release ships

VARIABLES
    history,    \* the files applied, oldest first
    satisfied   \* the migrators that have reported success

vars == <<history, satisfied>>

Init == history = <<>> /\ satisfied = {}

Apply(p) ==
    /\ Len(history) < Ships[p]
    /\ history' = Append(history, Len(history) + 1)
    /\ UNCHANGED satisfied

Report(p) ==
    /\ p \notin satisfied
    /\ Len(history) >= Ships[p]
    /\ satisfied' = satisfied \cup {p}
    /\ UNCHANGED history

Next == \E p \in Migrators : Apply(p) \/ Report(p)

Spec == Init /\ [][Next]_vars
=============================================================================
