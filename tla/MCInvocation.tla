---------------------------- MODULE MCInvocation ----------------------------
(***************************************************************************)
(* Small instances of Invocation for TLC: two invocations of two releases. *)
(***************************************************************************)
EXTENDS Invocation, TLC

CONSTANTS p1, p2, wb, owid, f1, v1

TwoSources == <<wb, owid>>
OneFigureFeed == {[rows |-> <<[fact |-> f1, value |-> v1]>>, rejected |-> 0, skipped |-> 0]}

OldAndNew == (p1 :> 1) @@ (p2 :> 2)
=============================================================================
