----------------------------- MODULE MCMigrate ------------------------------
(***************************************************************************)
(* Small instances of Migrate for TLC: releases of different ages starting *)
(* at the same time.                                                       *)
(***************************************************************************)
EXTENDS Migrate, TLC

CONSTANTS m1, m2, m3

(* Two processes of the current release and one of the release before it.  *)
MixedReleases == (m1 :> 2) @@ (m2 :> 2) @@ (m3 :> 1)

(* No file is broken and nobody dies.                                      *)
CalmNext == (\E p \in Migrators : Step(p)) \/ Terminated
CalmSpec == Init /\ [][CalmNext]_vars /\ Fairness
=============================================================================
