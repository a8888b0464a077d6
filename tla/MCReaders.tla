------------------------------ MODULE MCReaders ------------------------------
(***************************************************************************)
(* Readers over the small instances of MCPipeline.                         *)
(***************************************************************************)
EXTENDS MCPipeline, Readers

(* To the database and its readers a run an exception has ended is one     *)
(* that was killed: LedgerRaises and Dies differ in nothing but the phase  *)
(* they leave behind.  Here a run that does not finish is killed.          *)
OneWayOutNext == ReadersNext /\ \A p \in Procs : pc'[p] # "raised"
OneWayOutSpec == ReadersInit /\ [][OneWayOutNext]_readersVars
=============================================================================
