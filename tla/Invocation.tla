----------------------------- MODULE Invocation -----------------------------
(***************************************************************************)
(* Whole invocations of `labour-etl run` (cli.py): each connects, migrates *)
(* the schema with its own release's files, and on the same connection     *)
(* runs the pipeline; several overlap, each anywhere between the first     *)
(* statement of the migrator and its exit code.                            *)
(***************************************************************************)
EXTENDS PipelineProgress

CONSTANTS
    Ships,      \* process -> how many files its release ships
    NoOne

ASSUME ReleasesAssumption == Ships \in [Procs -> Nat] /\ NoOne \notin Procs

VARIABLES
    table, recorded, schema, lock,      \* the migrator's, in the database
    mpc, seen, pos, applied             \* and in each process

Mig == INSTANCE Migrate WITH Migrators <- Procs, pc <- mpc

migrateVars == <<table, recorded, schema, lock, mpc, seen, pos, applied>>
invocationVars == <<vars, migrateVars>>

InvocationInit == Init /\ Mig!Init

Migrates(p) ==
    /\ Mig!Step(p)
    /\ UNCHANGED vars

(* Faulty: the pipeline starts whatever became of the migrations.          *)
RunsAnyway(p) ==
    /\ mpc[p] \in {"done", "failed"}
    /\ Step(p)
    /\ UNCHANGED migrateVars

(* run_migrations has returned, and not raised.                            *)
Runs(p) ==
    /\ mpc[p] = "done"
    /\ Step(p)
    /\ UNCHANGED migrateVars

(* What goes wrong in either half.                                         *)
Fails(p) ==
    \/ /\ Mig!FileFails(p) \/ Mig!Dies(p)
       /\ UNCHANGED vars
    \/ /\ mpc[p] = "done"
       /\ ServerError(p) \/ LedgerRaises(p) \/ Dies(p)
       /\ UNCHANGED migrateVars

Over(p) == mpc[p] \in {"failed", "dead"} \/ pc[p] \in {"done"} \cup Gone

AllOver ==
    /\ \A p \in Procs : Over(p)
    /\ UNCHANGED invocationVars

InvocationNext ==
    \/ \E p \in Procs : Migrates(p) \/ Runs(p) \/ Fails(p)
    \/ AllOver

InvocationSpec == InvocationInit /\ [][InvocationNext]_invocationVars

(* A live process keeps running, through both halves.                      *)
InvocationFairness == \A p \in Procs : WF_invocationVars(Migrates(p) \/ Runs(p))

FairInvocationSpec == InvocationSpec /\ InvocationFairness

(* What the shell gets of an invocation that is over: the summary's code   *)
(* where run_pipeline returned; else 1, from main() for an EtlError and    *)
(* from the interpreter for any other exception, in either half.  For one  *)
(* that is killed 1 stands for the signal's code, which is not 0 either.   *)
Code(p) == IF mpc[p] = "done" /\ pc[p] = "done" THEN ExitCode(run[p]) ELSE 1

-----------------------------------------------------------------------------
(* Properties                                                              *)

(* Nothing of the pipeline touches the database before every file of the   *)
(* invocation's release is in the schema, whoever applied it, and whatever *)
(* another release does meanwhile (cli.py 56-58, migrate.py 68-90).        *)
SchemaFirst ==
    \A p \in Procs :
        (pc[p] # "register" \/ run[p] # "none" \/ landed[p] # {}) =>
            /\ 1..Ships[p] \subseteq recorded
            /\ mpc[p] = "done"

(* A code of 0 says that the invocation has landed a source, on the schema *)
(* of its release, and has answered for every other in the ledger.  A code *)
(* of 1 says that it has landed nothing, with one exception: an invocation *)
(* that a ledger write's exception, or a kill, took out of run_pipeline    *)
(* ends with 1 whatever it had landed before - and of that one the ledger  *)
(* never says "failed": its run is left open, or closed as the landings    *)
(* justify (cli.py 52-72, 193-200, runner.py 68-78, 87-168).               *)
CodeIsHonest ==
    \A p \in Procs : Over(p) =>
        /\ Code(p) = 0 =>
               /\ landed[p] # {}
               /\ \A s \in Sources : entry[p][s].status \in Closed
               /\ 1..Ships[p] \subseteq recorded
        /\ (Code(p) = 1 /\ landed[p] # {}) =>
               pc[p] \in Gone /\ run[p] # "failed"

(* Who waits for whom, across the two halves.                              *)
HeldUpBy(p, q) ==
    \/ mpc[p] = "lock" /\ lock = q
    \/ mpc[p] = "done" /\ WaitsFor(p, q)

CanGoOn(p) == Mig!CanStep(p) \/ (mpc[p] = "done" /\ CanStep(p))

(* An invocation waits for migrators with nothing of its own locked, and   *)
(* for loads with the migrations behind it: take any that is not over and  *)
(* all it waits for, directly or not, and one of them can go on            *)
(* (cli.py 56-58, migrate.py 58-93, loader.py 69-75).                      *)
NobodyHeldUp ==
    \A group \in SUBSET Procs :
        (/\ \E p \in group : ~Over(p)
         /\ \A p \in group, q \in Procs : HeldUpBy(p, q) => q \in group)
            => \E p \in group : ~Over(p) /\ CanGoOn(p)

(* Every invocation comes to an end, however the others fail or die: the   *)
(* advisory lock and the row locks of one never hold up another for ever   *)
(* (migrate.py 58-93, runner.py 116-124, connection.py 52-56).             *)
EveryInvocationEnds == \A p \in Procs : <>Over(p)
=============================================================================
