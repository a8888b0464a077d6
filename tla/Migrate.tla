------------------------------- MODULE Migrate -------------------------------
(***************************************************************************)
(* Several processes running db/migrate.py's run_migrations against one    *)
(* database, each over its own connection and with the files of its own    *)
(* release.  Files are numbered in the order of their names, and a later   *)
(* release only adds files at the end.                                     *)
(***************************************************************************)
EXTENDS Progress, Sequences, FiniteSets

CONSTANTS
    Migrators,
    Ships,      \* migrator -> how many files its release ships
    NoOne       \* nobody has the advisory lock

ASSUME ShipsAssumption == Ships \in [Migrators -> Nat]
ASSUME NoOneAssumption == NoOne \notin Migrators

VARIABLES
    \* -- the database -------------------------------------------------
    table,      \* schema_migrations is there
    recorded,   \* the names in schema_migrations
    schema,     \* the files whose statements are committed, oldest first
    lock,       \* the session with the advisory lock, or NoOne
    \* -- each process -------------------------------------------------
    pc,
    seen,       \* already_applied
    pos,        \* position in the loop over the files
    applied     \* the list it returns

vars == <<table, recorded, schema, lock, pc, seen, pos, applied>>

Init ==
    /\ table = FALSE
    /\ recorded = {}
    /\ schema = <<>>
    /\ lock = NoOne
    /\ pc = [p \in Migrators |-> "create"]
    /\ seen = [p \in Migrators |-> {}]
    /\ pos = [p \in Migrators |-> 1]
    /\ applied = [p \in Migrators |-> {}]

Transition(p, from, to) ==
    /\ pc[p] = from
    /\ pc' = [pc EXCEPT ![p] = to]

-----------------------------------------------------------------------------
(* CREATE TABLE IF NOT EXISTS, outside the advisory lock: the server looks *)
(* the name up first and inserts it into its catalogue later.              *)

TableExists(p) ==
    /\ table
    /\ Transition(p, "create", "lock")
    /\ UNCHANGED <<table, recorded, schema, lock, seen, pos, applied>>

TableMissing(p) ==
    /\ ~table
    /\ Transition(p, "create", "creating")
    /\ UNCHANGED <<table, recorded, schema, lock, seen, pos, applied>>

CommitTable(p) ==
    /\ ~table
    /\ Transition(p, "creating", "lock")
    /\ table' = TRUE
    /\ UNCHANGED <<recorded, schema, lock, seen, pos, applied>>

(* Another session committed the same catalogue entry in the meantime: a   *)
(* unique violation, before anything can catch it.                         *)
TableClash(p) ==
    /\ table
    /\ Transition(p, "creating", "failed")
    /\ UNCHANGED <<table, recorded, schema, lock, seen, pos, applied>>

-----------------------------------------------------------------------------

(* Faulty: a lock that two sessions may hold.                              *)
LockShared(p) ==
    /\ Transition(p, "lock", "read")
    /\ lock' = p
    /\ UNCHANGED <<table, recorded, schema, seen, pos, applied>>

(* The lock belongs to the session, and outlives every commit.             *)
Lock(p) ==
    /\ lock = NoOne
    /\ Transition(p, "lock", "read")
    /\ lock' = p
    /\ UNCHANGED <<table, recorded, schema, seen, pos, applied>>

ReadLedger(p) ==
    /\ Transition(p, "read", "apply")
    /\ seen' = [seen EXCEPT ![p] = recorded]
    /\ UNCHANGED <<table, recorded, schema, lock, pos, applied>>

Pending(p) == pos[p] <= Ships[p] /\ pos[p] \notin seen[p]

Skip(p) ==
    /\ pc[p] = "apply"
    /\ pos[p] <= Ships[p]
    /\ pos[p] \in seen[p]
    /\ pos' = [pos EXCEPT ![p] = @ + 1]
    /\ UNCHANGED <<table, recorded, schema, lock, pc, seen, applied>>

(* The statements of the file and the row that names it, one transaction,  *)
(* not committed yet.                                                      *)
Execute(p) ==
    /\ Pending(p)
    /\ Transition(p, "apply", "executed")
    /\ UNCHANGED <<table, recorded, schema, lock, seen, pos, applied>>

(* Faulty: the lock is the transaction's, and goes with its commit.        *)
CommitFileFreesLock(p) ==
    /\ pos[p] \notin recorded
    /\ Transition(p, "executed", "apply")
    /\ schema' = Append(schema, pos[p])
    /\ recorded' = recorded \cup {pos[p]}
    /\ applied' = [applied EXCEPT ![p] = @ \cup {pos[p]}]
    /\ pos' = [pos EXCEPT ![p] = @ + 1]
    /\ lock' = NoOne
    /\ UNCHANGED <<table, seen>>

(* The primary key lets a name in once.                                    *)
CommitFile(p) ==
    /\ pos[p] \notin recorded
    /\ Transition(p, "executed", "apply")
    /\ schema' = Append(schema, pos[p])
    /\ recorded' = recorded \cup {pos[p]}
    /\ applied' = [applied EXCEPT ![p] = @ \cup {pos[p]}]
    /\ pos' = [pos EXCEPT ![p] = @ + 1]
    /\ UNCHANGED <<table, lock, seen>>

(* Faulty: a broken file is passed over.                                   *)
FileFailsQuietly(p) ==
    /\ Pending(p)
    /\ pc[p] \in {"apply", "executed"}
    /\ pc' = [pc EXCEPT ![p] = "apply"]
    /\ pos' = [pos EXCEPT ![p] = @ + 1]
    /\ UNCHANGED <<table, recorded, schema, lock, seen, applied>>

(* Faulty: what the file did before it failed stays.                       *)
FileFailsHalfway(p) ==
    /\ Pending(p)
    /\ Transition(p, "executed", "raise")
    /\ schema' = Append(schema, pos[p])
    /\ UNCHANGED <<table, recorded, lock, seen, pos, applied>>

(* Faulty: a broken file is tried again.                                   *)
FileFailsRetried(p) ==
    /\ Pending(p)
    /\ pc[p] \in {"apply", "executed"}
    /\ pc' = [pc EXCEPT ![p] = "apply"]
    /\ UNCHANGED <<table, recorded, schema, lock, seen, pos, applied>>

(* The file cannot be read, or the server refuses one of its statements,   *)
(* its row or its commit: rolled back and raised.                          *)
FileFails(p) ==
    /\ Pending(p)
    /\ pc[p] \in {"apply", "executed"}
    /\ pc' = [pc EXCEPT ![p] = "raise"]
    /\ UNCHANGED <<table, recorded, schema, lock, seen, pos, applied>>

(* Faulty: stops before the last file.                                     *)
LoopEndsEarly(p) ==
    /\ pos[p] >= Ships[p]
    /\ Transition(p, "apply", "return")
    /\ UNCHANGED <<table, recorded, schema, lock, seen, pos, applied>>

LoopEnds(p) ==
    /\ pos[p] > Ships[p]
    /\ Transition(p, "apply", "return")
    /\ UNCHANGED <<table, recorded, schema, lock, seen, pos, applied>>

(* Faulty: only what goes wrong unlocks.                                   *)
UnlockOnError(p) ==
    /\ \/ Transition(p, "return", "done") /\ UNCHANGED lock
       \/ Transition(p, "raise", "failed") /\ lock' = NoOne
    /\ UNCHANGED <<table, recorded, schema, seen, pos, applied>>

(* The finally block, on the way out of either.                            *)
Unlock(p) ==
    /\ \/ Transition(p, "return", "done")
       \/ Transition(p, "raise", "failed")
    /\ lock' = NoOne
    /\ UNCHANGED <<table, recorded, schema, seen, pos, applied>>

-----------------------------------------------------------------------------

(* Faulty: the lock outlives its session.                                  *)
DiesLocked(p) ==
    /\ pc[p] \notin {"done", "failed", "dead"}
    /\ pc' = [pc EXCEPT ![p] = "dead"]
    /\ UNCHANGED <<table, recorded, schema, lock, seen, pos, applied>>

(* The process is killed, or a statement fails that nothing rolls back, so *)
(* that the finally block cannot run its own (a failed read of the ledger  *)
(* leaves the transaction aborted).  Either way the connection is closed,  *)
(* and with it go the open transaction and the session's lock.             *)
Dies(p) ==
    /\ pc[p] \notin {"done", "failed", "dead"}
    /\ pc' = [pc EXCEPT ![p] = "dead"]
    /\ lock' = IF lock = p THEN NoOne ELSE lock
    /\ UNCHANGED <<table, recorded, schema, seen, pos, applied>>

Step(p) ==
    \/ TableExists(p) \/ TableMissing(p) \/ CommitTable(p) \/ TableClash(p)
    \/ Lock(p)        \/ ReadLedger(p)
    \/ Skip(p)        \/ Execute(p)      \/ CommitFile(p)
    \/ LoopEnds(p)    \/ Unlock(p)

Terminated ==
    /\ \A p \in Migrators : pc[p] \in {"done", "failed", "dead"}
    /\ UNCHANGED vars

Next ==
    \/ \E p \in Migrators : Step(p) \/ FileFails(p) \/ Dies(p)
    \/ Terminated

Spec == Init /\ [][Next]_vars

(* A live process keeps running, and the server answers.  Weak fairness is *)
(* enough for the lock too: each process takes it once.                    *)
Fairness == \A p \in Migrators : WF_vars(Step(p))

FairSpec == Spec /\ Fairness

-----------------------------------------------------------------------------
(* Properties                                                              *)

Inside == {"read", "apply", "executed", "return", "raise"}
Phases == Inside \cup {"create", "creating", "lock", "done", "failed", "dead"}

(* The shape of the state.                                                 *)
TypeOK ==
    /\ table \in BOOLEAN
    /\ recorded \in SUBSET Nat
    /\ schema \in Seq(Nat)
    /\ lock \in Migrators \cup {NoOne}
    /\ pc \in [Migrators -> Phases]
    /\ seen \in [Migrators -> SUBSET Nat]
    /\ pos \in [Migrators -> Nat \ {0}]
    /\ applied \in [Migrators -> SUBSET Nat]

(* What a migrator read of the ledger is not stale while it acts on it:    *)
(* what it saw and what it added since are the ledger (migrate.py 62-88,   *)
(* "so two processes starting at once cannot both apply the same file").   *)
LedgerNotStale ==
    \A p \in Migrators : pc[p] \in {"apply", "executed", "return"} =>
        /\ recorded = seen[p] \cup applied[p]
        /\ seen[p] \cap applied[p] = {}

(* The files land in the order of their names with none missing, each with *)
(* its row, whoever applied which and wherever one failed or died          *)
(* (migrate.py 68-88, "a migration that fails halfway leaves no partial    *)
(* schema behind, and no ledger row claiming it succeeded").               *)
InOrderOnce ==
    /\ schema = [i \in 1..Len(schema) |-> i]
    /\ recorded = 1..Len(schema)

(* Two migrators never claim the same file, and one that returns has the   *)
(* whole of its release in the schema.                                     *)
ReportsAgree ==
    /\ \A p, q \in Migrators : p # q => applied[p] \cap applied[q] = {}
    /\ \A p \in Migrators : applied[p] \subseteq recorded
    /\ \A p \in Migrators : pc[p] = "done" => 1..Ships[p] \subseteq recorded

(* A process is inside the advisory lock exactly when it holds it.         *)
LockInv == \A p \in Migrators : pc[p] \in Inside <=> lock = p

(* How far a process is in its loop, against the ledger.                   *)
LoopInv(p) ==
    /\ pc[p] \in {"create", "creating", "lock", "read"} => applied[p] = {} /\ pos[p] = 1
    /\ pc[p] \in {"apply", "executed", "return"} =>
           /\ recorded = seen[p] \cup applied[p]
           /\ seen[p] \cap applied[p] = {}
           /\ applied[p] \subseteq 1..(pos[p] - 1)
           /\ 1..(pos[p] - 1) \subseteq recorded
    /\ pc[p] = "executed" => Pending(p)
    /\ pc[p] \in {"return", "done"} => 1..Ships[p] \subseteq recorded

(* One process at a time between the lock and its release, through every   *)
(* commit of the loop, and the position of its loop always agrees with     *)
(* what it read, what it applied and what is committed: what the three     *)
(* above rest on, strengthened into what every step preserves (migrate.py  *)
(* 58-93).                                                                 *)
MigrateInv ==
    /\ LockInv
    /\ InOrderOnce
    /\ \A p \in Migrators : LoopInv(p) /\ applied[p] \subseteq recorded
    /\ \A p, q \in Migrators : p # q => applied[p] \cap applied[q] = {}

(* What a migrator has left: the phases, the files, the statement of the   *)
(* file it is at.                                                          *)
PhasesLeft ==
    [create |-> 6, creating |-> 5, lock |-> 4, read |-> 3, apply |-> 2, executed |-> 2,
     return |-> 1, raise |-> 1, done |-> 0, failed |-> 0, dead |-> 0]

Remaining(p) == <<PhasesLeft[pc[p]],
                  IF pos[p] <= Ships[p] THEN Ships[p] + 1 - pos[p] ELSE 0,
                  IF pc[p] = "executed" THEN 0 ELSE 1>>

(* Nothing is tried for ever: whatever a migrator does, also on its way    *)
(* out, brings it closer to its end and no other further from it           *)
(* (migrate.py 48-93).                                                     *)
EveryStepSpends ==
    [][\E p \in Migrators :
         /\ Remaining(p) \in Triples /\ Remaining(p)' \in Triples
         /\ Shrinks(Remaining(p)', Remaining(p))
         /\ \A q \in Migrators \ {p} : Remaining(q)' = Remaining(q)]_vars

(* Where the code of a live migrator can go on.                            *)
CanStep(p) ==
    \/ pc[p] \in {"create", "creating", "read", "apply", "return", "raise"}
    \/ pc[p] = "lock" /\ lock = NoOne
    \/ pc[p] = "executed" /\ pos[p] \notin recorded

(* A migrator waits for nothing but the lock, and for nobody but one that  *)
(* can go on; a file it has executed never finds its name taken            *)
(* (migrate.py 58-88).                                                     *)
NobodyStuck ==
    \A p \in Migrators : pc[p] \notin {"done", "failed", "dead"} =>
        \/ CanStep(p)
        \/ pc[p] = "lock" /\ lock \in Migrators /\ CanStep(lock)

(* Nobody waits for the lock for ever, whoever died holding it.            *)
EveryMigratorEnds == \A p \in Migrators : <>(pc[p] \in {"done", "failed", "dead"})

(* The migrators keep the promise of a forward-only history.               *)
Promise == INSTANCE SchemaHistory WITH
    history <- schema,
    satisfied <- {p \in Migrators : pc[p] = "done"}

KeepsHistory == Promise!Spec

(* Where no file is broken, nobody dies and the server makes no error of   *)
(* its own, processes starting together all get through.                   *)
StartingTogether == \A p \in Migrators : pc[p] # "failed"
=============================================================================
