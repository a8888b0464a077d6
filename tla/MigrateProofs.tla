---------------------------- MODULE MigrateProofs ----------------------------
(***************************************************************************)
(* The migrator for any number of processes and files: one at a time, each *)
(* file once and in order, and the promise of SchemaHistory kept.          *)
(***************************************************************************)
EXTENDS Migrate, TLAPS

LEMMA StepType ==
    ASSUME TypeOK, NEW p \in Migrators, Step(p) \/ FileFails(p) \/ Dies(p)
    PROVE  TypeOK'
<1>1. CASE TableExists(p) \/ TableMissing(p) \/ CommitTable(p) \/ TableClash(p)
      BY <1>1 DEF TableExists, TableMissing, CommitTable, TableClash, Transition,
                  TypeOK, Phases
<1>2. CASE Lock(p) \/ ReadLedger(p) \/ Execute(p)
      BY <1>2 DEF Lock, ReadLedger, Execute, Transition, TypeOK, Phases, Inside
<1>3. CASE Skip(p) \/ CommitFile(p)
  <2>1. pos[p] \in Nat \ {0} /\ pos[p] + 1 \in Nat \ {0}
        BY DEF TypeOK
  <2>2. pos' \in [Migrators -> Nat \ {0}] /\ pc' \in [Migrators -> Phases]
        BY <1>3, <2>1 DEF Skip, CommitFile, Transition, TypeOK, Phases, Inside
  <2>3. UNCHANGED <<table, lock, seen>>
        BY <1>3 DEF Skip, CommitFile
  <2>4. CASE Skip(p)
        BY <2>2, <2>3, <2>4 DEF Skip, TypeOK
  <2>5. CASE CommitFile(p)
    <3>0. recorded \in SUBSET Nat /\ recorded' = recorded \cup {pos[p]}
          BY <2>5 DEF CommitFile, TypeOK
    <3>1. recorded' \in SUBSET Nat
          BY <2>1, <3>0
    <3>s. schema' \in Seq(Nat)
      <4>1. schema \in Seq(Nat) /\ schema' = Append(schema, pos[p]) /\ pos[p] \in Nat
            BY <2>1, <2>5 DEF CommitFile, TypeOK
      <4>. QED  BY <4>1
    <3>2. applied' \in [Migrators -> SUBSET Nat]
          BY <2>1, <2>5 DEF CommitFile, TypeOK
    <3>. QED  BY <2>2, <2>3, <3>1, <3>s, <3>2 DEF TypeOK
  <2>. QED  BY <1>3, <2>4, <2>5
<1>4. CASE LoopEnds(p) \/ Unlock(p) \/ FileFails(p) \/ Dies(p)
      BY <1>4 DEF LoopEnds, Unlock, FileFails, Dies, Transition, TypeOK, Phases, Inside
<1>. QED  BY <1>1, <1>2, <1>3, <1>4 DEF Step

(* Every variable keeps its type: migrate.py 37-93.                        *)
THEOREM MigrateTypeCorrect == Spec => []TypeOK
<1>1. Init => TypeOK
  <2>1. Init => schema \in Seq(Nat)
        BY DEF Init
  <2>2. Init => /\ table \in BOOLEAN /\ recorded \in SUBSET Nat
                /\ lock \in Migrators \cup {NoOne}
        BY DEF Init
  <2>3. Init => /\ pc \in [Migrators -> Phases]
                /\ seen \in [Migrators -> SUBSET Nat]
                /\ pos \in [Migrators -> Nat \ {0}]
                /\ applied \in [Migrators -> SUBSET Nat]
        BY DEF Init, Phases
  <2>. QED  BY <2>1, <2>2, <2>3 DEF TypeOK
<1>2. TypeOK /\ [Next]_vars => TypeOK'
  <2>1. TypeOK /\ UNCHANGED vars => TypeOK'
        BY DEF TypeOK, vars
  <2>. QED  BY <2>1, StepType DEF Next, Terminated
<1>. QED  BY <1>1, <1>2, PTL DEF Spec

-----------------------------------------------------------------------------
(* Mutual exclusion                                                        *)

LEMMA StepKeepsLock ==
    ASSUME TypeOK, LockInv, NEW p \in Migrators, Step(p) \/ FileFails(p) \/ Dies(p)
    PROVE  LockInv'
<1>1. CASE TableExists(p) \/ TableMissing(p) \/ CommitTable(p) \/ TableClash(p)
      BY <1>1 DEF TableExists, TableMissing, CommitTable, TableClash, Transition,
                  LockInv, Inside, TypeOK
<1>2. CASE Lock(p)
      BY <1>2, NoOneAssumption DEF Lock, Transition, LockInv, Inside, TypeOK
<1>3. CASE ReadLedger(p) \/ Skip(p) \/ Execute(p) \/ CommitFile(p) \/ LoopEnds(p)
           \/ FileFails(p)
      BY <1>3 DEF ReadLedger, Skip, Execute, CommitFile, LoopEnds, FileFails,
                  Transition, LockInv, Inside, TypeOK
<1>4. CASE Unlock(p) \/ Dies(p)
      BY <1>4, NoOneAssumption DEF Unlock, Dies, Transition, LockInv, Inside, TypeOK
<1>. QED  BY <1>1, <1>2, <1>3, <1>4 DEF Step

(* Two migrators are never inside the lock together.                       *)
LEMMA OneInside ==
    ASSUME LockInv, NEW p \in Migrators, NEW q \in Migrators,
           pc[p] \in Inside, pc[q] \in Inside
    PROVE  p = q
BY DEF LockInv

-----------------------------------------------------------------------------
(* The history                                                             *)

(* The file about to be committed is the one after the last of the schema. *)
LEMMA CommitsTheNextFile ==
    ASSUME TypeOK, MigrateInv, NEW p \in Migrators, CommitFile(p)
    PROVE  pos[p] = Len(schema) + 1 /\ pos[p] <= Ships[p] /\ Len(schema) \in Nat
<1>1. /\ pc[p] = "executed" /\ pos[p] \notin recorded
      /\ pos[p] \in Nat \ {0} /\ Len(schema) \in Nat
      BY DEF CommitFile, Transition, TypeOK
<1>2. 1..(pos[p] - 1) \subseteq recorded /\ recorded = 1..Len(schema) /\ Pending(p)
      BY <1>1 DEF MigrateInv, LoopInv, InOrderOnce
<1>3. ~(pos[p] <= Len(schema))
      BY <1>1, <1>2
<1>4. pos[p] - 1 <= Len(schema)
  <2>1. CASE pos[p] = 1
        BY <1>1, <2>1
  <2>2. CASE pos[p] # 1
    <3>1. pos[p] - 1 \in 1..(pos[p] - 1)
          BY <1>1, <2>2
    <3>. QED  BY <1>2, <3>1
  <2>. QED  BY <2>1, <2>2
<1>. QED  BY <1>1, <1>2, <1>3, <1>4 DEF Pending

LEMMA CommitKeepsInv ==
    ASSUME TypeOK, MigrateInv, NEW p \in Migrators, CommitFile(p)
    PROVE  MigrateInv'
<1>1. /\ pc[p] = "executed" /\ pc' = [pc EXCEPT ![p] = "apply"]
      /\ schema' = Append(schema, pos[p])
      /\ recorded' = recorded \cup {pos[p]}
      /\ applied' = [applied EXCEPT ![p] = applied[p] \cup {pos[p]}]
      /\ pos' = [pos EXCEPT ![p] = pos[p] + 1]
      /\ UNCHANGED <<lock, seen>> /\ pos[p] \notin recorded
      BY DEF CommitFile, Transition
<1>2. pos[p] = Len(schema) + 1 /\ pos[p] <= Ships[p] /\ Len(schema) \in Nat
      BY CommitsTheNextFile
<1>3. LockInv'
      BY StepKeepsLock DEF Step, MigrateInv
<1>4. InOrderOnce'
  <2>1. recorded' = 1..(Len(schema) + 1)
        BY <1>1, <1>2 DEF MigrateInv, InOrderOnce
  <2>2. Len(schema') = Len(schema) + 1
        BY <1>1 DEF TypeOK
  <2>3. \A i \in 1..Len(schema') : schema'[i] = i
        BY <1>1, <1>2, <2>2 DEF MigrateInv, InOrderOnce, TypeOK
  <2>4. schema' \in Seq(Nat)
        BY <1>1 DEF TypeOK
  <2>5. schema' = [i \in 1..Len(schema') |-> i]
        BY <2>3, <2>4
  <2>. QED  BY <2>1, <2>2, <2>5 DEF InOrderOnce
<1>5. ASSUME NEW q \in Migrators PROVE LoopInv(q)' /\ applied'[q] \subseteq recorded'
  <2>0. LoopInv(p) /\ LoopInv(q) /\ applied[q] \subseteq recorded
        /\ applied[p] \subseteq recorded
        BY DEF MigrateInv
  <2>1. CASE q = p
    <3>1. /\ pc'[p] = "apply" /\ pos'[p] = pos[p] + 1
          /\ applied'[p] = applied[p] \cup {pos[p]} /\ seen'[p] = seen[p]
          BY <1>1 DEF TypeOK
    <3>2. /\ recorded = seen[p] \cup applied[p]
          /\ seen[p] \cap applied[p] = {}
          /\ applied[p] \subseteq 1..(pos[p] - 1)
          /\ 1..(pos[p] - 1) \subseteq recorded
          BY <1>1, <2>0 DEF LoopInv
    <3>3. 1..pos[p] = 1..(pos[p] - 1) \cup {pos[p]} /\ pos'[p] - 1 = pos[p]
          BY <1>1, <1>2, <3>1
    <3>. QED  BY <1>1, <2>1, <3>1, <3>2, <3>3 DEF LoopInv
  <2>2. CASE q # p
    <3>1. pc[q] \notin Inside
          BY <1>1, <2>2, OneInside DEF MigrateInv, Inside
    <3>2. /\ pc'[q] = pc[q] /\ pos'[q] = pos[q] /\ applied'[q] = applied[q]
          /\ recorded \subseteq recorded'
          BY <1>1, <2>2 DEF TypeOK
    <3>. QED  BY <2>0, <3>1, <3>2 DEF LoopInv, Inside
  <2>. QED  BY <2>1, <2>2
<1>6. ASSUME NEW q \in Migrators, NEW r \in Migrators, q # r
      PROVE  applied'[q] \cap applied'[r] = {}
      BY <1>1, <1>6 DEF MigrateInv, TypeOK
<1>. QED  BY <1>3, <1>4, <1>5, <1>6 DEF MigrateInv

(* Any other step leaves the database's history and the claims alone.      *)
LEMMA QuietStepKeepsInv ==
    ASSUME TypeOK, MigrateInv, NEW p \in Migrators,
           Step(p) \/ FileFails(p) \/ Dies(p), ~CommitFile(p)
    PROVE  MigrateInv'
<1>1. UNCHANGED <<recorded, schema, applied>>
      BY DEF Step, TableExists, TableMissing, CommitTable, TableClash, Lock, ReadLedger,
             Skip, Execute, LoopEnds, Unlock, FileFails, Dies
<1>2. LockInv'
      BY StepKeepsLock DEF MigrateInv
<1>3. LoopInv(p)'
  <2>0. /\ LoopInv(p) /\ applied[p] \subseteq recorded
        /\ pos[p] \in Nat \ {0} /\ Ships[p] \in Nat
        BY ShipsAssumption DEF MigrateInv, TypeOK
  <2>1. CASE TableExists(p) \/ TableMissing(p) \/ CommitTable(p) \/ TableClash(p)
             \/ Lock(p)
        BY <1>1, <2>0, <2>1 DEF TableExists, TableMissing, CommitTable, TableClash, Lock,
                                Transition, LoopInv, TypeOK
  <2>2. CASE ReadLedger(p)
        BY <1>1, <2>0, <2>2 DEF ReadLedger, Transition, LoopInv, TypeOK
  <2>3. CASE Skip(p)
    <3>1. /\ pc[p] = "apply" /\ pc'[p] = "apply" /\ pos'[p] = pos[p] + 1
          /\ seen'[p] = seen[p] /\ pos[p] \in seen[p]
          BY <2>3 DEF Skip, TypeOK
    <3>2. /\ recorded = seen[p] \cup applied[p] /\ seen[p] \cap applied[p] = {}
          /\ applied[p] \subseteq 1..(pos[p] - 1) /\ 1..(pos[p] - 1) \subseteq recorded
          BY <2>0, <3>1 DEF LoopInv
    <3>3. 1..pos[p] = 1..(pos[p] - 1) \cup {pos[p]} /\ pos'[p] - 1 = pos[p]
          BY <2>0, <3>1
    <3>. QED  BY <1>1, <3>1, <3>2, <3>3 DEF LoopInv
  <2>4. CASE Execute(p)
        BY <1>1, <2>0, <2>4 DEF Execute, Transition, LoopInv, TypeOK, Pending
  <2>5. CASE LoopEnds(p)
    <3>1. /\ pc[p] = "apply" /\ pc'[p] = "return" /\ pos'[p] = pos[p]
          /\ seen'[p] = seen[p] /\ pos[p] > Ships[p]
          BY <2>5 DEF LoopEnds, Transition, TypeOK
    <3>2. 1..Ships[p] \subseteq recorded
          BY <2>0, <3>1 DEF LoopInv
    <3>. QED  BY <1>1, <2>0, <3>1, <3>2 DEF LoopInv
  <2>6. CASE Unlock(p) \/ FileFails(p) \/ Dies(p)
        BY <1>1, <2>0, <2>6 DEF Unlock, FileFails, Dies, Transition, LoopInv, TypeOK
  <2>. QED  BY <2>1, <2>2, <2>3, <2>4, <2>5, <2>6 DEF Step
<1>4. ASSUME NEW q \in Migrators, q # p PROVE LoopInv(q)'
  <2>1. pc'[q] = pc[q] /\ seen'[q] = seen[q] /\ pos'[q] = pos[q]
        BY <1>4 DEF Step, TableExists, TableMissing, CommitTable, TableClash, Lock,
                    ReadLedger, Skip, Execute, LoopEnds, Unlock, FileFails, Dies,
                    Transition, TypeOK
  <2>. QED  BY <1>1, <2>1 DEF MigrateInv, LoopInv, Pending
<1>. QED  BY <1>1, <1>2, <1>3, <1>4 DEF MigrateInv, InOrderOnce

(* The strengthened invariant holds throughout.                            *)
THEOREM MigrateInductive == Spec => []MigrateInv
<1>1. Init => MigrateInv
  <2>. SUFFICES ASSUME Init PROVE MigrateInv
       OBVIOUS
  <2>1. LockInv
        BY NoOneAssumption DEF Init, LockInv, Inside
  <2>2. InOrderOnce
        BY DEF Init, InOrderOnce
  <2>. QED  BY <2>1, <2>2 DEF Init, MigrateInv, LoopInv
<1>2. TypeOK /\ MigrateInv /\ [Next]_vars => MigrateInv'
  <2>1. MigrateInv /\ UNCHANGED vars => MigrateInv'
        BY DEF MigrateInv, LockInv, InOrderOnce, LoopInv, Pending, vars
  <2>2. ASSUME TypeOK, MigrateInv, NEW p \in Migrators,
               Step(p) \/ FileFails(p) \/ Dies(p)
        PROVE  MigrateInv'
        BY <2>2, CommitKeepsInv, QuietStepKeepsInv
  <2>. QED  BY <2>1, <2>2 DEF Next, Terminated
<1>. QED  BY <1>1, <1>2, MigrateTypeCorrect, PTL DEF Spec

(* A migrator never acts on a stale reading of the ledger, so no two apply *)
(* the same file: the advisory lock of migrate.py 58-59 and 91-93.         *)
THEOREM LedgerIsCurrent == Spec => []LedgerNotStale
<1>1. MigrateInv => LedgerNotStale
      BY DEF MigrateInv, LoopInv, LedgerNotStale
<1>. QED  BY <1>1, MigrateInductive, PTL

(* Files land once each, in order and without gaps: migrate.py 68-88.      *)
THEOREM HistoryInOrder == Spec => []InOrderOnce
<1>1. MigrateInv => InOrderOnce
      BY DEF MigrateInv
<1>. QED  BY <1>1, MigrateInductive, PTL

(* What the migrators return is true and disjoint: MigrationResult.        *)
THEOREM ReportsAreTrue == Spec => []ReportsAgree
<1>1. MigrateInv => ReportsAgree
      BY DEF MigrateInv, LoopInv, ReportsAgree
<1>. QED  BY <1>1, MigrateInductive, PTL

-----------------------------------------------------------------------------
(* Why the migrators end                                                   *)

LEMMA RemainingType ==
    ASSUME TypeOK, NEW p \in Migrators
    PROVE  Remaining(p) \in Triples
<1>1. pc[p] \in Phases /\ pos[p] \in Nat \ {0} /\ Ships[p] \in Nat
      BY ShipsAssumption DEF TypeOK
<1>2. PhasesLeft[pc[p]] \in Nat
      BY <1>1 DEF Phases, Inside, PhasesLeft
<1>. QED  BY <1>1, <1>2 DEF Remaining, Triples

(* A file that was executed is one of the release, so that the loop's      *)
(* position never leaves it.                                               *)
LEMMA StepSpends ==
    ASSUME TypeOK, MigrateInv, NEW p \in Migrators, Step(p) \/ FileFails(p) \/ Dies(p)
    PROVE  Shrinks(Remaining(p)', Remaining(p))
<1>0. /\ pc[p] \in Phases /\ pos[p] \in Nat \ {0} /\ Ships[p] \in Nat
      /\ pc \in [Migrators -> Phases] /\ pos \in [Migrators -> Nat \ {0}]
      BY ShipsAssumption DEF TypeOK
<1>1. CASE TableExists(p) \/ TableMissing(p) \/ CommitTable(p) \/ TableClash(p) \/ Lock(p)
  <2>1. \/ pc[p] = "create" /\ pc'[p] \in {"lock", "creating"}
        \/ pc[p] = "creating" /\ pc'[p] \in {"lock", "failed"}
        \/ pc[p] = "lock" /\ pc'[p] = "read"
        BY <1>0, <1>1 DEF TableExists, TableMissing, CommitTable, TableClash, Lock, Transition
  <2>. QED  BY <2>1 DEF Remaining, PhasesLeft, Shrinks
<1>2. CASE ReadLedger(p) \/ LoopEnds(p) \/ Unlock(p) \/ FileFails(p)
  <2>1. \/ pc[p] = "read" /\ pc'[p] = "apply"
        \/ pc[p] \in {"apply", "executed"} /\ pc'[p] \in {"return", "raise"}
        \/ pc[p] \in {"return", "raise"} /\ pc'[p] \in {"done", "failed"}
        BY <1>0, <1>2 DEF ReadLedger, LoopEnds, Unlock, FileFails, Transition
  <2>. QED  BY <2>1 DEF Remaining, PhasesLeft, Shrinks
<1>3. CASE Dies(p)
  <2>1. pc[p] \in Phases \ {"done", "failed", "dead"} /\ pc'[p] = "dead"
        BY <1>0, <1>3 DEF Dies
  <2>. QED  BY <2>1 DEF Remaining, PhasesLeft, Shrinks, Phases, Inside
<1>4. CASE Execute(p)
  <2>1. pc[p] = "apply" /\ pc'[p] = "executed" /\ pos' = pos
        BY <1>0, <1>4 DEF Execute, Transition
  <2>. QED  BY <1>0, <2>1 DEF Remaining, PhasesLeft, Shrinks
<1>5. CASE Skip(p) \/ CommitFile(p)
  <2>1. pos[p] <= Ships[p]
        BY <1>5 DEF Skip, CommitFile, Transition, MigrateInv, LoopInv, Pending
  <2>2. /\ pc[p] \in {"apply", "executed"} /\ pc'[p] = "apply"
        /\ pos'[p] = pos[p] + 1
        BY <1>0, <1>5 DEF Skip, CommitFile, Transition
  <2>. QED  BY <1>0, <2>1, <2>2 DEF Remaining, PhasesLeft, Shrinks
<1>. QED  BY <1>1, <1>2, <1>3, <1>4, <1>5 DEF Step

LEMMA StepIsOnesOwn ==
    ASSUME TypeOK, NEW p \in Migrators, Step(p) \/ FileFails(p) \/ Dies(p),
           NEW q \in Migrators \ {p}
    PROVE  Remaining(q)' = Remaining(q)
<1>1. pc'[q] = pc[q] /\ pos'[q] = pos[q]
      BY DEF Step, TableExists, TableMissing, CommitTable, TableClash, Lock, ReadLedger,
             Skip, Execute, CommitFile, LoopEnds, Unlock, FileFails, Dies, Transition, TypeOK
<1>. QED  BY <1>1 DEF Remaining

(* No step of a migrator can be repeated for ever: each spends some of     *)
(* what it has left, of which there are finitely much (migrate.py 48-93).  *)
THEOREM MigratorsSpend == Spec => EveryStepSpends
<1>. DEFINE Spends == \E p \in Migrators :
               /\ Remaining(p) \in Triples /\ Remaining(p)' \in Triples
               /\ Shrinks(Remaining(p)', Remaining(p))
               /\ \A q \in Migrators \ {p} : Remaining(q)' = Remaining(q)
<1>1. TypeOK /\ TypeOK' /\ MigrateInv /\ [Next]_vars => [Spends]_vars
  <2>. SUFFICES ASSUME TypeOK, TypeOK', MigrateInv, NEW p \in Migrators,
                       Step(p) \/ FileFails(p) \/ Dies(p)
                PROVE  Spends
       BY DEF Next, Terminated
  <2>1. Remaining(p) \in Triples
        BY RemainingType
  <2>2. Remaining(p)' \in Triples
    <3>1. pc'[p] \in Phases /\ pos'[p] \in Nat \ {0} /\ Ships[p] \in Nat
          BY ShipsAssumption DEF TypeOK
    <3>2. PhasesLeft[pc'[p]] \in Nat
          BY <3>1 DEF Phases, Inside, PhasesLeft
    <3>. QED  BY <3>1, <3>2 DEF Remaining, Triples
  <2>3. Shrinks(Remaining(p)', Remaining(p))
        BY StepSpends
  <2>4. \A q \in Migrators \ {p} : Remaining(q)' = Remaining(q)
        BY StepIsOnesOwn
  <2>. QED  BY <2>1, <2>2, <2>3, <2>4
<1>. QED  BY <1>1, MigrateTypeCorrect, MigrateInductive, PTL DEF Spec, EveryStepSpends

(* The holder of the lock can always go on: what it executed is not in the *)
(* ledger yet.                                                             *)
LEMMA InsideCanStep ==
    ASSUME TypeOK, MigrateInv, NEW p \in Migrators, pc[p] \in Inside
    PROVE  CanStep(p)
<1>1. CASE pc[p] = "executed"
  <2>1. /\ recorded = seen[p] \cup applied[p] /\ pos[p] \notin seen[p]
        /\ applied[p] \subseteq 1..(pos[p] - 1) /\ pos[p] \in Nat \ {0}
        BY <1>1 DEF MigrateInv, LoopInv, Pending, TypeOK
  <2>2. pos[p] \notin 1..(pos[p] - 1)
        BY <2>1
  <2>. QED  BY <1>1, <2>1, <2>2 DEF CanStep
<1>. QED  BY <1>1 DEF CanStep, Inside

(* Whoever waits, waits for the lock and for one that can go on: there is  *)
(* no ring of waiters and no migrator that is stuck with the lock          *)
(* (migrate.py 58-93).                                                     *)
THEOREM NoMigratorIsStuck == Spec => []NobodyStuck
<1>1. ASSUME TypeOK, MigrateInv PROVE NobodyStuck
  <2>. SUFFICES ASSUME NEW p \in Migrators, pc[p] \notin {"done", "failed", "dead"}
                PROVE  CanStep(p) \/ (pc[p] = "lock" /\ lock \in Migrators /\ CanStep(lock))
       BY DEF NobodyStuck
  <2>1. CASE pc[p] = "lock" /\ lock # NoOne
    <3>1. lock \in Migrators
          BY <1>1, <2>1 DEF TypeOK
    <3>2. pc[lock] \in Inside
          BY <1>1, <3>1 DEF MigrateInv, LockInv
    <3>. QED  BY <1>1, <2>1, <3>1, <3>2, InsideCanStep
  <2>2. CASE pc[p] \in Inside
        BY <1>1, <2>2, InsideCanStep
  <2>3. pc[p] \in Phases
        BY <1>1 DEF TypeOK
  <2>. QED  BY <2>1, <2>2, <2>3 DEF CanStep, Phases
<1>. QED  BY <1>1, MigrateTypeCorrect, MigrateInductive, PTL

-----------------------------------------------------------------------------
(* The refinement                                                          *)

DoneBar == {p \in Migrators : pc[p] = "done"}

LEMMA StepKeepsHistory ==
    ASSUME TypeOK, MigrateInv, NEW p \in Migrators, Step(p) \/ FileFails(p) \/ Dies(p)
    PROVE  Promise!Next \/ UNCHANGED Promise!vars
<1>1. CASE CommitFile(p)
  <2>1. /\ pc[p] = "executed" /\ pc' = [pc EXCEPT ![p] = "apply"]
        /\ schema' = Append(schema, pos[p])
        BY <1>1 DEF CommitFile, Transition
  <2>2. pos[p] = Len(schema) + 1 /\ Len(schema) < Ships[p]
        BY <1>1, CommitsTheNextFile, ShipsAssumption
  <2>3. DoneBar' = DoneBar
        BY <2>1 DEF DoneBar, TypeOK
  <2>4. Promise!Apply(p)
        BY <2>1, <2>2, <2>3 DEF Promise!Apply, DoneBar
  <2>. QED  BY <2>4 DEF Promise!Next
<1>2. CASE Unlock(p) /\ pc[p] = "return"
  <2>1. pc' = [pc EXCEPT ![p] = "done"] /\ schema' = schema
        BY <1>2 DEF Unlock, Transition
  <2>2. DoneBar' = DoneBar \cup {p} /\ p \notin DoneBar
        BY <1>2, <2>1 DEF DoneBar, TypeOK
  <2>3. 1..Ships[p] \subseteq 1..Len(schema) /\ Len(schema) \in Nat /\ Ships[p] \in Nat
        BY <1>2, ShipsAssumption DEF MigrateInv, LoopInv, InOrderOnce, TypeOK
  <2>4. Len(schema) >= Ships[p]
    <3>1. CASE Ships[p] = 0
          BY <2>3, <3>1
    <3>2. CASE Ships[p] # 0
      <4>1. Ships[p] \in 1..Ships[p]
            BY <2>3, <3>2
      <4>. QED  BY <2>3, <4>1
    <3>. QED  BY <3>1, <3>2
  <2>5. Promise!Report(p)
        BY <2>1, <2>2, <2>4 DEF Promise!Report, DoneBar
  <2>. QED  BY <2>5 DEF Promise!Next
<1>3. CASE ~CommitFile(p) /\ ~(Unlock(p) /\ pc[p] = "return")
  <2>1. schema' = schema
        BY <1>3 DEF Step, TableExists, TableMissing, CommitTable, TableClash, Lock,
                    ReadLedger, Skip, Execute, LoopEnds, Unlock, FileFails, Dies
  <2>2. DoneBar' = DoneBar
    <3>1. \A q \in Migrators : pc'[q] = "done" <=> pc[q] = "done"
          BY <1>3 DEF Step, TableExists, TableMissing, CommitTable, TableClash, Lock,
                      ReadLedger, Skip, Execute, LoopEnds, Unlock, FileFails, Dies,
                      Transition, TypeOK
    <3>. QED  BY <3>1 DEF DoneBar
  <2>. QED  BY <2>1, <2>2 DEF Promise!vars, DoneBar
<1>. QED  BY <1>1, <1>2, <1>3

(* The migrators implement the forward-only history.                       *)
THEOREM MigrateKeepsHistory == Spec => KeepsHistory
<1>1. Init => Promise!Init
      BY DEF Init, Promise!Init
<1>2. TypeOK /\ MigrateInv /\ [Next]_vars => [Promise!Next]_Promise!vars
  <2>1. UNCHANGED vars => UNCHANGED Promise!vars
        BY DEF vars, Promise!vars
  <2>. QED  BY <2>1, StepKeepsHistory DEF Next, Terminated
<1>. QED  BY <1>1, <1>2, MigrateTypeCorrect, MigrateInductive, PTL
          DEF Spec, Promise!Spec, KeepsHistory
=============================================================================
