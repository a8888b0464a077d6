-------------------------- MODULE InvocationProofs --------------------------
(***************************************************************************)
(* Whole invocations, for any number of them and any releases: both halves *)
(* behave as they do alone, and the second waits for the first.            *)
(***************************************************************************)
EXTENDS Invocation, PipelineProgressProofs

MP == INSTANCE MigrateProofs WITH Migrators <- Procs, pc <- mpc

(* Beside the migrations the pipeline is still itself, so that everything  *)
(* proved of it alone holds of whole invocations.                          *)
THEOREM InvocationRunsPipeline == InvocationSpec => Spec
<1>1. InvocationInit => Init
      BY DEF InvocationInit
<1>2. [InvocationNext]_invocationVars => [Next]_vars
      BY DEF InvocationNext, Migrates, Runs, Fails, AllOver, invocationVars, Next
<1>. QED  BY <1>1, <1>2, PTL DEF InvocationSpec, Spec

(* Both instances of Migrate take the same steps.                          *)
LEMMA SameMigrator ==
    ASSUME NEW p
    PROVE  /\ Mig!Step(p) <=> MP!Step(p)
           /\ Mig!FileFails(p) <=> MP!FileFails(p)
           /\ Mig!Dies(p) <=> MP!Dies(p)
<1>1. /\ Mig!TableExists(p) <=> MP!TableExists(p)
      /\ Mig!TableMissing(p) <=> MP!TableMissing(p)
      BY DEF Mig!TableExists, MP!TableExists, Mig!TableMissing,
         MP!TableMissing, Mig!Transition, MP!Transition
<1>2. /\ Mig!CommitTable(p) <=> MP!CommitTable(p)
      /\ Mig!TableClash(p) <=> MP!TableClash(p)
      BY DEF Mig!CommitTable, MP!CommitTable, Mig!TableClash, MP!TableClash,
         Mig!Transition, MP!Transition
<1>3. /\ Mig!Lock(p) <=> MP!Lock(p)
      /\ Mig!ReadLedger(p) <=> MP!ReadLedger(p)
      BY DEF Mig!Lock, MP!Lock, Mig!ReadLedger, MP!ReadLedger, Mig!Transition,
         MP!Transition
<1>4. /\ Mig!Skip(p) <=> MP!Skip(p)
      /\ Mig!Execute(p) <=> MP!Execute(p)
      BY DEF Mig!Skip, MP!Skip, Mig!Execute, MP!Execute, Mig!Transition,
         MP!Transition, Mig!Pending, MP!Pending
<1>5. /\ Mig!CommitFile(p) <=> MP!CommitFile(p)
      BY DEF Mig!CommitFile, MP!CommitFile, Mig!Transition, MP!Transition
<1>6. /\ Mig!LoopEnds(p) <=> MP!LoopEnds(p)
      /\ Mig!Unlock(p) <=> MP!Unlock(p)
      BY DEF Mig!LoopEnds, MP!LoopEnds, Mig!Unlock, MP!Unlock, Mig!Transition,
         MP!Transition
<1>7. /\ Mig!FileFails(p) <=> MP!FileFails(p)
      /\ Mig!Dies(p) <=> MP!Dies(p)
      BY DEF Mig!FileFails, MP!FileFails, Mig!Dies, MP!Dies, Mig!Pending,
         MP!Pending
<1>. QED  BY <1>1, <1>2, <1>3, <1>4, <1>5, <1>6, <1>7 DEF Mig!Step, MP!Step

(* And so are the migrations beside the pipeline.                          *)
THEOREM InvocationMigrates == InvocationSpec => MP!Spec
<1>1. InvocationInit => MP!Init
      BY DEF InvocationInit, Mig!Init, MP!Init
<1>2. [InvocationNext]_invocationVars => [MP!Next]_(MP!vars)
  <2>1. ASSUME NEW p \in Procs, Migrates(p) \/ Runs(p) \/ Fails(p)
        PROVE  [MP!Next]_(MP!vars)
        BY <2>1, SameMigrator DEF Migrates, Runs, Fails, migrateVars, MP!Next, MP!vars
  <2>2. CASE AllOver \/ UNCHANGED invocationVars
        BY <2>2 DEF AllOver, invocationVars, migrateVars, MP!vars
  <2>. QED  BY <2>1, <2>2 DEF InvocationNext
<1>. QED  BY <1>1, <1>2, PTL DEF InvocationSpec, MP!Spec

LEMMA MigratedInv == InvocationSpec => [](MP!TypeOK /\ MP!MigrateInv)
<1>1. Ships \in [Procs -> Nat] /\ NoOne \notin Procs
      BY ReleasesAssumption
<1>. QED  BY <1>1, InvocationMigrates, MP!MigrateTypeCorrect, MP!MigrateInductive, PTL

-----------------------------------------------------------------------------
(* The schema first                                                        *)

FirstInv ==
    \A p \in Procs : mpc[p] # "done" =>
        pc[p] = "register" /\ run[p] = "none" /\ landed[p] = {}

LEMMA StepKeepsFirst ==
    ASSUME TypeOK, MP!TypeOK, FirstInv, [InvocationNext]_invocationVars
    PROVE  FirstInv'
<1>1. CASE AllOver \/ UNCHANGED invocationVars
      BY <1>1 DEF AllOver, invocationVars, vars, migrateVars, FirstInv
<1>2. ASSUME NEW p \in Procs, Migrates(p) \/ Runs(p) \/ Fails(p)
      PROVE  FirstInv'
  <2>1. CASE (Mig!Step(p) \/ Mig!FileFails(p) \/ Mig!Dies(p)) /\ UNCHANGED vars
    <3>1. \A q \in Procs : mpc[q] = "done" => mpc'[q] = "done"
      <4>1. MP!Step(p) \/ MP!FileFails(p) \/ MP!Dies(p)
            BY <2>1, SameMigrator
      <4>. QED  BY <4>1
           DEF MP!Step, MP!TableExists, MP!TableMissing, MP!CommitTable, MP!TableClash,
               MP!Lock, MP!ReadLedger, MP!Skip, MP!Execute, MP!CommitFile, MP!LoopEnds,
               MP!Unlock, MP!FileFails, MP!Dies, MP!Transition, MP!TypeOK
    <3>. QED  BY <2>1, <3>1 DEF vars, FirstInv
  <2>2. CASE /\ mpc[p] = "done" /\ UNCHANGED migrateVars
             /\ Step(p) \/ ServerError(p) \/ LedgerRaises(p) \/ Dies(p)
    <3>1. \A q \in Procs \ {p} :
              pc'[q] = pc[q] /\ run'[q] = run[q] /\ landed'[q] = landed[q]
          BY <2>2, StepIsLocal
    <3>. QED  BY <2>2, <3>1 DEF FirstInv, migrateVars
  <2>. QED  BY <1>2, <2>1, <2>2 DEF Migrates, Runs, Fails
<1>. QED  BY <1>1, <1>2 DEF InvocationNext

LEMMA FirstInductive == InvocationSpec => []FirstInv
<1>1. InvocationInit => FirstInv
      BY DEF InvocationInit, Init, FirstInv
<1>2. TypeOK /\ MP!TypeOK /\ FirstInv /\ [InvocationNext]_invocationVars => FirstInv'
      BY StepKeepsFirst
<1>. QED  BY <1>1, <1>2, InvocationRunsPipeline, TypeCorrect, MigratedInv, PTL
          DEF InvocationSpec

LEMMA FirstImplies == FirstInv /\ MP!MigrateInv => SchemaFirst
<1>. SUFFICES ASSUME FirstInv, MP!MigrateInv, NEW p \in Procs,
                     pc[p] # "register" \/ run[p] # "none" \/ landed[p] # {}
              PROVE  1..Ships[p] \subseteq recorded /\ mpc[p] = "done"
     BY DEF SchemaFirst
<1>1. mpc[p] = "done"
      BY DEF FirstInv
<1>. QED  BY <1>1 DEF MP!MigrateInv, MP!LoopInv

(* No statement of the pipeline runs before the schema of its release is   *)
(* there (cli.py 56-58, migrate.py 68-90).                                 *)
THEOREM MigratesFirst == InvocationSpec => []SchemaFirst
BY FirstInductive, FirstImplies, MigratedInv, PTL

LEMMA HonestCode ==
    ASSUME TypeOK, LedgerInv, FirstInv, MP!MigrateInv
    PROVE  CodeIsHonest
<1>. SUFFICES ASSUME NEW p \in Procs, Over(p)
              PROVE  /\ Code(p) = 0 =>
                            /\ landed[p] # {}
                            /\ \A s \in Sources : entry[p][s].status \in Closed
                            /\ 1..Ships[p] \subseteq recorded
                     /\ (Code(p) = 1 /\ landed[p] # {}) =>
                            pc[p] \in Gone /\ run[p] # "failed"
     BY DEF CodeIsHonest
<1>0. run[p] \notin {"none", "running"} =>
          /\ \A s \in Sources : entry[p][s].status \in Closed
          /\ (ExitCode(run[p]) = 1) <=> (landed[p] = {})
      BY LedgerInvJustifiesVerdict DEF VerdictMatchesData
<1>1. CASE mpc[p] \in {"failed", "dead"}
  <2>1. Code(p) = 1 /\ landed[p] = {}
        BY <1>1 DEF Code, FirstInv
  <2>. QED  BY <2>1
<1>2. CASE pc[p] = "done"
  <2>1. mpc[p] = "done" /\ 1..Ships[p] \subseteq recorded
        BY <1>2, FirstImplies DEF SchemaFirst
  <2>2. run[p] \notin {"none", "running"}
        BY <1>2 DEF LedgerInv, RunInv, RunRowInv, Verdict
  <2>3. Code(p) \in {0, 1} /\ Code(p) = ExitCode(run[p])
        BY <1>2, <2>1 DEF Code, ExitCode
  <2>. QED  BY <1>0, <2>1, <2>2, <2>3
<1>3. CASE pc[p] \in Gone
  <2>1. Code(p) = 1
        BY <1>3 DEF Code, Gone
  <2>2. run[p] = "failed" => landed[p] = {}
        BY <1>0 DEF ExitCode
  <2>. QED  BY <1>3, <2>1, <2>2
<1>. QED  BY <1>1, <1>2, <1>3 DEF Over

(* 0 is only ever the code of an invocation that has landed a source and   *)
(* closed every entry; one that ends otherwise has landed nothing, unless  *)
(* an exception of the ledger or a kill took it out of the pipeline, and   *)
(* then the ledger does not call it failed (cli.py 52-72, 193-200).        *)
THEOREM ExitCodeIsHonest == InvocationSpec => []CodeIsHonest
BY FirstInductive, HonestCode, MigratedInv, InvocationRunsPipeline, LedgerInductive, PTL

-----------------------------------------------------------------------------
(* Nobody is held up                                                       *)

(* The lock of the migrator is held by one that can go on, and those that  *)
(* are past it wait only for others past it.                               *)
LEMMA SomeoneGoesOn ==
    ASSUME TypeOK, LoadInv, FirstInv, MP!TypeOK, MP!NobodyStuck, NobodyStuck
    PROVE  NobodyHeldUp
<1>. SUFFICES ASSUME NEW group \in SUBSET Procs, NEW p \in group, ~Over(p),
                     \A a \in group, b \in Procs : HeldUpBy(a, b) => b \in group
              PROVE  \E a \in group : ~Over(a) /\ CanGoOn(a)
     BY DEF NobodyHeldUp
<1>0. \A a \in Procs : MP!CanStep(a) => Mig!CanStep(a) /\ mpc[a] \notin {"done", "failed", "dead"}
      BY DEF MP!CanStep, Mig!CanStep
<1>1. ASSUME NEW a \in Procs, MP!CanStep(a) PROVE ~Over(a) /\ CanGoOn(a)
  <2>1. pc[a] = "register"
        BY <1>0, <1>1 DEF FirstInv
  <2>. QED  BY <1>0, <1>1, <2>1 DEF Over, CanGoOn, Gone
<1>2. CASE mpc[p] # "done"
  <2>1. mpc[p] \notin {"done", "failed", "dead"}
        BY <1>2 DEF Over
  <2>2. \/ MP!CanStep(p)
        \/ mpc[p] = "lock" /\ lock \in Procs /\ MP!CanStep(lock)
        BY <2>1 DEF MP!NobodyStuck
  <2>3. CASE MP!CanStep(p)
        BY <1>1, <2>3
  <2>4. CASE mpc[p] = "lock" /\ lock \in Procs /\ MP!CanStep(lock)
    <3>1. lock \in group
          BY <2>4 DEF HeldUpBy
    <3>. QED  BY <1>1, <2>4, <3>1
  <2>. QED  BY <2>2, <2>3, <2>4
<1>3. CASE mpc[p] = "done"
  <2>. DEFINE past == {a \in group : mpc[a] = "done"}
  <2>1. p \in past /\ Live(p)
        BY <1>3 DEF Over, Live
  <2>2. ASSUME NEW a \in past, NEW b \in Procs, WaitsFor(a, b) PROVE b \in past
    <3>1. b \in group
          BY <2>2 DEF HeldUpBy
    <3>2. txn[b].locked # {}
          BY <2>2 DEF WaitsFor, Holds
    <3>3. pc[b] = "load"
          BY <3>2 DEF LoadInv, NoTxn
    <3>4. mpc[b] = "done"
          BY <3>3 DEF FirstInv
    <3>. QED  BY <3>1, <3>4
  <2>3. PICK a \in past : CanStep(a)
    <3>1. past \in SUBSET Procs
          OBVIOUS
    <3>. QED  BY <2>1, <2>2, <3>1 DEF NobodyStuck
  <2>4. mpc[a] = "done" /\ pc[a] \notin {"done"} \cup Gone
        BY <2>3 DEF CanStep, Live
  <2>. QED  BY <2>3, <2>4 DEF Over, CanGoOn
<1>. QED  BY <1>2, <1>3

(* However many invocations of whatever releases overlap, none waits for   *)
(* good: of those it waits for, for the migrations or in a load, one can   *)
(* go on (cli.py 56-58, migrate.py 58-93, loader.py 69-75).                *)
THEOREM NoInvocationIsHeldUp ==
    ASSUME IsFiniteSet(Procs)
    PROVE  InvocationSpec => []NobodyHeldUp
<1>1. Ships \in [Procs -> Nat] /\ NoOne \notin Procs
      BY ReleasesAssumption
<1>2. MP!Spec => []MP!NobodyStuck
      BY <1>1, MP!NoMigratorIsStuck
<1>3. Spec => []NobodyStuck
      BY NoInvocationIsStuck
<1>. QED  BY <1>2, <1>3, InvocationMigrates, InvocationRunsPipeline, TypeCorrect,
             LoadInductive, FirstInductive, MigratedInv, SomeoneGoesOn, PTL
=============================================================================
