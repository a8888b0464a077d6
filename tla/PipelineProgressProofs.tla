----------------------- MODULE PipelineProgressProofs -----------------------
(***************************************************************************)
(* Why every invocation ends, for any number of them: steps run out, and   *)
(* until then somebody can take one.                                       *)
(***************************************************************************)
EXTENDS PipelineProgress, PipelineProofs, FiniteSetTheorems, WellFoundedInduction

-----------------------------------------------------------------------------
(* Descent                                                                 *)

LEMMA NatMinimum ==
    ASSUME NEW T \in SUBSET Nat, T # {}
    PROVE  \E m \in T : \A n \in T : m <= n
<1>1. IsWellFoundedOn(OpToRel(<, Nat), Nat)
      BY NatLessThanWellFounded
<1>2. T \subseteq Nat
      OBVIOUS
<1>3. PICK m \in T : \A n \in T : <<n, m>> \notin OpToRel(<, Nat)
      BY <1>1, <1>2, WFMin
<1>4. \A n \in T : ~(n < m)
      BY <1>3 DEF OpToRel
<1>. QED  BY <1>4

(* Any triples have a least one among them.                                *)
LEMMA LeastTriple ==
    ASSUME NEW T \in SUBSET Triples, T # {}
    PROVE  \E m \in T : \A t \in T : ~Shrinks(t, m)
<1>. DEFINE A == {t[1] : t \in T}
<1>1. ASSUME NEW t \in T PROVE t[1] \in Nat /\ t[2] \in Nat /\ t[3] \in Nat
  <2>1. t \in Nat \X Nat \X Nat
        BY DEF Triples
  <2>. QED  BY <2>1
<1>2. PICK a \in A : \A n \in A : a <= n
      BY <1>1, NatMinimum
<1>. DEFINE B == {t[2] : t \in {u \in T : u[1] = a}}
<1>3. B \in SUBSET Nat /\ B # {}
      BY <1>1, <1>2
<1>4. PICK b \in B : \A n \in B : b <= n
      BY <1>3, NatMinimum
<1>. DEFINE C == {t[3] : t \in {u \in T : u[1] = a /\ u[2] = b}}
<1>5. C \in SUBSET Nat /\ C # {}
      BY <1>1, <1>4
<1>6. PICK c \in C : \A n \in C : c <= n
      BY <1>5, NatMinimum
<1>7. PICK m \in T : m[1] = a /\ m[2] = b /\ m[3] = c
      BY <1>6
<1>8. ASSUME NEW t \in T PROVE ~Shrinks(t, m)
  <2>1. a <= t[1] /\ (t[1] = a => b <= t[2]) /\ (t[1] = a /\ t[2] = b => c <= t[3])
        BY <1>2, <1>4, <1>6
  <2>. QED  BY <1>1, <1>7, <2>1 DEF Shrinks
<1>. QED  BY <1>8

(* From each of these states to the next, one of the movers among the      *)
(* processes P spends and nothing else happens.                            *)
Descends(f, P, movers) ==
    \A n \in Nat : \E q \in movers :
        /\ Shrinks(f[n + 1][q], f[n][q])
        /\ \A r \in P \ {q} : f[n + 1][r] = f[n][r]

(* Finitely many processes that each have a triple left cannot take steps  *)
(* for ever if each step shrinks one triple and leaves the others alone:   *)
(* one of them would step again and again, below the least of its triples. *)
LEMMA FewerStep ==
    ASSUME NEW P, NEW f \in [Nat -> [P -> Triples]], NEW movers \in SUBSET P, NEW p \in movers,
           Descends(f, P, movers)
    PROVE  \E g \in [Nat -> [P -> Triples]] : Descends(g, P, movers \ {p})
<1>. DEFINE T == {f[n][p] : n \in Nat}
<1>1. T \in SUBSET Triples /\ T # {}
      OBVIOUS
<1>2. PICK m \in T : \A t \in T : ~Shrinks(t, m)
      BY <1>1, LeastTriple
<1>3. PICK k \in Nat : f[k][p] = m
      BY <1>2
<1>. DEFINE Off == {n \in Nat : n >= k /\ f[n][p] # m}
<1>4. Off = {}
  <2>. SUFFICES ASSUME Off # {} PROVE FALSE
       OBVIOUS
  <2>1. PICK n \in Off : \A i \in Off : n <= i
        BY NatMinimum
  <2>2. n # k /\ n - 1 \in Nat /\ n - 1 >= k /\ (n - 1) + 1 = n
    <3>1. n \in Nat /\ k \in Nat /\ n >= k /\ n # k
          BY <1>3, <2>1
    <3>. QED  BY <3>1
  <2>3. f[n - 1][p] = m
        BY <2>1, <2>2
  <2>4. PICK q \in movers : /\ Shrinks(f[n][q], f[n - 1][q])
                            /\ \A r \in P \ {q} : f[n][r] = f[n - 1][r]
    <3>1. \E q \in movers : /\ Shrinks(f[(n - 1) + 1][q], f[n - 1][q])
                            /\ \A r \in P \ {q} : f[(n - 1) + 1][r] = f[n - 1][r]
          BY <2>2 DEF Descends
    <3>. QED  BY <2>2, <3>1
  <2>5. q = p
    <3>1. f[n][p] # f[n - 1][p] /\ p \in P
          BY <2>1, <2>3
    <3>. QED  BY <2>4, <3>1
  <2>6. Shrinks(f[n][p], m) /\ f[n][p] \in T
        BY <2>2, <2>3, <2>4, <2>5
  <2>. QED  BY <1>2, <2>6
<1>5. ASSUME NEW n \in Nat, n >= k PROVE f[n][p] = m
      BY <1>4, <1>5
<1>. DEFINE g == [n \in Nat |-> f[n + k]]
<1>6. g \in [Nat -> [P -> Triples]]
      OBVIOUS
<1>7. ASSUME NEW n \in Nat
      PROVE  \E q \in movers \ {p} : /\ Shrinks(g[n + 1][q], g[n][q])
                                     /\ \A r \in P \ {q} : g[n + 1][r] = g[n][r]
  <2>1. /\ n + k \in Nat /\ n + k >= k /\ (n + k) + 1 \in Nat /\ (n + k) + 1 >= k
        /\ g[n] = f[n + k] /\ g[n + 1] = f[(n + k) + 1]
        OBVIOUS
  <2>2. PICK q \in movers : /\ Shrinks(f[(n + k) + 1][q], f[n + k][q])
                            /\ \A r \in P \ {q} : f[(n + k) + 1][r] = f[n + k][r]
        BY <2>1 DEF Descends
  <2>3. f[n + k][p] = m /\ f[(n + k) + 1][p] = m
        BY <1>5, <2>1
  <2>4. q # p
    <3>1. ~Shrinks(m, m)
          BY <1>2
    <3>. QED  BY <2>2, <2>3, <3>1
  <2>. HIDE DEF g
  <2>5. /\ Shrinks(g[n + 1][q], g[n][q])
        /\ \A r \in P \ {q} : g[n + 1][r] = g[n][r]
        BY <2>1, <2>2
  <2>. QED  BY <2>4, <2>5
<1>. HIDE DEF g
<1>8. Descends(g, P, movers \ {p})
      BY <1>7 DEF Descends
<1>. QED  BY <1>6, <1>8

(* A fact about triples: no infinite sequence of the triples of finitely   *)
(* many processes has in every step one of them shrink and the others      *)
(* stay, which is what EveryStepSpends says of Remaining.                  *)
LEMMA StepsRunOut ==
    ASSUME NEW P, IsFiniteSet(P)
    PROVE  ~\E f \in [Nat -> [P -> Triples]] : Descends(f, P, P)
<1>. DEFINE Endless(movers) == \E f \in [Nat -> [P -> Triples]] : Descends(f, P, movers)
            T == {S \in SUBSET P : Endless(S)}
<1>. SUFFICES ASSUME Endless(P) PROVE FALSE
     OBVIOUS
<1>1. P \in T
      OBVIOUS
<1>2. ASSUME NEW S \in T
      PROVE  S # {} /\ S \in SUBSET P /\ \A p \in S : S \ {p} \in T
  <2>1. S \in SUBSET P
        OBVIOUS
  <2>2. PICK f \in [Nat -> [P -> Triples]] : Descends(f, P, S)
        OBVIOUS
  <2>3. \E q \in S : TRUE
    <3>1. 0 \in Nat
          OBVIOUS
    <3>. QED  BY <2>2, <3>1 DEF Descends
  <2>4. ASSUME NEW p \in S PROVE S \ {p} \in T
    <3>1. Endless(S \ {p})
          BY <2>1, <2>2, FewerStep
    <3>. QED  BY <2>1, <3>1
  <2>. QED  BY <2>1, <2>3, <2>4
<1>. HIDE DEF T
<1>. DEFINE Sizes == {Cardinality(S) : S \in T}
<1>3. ASSUME NEW S \in T PROVE IsFiniteSet(S) /\ Cardinality(S) \in Nat
      BY <1>2, FS_Subset, FS_CardinalityType
<1>4. Sizes \in SUBSET Nat /\ Sizes # {}
      BY <1>1, <1>3
<1>5. PICK S \in T : \A R \in T : Cardinality(S) <= Cardinality(R)
  <2>1. PICK c \in Sizes : \A n \in Sizes : c <= n
        BY <1>4, NatMinimum
  <2>. QED  BY <2>1
<1>6. PICK p \in S : TRUE
      BY <1>2
<1>7. S \ {p} \in T
      BY <1>2
<1>8. Cardinality(S \ {p}) = Cardinality(S) - 1
      BY <1>3, FS_RemoveElement
<1>. QED  BY <1>3, <1>5, <1>7, <1>8

-----------------------------------------------------------------------------
(* Every step spends                                                       *)

LEMMA RemainingType ==
    ASSUME TypeOK, LoadInv, NEW p \in Procs
    PROVE  Remaining(p) \in Triples
<1>1. /\ idx[p] \in 1..Len(SourceOrder) /\ Len(SourceOrder) \in Nat /\ pc[p] \in Phases
      /\ Rows(p) \in Seq(IncomingRow) /\ txn[p].next \in Nat /\ txn[p].stamp \in Nat
      BY SourceOrderAssumption DEF TypeOK, Rows
<1>2. txn[p].next <= Len(Rows(p)) /\ Len(Rows(p)) \in Nat
      BY <1>1 DEF LoadInv, ImageInv
<1>3. PhasesLeft[pc[p]] \in Nat
      BY <1>1 DEF Phases, PhasesLeft, Gone
<1>. QED  BY <1>1, <1>2, <1>3 DEF Remaining, RowsLeft, Triples

LEMMA StepSpends ==
    ASSUME TypeOK, LoadInv, NEW p \in Procs, Step(p) \/ ServerError(p) \/ LedgerRaises(p) \/ Dies(p)
    PROVE  Shrinks(Remaining(p)', Remaining(p))
<1>0. /\ idx \in [Procs -> 1..Len(SourceOrder)] /\ Len(SourceOrder) \in Nat
      /\ pc \in [Procs -> Phases] /\ Rows(p) \in Seq(IncomingRow)
      /\ txn[p].next \in Nat /\ txn[p].stamp \in Nat
      /\ DOMAIN txn = Procs
      BY SourceOrderAssumption DEF TypeOK, Rows
<1>a. Len(Rows(p)) \in Nat /\ txn[p].next <= Len(Rows(p)) /\ clock \in Nat
      BY <1>0 DEF LoadInv, ImageInv, TypeOK
<1>b. ASSUME Abort(p) PROVE pc[p] = "load" /\ pc'[p] = "close_rolled_back" /\ idx' = idx
      BY <1>0, <1>b DEF Abort, Transition
<1>1. CASE UpsertSources(p) \/ StartRun(p) \/ StartSourceRun(p) \/ Extract(p)
  <2>1. /\ idx' = idx
        /\ \/ pc[p] = "register" /\ pc'[p] = "open_run"
           \/ pc[p] = "open_run" /\ pc'[p] = "open_source"
           \/ pc[p] = "open_source" /\ pc'[p] = "extract"
           \/ pc[p] = "extract" /\ pc'[p] = "load"
        BY <1>0, <1>1 DEF UpsertSources, StartRun, StartSourceRun, Extract, Transition
  <2>. QED  BY <2>1 DEF Remaining, PhasesLeft, Shrinks
<1>2. CASE ExtractRaises(p) \/ CommitLoad(p) \/ FinishRun(p)
  <2>1. /\ idx' = idx
        /\ \/ pc[p] = "extract" /\ pc'[p] = "close_unextracted"
           \/ pc[p] = "load" /\ pc'[p] = "close_loaded"
           \/ pc[p] = "close_run" /\ pc'[p] = "done"
        BY <1>0, <1>2 DEF ExtractRaises, CommitLoad, FinishRun, Transition
  <2>. QED  BY <2>1 DEF Remaining, PhasesLeft, Shrinks
<1>3. CASE RowRefused(p) \/ DeadlockVictim(p) \/ ServerError(p)
  <2>1. pc[p] = "load" /\ pc'[p] = "close_rolled_back" /\ idx' = idx
        BY <1>3, <1>b DEF RowRefused, DeadlockVictim, ServerError
  <2>. QED  BY <2>1 DEF Remaining, PhasesLeft, Shrinks
<1>4. CASE CloseUnextracted(p) \/ CloseRolledBack(p) \/ CloseLoaded(p)
  <2>1. \/ /\ idx[p] < Len(SourceOrder) /\ idx'[p] = idx[p] + 1
        \/ /\ idx' = idx /\ pc'[p] = "close_run"
           /\ pc[p] \in {"close_unextracted", "close_rolled_back", "close_loaded"}
        BY <1>0, <1>4 DEF CloseUnextracted, CloseRolledBack, CloseLoaded, FinishSourceRun
  <2>. QED  BY <1>0, <2>1 DEF Remaining, PhasesLeft, Shrinks
<1>5. CASE LedgerRaises(p) \/ Dies(p)
  <2>1. pc[p] \in Phases \ ({"done"} \cup Gone) /\ pc'[p] \in Gone /\ idx' = idx
        BY <1>0, <1>5 DEF LedgerRaises, Dies, Leaves, Gone
  <2>. QED  BY <2>1 DEF Remaining, PhasesLeft, Shrinks, Phases, Gone
<1>6. CASE BeginLoad(p)
  <2>1. /\ UNCHANGED <<pc, idx>> /\ Rows(p)' = Rows(p) /\ txn[p].stamp = 0
        /\ txn'[p].stamp # 0 /\ txn'[p].next = 0
        BY <1>0, <1>a, <1>6 DEF BeginLoad, Rows
  <2>2. RowsLeft(p)' = Len(Rows(p)) /\ RowsLeft(p) = Len(Rows(p)) + 1
        BY <1>a, <2>1 DEF RowsLeft
  <2>. QED  BY <1>a, <2>1, <2>2 DEF Remaining, Shrinks
<1>7. CASE UpsertRow(p)
  <2>1. /\ UNCHANGED <<pc, idx>> /\ Rows(p)' = Rows(p)
        /\ txn[p].stamp # 0 /\ txn'[p].stamp = txn[p].stamp
        /\ txn'[p].next = txn[p].next + 1
        BY <1>0, <1>7 DEF UpsertRow, Executing, Rows
  <2>2. RowsLeft(p)' = RowsLeft(p) - 1 /\ RowsLeft(p) \in Int
        BY <1>0, <1>a, <2>1 DEF RowsLeft
  <2>. QED  BY <2>1, <2>2 DEF Remaining, Shrinks
<1>. QED  BY <1>1, <1>2, <1>3, <1>4, <1>5, <1>6, <1>7 DEF Step

(* No source, no load and no row is tried twice by an invocation, and none *)
(* sets another back (runner.py 87-168).                                   *)
THEOREM InvocationsSpend == Spec => EveryStepSpends
<1>. DEFINE Spends == \E p \in Procs :
               /\ Remaining(p) \in Triples /\ Remaining(p)' \in Triples
               /\ Shrinks(Remaining(p)', Remaining(p))
               /\ \A q \in Procs \ {p} : Remaining(q)' = Remaining(q)
<1>0. TypeOK /\ LoadInv => \A p \in Procs : Remaining(p) \in Triples
      BY RemainingType
<1>1. /\ TypeOK /\ LoadInv /\ [Next]_vars
      /\ \A p \in Procs : Remaining(p) \in Triples
      /\ (\A p \in Procs : Remaining(p) \in Triples)'
      => [Spends]_vars
  <2>. SUFFICES ASSUME TypeOK, LoadInv,
                       \A p \in Procs : Remaining(p) \in Triples,
                       \A p \in Procs : Remaining(p)' \in Triples,
                       NEW p \in Procs, Step(p) \/ ServerError(p) \/ LedgerRaises(p) \/ Dies(p)
                PROVE  Spends
       BY DEF Next, Terminated
  <2>1. Shrinks(Remaining(p)', Remaining(p))
        BY StepSpends
  <2>2. ASSUME NEW q \in Procs \ {p} PROVE Remaining(q)' = Remaining(q)
    <3>1. pc'[q] = pc[q] /\ idx'[q] = idx[q] /\ txn'[q] = txn[q] /\ ext'[q] = ext[q]
          BY StepIsLocal
    <3>. QED  BY <3>1 DEF Remaining, RowsLeft, Rows
  <2>. QED  BY <2>1, <2>2
<1>. QED  BY <1>0, <1>1, TypeCorrect, LoadInductive, PTL DEF Spec, EveryStepSpends

-----------------------------------------------------------------------------
(* Nobody is stuck                                                         *)

(* Where each of finitely many loads waits for another of them, some of    *)
(* them form a cycle: the smallest set in which all do.                    *)
LEMMA WaitersFormCycle ==
    ASSUME NEW group \in SUBSET Procs, IsFiniteSet(group), group # {},
           \A a \in group : \E b \in group : WaitsFor(a, b)
    PROVE  \E p \in group : OnCycle(p)
<1>. DEFINE T == {C \in SUBSET group :
                     C # {} /\ \A a \in C : \E b \in C : WaitsFor(a, b)}
            Sizes == {Cardinality(C) : C \in T}
<1>1. ASSUME NEW C \in T
      PROVE  IsFiniteSet(C) /\ Cardinality(C) \in Nat /\ C \subseteq group /\ C # {}
      BY FS_Subset, FS_CardinalityType
<1>2. group \in T
      OBVIOUS
<1>3. Sizes \in SUBSET Nat /\ Sizes # {}
      BY <1>1, <1>2
<1>4. PICK C \in T : \A D \in T : Cardinality(C) <= Cardinality(D)
  <2>1. PICK c \in Sizes : \A n \in Sizes : c <= n
        BY <1>3, NatMinimum
  <2>. QED  BY <2>1
<1>5. ASSUME NEW a \in C PROVE \E b \in C : WaitsFor(b, a)
  <2>. SUFFICES ASSUME \A b \in C : ~WaitsFor(b, a) PROVE FALSE
       OBVIOUS
  <2>1. \A d \in C : \E b \in C \ {a} : WaitsFor(d, b)
        BY <1>4
  <2>2. C \ {a} \in T
        BY <1>1, <2>1
  <2>3. Cardinality(C \ {a}) = Cardinality(C) - 1
        BY <1>1, FS_RemoveElement
  <2>4. Cardinality(C) <= Cardinality(C \ {a})
        BY <1>4, <2>2
  <2>5. Cardinality(C) \in Nat
        BY <1>1
  <2>. HIDE DEF T, Sizes
  <2>. QED  BY <2>3, <2>4, <2>5
<1>6. C \in SUBSET Procs /\ \A a \in C : \E b \in C : WaitsFor(a, b)
      BY <1>4
<1>7. PICK p \in C : TRUE
      BY <1>1
<1>8. OnCycle(p)
      BY <1>5, <1>6, <1>7 DEF OnCycle
<1>. QED  BY <1>1, <1>7, <1>8

(* The only thing that stops a live invocation is the lock of an open load.*)
LEMMA StuckWaits ==
    ASSUME TypeOK, LoadInv, NEW p \in Procs, Live(p), ~CanStep(p)
    PROVE  \E q \in Procs : WaitsFor(p, q) /\ Live(q)
<1>1. pc[p] = "load" /\ ~CanLoad(p)
      BY DEF CanStep
<1>2. /\ ImageInv(p) /\ txn[p].next \in Nat /\ txn[p].stamp \in Nat
      /\ Rows(p) \in Seq(IncomingRow)
      BY DEF LoadInv, TypeOK, Rows
<1>3. Len(Rows(p)) \in Nat /\ txn[p].next <= Len(Rows(p)) /\ txn[p].next # Len(Rows(p))
      BY <1>1, <1>2 DEF CanLoad, ImageInv
<1>4. Rows(p) # <<>>
  <2>1. Len(Rows(p)) # 0
        BY <1>2, <1>3
  <2>. QED  BY <2>1
<1>5. Executing(p)
      BY <1>1, <1>2, <1>3, <1>4 DEF CanLoad, Executing
<1>6. PICK q \in Procs : WaitsFor(p, q)
      BY <1>1, <1>5 DEF CanLoad
<1>7. txn[q].locked # {}
      BY <1>6 DEF WaitsFor, Holds
<1>8. pc[q] = "load"
      BY <1>7 DEF LoadInv, NoTxn
<1>. QED  BY <1>6, <1>8 DEF Live, Gone

(* However many runs overlap and in whatever order their rows come, from   *)
(* any of them the chain of who waits for whom leads to one that can go on *)
(* (loader.py 69-75, runner.py 116-124).  Were they infinitely many, the   *)
(* chain might have no end.                                                *)
THEOREM NoInvocationIsStuck ==
    ASSUME IsFiniteSet(Procs)
    PROVE  Spec => []NobodyStuck
<1>1. ASSUME TypeOK, LoadInv PROVE NobodyStuck
  <2>. SUFFICES ASSUME NEW group \in SUBSET Procs, NEW p \in group, Live(p),
                       \A a \in group, b \in Procs : WaitsFor(a, b) => b \in group,
                       \A a \in group : ~CanStep(a)
                PROVE  FALSE
       BY DEF NobodyStuck
  <2>. DEFINE blocked == {a \in group : Live(a)}
  <2>1. blocked \in SUBSET Procs /\ blocked # {} /\ IsFiniteSet(blocked)
        BY FS_Subset
  <2>2. \A a \in blocked : \E b \in blocked : WaitsFor(a, b)
        BY <1>1, StuckWaits
  <2>3. PICK a \in blocked : OnCycle(a)
        BY <2>1, <2>2, WaitersFormCycle
  <2>4. CanStep(a)
        BY <2>3 DEF CanStep, CanLoad
  <2>. QED  BY <2>3, <2>4
<1>. QED  BY <1>1, TypeCorrect, LoadInductive, PTL
=============================================================================
