---------------------------- MODULE EndToEndProofs ----------------------------
(***************************************************************************)
(* From the documents to the table, for every document, environment, page  *)
(* size and limit, and any number of other invocations: a run with its     *)
(* extractions in detail is a run of Pipeline, and what it lands and       *)
(* counts is what was served.                                              *)
(***************************************************************************)
EXTENDS EndToEnd, SourcesProofs

(* Pipeline with sources that may return anything of the right shape.      *)
PP == INSTANCE PipelineRefinement WITH
          Sources <- Keys, SourceOrder <- default_sources,
          Facts <- NaturalKeys, Values <- Int, Refused <- Int \ (0..100),
          Publications <- Extractions, pc <- stage

(* What Pipeline assumes of its constants.                                 *)
LEMMA RefusedIs == (Int \ (0..100)) \subseteq Int
  OBVIOUS

LEMMA NoRowIs == NoRow \notin PP!Row /\ NoRow \notin Int
  BY NoCellAssumption DEF P!Row, PP!Row

LEMMA OrderIs ==
  /\ default_sources \in Seq(Keys)
  /\ default_sources # <<>>
  /\ \A s \in Keys : \E i \in 1..Len(default_sources) : default_sources[i] = s
  /\ \A i, j \in 1..Len(default_sources) :
         default_sources[i] = default_sources[j] => i = j
  <1>1. /\ default_sources \in Seq(Keys) /\ Len(default_sources) = 3
        /\ default_sources[1] = "world_bank_api" /\ default_sources[2] = "owid_csv"
        /\ default_sources[3] = "wikipedia_cia"
    BY DEF default_sources, Keys
  <1>2. 1..Len(default_sources) = {1, 2, 3}
    BY <1>1
  <1>3. default_sources # <<>>
    BY DEF default_sources
  <1>4. \A s \in Keys : \E i \in {1, 2, 3} : default_sources[i] = s
    BY <1>1 DEF Keys
  <1>5. \A i, j \in {1, 2, 3} : default_sources[i] = default_sources[j] => i = j
    BY <1>1
  <1> QED
    BY <1>1, <1>2, <1>3, <1>4, <1>5

LEMMA ExtractionsAre ==
  Extractions \subseteq [rows : Seq(PP!IncomingRow), rejected : Nat, skipped : Nat]
  BY DEF Extractions, PP!IncomingRow

-----------------------------------------------------------------------------
(* The pipeline around the extraction                                      *)

LEMMA SameWaits ==
  ASSUME NEW p
  PROVE  /\ \A q : P!WaitsFor(p, q) <=> PP!WaitsFor(p, q)
         /\ P!Source(p) = PP!Source(p) /\ P!Rows(p) = PP!Rows(p)
         /\ P!NextRow(p) = PP!NextRow(p)
         /\ P!Executing(p) <=> PP!Executing(p)
         /\ \A f : P!VisibleCell(p, f) = PP!VisibleCell(p, f)
         /\ P!EmptyTable = PP!EmptyTable /\ P!NoTxn = PP!NoTxn
         /\ P!NoExtraction = PP!NoExtraction /\ P!Zero = PP!Zero
         /\ P!OnCycle(p) <=> PP!OnCycle(p)
  <1>1. /\ P!Source(p) = PP!Source(p) /\ P!Rows(p) = PP!Rows(p)
        /\ P!EmptyTable = PP!EmptyTable
        /\ P!NoExtraction = PP!NoExtraction /\ P!Zero = PP!Zero
    BY DEF P!Source, PP!Source, P!Rows, PP!Rows, P!EmptyTable, PP!EmptyTable,
       P!NoExtraction, PP!NoExtraction, P!Zero, PP!Zero
  <1>2. /\ P!NextRow(p) = PP!NextRow(p) /\ P!NoTxn = PP!NoTxn
        /\ P!Executing(p) <=> PP!Executing(p)
        /\ \A f : P!VisibleCell(p, f) = PP!VisibleCell(p, f)
    BY <1>1 DEF P!NextRow, PP!NextRow, P!Executing, PP!Executing, P!NoTxn, PP!NoTxn,
       P!VisibleCell, PP!VisibleCell
  <1>3. \A a, b : P!WaitsFor(a, b) <=> PP!WaitsFor(a, b)
    BY DEF P!WaitsFor, PP!WaitsFor, P!Executing, PP!Executing, P!Holds, PP!Holds,
       P!NextRow, PP!NextRow, P!Source, PP!Source, P!Rows, PP!Rows
  <1>4. P!OnCycle(p) <=> PP!OnCycle(p)
    BY <1>3 DEF P!OnCycle, PP!OnCycle
  <1> QED
    BY <1>1, <1>2, <1>3, <1>4

(* But for what an extraction returns the two instances take the same      *)
(* steps.                                                                  *)
LEMMA SamePipeline ==
  ASSUME NEW p
  PROVE  /\ P!Step(p) => PP!Step(p)
         /\ P!ServerError(p) => PP!ServerError(p)
         /\ P!LedgerRaises(p) => PP!LedgerRaises(p)
         /\ P!Dies(p) => PP!Dies(p)
         /\ P!StartSourceRun(p) => PP!StartSourceRun(p)
         /\ P!ExtractRaises(p) => PP!ExtractRaises(p)
  <1>1. /\ P!UpsertSources(p) => PP!UpsertSources(p)
        /\ P!StartRun(p) => PP!StartRun(p)
        /\ P!StartSourceRun(p) => PP!StartSourceRun(p)
        /\ P!ExtractRaises(p) => PP!ExtractRaises(p)
    BY SameWaits DEF P!UpsertSources, PP!UpsertSources, P!StartRun, PP!StartRun,
       P!StartSourceRun, PP!StartSourceRun, P!ExtractRaises, PP!ExtractRaises,
       P!Transition, PP!Transition
  <1>2. P!Extract(p) => PP!Extract(p)
    BY OthersAssumption DEF P!Extract, PP!Extract, P!Transition, PP!Transition
  <1>3. P!BeginLoad(p) => PP!BeginLoad(p)
    BY SameWaits DEF P!BeginLoad, PP!BeginLoad
  <1>4. P!UpsertRow(p) => PP!UpsertRow(p)
    BY SameWaits DEF P!UpsertRow, PP!UpsertRow, P!Upsert, PP!Upsert, P!Moves, PP!Moves
  <1>5. P!CommitLoad(p) => PP!CommitLoad(p)
    <2>1. [f \in NaturalKeys |-> P!VisibleCell(p, f)] = [f \in NaturalKeys |-> PP!VisibleCell(p, f)]
      BY SameWaits
    <2> QED
      BY <2>1, SameWaits DEF P!CommitLoad, PP!CommitLoad, P!Transition, PP!Transition
  <1>6. P!Abort(p) => PP!Abort(p)
    BY SameWaits DEF P!Abort, PP!Abort, P!Transition, PP!Transition
  <1>7. /\ P!RowRefused(p) => PP!RowRefused(p)
        /\ P!DeadlockVictim(p) => PP!DeadlockVictim(p)
        /\ P!ServerError(p) => PP!ServerError(p)
    BY <1>6, SameWaits DEF P!RowRefused, PP!RowRefused, P!DeadlockVictim,
       PP!DeadlockVictim, P!ServerError, PP!ServerError
  <1>8. \A from, status, counts :
            P!FinishSourceRun(p, from, status, counts)
                => PP!FinishSourceRun(p, from, status, counts)
    BY SameWaits DEF P!FinishSourceRun, PP!FinishSourceRun
  <1>9. /\ P!CloseUnextracted(p) => PP!CloseUnextracted(p)
        /\ P!CloseRolledBack(p) => PP!CloseRolledBack(p)
        /\ P!CloseLoaded(p) => PP!CloseLoaded(p)
    BY <1>8, SameWaits DEF P!CloseUnextracted, PP!CloseUnextracted,
       P!CloseRolledBack, PP!CloseRolledBack, P!CloseLoaded, PP!CloseLoaded,
       P!Counts, PP!Counts
  <1>10. /\ P!FinishRun(p) => PP!FinishRun(p)
         /\ P!LedgerRaises(p) => PP!LedgerRaises(p)
         /\ P!Dies(p) => PP!Dies(p)
    BY SameWaits DEF P!FinishRun, PP!FinishRun, P!LedgerRaises, PP!LedgerRaises,
       P!Dies, PP!Dies, P!Leaves, PP!Leaves, P!Gone, PP!Gone, P!Transition,
       PP!Transition, P!Verdict, PP!Verdict
  <1> QED
    BY <1>1, <1>2, <1>3, <1>4, <1>5, <1>7, <1>9, <1>10 DEF P!Step, PP!Step

-----------------------------------------------------------------------------
(* What an extraction makes of its rows                                    *)

Keyed == [fact : NaturalKeys, value : 0..100]

LEMMA MissingIsNoRate == ~IsRate(Missing)
  BY MarkersAssumption DEF IsRate

LEMMA ApiObserves ==
  ASSUME BaseInv, pc = "reading", source = "world_bank_api", NEW row
  PROVE  /\ Usable(row) <=> Fate(row) = "observed"
         /\ Usable(row) => Reading(row) = Made(row) /\ Reading(row) \in Keyed
  <1>1. config.min_year = FirstYear /\ config.min_year \in Int
    BY ConfigIsSane DEF BaseInv, config, Config, FirstYear
  <1>2. Usable(row) <=>
             /\ row # NotAnObject
             /\ IsCountry(row.code) /\ Wants(Upper(row.code))
             /\ IsYear(row.year) /\ row.year >= FirstYear
             /\ IsRate(row.value)
    BY WantsWhatIsAsked DEF Usable
  <1>3. ~IsRate(Missing)
    BY MissingIsNoRate
  <1>4. IsCountry(row.code) => Upper(row.code) # Missing /\ Upper(row.code) \notin Aggregates
    BY MarkersAssumption DEF IsCountry
  <1>5. IsYear(row.year) => row.year \in Int
    BY ThisYearAssumption DEF IsYear, MIN_SUPPORTED_YEAR
  <1>6. Fate(row) = RecordFate(row)
    BY FateIs
  <1>7. Usable(row) <=> Fate(row) = "observed"
    BY <1>1, <1>2, <1>3, <1>4, <1>5, <1>6 DEF RecordFate, OutOfScope, Create
  <1>8. ASSUME Usable(row) PROVE Reading(row) = Made(row) /\ Reading(row) \in Keyed
    BY <1>2, <1>8 DEF Reading, Made, Observed, Keyed, NaturalKeys, IsCountry, IsYear, IsRate
  <1> QED
    BY <1>7, <1>8

LEMMA CsvObserves ==
  ASSUME BaseInv, pc = "reading", source = "owid_csv", NEW row
  PROVE  /\ Usable(row) <=> Fate(row) = "observed"
         /\ Usable(row) => Reading(row) = Made(row) /\ Reading(row) \in Keyed
  <1>1. config.min_year = FirstYear /\ config.min_year \in Int
    BY ConfigIsSane DEF BaseInv, config, Config, FirstYear
  <1>2. Usable(row) <=>
             /\ row.code \in Codes \ Aggregates /\ Wants(row.code)
             /\ IsYear(row.year) /\ row.year >= FirstYear
             /\ IsRate(row.value)
    BY WantsWhatIsAsked DEF Usable
  <1>3. ~IsRate(Missing)
    BY MissingIsNoRate
  <1>4. row.code \in Codes \ Aggregates => Upper(row.code) = row.code /\ IsCountry(row.code)
    BY CodeIsUpper DEF IsCountry
  <1>5. IsYear(row.year) => row.year \in Int /\ row.year # Fractional
    BY ThisYearAssumption, MarkersAssumption DEF IsYear, MIN_SUPPORTED_YEAR
  <1>6. Fate(row) = CsvRowFate(row)
    BY FateIs
  <1>7. Usable(row) <=> Fate(row) = "observed"
    BY <1>1, <1>2, <1>3, <1>4, <1>5, <1>6 DEF CsvRowFate, InFrame, Reaches, Create
  <1>8. ASSUME Usable(row) PROVE Reading(row) = Made(row) /\ Reading(row) \in Keyed
    BY <1>2, <1>4, <1>8 DEF Reading, Made, Observed, Keyed, NaturalKeys, IsYear, IsRate
  <1> QED
    BY <1>7, <1>8

LEMMA TableObserves ==
  ASSUME BaseInv, pc = "reading", source = "wikipedia_cia", NEW row \in Seq(Cell)
  PROVE  /\ Usable(row) <=> Fate(row) = "observed"
         /\ Usable(row) => Reading(row) = Made(row) /\ Reading(row) \in Keyed
  <1>1. column.offset \in Nat /\ Len(row) \in Nat
    BY DEF BaseInv, TypeOK
  <1>2. /\ ~(Len(row) <= value_index) <=> Len(row) > column.offset + 1
        /\ ValueCell(row) = row[column.offset + 2]
    BY <1>1 DEF value_index, ValueCell
  <1>3. Usable(row) <=>
             /\ Len(row) > column.offset + 1
             /\ Tracked(row) /\ Wants(Iso3(row))
             /\ IsYear(column.year)
             /\ IsRate(row[column.offset + 2].figure)
    BY WantsWhatIsAsked DEF Usable
  <1>4. ~IsRate(Missing)
    BY MissingIsNoRate
  <1>5. Tracked(row) => /\ Iso3(row) \in Codes \ Aggregates /\ Upper(Iso3(row)) = Iso3(row)
                        /\ IsCountry(Iso3(row)) /\ row[1].name # NoName
    BY TrackedAssumption, NoNameAssumption, CodeIsUpper DEF Tracked, Iso3, IsCountry
  <1>6. Fate(row) = TableRowFate(row)
    BY FateIs
  <1>7. Usable(row) <=> Fate(row) = "observed"
    BY <1>2, <1>3, <1>4, <1>5, <1>6 DEF TableRowFate, Create
  <1>8. ASSUME Usable(row) PROVE Reading(row) = Made(row) /\ Reading(row) \in Keyed
    BY <1>2, <1>3, <1>5, <1>8 DEF Reading, Made, Observed, Keyed, NaturalKeys, IsYear, IsRate
  <1> QED
    BY <1>7, <1>8

(* The code observes exactly the usable rows, as what they say.            *)
LEMMA ObservesTheUsable ==
  ASSUME BaseInv, pc = "reading", NEW row \in RowsOf(source)
  PROVE  /\ Usable(row) <=> Fate(row) = "observed"
         /\ Usable(row) => Reading(row) = Made(row) /\ Reading(row) \in Keyed
  BY ApiObserves, CsvObserves, TableObserves, RowsAre DEF BaseInv, TypeOK, Keys

-----------------------------------------------------------------------------
(* What has been said so far                                               *)

Sound == {row \in RowsOf(source) : Usable(row)}

Meaning == [row \in RowsOf(source) |-> Reading(row)]

(* The usable rows among those already classified, and what they say.      *)
Said == [i \in {i \in 1..done : rows[i] \in Sound} |-> Meaning[rows[i]]]

About(said, f) == {i \in DOMAIN said : said[i].fact = f}

(* Everything said is in the list, and the last word on a fact is the last *)
(* in the list.                                                            *)
Renders(some, said) ==
    /\ some \in Seq(Keyed)
    /\ Len(some) = Cardinality(DOMAIN said)
    /\ \A f \in NaturalKeys :
           \/ /\ About(said, f) = {}
              /\ \A k \in 1..Len(some) : some[k].fact # f
           \/ \E i \in About(said, f), k \in 1..Len(some) :
                  /\ \A j \in About(said, f) : j <= i
                  /\ some[k] = said[i]
                  /\ \A l \in 1..Len(some) : l > k => some[l].fact # f

SaidInv ==
    /\ BulkInv
    /\ Renders(observations, Said)
    /\ pc = "returned" => AllRead

LEMMA SameMeaning ==
  ASSUME UNCHANGED <<env, source, column>>
  PROVE  Sound' = Sound /\ Meaning' = Meaning
  <1>1. \A row : Usable(row)' <=> Usable(row)
    BY DEF Usable, AsksFor, FirstYear, Tracked, Iso3
  <1>2. \A row : Reading(row)' = Reading(row)
    BY DEF Reading, Tracked, Iso3
  <1> QED
    BY <1>1, <1>2 DEF Sound, Meaning

LEMMA SaidDomain == DOMAIN Said = {i \in 1..done : rows[i] \in Sound}
  BY DEF Said

(* One more word.                                                          *)
LEMMA SayingMore ==
  ASSUME NEW n \in Nat, NEW said, NEW some, NEW x \in Keyed,
         DOMAIN said \subseteq 1..n, Renders(some, said)
  PROVE  Renders(Append(some, x),
                 [i \in DOMAIN said \cup {n + 1} |-> IF i = n + 1 THEN x ELSE said[i]])
  <1> DEFINE longer == Append(some, x)
             more == [i \in DOMAIN said \cup {n + 1} |-> IF i = n + 1 THEN x ELSE said[i]]
  <1>1. /\ some \in Seq(Keyed) /\ Len(some) \in Nat /\ longer \in Seq(Keyed)
        /\ Len(longer) = Len(some) + 1 /\ longer[Len(some) + 1] = x
        /\ \A k \in 1..Len(some) : longer[k] = some[k]
    BY DEF Renders
  <1>2. /\ DOMAIN more = DOMAIN said \cup {n + 1} /\ n + 1 \notin DOMAIN said
        /\ more[n + 1] = x /\ \A i \in DOMAIN said : more[i] = said[i]
    OBVIOUS
  <1>3. Cardinality(DOMAIN more) = Len(longer)
    <2>1. IsFiniteSet(1..n)
      BY FS_Interval
    <2>2. IsFiniteSet(DOMAIN said)
      BY <2>1, FS_Subset
    <2>3. Cardinality(DOMAIN more) = Cardinality(DOMAIN said) + 1
      BY <1>2, <2>2, FS_AddElement
    <2> QED
      BY <1>1, <2>3 DEF Renders
  <1> HIDE DEF longer, more
  <1>4. ASSUME NEW f \in NaturalKeys
        PROVE  \/ /\ About(more, f) = {}
                  /\ \A k \in 1..Len(longer) : longer[k].fact # f
               \/ \E i \in About(more, f), k \in 1..Len(longer) :
                      /\ \A j \in About(more, f) : j <= i
                      /\ longer[k] = more[i]
                      /\ \A l \in 1..Len(longer) : l > k => longer[l].fact # f
    <2>1. CASE x.fact = f
      <3>1. n + 1 \in About(more, f) /\ \A j \in About(more, f) : j <= n + 1
        BY <1>2, <2>1 DEF About
      <3>2. /\ Len(longer) \in 1..Len(longer) /\ longer[Len(longer)] = more[n + 1]
            /\ \A l \in 1..Len(longer) : ~(l > Len(longer))
        BY <1>1, <1>2
      <3> QED
        BY <3>1, <3>2
    <2>2. CASE x.fact # f
      <3>1. About(more, f) = About(said, f)
        BY <1>2, <2>2 DEF About
      <3>2. CASE /\ About(said, f) = {}
                 /\ \A k \in 1..Len(some) : some[k].fact # f
        BY <1>1, <2>2, <3>1, <3>2
      <3>3. ASSUME NEW i \in About(said, f), NEW k \in 1..Len(some),
                   \A j \in About(said, f) : j <= i,
                   some[k] = said[i],
                   \A l \in 1..Len(some) : l > k => some[l].fact # f
            PROVE  \E a \in About(more, f), b \in 1..Len(longer) :
                      /\ \A j \in About(more, f) : j <= a
                      /\ longer[b] = more[a]
                      /\ \A l \in 1..Len(longer) : l > b => longer[l].fact # f
        <4>1. i \in About(more, f) /\ \A j \in About(more, f) : j <= i
          BY <3>1, <3>3
        <4>2. k \in 1..Len(longer) /\ longer[k] = more[i]
          BY <1>1, <1>2, <3>3 DEF About
        <4>3. \A l \in 1..Len(longer) : l > k => longer[l].fact # f
          BY <1>1, <2>2, <3>3
        <4> QED
          BY <4>1, <4>2, <4>3
      <3> QED
        BY <3>2, <3>3 DEF Renders
    <2> QED
      BY <2>1, <2>2
  <1>5. Renders(longer, more)
    BY <1>1, <1>3, <1>4 DEF Renders
  <1> QED
    BY <1>5 DEF longer, more

LEMMA NothingSaid ==
  ASSUME NEW said, DOMAIN said = {}
  PROVE  Renders(<<>>, said)
  <1>1. Cardinality(DOMAIN said) = 0
    BY FS_EmptySet
  <1>2. Len(<<>>) = 0 /\ 1..Len(<<>>) = {} /\ <<>> \in Seq(Keyed)
    OBVIOUS
  <1>3. \A f : About(said, f) = {}
    BY DEF About
  <1> QED
    BY <1>1, <1>2, <1>3 DEF Renders

LEMMA TakingSays ==
  ASSUME BaseInv, SaidInv, TakesRow, UNCHANGED <<env, source>>
  PROVE  SaidInv'
  <1>1. /\ done \in Nat /\ done + 1 \in 1..Len(rows) /\ done' = done + 1 /\ rows' = rows
        /\ pc = "reading" /\ pc' = "reading" /\ NextRow = rows[done + 1]
    BY DEF BaseInv, TypeOK, TakesRow, Takes, AllRead, NextRow
  <1>2. NextRow \in RowsOf(source)
    BY <1>1 DEF BaseInv, TypeOK
  <1>3. Sound' = Sound /\ Meaning' = Meaning
    BY SameMeaning DEF TakesRow
  <1>4. NextRow \in Sound <=> Fate(NextRow) = "observed"
    BY <1>1, <1>2, ObservesTheUsable DEF Sound
  <1>5. BulkInv'
    BY <1>1 DEF BulkInv
  <1>6. CASE Fate(NextRow) = "observed"
    <2>1. observations' = Append(observations, Made(NextRow))
      BY <1>6 DEF TakesRow, Takes
    <2>2. Meaning[NextRow] = Made(NextRow) /\ Made(NextRow) \in Keyed
      BY <1>1, <1>2, <1>4, <1>6, ObservesTheUsable DEF Meaning, Sound
    <2> DEFINE x == Made(NextRow)
    <2>3. DOMAIN Said \subseteq 1..done
      BY SaidDomain
    <2>4. {i \in 1..done' : rows'[i] \in Sound'} = DOMAIN Said \cup {done + 1}
      BY <1>1, <1>3, <1>4, <1>6, SaidDomain
    <2>5. Said' = [i \in DOMAIN Said \cup {done + 1} |-> Meaning[rows[i]]]
      BY <1>1, <1>3, <2>4 DEF Said
    <2>6. ASSUME NEW i \in DOMAIN Said \cup {done + 1}
          PROVE  Meaning[rows[i]] = IF i = done + 1 THEN x ELSE Said[i]
      BY <1>1, <2>2 DEF Said
    <2> HIDE DEF x
    <2>7. Said' = [i \in DOMAIN Said \cup {done + 1} |-> IF i = done + 1 THEN x ELSE Said[i]]
      BY <2>5, <2>6
    <2>8. x \in Keyed /\ observations' = Append(observations, x)
      BY <2>1, <2>2 DEF x
    <2>9. Renders(observations, Said)
      BY DEF SaidInv
    <2>10. Renders(Append(observations, x),
              [i \in DOMAIN Said \cup {done + 1} |-> IF i = done + 1 THEN x ELSE Said[i]])
      BY <1>1, <2>3, <2>8, <2>9, SayingMore, ZenonT(60)
    <2>11. Renders(observations', Said')
      BY <2>7, <2>8, <2>10
    <2>12. Renders(observations, Said)'
      BY <2>11 DEF Renders, About
    <2> QED
      BY <1>1, <1>5, <2>12 DEF SaidInv
  <1>7. CASE Fate(NextRow) # "observed"
    <2>1. observations' = observations
      BY <1>7 DEF TakesRow, Takes
    <2>2. {i \in 1..done' : rows'[i] \in Sound'} = {i \in 1..done : rows[i] \in Sound}
      BY <1>1, <1>3, <1>4, <1>7
    <2>3. Said' = Said
      BY <1>1, <1>3, <2>2 DEF Said
    <2> QED
      BY <1>1, <1>5, <2>1, <2>3 DEF SaidInv, Renders, About
  <1> QED
    BY <1>6, <1>7

LEMMA ReadingSays ==
  ASSUME BaseInv, SaidInv, ReadsRows, UNCHANGED <<env, source>>
  PROVE  SaidInv'
  <1>1. PICK some \in Seq(RowsOf(source)) : rows' = rows \o some
    BY DEF ReadsRows
  <1>2. /\ rows \in Seq(RowsOf(source)) /\ done \in Nat /\ done <= Len(rows)
        /\ done' = done /\ pc = "fetching" /\ pc' = "reading"
        /\ observations' = observations
    BY DEF BaseInv, TypeOK, ReadsRows
  <1>3. BulkInv'
    BY <1>2 DEF BulkInv
  <1>4. Said' = Said
    <2>1. CASE source = "world_bank_api"
      <3>1. Sound' = Sound /\ Meaning' = Meaning
        BY <2>1, SameMeaning DEF ReadsRows
      <3>2. \A i \in 1..done : rows'[i] = rows[i]
        BY <1>1, <1>2
      <3>3. {i \in 1..done' : rows'[i] \in Sound'} = {i \in 1..done : rows[i] \in Sound}
        BY <1>2, <3>1, <3>2
      <3> QED
        BY <1>2, <3>1, <3>2, <3>3 DEF Said
    <2>2. CASE source # "world_bank_api"
      <3>1. rows = <<>>
        BY <1>2, <2>2 DEF SaidInv, BulkInv
      <3>2. 1..done = {} /\ 1..done' = {}
        BY <1>2, <3>1
      <3>3. {i \in 1..done' : rows'[i] \in Sound'} = {}
            /\ {i \in 1..done : rows[i] \in Sound} = {}
        BY <3>2
      <3>4. Said = [i \in {} |-> Meaning[rows[i]]] /\ Said' = [i \in {} |-> Meaning'[rows'[i]]]
        BY <3>3 DEF Said
      <3> QED
        BY <3>4
    <2> QED
      BY <2>1, <2>2
  <1> QED
    BY <1>2, <1>3, <1>4 DEF SaidInv, Renders, About

LEMMA QuietSays ==
  ASSUME SaidInv, UNCHANGED <<extraction, column, env, source>>,
         pc' \in {"configure", "request", "fetching"} =>
             source = "world_bank_api" \/ pc \in {"configure", "request", "fetching"},
         pc' = "returned" => AllRead
  PROVE  SaidInv'
  <1>1. /\ Sound' = Sound /\ Meaning' = Meaning
        /\ UNCHANGED <<rows, done, observations>>
    BY SameMeaning DEF extraction
  <1>2. Said' = Said
    BY <1>1 DEF Said
  <1>3. BulkInv'
    BY <1>1 DEF SaidInv, BulkInv
  <1> QED
    BY <1>1, <1>2, <1>3 DEF SaidInv, Renders, About, AllRead

LEMMA StepSays == BaseInv /\ SaidInv /\ [Next]_vars => SaidInv'
  <1>1. ASSUME SaidInv, UNCHANGED vars PROVE SaidInv'
    BY <1>1, QuietSays DEF vars, extractionVars, SaidInv
  <1>2. ASSUME BaseInv, SaidInv, Next PROVE SaidInv'
    <2>m. Moves
      BY <1>2, EveryStepMoves DEF BaseInv
    <2>1. UNCHANGED <<env, source>>
      BY <2>m DEF Moves
    <2>2. CASE Quiet
      <3>1. pc' = "returned" => AllRead
        <4>1. CASE pc = "reading"
          BY <1>2, <2>2, <4>1, Leaving DEF Quiet
        <4>2. CASE pc # "reading"
          BY <1>2, <4>2, Staying DEF SaidInv
        <4> QED
          BY <4>1, <4>2
      <3> QED
        BY <1>2, <2>1, <2>2, <2>m, <3>1, QuietSays DEF Moves, Quiet
    <2> QED
      BY <1>2, <2>1, <2>2, Steps, TakingSays, ReadingSays DEF BaseInv
  <1> QED
    BY <1>1, <1>2

LEMMA InitSays == Init => SaidInv
  <1> SUFFICES ASSUME Init PROVE SaidInv
    OBVIOUS
  <1>1. rows = <<>> /\ done = 0 /\ observations = <<>> /\ pc = "configure"
    BY DEF Init, ExtractionInit
  <1>2. 1..done = {}
    BY <1>1
  <1>3. DOMAIN Said = {}
    BY <1>2 DEF Said
  <1>4. Renders(<<>>, Said)
    BY <1>3, NothingSaid
  <1> QED
    BY <1>1, <1>4 DEF SaidInv, BulkInv

-----------------------------------------------------------------------------
(* One extraction after another                                            *)

ExtractInv == BaseInv /\ CountInv /\ DocumentInv /\ SaidInv

(* Whatever the extraction before it left behind, a call starts anew.      *)
LEMMA CallStartsAnew ==
  ASSUME ExtractInv, CallsExtract, P!Source(watched) \in Keys
  PROVE  ExtractInv'
  <1>1. /\ source' \in Keys /\ published' \in Serves(source')
        /\ pc' = "request" /\ page' = 1 /\ steady' = TRUE /\ column' = NoColumn
        /\ rows' = <<>> /\ done' = 0
        /\ observations' = <<>> /\ rejections' = 0 /\ skipped' = 0
        /\ UNCHANGED <<fetchVars, env>>
        /\ pc \notin {"configure", "refused"}
    BY DEF CallsExtract, HasConfig
  <1>2. BaseInv'
    <2>1. FetchTypeOK'
      BY <1>1 DEF ExtractInv, BaseInv, TypeOK, FetchTypeOK, fetchVars
    <2>2. rows' \in Seq(RowsOf(source')) /\ done' \in 0..Len(rows')
          /\ observations' \in Seq(Observations) /\ rejections' \in Nat /\ skipped' \in Nat
      BY <1>1
    <2>3. page' \in 1..(MAX_PAGES + 1) /\ page' <= MAX_PAGES
      BY <1>1, PagingAssumption
    <2>4. Configures(env') /\ env' \in Envs
      BY <1>1 DEF ExtractInv, BaseInv, TypeOK
    <2>5. steady' \in BOOLEAN /\ column' \in [offset : Nat, year : Nat]
      BY <1>1 DEF NoColumn
    <2>6. TypeOK'
      BY <1>1, <2>1, <2>2, <2>3, <2>4, <2>5 DEF TypeOK
    <2> QED
      BY <2>3, <2>4, <2>6 DEF BaseInv
  <1>3. 1..done' = {}
    BY <1>1
  <1>4. BulkInv'
    BY <1>1 DEF BulkInv
  <1>5. CountInv'
    <2>1. Rejected' = {}
      BY <1>3 DEF Rejected
    <2>2. Len(observations') + rejections' + skipped' = done'
      BY <1>1
    <2> QED
      BY <1>1, <1>4, <2>1, <2>2, FS_EmptySet DEF CountInv
  <1>6. DocumentInv'
    <2>1. source' = "world_bank_api" => rows' = FirstPages(published', page' - 1)
      <3> SUFFICES ASSUME source' = "world_bank_api"
                   PROVE  rows' = FirstPages(published', page' - 1)
        OBVIOUS
      <3>1. published' \in Tables
        BY <1>1 DEF Serves
      <3>2. Len(published') \in Nat
        BY <3>1, TablesAssumption
      <3>3. (page' - 1) * PAGE_SIZE = 0
        BY <1>1, PagingAssumption
      <3>4. FirstPages(published', page' - 1) = SubSeq(published', 1, 0)
        BY <3>2, <3>3 DEF FirstPages
      <3> QED
        BY <1>1, <3>4, SubSeqEmpty
    <2> QED
      BY <1>1, <1>4, <2>1 DEF DocumentInv
  <1>7. SaidInv'
    <2>1. DOMAIN Said' = {}
      BY <1>3 DEF Said
    <2>2. Renders(<<>>, Said')
      BY <2>1, NothingSaid
    <2> QED
      BY <1>1, <1>4, <2>2 DEF SaidInv, Renders, About
  <1> QED
    BY <1>2, <1>5, <1>6, <1>7 DEF ExtractInv

(* What the whole does to the extraction in hand.                          *)
LEMMA WholeMovesExtraction ==
  ASSUME [WholeNext]_wholeVars
  PROVE  \/ Next /\ (LoadsConfig \/ Extracting)
         \/ CallsExtract
         \/ UNCHANGED vars
  <1>1. LoadsConfig => Next
    BY DEF LoadsConfig, Next, Extracts, Starts
  <1>2. Extracting => Next
    BY DEF Extracting, Next
  <1>3. Returns \/ Raises \/ Proceeds \/ Fails \/ Others \/ WholeOver => UNCHANGED vars
    BY DEF Returns, Raises, Proceeds, Fails, Others, WholeOver, wholeVars, vars
  <1> QED
    BY <1>1, <1>2, <1>3 DEF WholeNext, wholeVars

LEMMA WholeKeepsExtraction ==
  ASSUME ExtractInv, P!Source(watched) \in Keys, [WholeNext]_wholeVars
  PROVE  ExtractInv'
  BY WholeMovesExtraction, CallStartsAnew, StepBase, StepCounts, StepKeepsDocument, StepSays
     DEF ExtractInv

-----------------------------------------------------------------------------
(* The whole is a pipeline                                                 *)

LEMMA WatchedIs == watched \in Procs
  BY WatchedAssumption

LEMMA ResultIsAnExtraction ==
  ASSUME ExtractInv
  PROVE  ExtractionResult \in Extractions
  <1>1. observations \in Seq(Keyed) /\ rejections \in Nat /\ skipped \in Nat
    BY DEF ExtractInv, SaidInv, Renders, BaseInv, TypeOK
  <1>2. Keyed \subseteq [fact : NaturalKeys, value : Int]
    BY DEF Keyed
  <1> DEFINE incoming == [fact : NaturalKeys, value : Int]
  <1>3. \A i \in 1..Len(observations) : observations[i] \in incoming
    BY <1>1, <1>2
  <1> HIDE DEF incoming
  <1>4. observations \in Seq(incoming)
    BY <1>1, <1>3
  <1> QED
    BY <1>1, <1>4 DEF ExtractionResult, Extractions, incoming

LEMMA ReturnsExtracts ==
  ASSUME ExtractInv, Returns
  PROVE  PP!Extract(watched)
  <1>1. ExtractionResult \in Extractions
    BY ResultIsAnExtraction
  <1>2. \E x \in Extractions : ext' = [ext EXCEPT ![watched] = x]
    BY <1>1 DEF Returns
  <1>3. PP!Transition(watched, "extract", "load")
    BY DEF Returns, P!Transition, PP!Transition
  <1> QED
    BY <1>2, <1>3 DEF Returns, PP!Extract

(* What an invocation may do in Pipeline.                                  *)
Acts(p) == PP!Step(p) \/ PP!ServerError(p) \/ PP!LedgerRaises(p) \/ PP!Dies(p)

(* Whoever takes a step of the whole takes one of Pipeline, or none.       *)
LEMMA WholeStep ==
  ASSUME ExtractInv, [WholeNext]_wholeVars
  PROVE  \/ Acts(watched)
         \/ \E q \in Procs \ {watched} : Acts(q)
         \/ UNCHANGED pipelineVars
  <1>1. LoadsConfig \/ Extracting \/ WholeOver => UNCHANGED pipelineVars
    BY DEF LoadsConfig, Extracting, WholeOver, wholeVars
  <1>2. CallsExtract => PP!Step(watched)
    BY SamePipeline DEF CallsExtract, PP!Step
  <1>3. Returns => PP!Step(watched)
    BY ReturnsExtracts DEF PP!Step
  <1>4. Raises => PP!Step(watched)
    BY SamePipeline DEF Raises, PP!Step
  <1>5. Proceeds => PP!Step(watched)
    BY SamePipeline DEF Proceeds
  <1>6. Fails => Acts(watched)
    BY SamePipeline DEF Fails, WriteRaises, Acts
  <1>7. Others => \E q \in Procs \ {watched} : Acts(q)
    BY SamePipeline DEF Others, Acts
  <1>8. UNCHANGED wholeVars => UNCHANGED pipelineVars
    BY DEF wholeVars
  <1> QED
    BY <1>1, <1>2, <1>3, <1>4, <1>5, <1>6, <1>7, <1>8 DEF WholeNext, Acts

LEMMA WholeStepIsPipelines ==
  ASSUME ExtractInv, [WholeNext]_wholeVars
  PROVE  [PP!Next]_(PP!vars)
  <1>1. UNCHANGED pipelineVars => UNCHANGED PP!vars
    BY DEF pipelineVars, PP!vars
  <1> QED
    BY <1>1, WholeStep, WatchedIs DEF PP!Next, Acts

LEMMA WholeInitIs == WholeInit => PP!Init /\ ExtractInv /\ P!Source(watched) \in Keys
  <1> SUFFICES ASSUME WholeInit PROVE PP!Init /\ ExtractInv /\ P!Source(watched) \in Keys
    OBVIOUS
  <1>1. PP!Init
    BY SameWaits DEF WholeInit, P!Init, PP!Init, P!NoEntry, PP!NoEntry, P!Zero, PP!Zero,
       P!NoTxn, PP!NoTxn, P!EmptyTable, PP!EmptyTable, P!NoExtraction, PP!NoExtraction
  <1>2. ExtractInv
    BY InitBase, InitCounts, InitDocument, InitSays DEF WholeInit, ExtractInv
  <1>3. P!Source(watched) \in Keys
    BY DEF WholeInit, Init
  <1> QED
    BY <1>1, <1>2, <1>3

LEMMA SourceIsKey ==
  ASSUME PP!TypeOK
  PROVE  P!Source(watched) \in Keys
  <1>1. PP!Source(watched) \in Keys
    BY RefusedIs, NoRowIs, OrderIs, ExtractionsAre, WatchedIs, PP!SourceType
  <1> QED
    BY <1>1, SameWaits

LEMMA PipelineKeepsType ==
  ASSUME PP!TypeOK, [PP!Next]_(PP!vars)
  PROVE  PP!TypeOK'
  <1>1. ASSUME NEW p \in Procs, Acts(p)
        PROVE  PP!TypeOK'
    BY <1>1, RefusedIs, NoRowIs, OrderIs, ExtractionsAre, PP!StepType DEF Acts
  <1>2. CASE UNCHANGED PP!vars
    BY <1>2 DEF PP!TypeOK, PP!vars
  <1> QED
    BY <1>1, <1>2 DEF PP!Next, PP!Terminated, Acts

LEMMA ExtractionInductive == WholeSpec => [](ExtractInv /\ PP!TypeOK)
  <1>1. PP!Init => PP!TypeOK
    BY RefusedIs, NoRowIs, OrderIs, ExtractionsAre, PP!InitType
  <1>2. ExtractInv /\ PP!TypeOK /\ [WholeNext]_wholeVars => (ExtractInv /\ PP!TypeOK)'
    BY WholeStepIsPipelines, WholeKeepsExtraction, SourceIsKey, PipelineKeepsType
  <1> QED
    BY <1>1, <1>2, WholeInitIs, PTL DEF WholeSpec

(* A run with its extractions request by request and row by row is a run   *)
(* of Pipeline: what is proved of Pipeline for extractions of any content  *)
(* holds of what the three sources really return (runner.py 81-177).       *)
THEOREM WholeRunsPipeline == WholeSpec => PP!Spec
  <1>1. WholeInit => PP!Init
    BY WholeInitIs
  <1>2. ExtractInv /\ [WholeNext]_wholeVars => [PP!Next]_(PP!vars)
    BY WholeStepIsPipelines
  <1> QED
    BY <1>1, <1>2, ExtractionInductive, PTL DEF WholeSpec, PP!Spec

-----------------------------------------------------------------------------
(* What the runner holds is what the extraction returned                   *)

HandInv ==
    /\ stage[watched] \notin {"register"} \cup P!Gone => registered = Keys
    /\ stage[watched] \in {"extract", "load", "close_loaded", "close_rolled_back"} =>
           source = P!Source(watched)
    /\ stage[watched] \in {"load", "close_loaded", "close_rolled_back"} =>
           pc = "returned" /\ ext[watched] = ExtractionResult

(* The statements of the runner around an extraction leave its result be.  *)
LEMMA AroundExtraction ==
  ASSUME PP!TypeOK, P!Step(watched), stage[watched] \notin {"open_source", "extract"}
  PROVE  /\ stage'[watched] # "register"
         /\ \/ registered' = Keys
            \/ UNCHANGED registered /\ stage[watched] # "register"
         /\ stage[watched] \notin P!Gone
         /\ stage'[watched] # "extract"
         /\ stage'[watched] \in {"load", "close_loaded", "close_rolled_back"} =>
                stage[watched] = "load" /\ UNCHANGED <<ext, idx>>
  <1>t. watched \in DOMAIN stage
    BY WatchedIs DEF PP!TypeOK
  <1>1. CASE P!UpsertSources(watched) \/ P!StartRun(watched) \/ P!FinishRun(watched)
    BY <1>1, <1>t DEF P!UpsertSources, P!StartRun, P!FinishRun, P!Transition, P!Gone
  <1>2. CASE P!BeginLoad(watched) \/ P!UpsertRow(watched)
    BY <1>2, <1>t DEF P!BeginLoad, P!UpsertRow, P!Executing, P!Gone
  <1>3. CASE P!CommitLoad(watched)
    BY <1>3, <1>t DEF P!CommitLoad, P!Transition, P!Gone
  <1>4. CASE P!RowRefused(watched) \/ P!DeadlockVictim(watched)
    BY <1>4, <1>t DEF P!RowRefused, P!DeadlockVictim, P!Abort, P!Transition, P!Gone
  <1>5. ASSUME NEW from \in {"close_unextracted", "close_rolled_back", "close_loaded"},
               NEW status, NEW counts, P!FinishSourceRun(watched, from, status, counts)
        PROVE  /\ stage[watched] = from /\ UNCHANGED registered
               /\ stage'[watched] \in {"open_source", "close_run"}
    BY <1>5, <1>t DEF P!FinishSourceRun
  <1>6. CASE P!CloseUnextracted(watched) \/ P!CloseRolledBack(watched) \/ P!CloseLoaded(watched)
    BY <1>5, <1>6 DEF P!CloseUnextracted, P!CloseRolledBack, P!CloseLoaded, P!Gone
  <1>7. ~(P!StartSourceRun(watched) \/ P!Extract(watched) \/ P!ExtractRaises(watched))
    BY DEF P!StartSourceRun, P!Extract, P!ExtractRaises, P!Transition
  <1> QED
    BY <1>1, <1>2, <1>3, <1>4, <1>6, <1>7 DEF P!Step

LEMMA OthersRegister ==
  ASSUME NEW q, Acts(q)
  PROVE  registered' = registered \/ registered' = Keys
  BY DEF Acts, PP!Step, PP!ServerError, PP!LedgerRaises, PP!Dies, PP!Leaves, PP!UpsertSources, PP!StartRun, PP!StartSourceRun,
     PP!Extract, PP!ExtractRaises, PP!BeginLoad, PP!UpsertRow, PP!CommitLoad, PP!RowRefused,
     PP!DeadlockVictim, PP!Abort, PP!CloseUnextracted, PP!CloseRolledBack, PP!CloseLoaded,
     PP!FinishSourceRun, PP!FinishRun

LEMMA HandStep ==
  ASSUME ExtractInv, PP!TypeOK, HandInv, [WholeNext]_wholeVars
  PROVE  HandInv'
  <1>t. watched \in DOMAIN stage /\ watched \in DOMAIN ext
    BY WatchedIs DEF PP!TypeOK
  <1>s. UNCHANGED idx => P!Source(watched)' = P!Source(watched)
    BY DEF P!Source
  <1>r. UNCHANGED extraction => ExtractionResult' = ExtractionResult
    BY DEF extraction, ExtractionResult
  <1>1. ASSUME UNCHANGED pipelineVars, UNCHANGED source, stage[watched] = "extract"
        PROVE  HandInv'
    BY <1>1, <1>s DEF pipelineVars, HandInv
  <1>2. CASE UNCHANGED vars /\ UNCHANGED pipelineVars
    BY <1>2, <1>s, <1>r DEF pipelineVars, vars, extractionVars, HandInv
  <1>3. CASE LoadsConfig
    <2>1. UNCHANGED pipelineVars /\ UNCHANGED <<source, extraction>> /\ pc = "configure"
      BY <1>3 DEF LoadsConfig, Configured, ConfigurationError, Goes
    <2> QED
      BY <2>1, <1>s DEF pipelineVars, HandInv
  <1>4. CASE CallsExtract
    <2>1. /\ stage[watched] = "open_source" /\ stage'[watched] = "extract"
          /\ UNCHANGED <<registered, idx>> /\ source' = P!Source(watched)
      BY <1>4, <1>t DEF CallsExtract, P!StartSourceRun, P!Transition
    <2> QED
      BY <2>1, <1>s DEF HandInv, P!Gone
  <1>5. CASE Extracting
    <2>1. Next
      BY <1>5 DEF Extracting, Next
    <2>2. UNCHANGED source
      BY <2>1, EveryStepMoves DEF ExtractInv, BaseInv, Moves
    <2> QED
      BY <1>1, <1>5, <2>2 DEF Extracting
  <1>6. CASE Returns
    <2>1. /\ stage[watched] = "extract" /\ stage'[watched] = "load"
          /\ UNCHANGED <<registered, idx, source, pc, extraction>>
          /\ pc = "returned" /\ ext'[watched] = ExtractionResult
      BY <1>6, <1>t DEF Returns, P!Transition, vars, extractionVars
    <2> QED
      BY <2>1, <1>s, <1>r DEF HandInv, P!Gone
  <1>7. CASE Raises
    <2>1. stage[watched] = "extract" /\ stage'[watched] = "close_unextracted"
          /\ UNCHANGED <<registered, idx>>
      BY <1>7, <1>t DEF Raises, P!ExtractRaises, P!Transition
    <2> QED
      BY <2>1 DEF HandInv, P!Gone
  <1>8. CASE Proceeds
    <2>1. P!Step(watched) /\ stage[watched] \notin {"open_source", "extract"}
          /\ UNCHANGED <<source, pc, extraction>>
      BY <1>8 DEF Proceeds, vars, extractionVars
    <2>2. HandInv
      OBVIOUS
    <2>3. stage'[watched] \notin {"register"} \cup P!Gone => registered' = Keys
      BY <2>1, AroundExtraction DEF HandInv
    <2>4. ASSUME stage'[watched] \in {"extract", "load", "close_loaded", "close_rolled_back"}
          PROVE  stage[watched] = "load" /\ UNCHANGED <<ext, idx>>
      BY <2>1, <2>4, AroundExtraction
    <2> QED
      BY <2>1, <2>3, <2>4, <1>s, <1>r DEF HandInv
  <1>9. CASE Fails
    <2>1. UNCHANGED <<registered, idx, ext, source, pc, extraction>>
      BY <1>9 DEF Fails, WriteRaises, P!ServerError, P!Abort, P!LedgerRaises, P!Dies, P!Leaves,
         vars, extractionVars
    <2>2. \/ stage[watched] = "load" /\ stage'[watched] = "close_rolled_back"
          \/ stage'[watched] \in P!Gone
      BY <1>9, <1>t DEF Fails, WriteRaises, P!ServerError, P!Abort, P!LedgerRaises, P!Dies,
         P!Leaves, P!Transition, P!Gone
    <2> QED
      BY <2>1, <2>2, <1>s, <1>r DEF HandInv, P!Gone
  <1>10. CASE Others
    <2>1. PICK q \in Procs \ {watched} : Acts(q)
      BY <1>10, SamePipeline DEF Others, Acts
    <2>2. /\ stage'[watched] = stage[watched] /\ idx'[watched] = idx[watched]
          /\ ext'[watched] = ext[watched]
      BY <2>1, WatchedIs, RefusedIs, NoRowIs, OrderIs, ExtractionsAre, PP!StepIsLocal DEF Acts
    <2>3. registered' = registered \/ registered' = Keys
      BY <2>1, OthersRegister
    <2>4. UNCHANGED <<source, pc, extraction>>
      BY <1>10 DEF Others, vars, extractionVars
    <2>5. P!Source(watched)' = P!Source(watched)
      BY <2>2 DEF P!Source
    <2> QED
      BY <2>2, <2>3, <2>4, <2>5, <1>r DEF HandInv
  <1> QED
    BY <1>2, <1>3, <1>4, <1>5, <1>6, <1>7, <1>8, <1>9, <1>10 DEF WholeNext, WholeOver, wholeVars

LEMMA InitHand == WholeInit => HandInv
  <1> SUFFICES ASSUME WholeInit PROVE HandInv
    OBVIOUS
  <1>1. stage[watched] = "register"
    BY WatchedIs DEF WholeInit, P!Init
  <1> QED
    BY <1>1 DEF HandInv

(* The extraction in hand, the pipeline, and what passes between them.     *)
WholeInv == ExtractInv /\ PP!TypeOK /\ HandInv

LEMMA WholeInductive == WholeSpec => []WholeInv
  <1> QED
    BY ExtractionInductive, InitHand, HandStep, PTL DEF WholeSpec, WholeInv

(* Every row the extractors hand over passes the constraints of the table  *)
(* and finds its source registered: none of them can fail its load         *)
(* (records.py 33-55, runner.py 106-124, 001_initial_schema.sql 19-40).    *)
THEOREM NothingIsRefused == WholeSpec => []LoadsAreAccepted
  <1>1. ASSUME WholeInv PROVE LoadsAreAccepted
    <2> SUFFICES ASSUME stage[watched] = "load"
                 PROVE  /\ P!Source(watched) \in registered
                        /\ \A i \in 1..Len(P!Rows(watched)) :
                               /\ P!Rows(watched)[i].fact \in NaturalKeys
                               /\ FitsSchema(P!Rows(watched)[i])
                               /\ P!Rows(watched)[i].value \notin Int \ (0..100)
      BY DEF LoadsAreAccepted
    <2>1. P!Source(watched) \in registered
      BY <1>1, SourceIsKey DEF WholeInv, HandInv, P!Gone
    <2>2. P!Rows(watched) = observations
      BY <1>1 DEF WholeInv, HandInv, P!Rows, ExtractionResult
    <2>3. observations \in Seq(Keyed)
      BY <1>1 DEF WholeInv, ExtractInv, SaidInv, Renders
    <2>4. ASSUME NEW o \in Keyed
          PROVE  /\ o.fact \in NaturalKeys /\ FitsSchema(o)
                 /\ o.value \notin Int \ (0..100)
      <3>1. o.fact \in NaturalKeys /\ o.value \in 0..100
        BY DEF Keyed
      <3>2. o.fact[1] \in Codes /\ o.fact[2] \in 1960..2100
        BY <3>1, ThisYearAssumption DEF NaturalKeys, MIN_SUPPORTED_YEAR
      <3> QED
        BY <3>1, <3>2 DEF FitsSchema
    <2>5. \A i \in 1..Len(observations) : observations[i] \in Keyed
      BY <2>3
    <2> QED
      BY <2>1, <2>2, <2>4, <2>5
  <1> QED
    BY <1>1, WholeInductive, PTL

-----------------------------------------------------------------------------
(* From the document to the table and the ledger                           *)

(* An extraction that has returned has read its document to the end, and   *)
(* said what its usable rows say.                                          *)
LEMMA ReturnedReadsAll ==
  ASSUME ExtractInv, pc = "returned"
  PROVE  /\ Document = rows /\ done = Len(rows) /\ Len(rows) \in Nat
         /\ UsableRows(Document) = DOMAIN Said
         /\ \A i \in DOMAIN Said : Said[i] = Reading(Document[i])
         /\ \A f : RowsAbout(Document, f) = About(Said, f)
  <1>1. Document = rows
    BY DEF Document, ExtractInv, DocumentInv
  <1>2. done = Len(rows) /\ rows \in Seq(RowsOf(source)) /\ Len(rows) \in Nat
    BY DEF ExtractInv, SaidInv, AllRead, BaseInv, TypeOK
  <1>3. \A i \in 1..done : rows[i] \in RowsOf(source)
    BY <1>2
  <1>4. UsableRows(Document) = DOMAIN Said
    BY <1>1, <1>2, <1>3, SaidDomain DEF UsableRows, Sound
  <1>5. \A i \in DOMAIN Said : Said[i] = Reading(Document[i])
    BY <1>1, <1>3, SaidDomain DEF Said, Meaning
  <1>6. \A f : RowsAbout(Document, f) = About(Said, f)
    BY <1>4, <1>5 DEF RowsAbout, About
  <1> QED
    BY <1>1, <1>2, <1>4, <1>5, <1>6

LEMMA CommitSaysDocument ==
  ASSUME WholeInv, PP!LoadInv, PP!CommitLoad(watched), NEW f \in NaturalKeys
  PROVE  LET s == P!Source(watched) IN
         /\ s = source
         /\ \/ RowsAbout(Document, f) = {} /\ obs'[s][f] = obs[s][f]
            \/ \E i \in RowsAbout(Document, f) :
                   /\ \A j \in RowsAbout(Document, f) : j <= i
                   /\ obs'[s][f] # NoRow
                   /\ obs'[s][f].value = Reading(Document[i]).value
  <1> DEFINE s == P!Source(watched)
             locked == txn[watched].locked
             image == txn[watched].image
  <1>1. /\ stage[watched] = "load" /\ txn[watched].next = Len(PP!Rows(watched))
        /\ PP!ImageInv(watched)
        /\ \A g \in locked : obs'[s][g] = image[g]
        /\ \A g \in NaturalKeys \ locked : obs'[s][g] = obs[s][g]
    BY SameWaits, WatchedIs, RefusedIs, NoRowIs, OrderIs, ExtractionsAre, PP!CommitLoadFacts
       DEF WholeInv
  <1>2. s = source /\ pc = "returned" /\ PP!Rows(watched) = observations
    BY <1>1 DEF WholeInv, HandInv, PP!Rows, ExtractionResult
  <1> HIDE DEF s, locked, image
  <1>3. observations \in Seq(Keyed) /\ Len(observations) \in Nat
        /\ Renders(observations, Said)
    BY DEF WholeInv, ExtractInv, SaidInv, Renders
  <1>4. /\ \A k \in 1..Len(observations) : observations[k].fact \in locked
        /\ \A g \in locked :
               /\ image[g] # NoRow
               /\ \E k \in 1..Len(observations) :
                      /\ observations[k].fact = g
                      /\ image[g].value = observations[k].value
                      /\ \A l \in 1..Len(observations) : l > k => observations[l].fact # g
    BY <1>1, <1>2 DEF PP!ImageInv, locked, image
  <1>5. /\ RowsAbout(Document, f) = About(Said, f)
        /\ \A i \in DOMAIN Said : Said[i] = Reading(Document[i])
    BY <1>2, ReturnedReadsAll DEF WholeInv
  <1>6. CASE /\ About(Said, f) = {}
             /\ \A k \in 1..Len(observations) : observations[k].fact # f
    <2>1. f \notin locked
      BY <1>4, <1>6
    <2> QED
      BY <1>1, <1>2, <1>5, <1>6, <2>1 DEF s
  <1>7. ASSUME NEW i \in About(Said, f), NEW k \in 1..Len(observations),
               \A j \in About(Said, f) : j <= i,
               observations[k] = Said[i],
               \A l \in 1..Len(observations) : l > k => observations[l].fact # f
        PROVE  /\ obs'[s][f] # NoRow
               /\ obs'[s][f].value = Reading(Document[i]).value
    <2>1. observations[k].fact = f /\ i \in DOMAIN Said
      BY <1>7 DEF About
    <2>2. f \in locked
      BY <1>4, <2>1
    <2>3. PICK b \in 1..Len(observations) :
              /\ observations[b].fact = f
              /\ image[f].value = observations[b].value
              /\ \A l \in 1..Len(observations) : l > b => observations[l].fact # f
      BY <1>4, <2>2
    <2>4. ~(b > k) /\ ~(k > b)
      BY <1>7, <2>1, <2>3
    <2>5. b = k
      BY <1>3, <2>4
    <2> QED
      BY <1>1, <1>4, <1>5, <1>7, <2>1, <2>2, <2>3, <2>5
  <1> QED
    BY <1>2, <1>3, <1>5, <1>6, <1>7 DEF Renders, s

(* Whatever is served, asked for and loaded beside it, a commit makes the  *)
(* table say what the usable rows of the document say, the last of each    *)
(* fact, and leaves every other fact alone (runner.py 87-118, loader.py    *)
(* 23-75).                                                                 *)
THEOREM ServedIsLanded == WholeSpec => LandsWhatWasServed
  <1>1. WholeInv /\ PP!LoadInv /\ [WholeNext]_wholeVars =>
          [\A s \in Keys : s \in landed'[watched] \ landed[watched] =>
             /\ s = source
             /\ \A f \in NaturalKeys :
                  \/ RowsAbout(Document, f) = {} /\ obs'[s][f] = obs[s][f]
                  \/ \E i \in RowsAbout(Document, f) :
                         /\ \A j \in RowsAbout(Document, f) : j <= i
                         /\ obs'[s][f] # NoRow
                         /\ obs'[s][f].value = Reading(Document[i]).value]_wholeVars
    <2> SUFFICES ASSUME WholeInv, PP!LoadInv, [WholeNext]_wholeVars,
                        NEW s \in Keys, s \in landed'[watched] \ landed[watched]
                 PROVE  /\ s = source
                        /\ \A f \in NaturalKeys :
                             \/ RowsAbout(Document, f) = {} /\ obs'[s][f] = obs[s][f]
                             \/ \E i \in RowsAbout(Document, f) :
                                    /\ \A j \in RowsAbout(Document, f) : j <= i
                                    /\ obs'[s][f] # NoRow
                                    /\ obs'[s][f].value = Reading(Document[i]).value
      OBVIOUS
    <2>1. [PP!Next]_(PP!vars)
      BY WholeStepIsPipelines DEF WholeInv
    <2>2. PP!LandsNow(watched, s)
      BY DEF PP!LandsNow
    <2>3. PP!CommitLoad(watched) /\ s = PP!Source(watched)
      BY <2>1, <2>2, WatchedIs, RefusedIs, NoRowIs, OrderIs, ExtractionsAre,
         PP!OnlyCommitLands DEF WholeInv
    <2>4. s = P!Source(watched)
      BY <2>3, SameWaits
    <2>5. stage[watched] = "load"
      BY <2>3 DEF PP!CommitLoad, PP!Transition
    <2>6. s = source
      BY <2>4, <2>5 DEF WholeInv, HandInv
    <2> QED
      BY <2>3, <2>4, <2>6, CommitSaysDocument
  <1>2. PP!Spec => []PP!LoadInv
    BY RefusedIs, NoRowIs, OrderIs, ExtractionsAre, PP!LoadInductive
  <1> QED
    BY <1>1, <1>2, WholeRunsPipeline, WholeInductive, PTL DEF WholeSpec, LandsWhatWasServed

(* Once a source has been read, its entry is written by closing it.        *)
LEMMA OnlyClosingWrites ==
  ASSUME WholeInv, [WholeNext]_wholeVars, NEW s \in Keys,
         entry'[watched][s] # entry[watched][s],
         stage[watched] \in {"close_loaded", "close_rolled_back"}
  PROVE  /\ s = P!Source(watched)
         /\ entry'[watched][s].counts =
              P!Counts(watched, IF stage[watched] = "close_loaded"
                                  THEN Len(P!Rows(watched)) ELSE 0)
  <1>1. ~UNCHANGED pipelineVars
    BY DEF pipelineVars
  <1>2. ~\E q \in Procs \ {watched} : Acts(q)
    BY WatchedIs, RefusedIs, NoRowIs, OrderIs, ExtractionsAre, PP!StepIsLocal DEF WholeInv, Acts
  <1>3. ~PP!ServerError(watched)
    BY DEF PP!ServerError, PP!Abort, PP!Transition
  <1>4. ~PP!LedgerRaises(watched) /\ ~PP!Dies(watched)
    BY DEF PP!LedgerRaises, PP!Dies, PP!Leaves
  <1>5. PP!Step(watched)
    BY <1>1, <1>2, <1>3, <1>4, WholeStep DEF WholeInv, Acts
  <1>6. \/ stage[watched] = "close_loaded" /\ PP!CloseLoaded(watched)
        \/ stage[watched] = "close_rolled_back" /\ PP!CloseRolledBack(watched)
    BY <1>5 DEF PP!Step, PP!UpsertSources, PP!StartRun, PP!StartSourceRun, PP!Extract,
       PP!ExtractRaises, PP!BeginLoad, PP!UpsertRow, PP!Executing, PP!CommitLoad,
       PP!RowRefused, PP!DeadlockVictim, PP!Abort, PP!Transition, PP!CloseUnextracted,
       PP!CloseRolledBack, PP!CloseLoaded, PP!FinishSourceRun, PP!FinishRun
  <1>7. \E status : entry' = [entry EXCEPT ![watched][PP!Source(watched)] =
             [status |-> status,
              counts |-> PP!Counts(watched, IF stage[watched] = "close_loaded"
                                              THEN Len(PP!Rows(watched)) ELSE 0)]]
    BY <1>6 DEF PP!CloseRolledBack, PP!CloseLoaded, PP!FinishSourceRun
  <1>8. /\ s = PP!Source(watched)
        /\ entry'[watched][s].counts =
              PP!Counts(watched, IF stage[watched] = "close_loaded"
                                   THEN Len(PP!Rows(watched)) ELSE 0)
    <2>1. entry \in [Procs -> [Keys ->
              [status : {"none", "running"} \cup PP!Closed, counts : PP!SourceCounts]]]
      BY DEF WholeInv, PP!TypeOK
    <2> DEFINE counts == PP!Counts(watched, IF stage[watched] = "close_loaded"
                                              THEN Len(PP!Rows(watched)) ELSE 0)
    <2> HIDE DEF counts
    <2>2. PICK status : entry' = [entry EXCEPT ![watched][PP!Source(watched)] =
                                     [status |-> status, counts |-> counts]]
      BY <1>7 DEF counts
    <2>3. s = PP!Source(watched)
      BY <2>1, <2>2, WatchedIs
    <2>4. entry'[watched][s] = [status |-> status, counts |-> counts]
      BY <2>1, <2>2, <2>3, WatchedIs
    <2> QED
      BY <2>3, <2>4 DEF counts
  <1>9. \A n : P!Counts(watched, n) = PP!Counts(watched, n)
    BY SameWaits DEF P!Counts, PP!Counts
  <1> QED
    BY <1>8, <1>9, SameWaits

(* The ledger of a source that was read accounts for its document to the   *)
(* last row: what landed, what could not be read, what was left out        *)
(* (runner.py 106-132, records.py 68-90, 001_initial_schema.sql 63-70).    *)
THEOREM DocumentIsCounted == WholeSpec => LedgerCountsDocument
  <1>1. WholeInv /\ [WholeNext]_wholeVars =>
          [\A s \in Keys :
             (/\ entry'[watched][s] # entry[watched][s]
              /\ stage[watched] \in {"close_loaded", "close_rolled_back"}) =>
                 LET counts == entry'[watched][s].counts IN
                 /\ s = source
                 /\ counts.extracted + counts.skipped = Len(Document)
                 /\ counts.extracted - counts.rejected = Cardinality(UsableRows(Document))
                 /\ counts.rejected =
                        Cardinality({i \in 1..Len(Document) : Unreadable(Document[i])})
                 /\ counts.loaded = IF stage[watched] = "close_loaded"
                                      THEN Cardinality(UsableRows(Document)) ELSE 0]_wholeVars
    <2> SUFFICES ASSUME WholeInv, [WholeNext]_wholeVars, NEW s \in Keys,
                        entry'[watched][s] # entry[watched][s],
                        stage[watched] \in {"close_loaded", "close_rolled_back"}
                 PROVE  LET counts == entry'[watched][s].counts IN
                        /\ s = source
                        /\ counts.extracted + counts.skipped = Len(Document)
                        /\ counts.extracted - counts.rejected = Cardinality(UsableRows(Document))
                        /\ counts.rejected =
                               Cardinality({i \in 1..Len(Document) : Unreadable(Document[i])})
                        /\ counts.loaded = IF stage[watched] = "close_loaded"
                                             THEN Cardinality(UsableRows(Document)) ELSE 0
      OBVIOUS
    <2> DEFINE counts == entry'[watched][s].counts
               usable == Cardinality(UsableRows(Document))
               unreadable == Cardinality({i \in 1..Len(Document) : Unreadable(Document[i])})
    <2>1. /\ s = P!Source(watched)
          /\ counts = P!Counts(watched, IF stage[watched] = "close_loaded"
                                          THEN Len(P!Rows(watched)) ELSE 0)
      BY OnlyClosingWrites
    <2>2. /\ source = P!Source(watched) /\ pc = "returned"
          /\ P!Rows(watched) = observations /\ ext[watched].rejected = rejections
          /\ ext[watched].skipped = skipped
      BY DEF WholeInv, HandInv, P!Rows, ExtractionResult
    <2>3. /\ counts.extracted = Len(observations) + rejections
          /\ counts.rejected = rejections /\ counts.skipped = skipped
          /\ counts.loaded = IF stage[watched] = "close_loaded" THEN Len(observations) ELSE 0
      BY <2>1, <2>2 DEF P!Counts
    <2>4. Document = rows /\ done = Len(rows) /\ UsableRows(Document) = DOMAIN Said
      BY <2>2, ReturnedReadsAll DEF WholeInv
    <2>5. EveryRowCounted
      BY CountedImpliesProperty DEF WholeInv, ExtractInv, BaseInv
    <2>6. Len(observations) + rejections + skipped = Len(Document) /\ rejections = unreadable
      BY <2>4, <2>5 DEF EveryRowCounted
    <2>7. Len(observations) = usable
      BY <2>4 DEF WholeInv, ExtractInv, SaidInv, Renders
    <2>8. Len(observations) \in Nat /\ rejections \in Nat /\ skipped \in Nat
      BY DEF WholeInv, ExtractInv, BaseInv, TypeOK
    <2> HIDE DEF counts, usable, unreadable
    <2>9. /\ s = source
          /\ counts.extracted + counts.skipped = Len(Document)
          /\ counts.extracted - counts.rejected = usable
          /\ counts.rejected = unreadable
          /\ counts.loaded = IF stage[watched] = "close_loaded" THEN usable ELSE 0
      BY <2>1, <2>2, <2>3, <2>6, <2>7, <2>8
    <2> QED
      BY <2>9 DEF counts, usable, unreadable
  <1> QED
    BY <1>1, WholeInductive, PTL DEF WholeSpec, LedgerCountsDocument
=============================================================================
