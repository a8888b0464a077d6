# labour-etl-pipeline, specified

TLA+ models of the pipeline in `src/labour_etl`, TLC runs over small instances
of them, and theorems about them checked by TLAPS. The repository loads one
indicator from three public sources into PostgreSQL; what is hard about it is
not the parsing but the promises: a source lands completely or not at all, the
ledger says what happened even after a crash, `updated_at` means that a figure
changed, and several processes may do all of this at once.

## The system

| Part | State it keeps | Operations | Correct when |
| --- | --- | --- | --- |
| runner (`pipeline/runner.py`) | position in the tuple of sources, the extraction in hand, outcomes | `_run_one_source`, `run_pipeline` | one source's failure stays its own; the verdict is that of the data |
| ledger (`pipeline/ledger.py`) | `pipeline_runs`, `source_runs`, `sources` | five writes, each committing on its own | entries agree with what landed, crash or not |
| loader (`pipeline/loader.py`, `001_initial_schema.sql`) | `observations` | one upsert per row inside the runner's transaction | whole or nothing, no lost update, honest timestamps and counts |
| migrator (`db/migrate.py`) | `schema_migrations`, the schema, an advisory lock | `run_migrations` | each file once and in order, whoever starts, fails or dies |
| configuration (`config.py`) | read once | `load_config` | what is asked for bounds what is loaded |
| HTTP (`sources/http.py`) | attempt number | `fetch_text` | the retry budget is neither exceeded nor cut short |
| World Bank source (`sources/world_bank.py`) | page number, rows so far | `extract` | a steady table is read whole, every record counted once |
| OWID source (`sources/owid_csv.py`) | none beyond the fetch | `parse`, `extract` | the same accounting of rows, filtered in pandas |
| Wikipedia source (`sources/wikipedia_html.py`) | the column found in the header | `parse`, `extract` | the figures are the chosen publisher's, of the header's year |
| domain (`domain/*.py`) | none | `Observation.create`, normalisers, errors | nothing gets through that the table refuses |
| command line (`cli.py`) | none | `migrate`, `run`, `status`, `report` | schema first; exit codes; consistent reads |
| reconciliation view (`002_reconciliation_view.sql`) | none | a query | a figure moves only when its source lands |
| scheduled workflow | none | runs the above daily | red when every source fails |

Interaction: `run` migrates, then runs the pipeline over one connection. The
runner calls a source's `extract` (which calls `fetch_text` once or once per
page), passes the observations to the loader, and brackets both with ledger
writes. The only shared state is the database; the other actors are other
invocations of `run` or `migrate`, the HTTP servers, and whoever kills a
process. PostgreSQL's row locks, deadlock detector, READ COMMITTED visibility,
advisory locks and catalogue are external: they are modelled as the code relies
on them, and marked so in `PROJECT.json`.

The behaviours that are hard: loads of one source interleaved row by row; loads
that wait for each other in a ring; a crash between the commit of a load and
the commit of its ledger entry; a row refused in the middle of a load; clocks
fixed at BEGIN while locks are granted later; migrators racing on an empty
database; an API that changes between two pages. `PROJECT.json` lists each at
its line with the properties that cover it.

## The modules

| Module | Models | Notes |
| --- | --- | --- |
| `Loader` | the observations table, the upsert, what landing an extraction means | operators only, shared by the next two |
| `RunPromise` | what `labour-etl run` promises | abstract: landing a source is one step |
| `Pipeline` | runner, ledger and load, down to the single upsert | refines `RunPromise` |
| `PipelineInv` | inductive invariants of `Pipeline` | `LedgerInv`, `LoadInv` |
| `Progress` | what it means to have less left to do | triples of naturals, shared by the next and `Migrate`, `SourcesProgress` |
| `PipelineProgress` | what an invocation has left to do, and when it can go on | `EveryStepSpends`, `NobodyStuck` |
| `Readers` | `labour-etl status` and `report` beside the runs that write | composes with `Pipeline`; implements it |
| `ScheduledRun` | what the daily job makes of the exit code | extends `Pipeline` |
| `SchemaHistory` | what a forward-only migrator promises | abstract |
| `Migrate` | `run_migrations` | refines `SchemaHistory` |
| `Invocation` | `labour-etl run`: migrations, then the pipeline, on one connection | composes `Migrate` and `Pipeline`; implements both |
| `HttpFetch` | `fetch_text` | variables and actions, composed into `Extraction` |
| `Observation` | `Observation.create` and the CHECK constraints | operators only |
| `Config` | `load_config` | operators only |
| `Extraction` | what the three sources share | the fetch, the rows in hand, the three counts |
| `WorldBank`, `OwidCsv`, `WikipediaHtml` | one source each | the steps they fill in |
| `Sources` | an extraction by any of the three | the specification the runs and proofs are about |
| `SourcesProgress` | what an extraction has left to do | `ExtractSpends` |
| `EndToEnd` | an invocation with its extractions in detail, beside others | composes `Sources` and `Pipeline`; implements `Pipeline` |
| `PipelineProofs`, `PipelineRefinement`, `PipelineProgressProofs`, `MigrateProofs`, `ReadersProofs`, `InvocationProofs`, `SourcesProofs`, `EndToEndProofs` | theorems | |
| `MCPipeline`, `MCReaders`, `MCMigrate`, `MCInvocation`, `MCSources`, `MCEndToEnd` | the instances TLC checks | |

An operator whose comment begins with "Faulty" is a plausible slip in the one
below it. No specification uses it: it is there so that each property can be
seen to fail when the code is changed that way (`PROJECT.json`, "mutants").

### How Pipeline corresponds to the code

`pc[p]` names the statement an invocation is at: `register` and `open_run` are
`upsert_sources` and `start_run`; `open_source`, `extract`, `load` and the three
`close_*` phases are `_run_one_source`; `close_run` is `finish_run`. `idx` is
the position of the loop, `ext` the extraction in hand, `changed` the cursor's
rowcount, `outcome` the tuple of outcomes. `entry` and `run` are the ledger
rows, `obs` the committed observations.

Every ledger function opens and commits its own transaction, so each is one
step. The load is many: `BeginLoad` is the first statement of `executemany`,
which opens the transaction and fixes `now()`; `UpsertRow` executes one row, if
no other open load has a lock on its fact; `CommitLoad` makes the transaction's
image visible. `RowRefused`, `DeadlockVictim` and `ServerError` end it by
rolling back. `clock` numbers the BEGINs of loads: a row's `firstSeen` and
`updatedAt` hold the ordinal of the transaction that stamped it, which is the
order `now()` gives. Rows, figures and texts are abstracted to a fact and a
value; `Refused` values are those a CHECK constraint turns down, which the
integration tests inject past the application's own validation
(`tests/integration/test_pipeline.py:65-73`). `landed` is a history variable.

An invocation ends in one of three ways. `done`: `run_pipeline` returned.
`raised` (`LedgerRaises`): a ledger write raised, or the rollback of a load
whose connection is lost. Nothing catches that (`runner.py` 94, 103, 123 and 132
are outside any `try` that would, and `main` catches `EtlError` only), so the
exception leaves the loop and the interpreter exits 1. `dead` (`Dies`): the
process is killed. The last two are `Leaves`, which drops the open transaction
and changes no other row, except that a lost answer to the commit of
`finish_run`, or a kill just after it, leaves the run closed. Any other commit
whose answer is lost is its own action followed by `LedgerRaises`.

### How Migrate corresponds to the code

Files are numbered in the order of their names and a release ships a prefix.
`TableMissing` and `CommitTable` are the two halves of `CREATE TABLE IF NOT
EXISTS`, which looks the name up before it inserts it, and `TableClash` what
the loser of two gets. `Lock`, `ReadLedger`, the loop (`Skip`, `Execute`,
`CommitFile`, `FileFails`, `LoopEnds`) and `Unlock`, the `finally` block,
follow. `Dies` closes the connection at once, and with it the session's lock;
a server may in fact notice a lost client only after its current statement.

### How Readers corresponds to the code

`Writes` is any step of `Pipeline`; `latest` is the run `ORDER BY started_at
DESC` puts first. `ListsRuns` is the first statement of `status`, with what it
saw of that run kept in `screen`; `ShowsEntries` is the second, which sees the
entries as they are by then. The view is two operators over the committed rows
`obs`, and `Compared` the rows `report` selects. Minimum, maximum, mean and
spread are arithmetic over the same figures and are left out, and so are the
lines of older runs, which come from one snapshot.

### How Invocation corresponds to the code

`mpc` is the migrator's program counter of a process and `pc` the pipeline's.
`_cmd_run` calls the one and then the other on one connection, so a process
takes steps of `Pipeline` only once its `mpc` is `done`. `Code` is what the
shell gets: the summary's code where `run_pipeline` returned, and otherwise 1,
from `main` for an `EtlError` (a file that fails) and from the interpreter for
every other exception; for a killed process, and for a migrator that loses its
connection (`Migrate!Dies` is both), 1 stands for whatever code that is not 0. `Ships` gives each process the files of
its release, and PostgreSQL keeps them in `recorded` for all. A migration of a
newer release would also wait for the table locks of the older one's open
loads; those locks are not modelled, which only adds behaviours as long as no
load waits for them in turn. None does for the files in the repository: the
tables and indexes of 001 are there before any load, and the view of 002 takes
no lock a load conflicts with.

### How Sources corresponds to the code

`env` is the environment, whose variables may be unset, out of range or no
numbers; `Configured` and `ConfigurationError` are the two ways out of
`load_config`, and `config` what it made. `Requests`, `Fetching` and
`FetchRaises` are a call of `fetch_text`, one request at a time. A body that
cannot be read is `EnvelopeRaises`, `FrameRaises` or `TableRaises`; one that
can be is `Receives`, which adds its rows to `rows`. Then one step per row:
`Takes` appends an observation, or counts a rejection or a skip, by the fate
the source's own loop gives it (`RecordFate`, `CsvRowFate`, `TableRowFate`, in
the order of the code's checks). Rejections are counted, not kept: of what they
carry nothing depends on more than their number.

- `WorldBank`: `published` is the API's table, pages cut from it as `per_page`
  and `page` ask. The API may publish another table before and between
  requests and may report a page total that is no integer or too large; the
  history variable `steady` records whether it did.
- `OwidCsv`: the code filters the whole frame and then walks the rows left; the
  model walks all of them and calls those outside the frame skipped, which is
  `total_rows - len(in_scope)`. A year is read twice, by `pd.to_numeric` and by
  `int`, and `Fractional` is what only the first can read.
- `WikipediaHtml`: a cell is known by what three parsers read in it (a name, a
  figure, a publisher with a year). Its field `of` says whose figure it is:
  nothing in the code sees it, and `ReadsProvidersColumn` is stated with it.
  `value_index` counts from zero as in the code.

A timeout of `nan` or `inf` passes the minimum; the socket then refuses it with
an error that is no `HTTPError` (`FetchBlowsUp`).

### How EndToEnd corresponds to the code

One invocation, `watched`, is followed from its environment to its exit; the
others are as in `Pipeline`, where an extraction is one step whose result comes
from `Publications`. `stage` is the program counter of `Pipeline` and `pc` that
of the extraction. `LoadsConfig` is `load_config`. `CallsExtract` is
`start_source_run` and the call of `extract`: the ledger writes the entry, and
the next source starts with nothing of the one before it, on whatever its
publisher has by then. `Extracting` is any step of `Sources` between the two
ledger writes. `Returns` hands the observations and the counts to the loop,
`Raises` leaves by the exception. `Proceeds` is every other statement of
`run_pipeline`. `Fails` is a server error, a kill of this invocation at any
point, or a ledger write of it that raises (`WriteRaises`), which is possible
only where there is one: before, after, but not in the middle of an extraction.
`Others` is any step of another. The sources, their order and the facts a source
can have are no longer parameters: they are those of `default_sources()` and of
the natural key, and what the table refuses is what its CHECK constraints say.
The migrations are left to `Invocation`.

## The runs

| Run | Instance | Shows | Distinct states |
| --- | --- | --- | --- |
| `overlap` | 2 invocations, 1 source, 2 facts, 5 extractions | `TypeOK`, `LoadInv`, `UpdatedAtHonest`, `ChangedCountsMoves`, `EveryRunCloses`, `EveryStepSpends` | 18,698 |
| `sources` | 2 invocations (up to renaming), 2 sources, 2 extractions, `status` between any two steps; a run that does not finish is killed (`OneWayOutSpec`) | `LedgerInv`, `LedgerMatchesData`, `VerdictMatchesData`, `StatusAgrees`, `KeepsPromise`, `ReportMovesWithLoads` | 1,441,168 |
| `ring` | 3 invocations, 3 facts, loads in a ring and a revision | `NobodyStuck`, `NoLostUpdate` without crashes or server errors | 138,632 |
| `releases` | 3 migrators, releases of 2, 2 and 1 files | `MigrateInv`, all properties of `Migrate`, and the refinement of `SchemaHistory` | 2,552 |
| `invocation` | 2 invocations of releases of 1 and 2 files, 2 sources | `SchemaFirst`, `CodeIsHonest`, `NobodyHeldUp`, `EveryInvocationEnds` | 85,338 |
| `extraction` | 3 sources, 10 environments, 6 tables in pages of 2 with a limit of 3, 6 CSV bodies, 9 articles, 4 statuses | all properties of `Sources` | 22,434 |
| `end_to_end` | 2 invocations, 3 environments, 2 tables in pages of 2 with a limit of 2, 1 CSV body, an article and a page without a table | `LandsWhatWasServed`, `LedgerCountsDocument`, `LoadsAreAccepted` | 357,806 |
| `updated_at_restamped`, `red_job`, `starting_together`, `blanks_rejected`, `min_year_ignored` | as above | one disagreement each, see below | |

What the less obvious properties say:

- `StatusAgrees`: the two halves of a screen of `status` may be of two moments,
  but what the first counts is among the entries below it, and under a finished
  run they are the same and the verdict is theirs. It holds because entries only
  grow and a run is closed after its last entry.
- `ReportMovesWithLoads`: a figure of the report moves only in the step in which
  a load of that source lands, to what that load carries; nothing that fails
  takes a figure away, and a fact two sources gave stays compared.
- `SchemaFirst`: with two releases at work, the pipeline of each finds every
  file of its own release in the schema, whoever applied it.
- `LedgerInv`: at every statement of the loop each source behind it is settled,
  each ahead of it untouched, the current one in the state its phase says, and
  the run's row says no more than that. It is the inductive invariant of the
  ledger theorems, and the two sources of the run are what it needs to say
  something about the loop.
- `MigrateInv`: a migrator is between its lock and its unlock exactly when it
  holds the advisory lock, through every commit of the loop; how far the loop is
  agrees with what it read and with what is recorded by now. It holds the type
  of the loop's state with it.
- `CodeIsHonest`: 0 only for an invocation that landed something, on the schema
  of its release, and that has closed every entry; 1 for one that landed
  nothing, or that an exception or a kill took out of `run_pipeline`, and the
  ledger never calls that last one failed.
- `EveryStepSpends`, `ExtractSpends`: nothing is done twice. What a process has
  left (sources, phases and rows; phases, files and statements; pages, phases,
  and requests or rows) is a triple of naturals, and each step of a process
  makes its own smaller, in order of weight, and nobody else's larger; a failure
  may not send it back. An API that publishes in between changes nothing of it.
- `NobodyStuck`: take any live process with all it waits for, directly or not,
  and one of them can go on, by the code and not by dying. TLC's own check for
  deadlock would not tell, for a live process can always die. `CanStep` says in
  terms of the state when one can go on: it restates the guards of `Step`. That
  it asks for no less than they do is what the liveness properties of the same
  models bear out, for those are about `Step` itself. `NobodyHeldUp` is the same across the two halves of an invocation:
  the advisory lock of the first is not held through the second.
- `ReadsWholeDocument`, `EveryRowCounted`, `StaysInScope`: what an extraction
  hands to the runner is everything it was to read, accounted for, of a country
  that was asked for, and of a shape the table takes. `EveryRowCounted` says
  which rows are rejections by what is wrong with them (`Unreadable`), not by
  the branch the code takes; a blank figure of the CSV is one of them, as in the
  code (see `blanks_rejected`). `StaysInScope` reads the environment and not the
  configuration. It holds the API and the CSV to the first year and not the
  article, whose year nothing compares with it: that is `min_year_ignored`.
- `ReadsProvidersColumn`: for an article whose rows stand under its header, every
  figure is PROVIDER's own for that country and the year in the header, wherever
  the column is.
- `LandsWhatWasServed`: from document to table. After the commit of a source the
  table holds, for every fact the document has a usable row about, the figure
  of the last such row, and for every other fact what it held before, whatever
  other invocations load meanwhile. `Usable` and `Reading` say what a row says
  without the sources' loops, for an API that published between two pages of
  what was read of both.
- `LedgerCountsDocument`: from document to ledger. The four counts of a closed
  entry add up to the rows of the document: the usable ones landed, the rejected
  could not be read (for the CSV, whose body in the run has a blank row, the
  blank ones too), and the rest was out of scope or blank; after a rollback
  nothing is loaded.
- `LoadsAreAccepted`: whatever the publishers serve, no CHECK constraint and no
  foreign key turns a load down; what is refused in `overlap` is what another
  writer would have to inject, as the integration tests do.

Why the bounds are enough. Two facts are what two loads need to lock in
opposite orders, three facts and three loads what a ring longer than a pair
needs; two values tell a moved row from an unmoved one; two sources make
`partial` possible and let one source fail before or after the other; two
invocations are one that overlaps another, and one may start after the other
has finished, which is the case of a re-run. The third of `ring` lets two
overlap on a table that already holds figures, the only place where an upsert
finds a row as it should be, locks it, and another load must wait for it. The
extractions of `overlap` include a revision, a reordering, a refused row after
a good one, a contradiction and nothing at all. For the migrator two files make
a gap possible and a third process waits behind two; in `invocation` the older
release finds a schema ahead of its own and the newer one that of the older.
For `extraction` the tables end before, at and after the page boundary and the
page limit; every record, row and cell is there in each way the parsers tell
apart and at both sides of each boundary; the column is first or second, gone,
or of an impossible year; retries are 0, 1 and the default 3. In `end_to_end`
the table gives a fact twice, across the page boundary and in two spellings, its
revision has a row that cannot be read and a blank, and the year of the
article's column is that of a figure in both; the other invocation loads a
figure of its own for the same fact. It is followed through its first source
only (`OthersFirstSource`, a constraint), before, beside or after the watched
one's load of that source: sources share no rows, so its later loads are to the
later sources of the watched one what its first is to the first. What does not
depend on the size of the instance is proved.

No counter needs a bound: every invocation makes one run, so every behaviour is
finite but for the API's releases in `Sources`, whose tables are a finite set.
Deadlock is checked in every run; `Terminated`, `AllOver` and `WholeOver` are
the legal ends.
Symmetry (`sources`) is over the invocations, and in a run of safety properties
only.

### Fairness

`Pipeline!Fairness` is weak fairness of each invocation's own step: a process
that is not killed keeps running, `fetch_text` has a timeout and a bounded
number of retries, and the server answers a statement, if only by aborting it.
The deadlock detector is part of it: PostgreSQL runs it after
`deadlock_timeout`. Server errors and crashes are never required. Weak fairness
is enough for a load that waits for a lock, since the other load holds it until
it ends and each invocation loads each source once. The same holds of the
advisory lock in `Migrate`, which each process takes once, and of
`InvocationFairness`, which is weak fairness of a process's steps in both
halves together. `Sources!FairSpec` assumes that a request is answered or fails
and that a sleep ends. The first is not quite so: the timeout given to httpx
bounds every wait for bytes, not the request, and a server that keeps sending a
little is never timed out. The models leave that server out.

### Disagreements found

- `updated_at_restamped`: an extraction that has one fact twice with different
  figures stamps `updated_at` on every run although the committed figure stays
  (`loader.py:37`, against the comment at 27-30). Nothing removes duplicates;
  pages read across a release of new figures can produce them.
- `red_job`: the job pipes the run into `tee` under a shell without `pipefail`
  and stays green when every source fails (`scheduled-run.yml:63`, against the
  comment at 12).
- `starting_together`: the ledger table is created before the advisory lock is
  taken, and on an empty database one of two migrators that start together can
  fail (`migrate.py:50`, against the repository's README at 254-255).
- `blanks_rejected`: the CSV source catches `RecordRejected` and with it
  `ValueMissing`, so a figure left blank is a rejection there and a skip in the
  other two (`owid_csv.py:114`, against `errors.py:69-71`).
- `min_year_ignored`: the HTML source takes the year from the header and never
  compares it with `MIN_YEAR` (`wikipedia_html.py:149`, against the
  repository's README at 130 and `.env.example:16`). The same sentence of the
  README says that leaving both variables unset loads every year; the default of
  `MIN_YEAR` is 2010 (`config.py:87`), which the instances use.

Not a disagreement, but worth knowing: `now()` is the start of the transaction,
so of two overlapping runs the one that waited for a row lock can commit the
earlier stamp last, and `updated_at` then moves backwards (`loader.py:36`). It
still moves exactly when the figure does (`UpdatedAtHonest`).

Nor is this: the repository's README says at 171-176 that only a run where every
source failed exits 1. That is so of a run that returns. An exception of a
ledger write after a source has landed also exits 1, with a stack trace, and so
do migrations that fail and a configuration that is refused. `CodeIsHonest`
states the exception rather than leaving such runs out.

## What is proved

For every set of sources, facts, values, extractions, invocations and releases,
every document, environment, page size and page limit, from the assumptions on
the constants stated in the modules and no others:

- `TypeCorrect`, `MigrateTypeCorrect`, `ExtractionTypeCorrect`: type correctness.
  The last includes the page limit.
- `LedgerInductive`, then `LedgerHonest` and `VerdictHonest`. The properties
  are not inductive: what a succeeded entry says of the data depends on where
  the loop is. `LedgerInv` says where each source stands at every `pc`: settled
  behind the loop, untouched ahead of it, and at the current source as the
  phase tells (`CurrentSourceInv`, `RunRowInv`, `LoopInv`).
- `LoadInductive`, then `RowLocksHold`. `LoadInv` describes an open
  transaction: exactly the facts of the rows executed so far are locked and
  each holds the figure of its last row (`ImageInv`), locks exclude each other
  and the image descends from the committed row (`LockInv`), stamps are those of
  finished transactions (`StampInv`), and an unambiguous load restamped a row
  only for another figure (`RestampInv`).
- `UpdatedAtIsHonest`, an action property, from `LoadInv` at the commit.
- `ChangedIsCounted`: by `ChangedInv` the count so far is the number of rows the
  open load has stamped as its own and the table not yet; `LoadInv` then gives
  that those are the facts the commit moves. A fact is counted once:
  met again in an unambiguous extraction it carries the figure it already has.
- `PipelineKeepsPromise`: `Pipeline` refines `RunPromise`. `CommitLoad` maps to
  `Land` because by `ImageInv` what it makes visible is the old table overlaid
  with the extraction (`CommitLandsWhole`); `LedgerInv` gives the guards of
  `OpenEntry`, `CloseEntry` and `CloseRun`; every other step is a stutter.
- `MigrateInductive` (`MigrateInv`), then `LedgerIsCurrent`, `HistoryInOrder`, `ReportsAreTrue`, and `MigrateKeepsHistory`, the refinement of
  `SchemaHistory`. `MigrateInv` adds to the properties that a process is inside
  the lock exactly when it holds it, and how far the loop's position lags the
  ledger; together they make the file about to be committed the next one.
- `ReadersOnlyRead`: `Readers` implements `Pipeline`, so that every theorem
  above holds with the readers beside it; then `StatusIsConsistent`, from
  `HeadingInv` (what the first statement read still holds or has grown, and of
  a run closed by then is final) with `LedgerInv` at the second, and
  `ReportIsStable`, from what a commit makes visible.
- `InvocationRunsPipeline` and `InvocationMigrates`: an invocation implements
  `Pipeline` and `Migrate`, so the theorems of both hold of it. `MigratesFirst`
  follows from `MigrateInv` (one that is done has its release in the schema)
  with `FirstInv`: before that the pipeline is where it began.
  `ExitCodeIsHonest` adds `LedgerInv`, for what the ledger says of the runs that
  returned and of those an exception or a kill has ended.
- `SourcesProofs`. `Steps` shows once that every step of any of the three either
  reads rows, takes one, or leaves them alone, and the five invariants are then
  proved from those three cases. `BaseInv` is `TypeOK` with a configuration
  that was accepted and a page within the limit. `ExtractionKeepsBudget` counts
  requests against the attempt number. `RowsAreCounted` needs `BulkInv`, that a
  source of one document has no rows before it has read it, so that the column
  found with them stands for all; then one step is one more element of the set
  of unreadable rows or of what is not in it. `ObservationsStayInScope` (`AskedInv`) and
  `FiguresAreProviders` (`ColumnInv`: the column is the first that names
  PROVIDER) carry what each loop checks to all the observations made.
  `DocumentIsRead` (`DocumentInv`) relates the rows in hand to the pages asked
  for: while the table is steady they are its first `page * PAGE_SIZE` records.
- `EndToEndProofs`. `WholeRunsPipeline`: an invocation with its extractions in
  detail, beside others, is a run of `Pipeline` whose feeds are any lists of
  observations with two counts (`Publications <- Extractions`), so every theorem
  about `Pipeline` holds of it. The other three follow figures through both
  halves. `SaidInv` says that the observations so far are what the usable rows
  among those classified say: as many, and for each fact the last of both is the
  same (`Renders`). With `CountInv` and `DocumentInv` of `SourcesProofs` it is
  kept by every step and established anew by every call of a source
  (`CallStartsAnew`). `HandInv` carries it across the hand-over: from the return
  of an extraction to its ledger entry, what the loop holds is what the
  extraction made. `ServedIsLanded` joins that with `ImageInv` at the commit
  (`CommitSaysDocument`), `DocumentIsCounted` with what closing an entry writes
  (`OnlyClosingWrites`), and `NothingIsRefused` with the registered sources.
- `InvocationsSpend`, `MigratorsSpend`, `ExtractionsSpend`: every step lowers what
  is left, from the type invariants (the page limit for the API, the budget for
  the fetch) and, for a load, from `LoadInv`, by which no row is executed past
  the last. That such steps come to an end is the lemma `StepsRunOut`, which
  speaks of triples only: were there an infinite sequence of them for finitely
  many processes, there would be one with as few as possible, and from where one
  of them stands still there is one with fewer. Joining the two is a step the
  prover's temporal logic does not take, so no theorem says that the runs end.
- `NoInvocationIsStuck`, `NoMigratorIsStuck`, `NoInvocationIsHeldUp`. `StuckWaits`:
  a live invocation that cannot go on is in a load and waits for an open load,
  by `LoadInv`, which leaves no locks behind a load that has ended.
  `WaitersFormCycle`: of finitely many loads that all wait for one another, a
  smallest set in which each waits for a member is a cycle, which the deadlock
  detector breaks. This is the one place that needs the invocations to be finite
  in number (`IsFiniteSet(Procs)`): an infinite chain of waiters would be stuck.
  For whole invocations `FirstInv` shows that nobody past the migrations is
  waited for by one before them.
- `WaitsAreDoubled`: a fetch sleeps 2^n - 1 seconds before its n-th retry. The
  provers know no exponent that is not a literal; `NextPower` gets
  2^(n+1) = 2 * 2^n from the library's count of the subsets of a finite set.

The last three groups are the half of the liveness properties that does not
speak of fairness: what a process has left shrinks with each of its steps, and
while one is live one can take a step. That with weak fairness of each step
every run, migration and invocation ends is what the liveness runs check.

An induction that the proofs need goes through a least counterexample
(`NatMinimum`, from the library's theorem on well-founded sets), since the
induction rules that take an operator cannot be used.

Only model-checked: the liveness properties themselves (`EveryRunCloses`,
`EveryMigratorEnds`, `EveryInvocationEnds`, `ExtractEnds`): fairness is beyond the
prover.

## What is not modelled, and the plan

Not modelled: logging and printed layout, argument parsing, indexes, the
arithmetic and rounding of the view, the table locks of migrations, the driver's
type narrowing (`as_int`, `to_float`), the container files and the CI job. Texts
are known by what their parsers read in them: the regular expressions that clean
names, codes and figures are not modelled.

Hazards that no property covers (the slow server, an extraction overtaken by a
newer one, an API that changes or misreports its table, spanned cells) are in
`PROJECT.json` with the reason. What would come next is a model of httpx's
transfer loop, for the server that keeps sending a little.
