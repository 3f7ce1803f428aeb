# Schemify in TLA+

Schemify brings a PostgreSQL database to the state described by `.sql` files.
It compares the files with the live database, refuses to go on if anything
would be lost that a directive in the files does not give away, and otherwise
applies the difference. There are two implementations, in Go (`go/schemify`)
and in Rust (`rust/schemify`, a port). This project models both: the constant
`Go` selects the implementation wherever they differ.

## The system

| Component | Code (Rust / Go) | State | Operations | Correct when |
|---|---|---|---|---|
| Schema model | `schema.rs`, `namespace.rs` / `schema/types.go`, `namespace.go` | none: values | desired namespaces | every namespace a file needs is asked for |
| Loader | `load.rs` / `schema/load.go` | the files left, what has been gathered | parse files, scan for blocks, collect directives | the desired schema is the one written, or the load fails |
| Drift blocks | `drift.rs` / `schema/drift.go` | line, depth, open block, ids seen | scan comment blocks, merge groups | one id, one policy, wherever the blocks are |
| Types | `schema.rs`, `load.rs`, `db.rs` | none | names of files and of the catalog to one form | a type read back is the type that was asked for |
| Introspection | `db.rs` / `db/introspect.go` | what has been read so far | list schemas, tables, columns, keys, foreign keys, indexes | what is read is what is there |
| Planner | `diff.rs` / `diff/diff.go` | none | compare; migrations or refusals | no loss without a directive; nothing to do iff the database is as asked for |
| Order | end of `diff.rs` / `diff/diff.go` | Kahn's queue and in-degrees | sort by kind and name, sort CREATE TABLE by foreign keys | the server accepts every statement in its turn |
| Apply | `apply.rs` / `apply/apply.go` | the open transaction | dry run; transaction; index statements | all of the tables or nothing; a restart does the rest |
| Entry points | `lib.rs` / `schemify.go` | none | `plan`, `run` | repeated and overlapping runs end at what the files ask for |
| Command line, DSN, errors | `main.rs`, `conn.go`, ... | none | settings, logging | not modelled |

A run is one process: `connect`, load the files, introspect, `diff`, refuse or
`apply`. Components call each other in that order and share no memory. All that
runs share is the database, and nothing keeps two runs apart: there is no
advisory lock, introspection is a series of queries outside any transaction,
and `apply` does not look at the database again. That makes these hard:

* **Interleaving.** Two deployments start together; each may commit between any
  two queries, or between the plan and the transaction, of the other.
* **Partial failure.** Index statements (`CONCURRENTLY`) cannot be part of the
  transaction and follow it one by one; a concurrent build that fails leaves an
  invalid index behind; a commit may succeed without the run hearing of it.
* **Order.** One list of ranks, two ties and a topological sort must give an
  order that the server accepts for every combination of migrations.
* **Falling through.** A surplus object may be dropped, tolerated or refused, by
  directives of three kinds; a missing one may have a name that is taken.
* **Hash maps.** The drift groups are searched in the order a hash map yields.
* **Two readings of one text.** Directives are SQL comments. A line may be a
  comment to the SQL parser, part of a drift block in the scan of a statement,
  the same in the scan of the file, and part of a DROP TABLE directive in the
  second reading of the directory; what keeps these apart is a text search.

`PROJECT.json` lists each of these at its line, with the properties about it.

## Modules

| Module | Models |
|---|---|
| `Schema` | tables, columns, keys, indexes, drift groups, what the loader hands over |
| `Diff` | `diff_tables_and_indexes` / `Diff`: the plan as a set of migrations, the refusals |
| `MigrationOrder` | `sort_migrations`, ranks, what is in the transaction; the promise of the topological sort |
| `TopoSort` | `topo_sort_create_table` as a state machine |
| `TopoSortOrder` | the link from its result to the order `MigrationOrder` promises |
| `Postgres` | the catalog; when a statement is accepted and what it does (external) |
| `Contract` | reference definitions: what the files ask for, what they give away, what justifies a migration |
| `Migrator` | the abstract specification: whole steps from schema to schema, only approved loss; `SafeSpec` is its safe half, which says what may be lost and not what must be reached |
| `Runner` | overlapping, crashing runs: composes all of the above |
| `TypeNames` | names of types: the grammar, `format_type_name`, `normalize_type`, the catalog and back |
| `SqlText` | what a line of a file is, which statements a text holds, and what the parser makes of them (the grammar is external) |
| `DriftBlocks` | `extract_drift_blocks` as a state machine, `build_anticipated_drift` |
| `Load` | `load_decorated_from_dir` and `load_allow_drop_table_defs` of both implementations |
| `LoadContract` | reference definitions: balanced blocks, files in order, what blocks list; invariants of the load |
| `Claims`, `LoadClaims` | statements of the repository's documents and tests that the code does not keep |
| `MCRunner`, `MCTopoSort`, `MCClaims`, `MCLoad`, `MCLoadClaims` | small instances for TLC |
| `DiffProofs`, `PostgresProofs`, `RunnerProofs`, `TopoSortProofs`, `LoadProofs`, `TypeNamesProofs`, `PromiseProofs`, `ConvergeProofs` | theorems |

`Runner` extends `Diff` (through `Postgres`), `MigrationOrder` and `Contract`,
instantiates `Migrator`, and is extended by `Claims`. `TopoSort` is a machine of
its own; `TopoSortOrder` instantiates `MigrationOrder` to say that its result is
in the order `Runner` takes CREATE TABLE statements to be sent in, so that
`Runner` can use the order (`CreatedBefore`) without running the sort.

`Load` extends `DriftBlocks`, that extends `SqlText`, and that `Diff`, whose values
(`IsFiles`) it must produce: `Loaded` is a member of what `Runner` takes as the
files of a run, which `TypeOK` of the load checks. The two machines are not run
together: a load touches neither the database nor another run.

### From the code to the model

**Data.** A name, a type, a default or an index method is an opaque value; both
sides of a comparison in `Diff` and `Runner` are taken to be normalised (what the
normalisation does to types is `TypesSettle`). Position in a list
matters for key columns (sequences) and not for columns and constraints (maps
and sets). A foreign key is identified by name, columns, table and columns it
refers to; its ON DELETE and ON UPDATE actions are compared by the code together
with these and stand in none of the properties. A column position, quoting and
the wording of errors are left out.

**Planner.** A migration is a record of its kind, the object and a name. The
definitions that the code embeds in it (`MigrationDetail`) are those that the
files, or the schema that was read, give to the object, and both are still at
hand while the plan lives. `orders` is the iteration order of the hash map of
drift groups: the same for every object in Rust, where a map keeps its order
while it is left alone, and another for each object in Go, where every `range`
starts anew.

**Variables of `Runner`.** `catalog` is the committed database; `working` is what
the open transaction sees, and `owner` the run that has it open. For each run:
`files` (what it loads), `pc`, `left` (namespaces and tables still to be read),
`have` (the `IntrospectResult` so far), `plan`, and `todo`, the part of the plan
that has not been executed. `faults` counts faults.

**Actions.** `Connect`, then one action for each query, in the order of the
code: `ListUserSchemas`; and for each namespace in order of its name
`ListTables`, `ListColumns` (one query for each table), `ListUniqueKeys`,
`ListForeignKeys`, `ListIndexes`. A table that goes between two queries is read
as one without columns, as the code does. `Refuse` and `MakePlan` are `diff`.
`DryRun`, `Begin`, `ExecuteInTransaction`, `Commit`, `NoTransaction`,
`ExecuteIndex`, `Finish` are `apply`; a statement the server rejects ends the
run and rolls the transaction back. `StartBuild` and `FinishBuild` are the two
ends of a concurrent index build: others see the index, not valid, in between.
`FaultOutsideTransaction`, `FaultInTransaction`, `FaultAtCommit`, `FaultInBuild`
are a dying process, a broken connection or a statement that fails on the data
(rows are not modelled, so any statement may); after a fault at the commit the
server has committed and the run has failed. Memory is lost: `Stop` clears what
a run knows.

**The load.** A file is a sequence of lines, and a line a record of what it is: an
opening of a block, a column, `);`, a directive, prose with so many parentheses, in
a comment or not. `Parses` says when the lines outside of comments are SQL.
`ReadFile` parses a file and takes its tables, indexes and namespaces;
`ScanTable` and `ScanFile` start a scan of a statement and of the whole file;
`SkipLine`, `OpenBlock`, `BodyLine`, `CloseBlock` and `FailScan` are what
`extract_drift_blocks` does with a line, `FinishScan` the end of the text; `TakeBlocks` is what is done with the blocks found, the
search for their opening in the tables' texts included; `Merge` ends
the first reading, and `ReadDirectives` is a file of the second. `UnparsedFile`
and `BadBlocks` end the load in Rust and are passed over in Go,
which keeps the blocks of the last of several statements for a table.

**Locks.** PostgreSQL holds DDL locks to the end of a transaction. The model has
one transaction or one build at a time (`owner`) and takes the locks at its
start: transactions on the same tables do exclude each other, and those on
different tables have no effects that interleaving them could tell apart from
one of the two orders. Queries of other runs are never blocked. Deadlocks between
two runs' lock orders appear as a fault that rolls back.

## Properties

* `EmptyPlanMeansMeets`: the planner has nothing to do and nothing to refuse
  exactly when the database is what the files ask for. `Meets` is written in
  `Contract` without the planner's steps.
* `PlanIsJustified`: until its last statement is sent, each migration a run holds
  is one its files give reason for, `MayLoseTable`, `MayLoseColumn` and `Drops`
  being all that may go.
* `PlanIsExecutable`: the server accepts each statement in its turn; a run never
  fails by the order of its own plan.
* `DoneMeansConverged`: a run that reports success leaves the next one nothing
  to do.
* `NeverStuck`: no step, fault or other run turns a database that the planner
  would accept into one it refuses.
* `RunsKeepPromise`: the runs implement `Migrator`. Tables change in whole
  steps to a state that meets some run's files; an index changes one at a time;
  nothing is lost that these files do not give away.
* `EventuallyMeets`: from a database the planner accepts, the runs reach what
  the files ask for, and stay there.
* `TopoSort`: `DependenciesFirst`, `EachOnce`, `OnlyCyclesAreLeft`, `NoneIsLost`,
  `Completes`, and `InPromisedOrder`, the link to `MigrationOrder`.

* The load. `ScanIsRight`: the single pass with a counter finds the outermost
  balanced pairs of lines (`Pairs`, written with running totals and quantifiers) and
  gives up on nothing else than it must. `FilesInOrderLoad`: what is in order
  loads, although every block in a table is scanned twice, in two scopes.
  `LastDefinitionWins`, `GroupsAreWritten`, `LoadEnds`.
  A block of a file is *passed over* when a CREATE TABLE of the file has a block with its
  policy and, but for case, its id (`PassedOver`). `ConflictsStopTheLoad`: one id with two
  policies, in one table, one file, or two, stops the load; blocks that are passed over
  count, except those taken for a block of another id (`Mistaken`), which are a
  divergence listed below. `GroupsListTheirBlocks`: a group lists nothing
  but what blocks with its id list, and each of these wholly, except that a block that
  is passed over may be missing (that it may not is the claim
  `BlocksAreMergedAcrossScopes`). Each CREATE TABLE is a text of its own there, so
  that its blocks count even where a block of the file lies around it.
  `ReadingsDoNotOverlap`: no line that lets a table go is also in a block that was taken.
* Types. `TypesSettle`: a type of the files is what introspection shows of a column
  that has it. `TypesAreAsked`: the two conversions do not make it another type.

### Refinement

`RunsKeepPromise` is `Migrator!Spec` with `catalog` and `files` for the variables
of that name. Introspection, planning and the statements of an open transaction
are stutter steps, because `working` is not visible; `Commit` (and a fault at the
commit) is `Migrate`; `ExecuteIndex`, `StartBuild` and index drops are
`ChangeIndex`. It holds among runs of the *same* files. Runs of different files
are another matter: see `claim_current_table`.

## Runs

All with two workers; the state counts are distinct states.

| Run | Instance | States | Shows |
|---|---|---|---|
| `columns` | one run, one fault, every pair of one-column-more-or-less databases and files (types, nullability, defaults, `-- removed:`, a DROP or a DEPRECATED group) | 8 thousand | the planner and ALTER TABLE for columns; failures leave nothing behind |
| `keys` | one Rust run, two tables, primary, unique and foreign keys, an index, drop directives and groups for all of them | 209 thousand | plans are executable and final |
| `go_port` | the same and the databases of `columns`, with `Go = TRUE` | 213 thousand | the same of the Go ranks and matching |
| `overlap` | two runs, one fault, three databases and three sets of files that create and drop a table, a column, a foreign key and indexes | 15 thousand | interleaving, restarts, liveness |
| `namespaces` | two runs (one `--dry-run`), one fault, two namespaces, a table whose foreign key runs against the order of names | 120 thousand | CREATE SCHEMA, creation order, a reader that sees half of another run's changes |
| `toposort` | every graph of four tables, one with up to two foreign keys and three with up to one, also to themselves and to tables that exist | 34 thousand | Kahn's algorithm, and the link to `MigrationOrder` |
| `load` | 2,169 directories: one file of two pieces or two of one, out of sixteen; one file of up to four lines, most of them comments; a file for every type of `SettlingNames`; `SwallowingFile`, a block of a file around a table with a block of its own; `CaseDirectories`, ids that differ in case | 25 thousand | the loader of Rust |

Bounds. Two tables and two columns are enough for every pair of a referring and
a referenced object, and for a surplus, a missing and a common one at once; the
planner's decisions concern one object, or one object and the table it is on, and
the order of statements two objects. Groups number at most one in the passing
runs; with two that disagree about one object the hash map decides, which the
model says (`orders`) and no run checks. A third run
adds no new kind of interference: each sees the others only through the catalog.
One fault is enough to start over from each intermediate state, because after it
nothing of the run is left; a second would start from one of the same states.
`Connect` is always possible from rest, so that no run deadlocks; deadlock is
checked in every run but `toposort` and `load`, which end. In `load` two pieces are
enough for each pair of a block and something it may be mistaken for, in one file
and in two; four lines hold a block with one nested, or one overlapped by a
directive.

The same instance with `Go = TRUE` satisfies `TypeOK`,
`ScanIsRight`, `FilesInOrderLoad`, `LastDefinitionWins`, `GroupsAreWritten`,
`TypesSettle` and `TypesAreAsked`, and violates `ConflictsStopTheLoad`,
`GroupsListTheirBlocks` and `ReadingsDoNotOverlap`: Go throws away what a scan
found along with its error, so a conflict inside one file, or an unclosed block,
silently leaves the file without blocks.

### Scenarios that the runs exclude

The following combinations of database and files are excluded in `MCRunner`, by
name, because the code is known not to handle them; each is a limit of the code
and listed under hazards.

* `NothingRedefined`: an index of another definition under the same name
  (`CREATE INDEX ... IF NOT EXISTS` keeps the old one; every run plans it anew).
* `KeysAreConstraints`: foreign keys that refer to a unique index instead of a
  constraint. The index is created after the commit, and the query for foreign
  keys does not find them.
* `NewTablesCanRefer`: a new table that refers to a key added to an existing
  table in the same plan. CREATE TABLE carries its foreign keys and comes first.
* `ReferencedKeysStay`: dropping what a foreign key of the database rests on, even
  when that foreign key is dropped too; both implementations drop UNIQUE
  constraints before foreign keys (and Rust drops tables before either, the
  subject of `claim_ported`).

### Claims the code does not keep

Each `claim_*` run checks one statement of a document or test and is violated.

* `claim_indexed`: after a failed concurrent build the next run takes the
  invalid index for the real one and reports success.
* `claim_current_table`: a table is dropped with a column that another
  deployment added since the plan was made.
* `claim_ported`: a declared drop of a table and of the foreign key to it fails
  in Rust, whose ranks differ from Go's.
* `claim_cross_scope`: of two blocks with one id, in a table and after it, only the
  first is heard: the file that `drift-roadmap.md` and an integration test give as
  the example for merging across scopes.
* `claim_serial`: a BIGSERIAL column, as in that same test and in most demo schemas,
  is `bigserial` to the planner and `bigint` in the catalog, and is altered by every
  run. The same becomes of boolean, real, double precision and `char(n)`, of a
  numeric or timestamp with a precision, and of arrays.

Four more divergences are in the model and have no run of their own. The opening line
of a block is searched for in upper case (`load.rs:197`), while ids are told apart by case:
the block `X` of a file is passed over for the block `x` of its table, and with it
the conflict with a block `X` of another policy in the next file, which
`go/schemify/internal/schema/load.go:442` calls a load error. `load` has that directory
(`CaseDirectories`), and `ConflictsStopTheLoad` is false of it without its exception for
`Mistaken` blocks. An index
with a method other than btree is sent as `... (columns) USING gin`, which
PostgreSQL does not parse (`CreateIndexParses`); a primary key that the table lacks
is added, where `go/schemify/README.md:86` says it is refused (`AddPrimaryKey`
in `Diff`); and an index redefined under its name is planned by every run and
created by none (`NothingRedefined`).

## Fairness

`FairSpec` has weak fairness of `Step(r)`: a process that was started goes on.
Taking the locks (`Begin`, `ExecuteIndex`, `StartBuild`) has strong fairness,
because another run may take and release them again and again, and PostgreSQL's
lock queue is first come, first served. `Connect` of a run that has not succeeded
is weakly fair: the tool runs at the start of a deployment, and a deployment that
failed is started again. Nothing is assumed of a run that is done (it may or may
not start again) and of faults, of which there are at most `MaxFaults`.

`Load` has weak fairness of its `Next`: it is one sequential function that waits for
nobody.

## Proofs

TLC looks at small instances; the theorems hold for every set of names, every
database, all files, and any number of runs, tables and faults. They assume only
what the modules assume of their constants: `SchemaAssumption` (each table has a
namespace; the markers `NoDefault` and `AnyType` are no default and no type),
`DiffAssumption` (names have distinct positions), `PostgresAssumption`,
`RunnerAssumption` (scenarios are made of catalogs and files), `TopoSortAssumption`,
`SqlTextAssumption` (the probe table is none of the tables; each id has an upper case), `LinesAssumption` (what a
line of each kind holds), `LoadAssumption` and
`TypeNamesAssumption`. Where a theorem needs a condition besides, it stands in its
statement: those of `EmptyPlanIsRight`, `NothingUnapprovedIsLost`,
`NeverStuckForever`, `PromiseIsKept`, `DoneIsConverged` and `PlansAreExecutable`, and those
of theorems about the load, are below. No other exclusion is assumed.

* `TopoSortProofs`. `Counts` says that the in-degree of a table is the number of
  its foreign keys to created tables that are not sorted, `Ready` that sorted and
  queued tables are those of in-degree zero. `DependenciesFirst` is not inductive
  without them: to know that a queued table has all its references sorted one
  needs its in-degree to mean something. Together with `TypeOK` and `EachOnce`
  they are kept by `Take`; `DependenciesComeFirst`, `OnlyCyclesEscape` and
  `NoneComesTwice` and `NoTableIsLost` follow. The algebra of `Edges`, `Append`, `Tail` and `\o` is in
  lemmas. `PromisedOrderIsKept` adds the link to `MigrationOrder`: a table that the
  promise puts outside of every cycle cannot be one of those left over, which wait
  for each other, and those are appended by name.
* `DiffProofs`. `PlanJustified`: one lemma for each part of the plan, from the
  lemma that a verdict of DROP comes from a group with that policy, whatever the
  order (`FirstPolicy` picks the least index). `NothingToDoMeansMet` is the other
  half, by contradiction for each kind of object: if nothing is planned or
  refused, every surplus object is tolerated. `NothingToDoIffMet` is the equivalence.
  It needs that two indexes of one name are on one table (the planner looks at the
  name) and that no surplus object is covered by groups of both policies (then the
  hash map decides, and an approved drop and a tolerated object are both possible).
* `PostgresProofs`. `EffectType`: each accepted statement of a justified plan
  keeps the catalog typed. Justified is needed: it is what makes the definition
  that the statement carries exist in the files.
* `RunnerProofs`. The inductive invariant `IInv` says of each run that what it
  has read is a schema, that what is still to do is part of the plan, that only
  a run between planning and its end holds a plan, that after the commit nothing
  of the transaction is left, that each migration of the plan is justified, and
  that what was sent does not come after what waits. Without the third and
  fourth conjunct the plan would be justified by a schema read later, or an
  index statement sent early. There is one lemma per action; `TypeCorrect`
  and `PlansAreJustified` follow; what was sent (`SentBefore`) is for
  `PlansAreExecutable`. `EmptyPlanIsRight` carries the
  equivalence to every state of the runs, while `Recognises` holds: the two
  conditions above, and that foreign keys rest on constraints, because one on a bare
  unique index is not among what the queries return. TLC finds all three true
  in every state of the passing runs.
* `PromiseProofs`. `NothingUnapprovedIsLost`: no step of any run takes
  from the database what the files do not give away, though a run decides by what it
  read long ago. `LossInv` says why that is safe. What a run has read still
  describes the surplus that is left (`Reflects`), because each statement of any run
  adds only what the files ask for (`Evolves`), and what statements lose adds up to
  what the transaction loses. Constraints are dropped by name alone, so one must know
  that no other constraint took the name in between: a run drops nothing before it
  has added what it adds (`KeptSoFar`), and a name that is taken makes the addition fail
  (`AddedAnew`). Two conditions, both real: the runs have the same files
  (`AgreeOnFiles`; without it `claim_current_table` is the counterexample), and a name is
  that of a UNIQUE constraint or of a foreign key for good (`NamesAreKept`), as
  the suffixes that PostgreSQL gives are. `PromiseProtects` says that this is a half of
  what `RunsKeepPromise` says; `PromiseIsKept` is about the other one. The lemmas about what
  a statement may take away (`Grows`, `Shrinks`, `Evolves`, `Reflects`) are in
  `PostgresProofs`.

  `NeverStuckForever`: no step makes the planner refuse a database that it
  did not refuse before. `OpenIff` says part by part what the planner does not refuse. That
  no surplus comes that was not there, `Evolves` has said; `StaysOpen` adds that no
  wanted column goes (the planner refuses one that is NOT NULL without a default), that
  none becomes nullable where the files say NOT NULL, and that a primary key is none, the old
  one or the wanted one. The third reason for a refusal is in what the planner can see: a
  foreign key is found only if it rests on a constraint, so one that began to rest on one would
  be surplus nobody had seen, such as when a run adds a UNIQUE constraint. So one condition
  more: the foreign keys of the database that the files do not want rest on constraints
  (`SurplusKeysRest`); the server sees to it that they go on to (`OpenInv`), because it
  refuses to drop what they rest on. TLC finds the condition true in the
  scenarios of all runs, and `OpenInv` with it.

  `PromiseIsKept` is the refinement in full: the runs implement `Migrator`. What
  `NothingUnapprovedIsLost` leaves open is that whoever commits has brought every table to
  what the files ask for, although the plan was made from a schema read piece by
  piece while others changed the database. `ReachInv` has three parts. `Nearer`: nothing that the
  files ask for goes again, once it is there; so what a run found in place, and did not
  plan, is in place at its commit. `SurplusKnown`: each surplus object of the database is in
  what was read, as soon as the query for it has passed; so each one was
  dropped, tolerated, or refused, and a run that was refused has no plan. `ServedInv`: each
  statement that was sent did what it was planned for (`Served`), and none sent after it
  undid that. `PlanServed` puts them together: a plan with nothing refused and
  all its statements served leaves tables that meet the files, whatever the orders of
  groups. A statement finds another database than the one it was planned for, when another
  run was faster; the server then rejects it, or it finds nothing to do (`IF NOT EXISTS`,
  `IF EXISTS`), and in both cases the lemma about it has to show that what is there is what
  was wanted. It is not for a constraint whose name is taken by another, but that
  is where the addition fails. Two more conditions, true in the scenarios of all runs. Definitions in
  the files are ones PostgreSQL takes, and say of key columns that they are NOT NULL
  (`FilesAreConsistent`): with a PRIMARY KEY of the table over columns that do not
  say so, the loader has them nullable (`load.rs:610`), the catalog never, and the next plan
  asks for what the server refuses. And a table that the files do not know is in a
  namespace that exists (`SurplusIsHoused`), as in any database. `ReachInv` was checked
  by TLC on the passing runs of `Runner` before it was proved.
* `ConvergeProofs`. `DoneIsConverged` goes on from the commit to the end of the run, and past it: the plan
  that would be made next is empty, until the run is started again, though other runs may
  still be at work. `SettleInv` has for each run that a wanted index it found stays and
  that it missed no surplus one (`KnowsIndexes`), that each index statement it sent has
  come to stay (`IndexServed`), and that its tables meet the files from the commit on
  (`TablesMeet`); a later commit of another run keeps that, because the refinement step
  says that it reaches tables that meet the same files. At the last statement all is there
  (`FinishMeets`), and no step takes it away (`MeetsStays`). `MetIsRecognised` then gives
  the conditions of `NothingToDoIffMet`. What has to be assumed besides: an index of the files is on
  columns that they define, shares no name with a UNIQUE constraint, and is not in the database under
  another definition (`IndexesAreKept`; without the last, `CREATE INDEX IF NOT EXISTS`
  keeps what is there, and every run plans it anew: `NothingRedefined`); foreign keys of the
  files refer to constraints of the files, and two drift groups of different policies list
  nothing that both cover (`FilesAreClear`; without it the hash map may decide for the
  drop in the next plan). TLC finds both true in the scenarios of the passing runs of
  `Runner`, and `SettleInv` in their states. An empty plan is what the planner sees: an index
  that is there but not valid counts as there (`claim_indexed`).

  `PlansAreExecutable`: the server never refuses a statement of a plan that may be sent next,
  before the commit or after it. It is about one run that changes the database
  (`OneDeploys`), with any number of dry runs beside it, and with crashes, failures and
  restarts that leave a part of the indexes behind; with two, one comes
  to add what the other has added, and the run `overlap` does not claim the property.
  `ExecInv` is the invariant, which TLC checked on the other passing runs of `Runner`
  before it was proved. What the run has read is what is there, as far as it has read
  (`ReadsTrue`), until its transaction begins; from then on what waits in the plan is not in
  the working copy if it is to be added, and is if it is to be dropped (`Pending`). The rest
  is order: `SentBefore` says what has been sent when a statement may be sent, `ServedInv`
  that it has had its effect, and so the key that a foreign key refers to has come, and
  nothing has been taken away before everything was added. `Executable` has to be kept by
  the commits too, as the next run starts from what they left.

  Its conditions on files and database (`PlansFit`) are the limits of the code, each with
  its part: `NewTablesRefer` is `NewTablesCanRefer` above, and besides excludes new tables
  that refer to each other in a cycle, which CREATE TABLE cannot make; `Removable` is
  `ReferencedKeysStay`; `KeysRest` is `KeysAreConstraints`; `CreateIndexParses` excludes the
  index methods that are written where PostgreSQL does not parse them; and
  `NamesAreFree` excludes a constraint whose name another one or an index has, as
  constraints are compared and dropped by name. TLC finds them true in the scenarios of
  these runs.
* `LoadProofs`, for any directory. What is said of both implementations:
  * `BlocksStayApart`. `ScanInv` is about the scan under way: the block that is open
    began at a line already read, what was found ended before it, and `seen` has
    every id with one policy. The theorem is not inductive without these.
  * `GroupsCameFromText`. `LoadInv` is about what was gathered from earlier files, and
    needs `ScanInv`, because `TakeBlocks` keeps what the scan found.
  * `ScanFindsPairs`. `PairsInv` compares the scan with the running totals of the text:
    what was found are the outermost pairs among the lines read, each opening line
    read is in one of them or in the open block, whose total has stayed above zero
    and is `depth`. That a function with the totals exists is shown by the least
    length without one, since the library's induction cannot be used here.
  * `OrderlyFilesLoad`. Every way to fail is excluded for files that are in order:
    a scan is of one of the parts of the text (`ScansPlaced`), a block in a part begins
    with each opening line, since its body has none, so that bodies parse in their
    scope; and each directive ends at the closing line of its own list. `Directives` is
    read from the end of the file on, again by a least counterexample.
  * `LoadedIsWellFormed`. What each line holds (`LinesAssumption`) makes each definition
    a table and each group a drift group; finite sets come as images of the lines.
    `IsFiles` is what the theorems about the planner and the runs assume of the files,
    so that this closes the gap between the two halves of the project.

  And of Rust, which stops where Go goes on (Go violates all but the first and last):
  * `LastDefinitionIsTaken` needs that the files that were read are a prefix of the
    directory, and that among the lines of one file there is a last one that defines the
    table.
  * `ConflictsAreNotLoaded`. `HeardInv`: each block of each file read was taken with what
    it lists, or passed over for a statement that has its opening line, and the blocks
    of that statement were taken. So the id and policy of the block are among what was
    taken (`Heard`), unless all these lines have another id, which is the exception.
  * `ReadingsStayApart`. The lines of a block that was taken, and of a directive that was,
    are SQL but for the first and the last one; so neither holds the first line of
    the other.
  * `GroupsAreTheirBlocks`. `HeardInv` gives that nothing is missing but blocks that are
    passed over, `BlocksAreListed` that each block taken is one of the directory;
    `AnticipatedIsListed` that what is parsed from a body is what its lines list.
    Condition: no block lists a column with two types (`OneTypeInBlocks`); the loader
    keeps one of them.
  * `TypesAreTheStatements`. Conditions: no arrays, which lose their brackets, and no
    statement that defines a column twice, which the server would refuse.

  * `PlainTypesAreKept`. `SettledInv`: every column that was gathered has a type that is
    read back from the catalog under the same name, because the lines of SQL and those of
    blocks have only plain types (`PlainLines`). It is the first theorem that follows a
    value from a file through the loader, `PlainTypesSettle`, and the server's own spelling
    to the comparison. Without the condition it is false: of serial types
    (`claim_serial`), and of those listed with that claim.

  The conditions of the last three are true of the directories of `load`. What
  `GroupsListTheirBlocks` counts as a block comes from an attempt at its proof: blocks
  of a statement that lie in one of the file count, of which TLC has
  `SwallowingFile` as the instance.
* `TypeNamesProofs`. `TypesAreKept`: what is parsed is never one of the aliases, so
  that `normalize_type` leaves alone what `format_type_name` made, and the server's
  parser undoes that; `PlainTypesSettle` follows the same name through the catalog. No
  array is covered, and none could be: the brackets are lost. The provers do not know that
  a literal is a string, which is what `TypeNamesAssumption` says; TLC evaluates it.

Only model-checked:

* Liveness (`EventuallyMeets`, `LoadEnds`, `Completes`), out of this prover's reach.
* That statements are accepted when several runs change the database: it is false, and the
  theorems about overlapping runs do not need it, because a statement that is rejected
  rolls the run back.

## Not modelled

* The SQL grammar: which lines make a statement is given by `Parses`. Within it:
  identifiers of SQL are in lower case and files in order of name are numbered; column
  lists have no commas to forget; prose does not quote the opening line of a block;
  files can be read. What is SQL in several statements on a line is left out.
* Deparsing of index expressions and of defaults, and the normalisation of
  defaults: they are opaque. A default such as -1 comes back as `'-1'::integer`.
* Types outside the table in `TypeNames`.
* Constraint names that PostgreSQL chooses when the predicted one is taken.
* A directory that changes while it is read twice.
* Joins of the introspection queries on names of constraints, which are not
  unique in PostgreSQL.
* Rows, and with them which statements fail on the data; statements may fail at
  any time instead.
* Connection settings, TLS, logging, wording, the command line.
* The convenience entry points that let a caller run single steps (`Introspect`,
  `Diff`, `Apply`): `run` is their composition.

## Plan

Done: the planner, the order, PostgreSQL and the runs, the loader with its drift
blocks and types, the claims, and the proofs above. To come, in this order:

1. `Queries`: the joins for keys and foreign keys over a catalog with constraint
   names that collide; what is read is what is there, and where it is not.
2. Defaults: file to catalog and back, once a reference for what PostgreSQL prints
   is at hand.
