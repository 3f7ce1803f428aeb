------------------------------- MODULE Runner -------------------------------
(***************************************************************************)
(* Runs of the tool against one database: connect, load, introspect, plan, *)
(* apply.  Several runs (deployments of the same service, of different     *)
(* versions of its schema) may overlap; nothing in the tool keeps them     *)
(* apart.  Introspection is a series of queries outside any transaction;   *)
(* the plan's DDL runs in one transaction, its index statements one by one *)
(* after the commit; a run may stop anywhere and be started again.         *)
(*                                                                         *)
(* DDL locks are held to the end of a transaction, so that transactions of *)
(* runs that touch the same tables exclude each other; "owner" is the run  *)
(* that has them.                                                          *)
(***************************************************************************)
EXTENDS Postgres, MigrationOrder, Contract

CONSTANTS
    Runners,         \* processes that run the tool, again and again
    NoRunner,
    DryRunners,      \* those that run with --dry-run
    Scenarios,       \* the databases the runs may find, each with the files
                     \* every runner is given
    MaxFaults        \* bound on crashes, lost connections and failing data

ASSUME RunnerAssumption ==
    /\ NoRunner \notin Runners
    /\ DryRunners \subseteq Runners
    /\ \A s \in Scenarios :
          /\ IsCatalog(s.catalog)
          /\ s.files = [r \in Runners |-> s.files[r]]
          /\ \A r \in Runners : IsFiles(s.files[r])
    /\ MaxFaults \in Nat

VARIABLES
    catalog,  \* the committed catalog
    owner,    \* the runner whose transaction is open, or NoRunner
    working,  \* the catalog as the open transaction sees it
    files,    \* what each runner loads
    pc,       \* where each run is
    left,     \* what each run has still to read
    have,     \* what each run has read of the actual schema
    plan,     \* the plan of each run
    todo,     \* the part of it that has not been executed
    faults    \* faults that have happened

vars == <<catalog, owner, working, files, pc, left, have, plan, todo, faults>>

AtRest == {"idle", "done", "refused", "failed"}
Active == {"connected", "listed", "columns", "unique keys read",
           "foreign keys read", "planned", "transaction", "committed",
           "building"}

EmptySchema == [namespaces |-> {}, tables |-> << >>, indexes |-> << >>]

\* Namespaces, and tables of the first of them.
Leftovers == [namespaces : SUBSET Namespaces, tables : SUBSET Tables]

NothingLeft == [namespaces |-> {}, tables |-> {}]

TypeOK ==
    /\ IsCatalog(catalog)
    /\ owner \in Runners \cup {NoRunner}
    /\ IsCatalog(working)
    /\ files = [r \in Runners |-> files[r]]
    /\ \A r \in Runners : IsFiles(files[r])
    /\ pc \in [Runners -> AtRest \cup Active]
    /\ left \in [Runners -> Leftovers]
    /\ have = [r \in Runners |-> have[r]]
    /\ \A r \in Runners : IsSchema(have[r])
    /\ plan \in [Runners -> SUBSET Migrations]
    /\ todo \in [Runners -> SUBSET Migrations]
    /\ faults \in 0..MaxFaults

Init ==
    /\ \E s \in Scenarios : catalog = s.catalog /\ files = s.files
    /\ owner = NoRunner
    /\ working = EmptySchema
    /\ pc = [r \in Runners |-> "idle"]
    /\ left = [r \in Runners |-> NothingLeft]
    /\ have = [r \in Runners |-> EmptySchema]
    /\ plan = [r \in Runners |-> {}]
    /\ todo = [r \in Runners |-> {}]
    /\ faults = 0

-----------------------------------------------------------------------------
(* Reading the actual schema, one query after the other.                   *)

\* Mutant: what only the catalog knows leaks into the model of the schema.
ReadIndexWhole(index) == index

\* An index that is not valid reads like any other.
ReadIndex(index) == [table |-> index.table, unique |-> index.unique,
                     method |-> index.method, columns |-> index.columns]

\* The query for foreign keys joins the constraint they refer to, so that one
\* that rests on a mere unique index is not found.
ReadForeignKeys(c, t) ==
    {fk \in c.tables[t].foreignKeys : RestsOnConstraint(c, fk)}

\* What a run reads of a database nobody changes meanwhile.
Introspected(c) ==
    [namespaces |-> c.namespaces,
     tables |-> [t \in DOMAIN c.tables |->
                    [c.tables[t] EXCEPT !.foreignKeys = ReadForeignKeys(c, t)]],
     indexes |-> [i \in DOMAIN c.indexes |-> ReadIndex(c.indexes[i])]]

IsFirst(x, S) == \A y \in S : Position[x] <= Position[y]

\* The namespace whose tables are being read, and the tables known of it.
Reading(r) == CHOOSE ns \in left[r].namespaces : IsFirst(ns, left[r].namespaces)
InReach(r, t) == NamespaceOf[t] = Reading(r)

Connect(r) ==
    /\ pc[r] \in AtRest
    /\ pc' = [pc EXCEPT ![r] = "connected"]
    /\ UNCHANGED <<catalog, owner, working, files, left, have, plan, todo, faults>>

\* The namespaces of the files and of the database are read one by one.
ListUserSchemas(r) ==
    /\ pc[r] = "connected"
    /\ have' = [have EXCEPT ![r].namespaces = catalog.namespaces]
    /\ left' = [left EXCEPT ![r].namespaces =
                   CollectDesiredNamespaces(files[r]) \cup catalog.namespaces]
    /\ pc' = [pc EXCEPT ![r] = "listed"]
    /\ UNCHANGED <<catalog, owner, working, files, plan, todo, faults>>

ListTables(r) ==
    /\ pc[r] = "listed"
    /\ left[r].namespaces # {}
    /\ left' = [left EXCEPT ![r].tables = {t \in DOMAIN catalog.tables : InReach(r, t)}]
    /\ pc' = [pc EXCEPT ![r] = "columns"]
    /\ UNCHANGED <<catalog, owner, working, files, have, plan, todo, faults>>

\* A table that has gone since it was listed is one without columns.
ColumnsOf(t) == IF t \in DOMAIN catalog.tables THEN catalog.tables[t].columns ELSE << >>

WithoutKeys(columns) ==
    [columns |-> columns, primaryKey |-> NoPrimaryKey, uniques |-> {},
     foreignKeys |-> {}, removed |-> << >>]

ListColumns(r) ==
    /\ pc[r] = "columns"
    /\ \E t \in left[r].tables :
          /\ IsFirst(t, left[r].tables)
          /\ have' = [have EXCEPT ![r].tables = With(@, t, WithoutKeys(ColumnsOf(t)))]
          /\ left' = [left EXCEPT ![r].tables = @ \ {t}]
    /\ UNCHANGED <<catalog, owner, working, files, pc, plan, todo, faults>>

\* The keys of the tables that were listed; other tables are not looked at.
ListUniqueKeys(r) ==
    /\ pc[r] = "columns"
    /\ left[r].tables = {}
    /\ have' = [have EXCEPT ![r].tables =
          [t \in DOMAIN @ |->
              IF InReach(r, t) /\ t \in DOMAIN catalog.tables
              THEN [@[t] EXCEPT !.primaryKey = catalog.tables[t].primaryKey,
                                !.uniques = catalog.tables[t].uniques]
              ELSE @[t]]]
    /\ pc' = [pc EXCEPT ![r] = "unique keys read"]
    /\ UNCHANGED <<catalog, owner, working, files, left, plan, todo, faults>>

ListForeignKeys(r) ==
    /\ pc[r] = "unique keys read"
    /\ have' = [have EXCEPT ![r].tables =
          [t \in DOMAIN @ |->
              IF InReach(r, t) /\ t \in DOMAIN catalog.tables
              THEN [@[t] EXCEPT !.foreignKeys = ReadForeignKeys(catalog, t)]
              ELSE @[t]]]
    /\ pc' = [pc EXCEPT ![r] = "foreign keys read"]
    /\ UNCHANGED <<catalog, owner, working, files, left, plan, todo, faults>>

\* The indexes of the namespace, and on to the next one.
ListIndexes(r) ==
    /\ pc[r] = "foreign keys read"
    /\ have' = [have EXCEPT ![r].indexes =
          LET found == {i \in DOMAIN catalog.indexes : InReach(r, catalog.indexes[i].table)}
          IN  [i \in DOMAIN @ \cup found |->
                  IF i \in found THEN ReadIndex(catalog.indexes[i]) ELSE @[i]]]
    /\ left' = [left EXCEPT ![r].namespaces = @ \ {Reading(r)}]
    /\ pc' = [pc EXCEPT ![r] = "listed"]
    /\ UNCHANGED <<catalog, owner, working, files, plan, todo, faults>>

HasIntrospected(r) == pc[r] = "listed" /\ left[r].namespaces = {}

-----------------------------------------------------------------------------
(* Planning.                                                               *)

\* A run that ends forgets what it read and planned.
Stop(r, result) ==
    /\ pc' = [pc EXCEPT ![r] = result]
    /\ left' = [left EXCEPT ![r] = NothingLeft]
    /\ have' = [have EXCEPT ![r] = EmptySchema]
    /\ plan' = [plan EXCEPT ![r] = {}]
    /\ todo' = [todo EXCEPT ![r] = {}]

Refuse(r) ==
    /\ HasIntrospected(r)
    /\ \E orders \in Orders(files[r].groups) : Disallowed(files[r], have[r], orders) # {}
    /\ Stop(r, "refused")
    /\ UNCHANGED <<catalog, owner, working, files, faults>>

MakePlan(r) ==
    /\ HasIntrospected(r)
    /\ \E orders \in Orders(files[r].groups) :
          /\ Disallowed(files[r], have[r], orders) = {}
          /\ plan' = [plan EXCEPT ![r] = Plan(files[r], have[r], orders)]
          /\ todo' = [todo EXCEPT ![r] = Plan(files[r], have[r], orders)]
    /\ pc' = [pc EXCEPT ![r] = "planned"]
    /\ UNCHANGED <<catalog, owner, working, files, left, have, faults>>

-----------------------------------------------------------------------------
(* Applying.                                                               *)

DryRun(r) ==
    /\ pc[r] = "planned"
    /\ r \in DryRunners
    /\ Stop(r, "done")
    /\ UNCHANGED <<catalog, owner, working, files, faults>>

\* BEGIN, and the locks the transaction will need.
Begin(r) ==
    /\ pc[r] = "planned"
    /\ r \notin DryRunners
    /\ InTransaction(todo[r]) # {}
    /\ owner = NoRunner
    /\ owner' = r
    /\ working' = catalog
    /\ pc' = [pc EXCEPT ![r] = "transaction"]
    /\ UNCHANGED <<catalog, files, left, have, plan, todo, faults>>

\* A plan of index statements only opens no transaction.
NoTransaction(r) ==
    /\ pc[r] = "planned"
    /\ r \notin DryRunners
    /\ InTransaction(todo[r]) = {}
    /\ pc' = [pc EXCEPT ![r] = "committed"]
    /\ UNCHANGED <<catalog, owner, working, files, left, have, plan, todo, faults>>

Rollback ==
    /\ owner' = NoRunner
    /\ working' = EmptySchema

ExecuteInTransaction(r) ==
    /\ pc[r] = "transaction"
    /\ \E m \in NextOf(files[r], plan[r], InTransaction(todo[r])) :
          \/ /\ Accepts(working, m, files[r], have[r])
             /\ working' = Effect(working, m, files[r], have[r])
             /\ todo' = [todo EXCEPT ![r] = @ \ {m}]
             /\ UNCHANGED <<owner, pc, left, have, plan>>
          \/ /\ ~Accepts(working, m, files[r], have[r])
             /\ Rollback
             /\ Stop(r, "failed")
    /\ UNCHANGED <<catalog, files, faults>>

Commit(r) ==
    /\ pc[r] = "transaction"
    /\ InTransaction(todo[r]) = {}
    /\ catalog' = working
    /\ Rollback
    /\ pc' = [pc EXCEPT ![r] = "committed"]
    /\ UNCHANGED <<files, left, have, plan, todo, faults>>

IndexStatements(r) == NextOf(files[r], plan[r], AfterTransaction(todo[r]))

ExecuteIndex(r) ==
    /\ pc[r] = "committed"
    /\ owner = NoRunner
    /\ \E m \in IndexStatements(r) :
          \/ /\ Accepts(catalog, m, files[r], have[r])
             /\ ~Builds(catalog, m)
             /\ catalog' = Effect(catalog, m, files[r], have[r])
             /\ todo' = [todo EXCEPT ![r] = @ \ {m}]
             /\ UNCHANGED <<pc, left, have, plan>>
          \/ /\ ~Accepts(catalog, m, files[r], have[r])
             /\ Stop(r, "failed")
             /\ UNCHANGED catalog
    /\ UNCHANGED <<owner, working, files, faults>>

\* A concurrent build first commits the index as not valid, then scans the
\* table; everyone can see the index, and other DDL waits for the build.
StartBuild(r) ==
    /\ pc[r] = "committed"
    /\ owner = NoRunner
    /\ \E m \in IndexStatements(r) :
          /\ Builds(catalog, m)
          /\ Accepts(catalog, m, files[r], have[r])
          /\ catalog' = CreateIndexEffect(catalog, m.name, files[r], FALSE)
    /\ owner' = r
    /\ pc' = [pc EXCEPT ![r] = "building"]
    /\ UNCHANGED <<working, files, left, have, plan, todo, faults>>

FinishBuild(r) ==
    /\ pc[r] = "building"
    /\ \E m \in IndexStatements(r) :
          /\ catalog' = [catalog EXCEPT !.indexes[m.name].valid = TRUE]
          /\ todo' = [todo EXCEPT ![r] = @ \ {m}]
    /\ owner' = NoRunner
    /\ pc' = [pc EXCEPT ![r] = "committed"]
    /\ UNCHANGED <<working, files, left, have, plan, faults>>

\* Mutant: success is reported with index statements left.
FinishEarly(r) ==
    /\ pc[r] = "committed"
    /\ Stop(r, "done")
    /\ UNCHANGED <<catalog, owner, working, files, faults>>

Finish(r) ==
    /\ pc[r] = "committed"
    /\ todo[r] = {}
    /\ Stop(r, "done")
    /\ UNCHANGED <<catalog, owner, working, files, faults>>

-----------------------------------------------------------------------------
(* Faults: the process dies, the connection breaks, or a statement fails   *)
(* on the data (duplicate or null values, values that cannot be cast).     *)

\* Mutant: an error is swallowed, and success reported.
FaultUnnoticed(r) ==
    /\ faults < MaxFaults
    /\ faults' = faults + 1
    /\ Stop(r, "done")
    /\ UNCHANGED files

Fault(r) ==
    /\ faults < MaxFaults
    /\ faults' = faults + 1
    /\ Stop(r, "failed")
    /\ UNCHANGED files

FaultOutsideTransaction(r) ==
    /\ pc[r] \in Active \ {"transaction", "building"}
    /\ Fault(r)
    /\ UNCHANGED <<catalog, owner, working>>

\* Mutant: the statements are sent without BEGIN.
FaultWithoutTransaction(r) ==
    /\ pc[r] = "transaction"
    /\ Fault(r)
    /\ catalog' = working
    /\ Rollback

FaultInTransaction(r) ==
    /\ pc[r] = "transaction"
    /\ Fault(r)
    /\ Rollback
    /\ UNCHANGED catalog

\* The server commits, the run never hears of it.
FaultAtCommit(r) ==
    /\ pc[r] = "transaction"
    /\ InTransaction(todo[r]) = {}
    /\ Fault(r)
    /\ catalog' = working
    /\ Rollback

\* A concurrent build that fails leaves its index behind, not valid; one
\* whose client went away may still succeed.
FaultInBuild(r) ==
    /\ pc[r] = "building"
    /\ Fault(r)
    /\ owner' = NoRunner
    /\ \/ UNCHANGED catalog
       \/ \E m \in IndexStatements(r) :
             catalog' = [catalog EXCEPT !.indexes[m.name].valid = TRUE]
    /\ UNCHANGED working

-----------------------------------------------------------------------------
Step(r) ==
    \/ ListUserSchemas(r) \/ ListTables(r) \/ ListColumns(r)
    \/ ListUniqueKeys(r) \/ ListForeignKeys(r) \/ ListIndexes(r)
    \/ Refuse(r) \/ MakePlan(r)
    \/ DryRun(r) \/ Begin(r) \/ NoTransaction(r)
    \/ ExecuteInTransaction(r) \/ Commit(r)
    \/ ExecuteIndex(r) \/ StartBuild(r) \/ FinishBuild(r) \/ Finish(r)

Next ==
    \E r \in Runners :
        \/ Connect(r)
        \/ Step(r)
        \/ FaultOutsideTransaction(r) \/ FaultInTransaction(r)
        \/ FaultAtCommit(r) \/ FaultInBuild(r)

Spec == Init /\ [][Next]_vars

\* A process that was started runs on, and the deployment starts it again
\* after a run that did not succeed.
FairSpec ==
    /\ Spec
    /\ \A r \in Runners :
          /\ WF_vars(Step(r))
          /\ SF_vars(Begin(r)) /\ SF_vars(ExecuteIndex(r)) /\ SF_vars(StartBuild(r))
          /\ WF_vars(pc[r] # "done" /\ Connect(r))

-----------------------------------------------------------------------------
(* What the runs must never do to the database, and what they must reach.  *)

Verdict(f, c) == UNION {Disallowed(f, Introspected(c), orders) : orders \in Orders(f.groups)}
Remaining(f, c) == UNION {Plan(f, Introspected(c), orders) : orders \in Orders(f.groups)}

Promise == INSTANCE Migrator

\* The overlapping, crashing and failing runs together do what Migrator says:
\* tables change whole plan by whole plan, and nothing unapproved is lost.
RunsKeepPromise == Promise!Spec

\* From the plan to its last statement, every migration that is still to be
\* executed is one that the files and what was read of the database justify.
PlanIsJustified ==
    \A r \in Runners : \A m \in plan[r] : Justified(files[r], have[r], m)

\* The planner has nothing to do and nothing to refuse exactly when the
\* database is what the files ask for.
EmptyPlanMeansMeets ==
    \A r \in Runners :
        (Remaining(files[r], catalog) = {} /\ Verdict(files[r], catalog) = {})
            <=> Meets(files[r], catalog)

\* A run that reports success leaves nothing for the next one to do: the
\* second plan from the same files is empty (integration_index_idempotency).
DoneMeansConverged ==
    \A r \in Runners \ DryRunners :
        pc[r] = "done" => Remaining(files[r], catalog) = {}

\* The statements of a plan are accepted in the order they are sent: a run
\* never fails because of the order of its own plan.
PlanIsExecutable ==
    \A r \in Runners :
        /\ pc[r] = "transaction" =>
              \A m \in NextOf(files[r], plan[r], InTransaction(todo[r])) :
                  Accepts(working, m, files[r], have[r])
        /\ pc[r] = "committed" =>
              \A m \in IndexStatements(r) : Accepts(catalog, m, files[r], have[r])

\* A crash, a failed statement or another run never turns a database that
\* the files could be applied to into one the planner refuses to touch.
NeverStuck ==
    [][\A r \in Runners :
          Verdict(files[r], catalog) = {} => Verdict(files'[r], catalog') = {}]_vars

\* Files the planner accepts are reached, whatever fails on the way and
\* whichever run does the work, and then the database stays there.
EventuallyMeets ==
    \A r \in Runners :
        Verdict(files[r], catalog) = {} => <>[]Meets(files[r], catalog)
=============================================================================
