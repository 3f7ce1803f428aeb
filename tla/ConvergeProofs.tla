--------------------------- MODULE ConvergeProofs ---------------------------
(***************************************************************************)
(* What runs come to.  Of overlapping, crashing and failing runs of one    *)
(* set of files, one that reports success has left nothing for the next    *)
(* plan; and a run that alone changes the database has no statement of its *)
(* plan refused.                                                           *)
(***************************************************************************)
EXTENDS PromiseProofs

-----------------------------------------------------------------------------
(* What the end of a run says of indexes.                                  *)

\* An index that the files name has a name no UNIQUE constraint has, and is on
\* columns that the files want.
IndexesFit(U, f) ==
    \A i \in DOMAIN f.indexes :
        LET index == f.indexes[i]
        IN  /\ i \notin U
            /\ index.table \in DOMAIN f.tables
            /\ Elements(index.columns) \subseteq DOMAIN f.tables[index.table].columns

\* No index of the database has the name of another one in the files.
AsWanted(f, c) ==
    \A i \in DOMAIN f.indexes \cap DOMAIN c.indexes : SameIndex(c.indexes[i], f.indexes[i])

IndexesAreKept(U) ==
    \A s \in Scenarios : \A r \in Runners :
        IndexesFit(U, s.files[r]) /\ AsWanted(s.files[r], s.catalog)

IndexesStay(f, c, d) == DOMAIN f.indexes \cap DOMAIN c.indexes \subseteq DOMAIN d.indexes

IndexServed(c, m) ==
    /\ m.kind = "create_index" => m.name \in DOMAIN c.indexes
    /\ m.kind = "drop_index" => m.name \notin DOMAIN c.indexes

SurplusIndexesKnown(r) ==
    \A i \in DOMAIN catalog.indexes \ DOMAIN files[r].indexes :
        NamespaceOf[catalog.indexes[i].table] \notin left[r].namespaces =>
            i \in DOMAIN have[r].indexes

\* A wanted index that the run has found is there still, and the run misses no
\* surplus index; each index statement that was sent has come to stay.
KnowsIndexes(r) ==
    /\ IndexesStay(files[r], have[r], catalog)
    /\ pc[r] \in Reads => SurplusIndexesKnown(r)
    /\ \A m \in Sent(r) : IndexServed(catalog, m)

\* After the commit the tables are what the files ask for, whoever changes
\* them, and so is everything in the end.
RunSettles(r) ==
    /\ KnowsIndexes(r)
    /\ pc[r] = "transaction" => IndexesStay(files[r], catalog, working)
    /\ pc[r] \in {"committed", "building"} => TablesMeet(files[r], catalog)
    /\ pc[r] = "done" /\ r \notin DryRunners => Meets(files[r], catalog)

SettleInv(U) ==
    \A r \in Runners :
        IndexesFit(U, files[r]) /\ AsWanted(files[r], catalog) /\ RunSettles(r)

-----------------------------------------------------------------------------
(* What the planner needs to see that nothing is left to do.               *)

\* The foreign keys in the files refer to constraints in the files.
WantedKeysRest(f) ==
    \A t \in DOMAIN f.tables : \A fk \in f.tables[t].foreignKeys :
        fk.references \in DOMAIN f.tables /\ RestsOnConstraint(f, fk)

\* Two groups list nothing that both could cover.
Apart(g, h) ==
    /\ \A a \in g.columns, b \in h.columns : a.name # b.name
    /\ \A a \in g.uniques, b \in h.uniques : a.name # b.name
    /\ \A a \in g.foreignKeys, b \in h.foreignKeys : a.name # b.name
    /\ \A a \in g.indexes, b \in h.indexes : ~IndexMatches(a, b)

PoliciesApart(f) == \A g, h \in f.groups : g.policy = h.policy \/ Apart(g, h)

FilesAreClear ==
    \A s \in Scenarios : \A r \in Runners :
        WantedKeysRest(s.files[r]) /\ PoliciesApart(s.files[r])

-----------------------------------------------------------------------------
(* Indexes that the files ask for stay.                                    *)

\* No statement of a transaction takes a wanted index with it.
LEMMA ExecutesStays ==
    ASSUME NEW U, LossInv(U), IInv, NEW r \in Runners, NEW m, Executes(r, m),
           IndexesFit(U, files[r]), AsWanted(files[r], catalog),
           IndexesStay(files[r], catalog, working)
    PROVE  IndexesStay(files[r], catalog, working')
<1> DEFINE f == files[r]
           h == have[r]
           w == working
           d == working'
<1>1. /\ IsCatalog(w) /\ IsFiles(f) /\ Justified(f, h, m) /\ Accepts(w, m, f, h)
      /\ d = Effect(w, m, f, h) /\ m.kind \in Adding \cup Taking /\ IndexesOnlyGo(catalog, w)
    BY Executed DEF Executes, InTransactionInv
<1> HIDE DEF d
<1>2. SUFFICES ASSUME NEW i \in DOMAIN f.indexes \cap DOMAIN w.indexes
               PROVE  i \in DOMAIN d.indexes
    BY <1>2 DEF IndexesStay, d
<1>3. SameIndex(w.indexes[i], f.indexes[i])
    BY <1>1, <1>2 DEF IndexesOnlyGo, AsWanted
<1>4. /\ w.indexes[i].table \in DOMAIN f.tables
      /\ Elements(w.indexes[i].columns) \subseteq DOMAIN f.tables[w.indexes[i].table].columns
    BY <1>2, <1>3 DEF IndexesFit, SameIndex
<1>5. CASE m.kind \in Adding
    <2>1. Grows(f, w, d)
        BY <1>1, <1>5, AddingGrows
    <2> QED
        BY <1>2, <2>1 DEF Grows
<1>6. CASE m.kind = "drop_table"
    <2>1. m.on \notin DOMAIN f.tables
        BY <1>1, <1>6 DEF Justified, MayLoseTable
    <2>2. d = DropTable(w, m.on)
        BY <1>1, <1>6 DEF Effect
    <2>3. DOMAIN d.indexes = {j \in DOMAIN w.indexes : w.indexes[j].table # m.on}
        BY <1>1, <2>2, DropTableParts
    <2> QED
        BY <1>2, <1>4, <2>1, <2>3
<1>7. CASE m.kind \in {"drop_column", "drop_unique_key", "drop_foreign_key"}
    <2>1. JustifiedInTable(f, h, m)
        BY <1>1, <1>7 DEF Justified
    <2>2. m.on \in DOMAIN w.tables
        BY <1>1, <1>7 DEF Accepts
    <2>3. d = AlterTableEffect(w, m, f, h)
        BY <1>1, <1>7 DEF Effect
    <2>4. CASE m.kind = "drop_column"
        <3>1. m.name \notin DOMAIN f.tables[m.on].columns
            BY <2>1, <2>4 DEF JustifiedInTable, MayLoseColumn
        <3>2. d = IF m.name \in DOMAIN w.tables[m.on].columns
                  THEN DropColumn(w, m.on, m.name) ELSE w
            BY <2>3, <2>4 DEF AlterTableEffect
        <3>3. DOMAIN DropColumn(w, m.on, m.name).indexes = {j \in DOMAIN w.indexes :
                  ~(w.indexes[j].table = m.on /\ m.name \in Elements(w.indexes[j].columns))}
            BY <1>1, <2>2, DropColumnParts
        <3> QED
            BY <1>2, <1>4, <3>1, <3>2, <3>3
    <2>5. CASE m.kind \in {"drop_unique_key", "drop_foreign_key"}
        <3>1. d = OnTable(w, m.on, DropConstraint(w.tables[m.on], m.name))
            BY <2>3, <2>5 DEF AlterTableEffect
        <3> QED
            BY <1>1, <1>2, <2>2, <3>1, OnTableParts
    <2> QED
        BY <1>7, <2>4, <2>5
<1> QED
    BY <1>1, <1>5, <1>6, <1>7 DEF Taking

\* The index statements of a run.
LEMMA ExecutesIndexStays ==
    ASSUME NEW U, LossInv(U), IInv, NEW r \in Runners, NEW m \in IndexStatements(r),
           IndexesFit(U, files[r]), ~Builds(catalog, m),
           catalog' = Effect(catalog, m, files[r], have[r])
    PROVE  /\ IndexesStay(files[r], catalog, catalog')
           /\ IndexServed(catalog', m)
<1>1. CASE m.kind = "create_index"
    <2>1. m.name \in DOMAIN files[r].indexes
        BY <1>1, IndexStatement
    <2>2. m.name \in DOMAIN catalog.indexes \cup UniqueNames(catalog)
        BY <1>1 DEF Builds
    <2>3. catalog' = catalog
        BY <1>1, <2>2 DEF Effect, CreateIndexEffect
    <2>4. UniqueNames(catalog) \subseteq U
        BY DEF LossInv, Sound, KindsApart, UniqueNames
    <2>5. m.name \in DOMAIN catalog.indexes
        BY <2>1, <2>2, <2>4 DEF IndexesFit
    <2> QED
        BY <1>1, <2>3, <2>5 DEF IndexesStay, IndexServed
<1>2. CASE m.kind = "drop_index"
    <2>1. m.name \notin DOMAIN files[r].indexes
        BY <1>2, IndexStatement DEF Justified
    <2>2. IsCatalog(catalog)
        BY DEF IInv, Environment
    <2>3. catalog'.indexes = Without(catalog.indexes, m.name)
        BY <1>2, <2>2 DEF Effect, IsCatalog
    <2>4. DOMAIN catalog'.indexes = DOMAIN catalog.indexes \ {m.name}
        BY <2>3 DEF Without, Restriction
    <2> QED
        BY <1>2, <2>1, <2>4 DEF IndexesStay, IndexServed
<1> QED
    BY <1>1, <1>2, IndexStatement

\* What a step of any run does to the database.
Settles(f) ==
    /\ IndexesStay(f, catalog, catalog')
    /\ AsWanted(f, catalog')
    /\ Evolves(f, catalog, catalog')
    /\ TablesMeet(f, catalog) => TablesMeet(f, catalog')

LEMMA SameSettles ==
    ASSUME NEW f, AsWanted(f, catalog), catalog' = catalog
    PROVE  Settles(f)
    BY EvolvesReflexive DEF Settles, IndexesStay

LEMMA StepStays ==
    ASSUME NEW U, LossInv(U), IInv, SettleInv(U), NEW r \in Runners,
           \/ Connect(r) \/ Step(r)
           \/ FaultOutsideTransaction(r) \/ FaultInTransaction(r)
           \/ FaultAtCommit(r) \/ FaultInBuild(r)
    PROVE  IndexesStay(files[r], catalog, catalog')
<1>1. RunSettles(r) /\ IndexesFit(U, files[r])
    BY DEF SettleInv
<1>2. CASE Commit(r) \/ FaultAtCommit(r)
    BY <1>1, <1>2 DEF Commit, FaultAtCommit, RunSettles
<1>3. CASE ExecuteIndex(r)
    <2>1. catalog' = catalog \/ \E m \in IndexStatements(r) :
              ~Builds(catalog, m) /\ catalog' = Effect(catalog, m, files[r], have[r])
        BY <1>3 DEF ExecuteIndex
    <2> QED
        BY <1>1, <2>1, ExecutesIndexStays DEF IndexesStay
<1>4. CASE StartBuild(r)
    BY <1>4, BuildBegins DEF IndexesStay
<1>5. CASE FinishBuild(r) \/ FaultInBuild(r)
    <2>1. catalog' = catalog \/ \E m \in IndexStatements(r) : MakesValid(m)
        BY <1>5 DEF FinishBuild, FaultInBuild, MakesValid
    <2>2. IsCatalog(catalog)
        BY DEF IInv, Environment
    <2>3. ASSUME NEW m, MakesValid(m)
          PROVE  DOMAIN catalog'.indexes = DOMAIN catalog.indexes
        BY <2>2, <2>3, MakeValidParts DEF MakesValid
    <2> QED
        BY <2>1, <2>3 DEF IndexesStay
<1>6. CASE \/ Connect(r) \/ ListUserSchemas(r) \/ ListTables(r) \/ ListColumns(r)
           \/ ListUniqueKeys(r) \/ ListForeignKeys(r) \/ ListIndexes(r)
           \/ Refuse(r) \/ MakePlan(r) \/ DryRun(r) \/ Begin(r) \/ NoTransaction(r)
           \/ ExecuteInTransaction(r) \/ Finish(r)
           \/ FaultOutsideTransaction(r) \/ FaultInTransaction(r)
    <2>1. catalog' = catalog
        BY <1>6 DEF Connect, ListUserSchemas, ListTables, ListColumns, ListUniqueKeys,
                    ListForeignKeys, ListIndexes, Refuse, MakePlan, DryRun, Begin, NoTransaction,
                    ExecuteInTransaction, Finish, FaultOutsideTransaction, FaultInTransaction
    <2> QED
        BY <2>1 DEF IndexesStay
<1> QED
    BY <1>2, <1>3, <1>4, <1>5, <1>6 DEF Step

LEMMA StepSettles ==
    ASSUME NEW U, LossInv(U), IInv, OpenInv, ReachInv, SettleInv(U), NEW r \in Runners, Next,
           \/ Connect(r) \/ Step(r)
           \/ FaultOutsideTransaction(r) \/ FaultInTransaction(r)
           \/ FaultAtCommit(r) \/ FaultInBuild(r),
           NEW q \in Runners
    PROVE  Settles(files[q]) /\ files' = files
<1>1. ChangesCatalog(r) /\ files' = files /\ files[q] = files[r]
    BY StepChangesCatalog DEF LossInv
<1>2. IndexesStay(files[q], catalog, catalog')
    BY <1>1, StepStays
<1>3. AsWanted(files[q], catalog')
    <2>1. AsWanted(files[q], catalog)
        BY DEF SettleInv
    <2>2. ASSUME NEW p \in Runners, Protects(p)
          PROVE  AsWanted(files[q], catalog')
        <3>1. files[p] = files[q]
            BY DEF LossInv
        <3>2. \A x, y : Promise!SameIndex(x, y) <=> SameIndex(x, y)
            BY PromisedWords
        <3> QED
            BY <2>1, <2>2, <3>1, <3>2
               DEF Protects, Promise!NoNewIndex, Promise!ChangeIndex, AsWanted
    <2> QED
        BY <2>1, <2>2, StepProtects
<1>4. Evolves(files[q], catalog, catalog')
    BY <1>1, ChangesCatalogReach
<1>5. TablesMeet(files[q], catalog) => TablesMeet(files[q], catalog')
    <2>1. CASE Commits(r)
        BY <1>1, <2>1, CommitMeets
    <2>2. CASE ~Commits(r)
        <3>1. catalog'.tables = catalog.tables /\ catalog'.namespaces = catalog.namespaces
            <4>1. ASSUME pc[r] = "transaction", catalog' = working
                  PROVE  catalog' = catalog
                BY <2>2, <4>1
                   DEF Step, Commits, Connect, ListUserSchemas, ListTables, ListColumns,
                       ListUniqueKeys, ListForeignKeys, ListIndexes, Refuse, MakePlan, DryRun,
                       Begin, NoTransaction, ExecuteInTransaction, ExecuteIndex, StartBuild,
                       FinishBuild, Finish, HasIntrospected, FaultOutsideTransaction,
                       FaultInTransaction, FaultInBuild
            <4> QED
                BY <1>1, <4>1 DEF ChangesCatalog, ChangesIndexes
        <3> QED
            BY <3>1 DEF TablesMeet
    <2> QED
        BY <2>1, <2>2
<1> QED
    BY <1>1, <1>2, <1>3, <1>4, <1>5 DEF Settles

-----------------------------------------------------------------------------
(* Whatever a step does to the database, a run is right about its indexes. *)

LEMMA SameIndexCovered ==
    ASSUME NEW x, NEW y, SameIndex(x, y), NEW g, NEW i
    PROVE  CoversIndex(g, i, x) <=> CoversIndex(g, i, y)
    BY DEF SameIndex, CoversIndex, CoversIndexRust, CoversIndexGo, IndexMatches

LEMMA MeetsStays ==
    ASSUME NEW f, Settles(f), Meets(f, catalog)
    PROVE  Meets(f, catalog')
<1>1. TablesMeet(f, catalog') /\ IndexesMeet(f, catalog)
    BY DEF Meets, Settles
<1>2. ASSUME NEW i \in DOMAIN f.indexes
      PROVE  i \in DOMAIN catalog'.indexes /\ SameIndex(catalog'.indexes[i], f.indexes[i])
    BY <1>1 DEF IndexesMeet, Settles, IndexesStay, AsWanted
<1>3. ASSUME NEW i \in DOMAIN catalog'.indexes \ DOMAIN f.indexes
      PROVE  \E g \in f.groups : g.policy = "DEPRECATED" /\ CoversIndex(g, i, catalog'.indexes[i])
    <2>1. i \in DOMAIN catalog.indexes /\ SameIndex(catalog'.indexes[i], catalog.indexes[i])
        BY <1>3 DEF Settles, Evolves
    <2>2. \E g \in f.groups : g.policy = "DEPRECATED" /\ CoversIndex(g, i, catalog.indexes[i])
        BY <1>1, <1>3, <2>1 DEF IndexesMeet, Tolerates
    <2> QED
        BY <2>1, <2>2, SameIndexCovered
<1> QED
    BY <1>1, <1>2, <1>3 DEF Meets, IndexesMeet, Tolerates

LEMMA IndexServedStays ==
    ASSUME NEW f, Settles(f), NEW h, NEW m, Justified(f, h, m), IndexServed(catalog, m)
    PROVE  IndexServed(catalog', m)
<1>1. CASE m.kind = "create_index"
    <2>1. m.name \in DOMAIN f.indexes /\ m.name \in DOMAIN catalog.indexes
        BY <1>1 DEF Justified, IndexServed
    <2> QED
        BY <1>1, <2>1 DEF IndexServed, Settles, IndexesStay
<1>2. CASE m.kind = "drop_index"
    <2>1. m.name \notin DOMAIN f.indexes /\ m.name \notin DOMAIN catalog.indexes
        BY <1>2 DEF Justified, IndexServed
    <2> QED
        BY <1>2, <2>1 DEF IndexServed, Settles, Evolves
<1> QED
    BY <1>1, <1>2 DEF IndexServed

\* A run that reads no index, and sends what has its effect at once.
LEMMA KnowsStays ==
    ASSUME IInv, NEW q \in Runners, KnowsIndexes(q), Settles(files[q]), files'[q] = files[q],
           have'[q].indexes = have[q].indexes, left'[q].namespaces = left[q].namespaces,
           pc'[q] \in Reads => pc[q] \in Reads,
           \A m \in Sent(q)' : m \in Sent(q) \/ IndexServed(catalog', m)
    PROVE  KnowsIndexes(q)'
<1> DEFINE f == files[q]
<1>1. IndexesStay(f, have'[q], catalog')
    BY DEF KnowsIndexes, Settles, IndexesStay
<1>2. ASSUME pc'[q] \in Reads
      PROVE  SurplusIndexesKnown(q)'
    <2>1. SurplusIndexesKnown(q)
        BY <1>2 DEF KnowsIndexes
    <2>2. ASSUME NEW i \in DOMAIN catalog'.indexes \ DOMAIN f.indexes,
                 NamespaceOf[catalog'.indexes[i].table] \notin left[q].namespaces
          PROVE  i \in DOMAIN have[q].indexes
        <3>1. i \in DOMAIN catalog.indexes /\ SameIndex(catalog'.indexes[i], catalog.indexes[i])
            BY <2>2 DEF Settles, Evolves
        <3>2. catalog'.indexes[i].table = catalog.indexes[i].table
            BY <3>1 DEF SameIndex
        <3> QED
            BY <2>1, <2>2, <3>1, <3>2 DEF SurplusIndexesKnown
    <2> QED
        BY <2>2 DEF SurplusIndexesKnown
<1>3. ASSUME NEW m \in Sent(q)'
      PROVE  IndexServed(catalog', m)
    <2>1. CASE m \in Sent(q)
        <3>1. Justified(f, have[q], m)
            BY <2>1 DEF Sent, IInv, RunInv
        <3> QED
            BY <2>1, <3>1, IndexServedStays DEF KnowsIndexes
    <2> QED
        BY <1>3, <2>1
<1> QED
    BY <1>1, <1>2, <1>3 DEF KnowsIndexes

LEMMA OthersWait ==
    ASSUME NEW U, LossInv(U), NEW r \in Runners, NEW q \in Runners, q # r, pc[q] = "transaction",
           \/ Connect(r) \/ Step(r)
           \/ FaultOutsideTransaction(r) \/ FaultInTransaction(r)
           \/ FaultAtCommit(r) \/ FaultInBuild(r)
    PROVE  UNCHANGED <<catalog, working>>
<1>1. owner = q /\ q # NoRunner /\ pc[r] \notin {"transaction", "building"}
    BY RunnerAssumption DEF LossInv, RunLoss
<1> QED
    BY <1>1 DEF Step, Connect, ListUserSchemas, ListTables, ListColumns, ListUniqueKeys,
                ListForeignKeys, ListIndexes, Refuse, MakePlan, DryRun, Begin, NoTransaction,
                ExecuteInTransaction, Commit, ExecuteIndex, StartBuild, FinishBuild, Finish,
                FaultOutsideTransaction, FaultInTransaction, FaultAtCommit, FaultInBuild

\* The runs that do not take the step.
LEMMA OthersSettle ==
    ASSUME NEW U, LossInv(U), IInv, NEW r \in Runners, NEW q \in Runners, q # r,
           RunSettles(q), Settles(files[q]), files' = files,
           \/ Connect(r) \/ Step(r)
           \/ FaultOutsideTransaction(r) \/ FaultInTransaction(r)
           \/ FaultAtCommit(r) \/ FaultInBuild(r)
    PROVE  RunSettles(q)'
<1>1. /\ pc'[q] = pc[q] /\ have'[q] = have[q] /\ left'[q] = left[q]
      /\ plan'[q] = plan[q] /\ todo'[q] = todo[q]
    BY OthersKept DEF IInv
<1>2. KnowsIndexes(q)'
    <2>1. Sent(q)' = Sent(q)
        BY <1>1 DEF Sent
    <2> QED
        BY <1>1, <2>1, KnowsStays DEF RunSettles
<1>3. pc[q] = "transaction" => IndexesStay(files[q], catalog', working')
    BY OthersWait DEF RunSettles
<1>4. pc[q] \in {"committed", "building"} => TablesMeet(files[q], catalog')
    BY DEF RunSettles, Settles
<1>5. pc[q] = "done" /\ q \notin DryRunners => Meets(files[q], catalog')
    BY MeetsStays DEF RunSettles
<1> QED
    BY <1>1, <1>2, <1>3, <1>4, <1>5 DEF RunSettles

-----------------------------------------------------------------------------
(* The run that takes the step: while it reads.                            *)

LEMMA StoppedSettles ==
    ASSUME NEW r \in Runners, pc'[r] \in AtRest \cup {"connected"}, have'[r] = EmptySchema,
           Sent(r)' = {}, pc'[r] = "done" /\ r \notin DryRunners => Meets(files'[r], catalog')
    PROVE  RunSettles(r)'
<1>1. pc'[r] \notin Reads /\ pc'[r] \notin {"transaction", "committed", "building"}
    BY DEF AtRest, Reads, Active
<1>2. DOMAIN have'[r].indexes = {}
    BY DEF EmptySchema
<1>3. KnowsIndexes(r)'
    BY <1>1, <1>2 DEF KnowsIndexes, IndexesStay
<1> QED
    BY <1>1, <1>3 DEF RunSettles

LEMMA NothingSent ==
    ASSUME IInv, NEW r \in Runners, pc[r] \notin HoldsPlan, plan' = plan
    PROVE  Sent(r) = {} /\ Sent(r)' = {}
    BY DEF IInv, RunInv, Sent

LEMMA ConnectSettles ==
    ASSUME IInv, NEW r \in Runners, ReadInv(r), Connect(r)
    PROVE  RunSettles(r)'
<1>1. pc'[r] = "connected" /\ have' = have /\ have[r] = EmptySchema /\ plan' = plan
    BY DEF Connect, ReadInv, IInv, Shape
<1>2. pc[r] \notin HoldsPlan
    BY DEF Connect, AtRest, HoldsPlan
<1> QED
    BY <1>1, <1>2, NothingSent, StoppedSettles

LEMMA ReadSettles ==
    ASSUME NEW r \in Runners, KnowsIndexes(r)',
           pc'[r] \in {"listed", "columns", "unique keys read", "foreign keys read", "planned"}
    PROVE  RunSettles(r)'
    BY DEF RunSettles

\* Every index that the files do not want is on a table still to be listed.
LEMMA ListUserSchemasSettles ==
    ASSUME NEW U, LossInv(U), IInv, NEW r \in Runners, ReadInv(r), Housed(files[r], catalog),
           ListUserSchemas(r)
    PROVE  RunSettles(r)'
<1> DEFINE f == files[r]
           c == catalog
<1>1. /\ pc[r] = "connected" /\ pc'[r] = "listed" /\ catalog' = c /\ files'[r] = f
      /\ have[r] = EmptySchema /\ plan' = plan
    BY DEF ListUserSchemas, ReadInv, IInv, Shape
<1>2. have'[r] = [have[r] EXCEPT !.namespaces = c.namespaces]
      /\ left'[r] = [left[r] EXCEPT !.namespaces = CollectDesiredNamespaces(f) \cup c.namespaces]
    BY DEF ListUserSchemas, IInv, Shape
<1>3. DOMAIN have'[r].indexes = {}
    <2>1. [EmptySchema EXCEPT !.namespaces = c.namespaces] =
             [namespaces |-> c.namespaces, tables |-> << >>, indexes |-> << >>]
        BY DEF EmptySchema
    <2> QED
        BY <1>1, <1>2, <2>1
<1>4. left'[r].namespaces = CollectDesiredNamespaces(f) \cup c.namespaces
    <2>1. left[r] \in Leftovers
        BY DEF IInv, Shape
    <2> QED
        BY <1>2, <2>1 DEF Leftovers
<1>5. ASSUME NEW i \in DOMAIN c.indexes
      PROVE  NamespaceOf[c.indexes[i].table] \in left'[r].namespaces
    <2>1. c.indexes[i].table \in DOMAIN c.tables
        BY DEF LossInv, Sound
    <2>2. CASE c.indexes[i].table \in DOMAIN f.tables
        BY <1>4, <2>2 DEF CollectDesiredNamespaces
    <2>3. CASE c.indexes[i].table \notin DOMAIN f.tables
        BY <1>4, <2>1, <2>3 DEF Housed
    <2> QED
        BY <2>2, <2>3
<1>6. Sent(r)' = {}
    BY <1>1, NothingSent DEF HoldsPlan
<1>7. KnowsIndexes(r)'
    BY <1>1, <1>3, <1>5, <1>6 DEF KnowsIndexes, IndexesStay, SurplusIndexesKnown
<1> QED
    BY <1>1, <1>7, ReadSettles

\* The queries for tables, columns and keys.
LEMMA ListsSettle ==
    ASSUME IInv, NEW r \in Runners, KnowsIndexes(r), Settles(files[r]),
           ListTables(r) \/ ListColumns(r) \/ ListUniqueKeys(r) \/ ListForeignKeys(r)
    PROVE  RunSettles(r)'
<1>1. /\ files' = files /\ plan' = plan
      /\ pc[r] \in {"listed", "columns", "unique keys read"}
      /\ pc'[r] \in {"columns", "unique keys read", "foreign keys read"}
    BY DEF ListTables, ListColumns, ListUniqueKeys, ListForeignKeys, IInv, Shape
<1>2. have'[r].indexes = have[r].indexes
    <2>1. have' = have \/ \E ts : have'[r] = [have[r] EXCEPT !.tables = ts]
        BY DEF ListTables, ListColumns, ListUniqueKeys, ListForeignKeys, IInv, Shape
    <2>2. IsSchema(have[r])
        BY DEF IInv, RunInv
    <2> QED
        BY <2>1, <2>2 DEF IsSchema
<1>3. left'[r].namespaces = left[r].namespaces
    <2>1. left' = left \/ \E ts : left'[r] = [left[r] EXCEPT !.tables = ts]
        BY DEF ListTables, ListColumns, ListUniqueKeys, ListForeignKeys, IInv, Shape
    <2>2. left[r] \in Leftovers
        BY DEF IInv, Shape
    <2> QED
        BY <2>1, <2>2 DEF Leftovers
<1>4. Sent(r)' = {}
    BY <1>1, NothingSent DEF HoldsPlan
<1>5. pc[r] \in Reads
    BY <1>1 DEF Reads, Active
<1>6. KnowsIndexes(r)'
    BY <1>1, <1>2, <1>3, <1>4, <1>5, KnowsStays
<1> QED
    BY <1>1, <1>6, ReadSettles

LEMMA ListIndexesSettles ==
    ASSUME IInv, NEW r \in Runners, KnowsIndexes(r), ListIndexes(r)
    PROVE  RunSettles(r)'
<1> DEFINE f == files[r]
           c == catalog
           h == have[r]
           found == {i \in DOMAIN c.indexes : InReach(r, c.indexes[i].table)}
<1>1. /\ pc[r] = "foreign keys read" /\ pc'[r] = "listed" /\ catalog' = c /\ files' = files
      /\ plan' = plan
      /\ left'[r] = [left[r] EXCEPT !.namespaces = left[r].namespaces \ {Reading(r)}]
    BY DEF ListIndexes, IInv, Shape
<1>2. left'[r].namespaces = left[r].namespaces \ {Reading(r)}
    <2>1. left[r] \in Leftovers
        BY DEF IInv, Shape
    <2> QED
        BY <1>1, <2>1 DEF Leftovers
<1>3. DOMAIN have'[r].indexes = DOMAIN h.indexes \cup found
    <2> DEFINE is == [i \in DOMAIN h.indexes \cup found |->
                         IF i \in found THEN ReadIndex(c.indexes[i]) ELSE h.indexes[i]]
    <2>1. have'[r] = [h EXCEPT !.indexes = is]
        BY DEF ListIndexes, IInv, Shape
    <2>2. IsSchema(h)
        BY DEF IInv, RunInv
    <2>3. DOMAIN is = DOMAIN h.indexes \cup found
        OBVIOUS
    <2> HIDE DEF is, h, found
    <2>4. have'[r].indexes = is
        BY <2>1, <2>2 DEF IsSchema
    <2> QED
        BY <2>3, <2>4
<1>4. IndexesStay(f, have'[r], c)
    BY <1>3 DEF KnowsIndexes, IndexesStay
<1>5. SurplusIndexesKnown(r)
    BY <1>1 DEF KnowsIndexes, Reads, Active
<1>6. ASSUME NEW i \in DOMAIN c.indexes \ DOMAIN f.indexes,
             NamespaceOf[c.indexes[i].table] \notin left'[r].namespaces
      PROVE  i \in DOMAIN have'[r].indexes
    <2>1. CASE NamespaceOf[c.indexes[i].table] = Reading(r)
        BY <1>3, <2>1 DEF InReach
    <2>2. CASE NamespaceOf[c.indexes[i].table] # Reading(r)
        BY <1>2, <1>3, <1>5, <1>6, <2>2 DEF SurplusIndexesKnown
    <2> QED
        BY <2>1, <2>2
<1>7. Sent(r)' = {}
    BY <1>1, NothingSent DEF HoldsPlan
<1>8. KnowsIndexes(r)'
    BY <1>1, <1>4, <1>6, <1>7 DEF KnowsIndexes, SurplusIndexesKnown
<1> QED
    BY <1>1, <1>8, ReadSettles

LEMMA MakePlanSettles ==
    ASSUME IInv, NEW r \in Runners, KnowsIndexes(r), Settles(files[r]), MakePlan(r)
    PROVE  RunSettles(r)'
<1>1. /\ pc[r] = "listed" /\ pc'[r] = "planned" /\ files' = files /\ left' = left
      /\ have' = have /\ plan'[r] = todo'[r]
    BY DEF MakePlan, HasIntrospected, IInv, Shape
<1>2. Sent(r)' = {} /\ pc[r] \in Reads
    BY <1>1 DEF Sent, Reads, Active
<1>3. KnowsIndexes(r)'
    BY <1>1, <1>2, KnowsStays
<1> QED
    BY <1>1, <1>3, ReadSettles

-----------------------------------------------------------------------------
(* While it executes its plan.                                             *)

\* A transaction does nothing but what is left to it of the plan: a run that
\* opens none has found the tables to be what the files ask for.
LEMMA NothingToTransact ==
    ASSUME IInv, ReachInv, NEW r \in Runners, pc[r] \in HoldsPlan, todo[r] = plan[r],
           InTransaction(todo[r]) = {}
    PROVE  TablesMeet(files[r], catalog)
<1>1. ReadInv(r)
    BY DEF ReachInv
<1>2. PICK orders \in Orders(files[r].groups) :
          /\ plan[r] = Plan(files[r], have[r], orders)
          /\ Disallowed(files[r], have[r], orders) = {}
    BY <1>1 DEF ReadInv, Planned
<1>3. Nearer(files[r], have[r], catalog) /\ Known(files[r], have[r], catalog)
    BY <1>1, PlannedKnown DEF ReadInv
<1>4. IsFiles(files[r]) /\ IsSchema(have[r]) /\ IsCatalog(catalog)
    BY DEF IInv, Environment, RunInv
<1>5. \A m \in InTransaction(Plan(files[r], have[r], orders)) :
          Served(files[r], have[r], catalog, m)
    BY <1>2
<1> QED
    BY <1>2, <1>3, <1>4, <1>5, PlanServed

LEMMA GoesOnSettles ==
    ASSUME NEW U, LossInv(U), IInv, OpenInv, ReachInv, NEW r \in Runners, RunSettles(r),
           Settles(files[r]),
           Begin(r) \/ NoTransaction(r) \/ Commit(r) \/ StartBuild(r)
    PROVE  RunSettles(r)'
<1>1. /\ UNCHANGED <<files, have, left, plan, todo>>
      /\ pc[r] \in {"planned", "transaction", "committed"}
      /\ pc'[r] \in {"transaction", "committed", "building"}
    BY DEF Begin, NoTransaction, Commit, StartBuild, IInv, Shape
<1>2. pc[r] \in Reads
    BY <1>1 DEF Reads, Active
<1>3. KnowsIndexes(r)'
    <2>1. Sent(r)' = Sent(r)
        BY <1>1 DEF Sent
    <2> QED
        BY <1>1, <1>2, <2>1, KnowsStays DEF RunSettles
<1>4. CASE Begin(r)
    <2>1. working' = catalog /\ catalog' = catalog /\ pc'[r] = "transaction"
        BY <1>4 DEF Begin, IInv, Shape
    <2>2. IndexesStay(files[r], catalog', working')
        BY <2>1 DEF IndexesStay
    <2> QED
        BY <1>1, <1>3, <2>1, <2>2 DEF RunSettles
<1>5. CASE NoTransaction(r) \/ Commit(r) \/ StartBuild(r)
    <2>1. pc'[r] \in {"committed", "building"}
        BY <1>5 DEF NoTransaction, Commit, StartBuild, IInv, Shape
    <2>2. TablesMeet(files[r], catalog')
        <3>1. CASE NoTransaction(r)
            <4>1. /\ pc[r] = "planned" /\ InTransaction(todo[r]) = {} /\ catalog' = catalog
                  /\ pc[r] \in HoldsPlan
                BY <3>1 DEF NoTransaction, HoldsPlan
            <4>2. todo[r] = plan[r]
                BY <4>1 DEF LossInv, RunLoss
            <4> QED
                BY <4>1, <4>2, NothingToTransact
        <3>2. CASE Commit(r)
            BY <3>2, CommitMeets DEF Commits
        <3>3. CASE StartBuild(r)
            BY <3>3 DEF StartBuild, RunSettles, Settles
        <3> QED
            BY <1>5, <3>1, <3>2, <3>3
    <2> QED
        BY <1>1, <1>3, <2>1, <2>2 DEF RunSettles
<1> QED
    BY <1>4, <1>5

LEMMA ExecutesSettles ==
    ASSUME NEW U, LossInv(U), IInv, NEW r \in Runners, RunSettles(r), Settles(files[r]),
           IndexesFit(U, files[r]), AsWanted(files[r], catalog), NEW m, Executes(r, m)
    PROVE  RunSettles(r)'
<1>1. /\ UNCHANGED <<catalog, files, have, left, pc>> /\ pc[r] = "transaction"
    BY DEF Executes
<1>2. Sent(r)' = Sent(r) \cup {m} /\ m.kind \in Adding \cup Taking
    BY Executed
<1>3. IndexServed(catalog', m)
    BY <1>2 DEF IndexServed, Adding, Taking
<1>4. KnowsIndexes(r)'
    BY <1>1, <1>2, <1>3, KnowsStays DEF RunSettles
<1>5. IndexesStay(files[r], catalog, working')
    BY <1>1, ExecutesStays DEF RunSettles
<1> QED
    BY <1>1, <1>4, <1>5 DEF RunSettles

\* An index statement that was executed, or whose index has been built.
LEMMA IndexSettles ==
    ASSUME IInv, NEW r \in Runners, RunSettles(r), Settles(files[r]),
           pc[r] \in {"committed", "building"}, pc'[r] = "committed",
           UNCHANGED <<files, left, have, plan>>, NEW m \in IndexStatements(r),
           todo' = [todo EXCEPT ![r] = @ \ {m}], IndexServed(catalog', m)
    PROVE  RunSettles(r)'
<1>1. m \in todo[r] /\ m \in plan[r]
    BY IndexStatement DEF IInv, RunInv
<1>2. todo'[r] = todo[r] \ {m}
    BY DEF IInv, Shape
<1>3. Sent(r)' = Sent(r) \cup {m} /\ pc[r] \in Reads
    BY <1>1, <1>2 DEF Sent, Reads, Active
<1>4. KnowsIndexes(r)'
    BY <1>3, KnowsStays DEF RunSettles
<1>5. TablesMeet(files[r], catalog')
    BY DEF RunSettles, Settles
<1> QED
    BY <1>4, <1>5 DEF RunSettles

LEMMA ExecuteIndexSettles ==
    ASSUME NEW U, LossInv(U), IInv, NEW r \in Runners, RunSettles(r), Settles(files[r]),
           IndexesFit(U, files[r]), ExecuteIndex(r), ~Stop(r, "failed")
    PROVE  RunSettles(r)'
<1>1. PICK m \in IndexStatements(r) :
          /\ ~Builds(catalog, m)
          /\ catalog' = Effect(catalog, m, files[r], have[r])
          /\ todo' = [todo EXCEPT ![r] = @ \ {m}]
          /\ UNCHANGED <<pc, left, have, plan>>
    BY DEF ExecuteIndex
<1>2. pc[r] = "committed" /\ files' = files
    BY DEF ExecuteIndex
<1>3. IndexServed(catalog', m)
    BY <1>1, ExecutesIndexStays
<1> QED
    BY <1>1, <1>2, <1>3, IndexSettles

LEMMA FinishBuildSettles ==
    ASSUME NEW U, LossInv(U), IInv, NEW r \in Runners, RunSettles(r), Settles(files[r]),
           FinishBuild(r)
    PROVE  RunSettles(r)'
<1>1. PICK m \in IndexStatements(r) :
          MakesValid(m) /\ todo' = [todo EXCEPT ![r] = @ \ {m}]
    BY DEF FinishBuild, MakesValid
<1>2. /\ pc[r] = "building" /\ pc'[r] = "committed" /\ UNCHANGED <<files, left, have, plan>>
    BY DEF FinishBuild, IInv, Shape
<1>3. m.name \in DOMAIN files[r].indexes /\ m.name \in DOMAIN catalog.indexes
    BY <1>2 DEF LossInv, RunLoss, BuildsItsIndex
<1>4. m.kind # "drop_index"
    <2>1. Justified(files[r], have[r], m)
        BY IndexStatement
    <2> QED
        BY <1>3, <2>1 DEF Justified
<1>5. DOMAIN catalog'.indexes = DOMAIN catalog.indexes
    <2>1. IsCatalog(catalog)
        BY DEF IInv, Environment
    <2> QED
        BY <1>1, <2>1, MakeValidParts DEF MakesValid
<1>6. IndexServed(catalog', m)
    BY <1>3, <1>4, <1>5 DEF IndexServed
<1> QED
    BY <1>1, <1>2, <1>6, IndexSettles

-----------------------------------------------------------------------------
(* The end of a run.                                                       *)

\* No index of a table that stays goes with its table.
LEMMA IndexTableStays ==
    ASSUME NEW f, NEW h, NEW i, h.indexes[i].table \in DOMAIN f.tables
    PROVE  ~IndexVanishes(f, h, i)
<1> DEFINE t == h.indexes[i].table
<1>1. Migration("drop_table", t, NoName) \notin WholeTableMigrations(f, h)
    <2>1. t \notin SurplusTables(f, h)
        BY DEF SurplusTables
    <2> QED
        BY <2>1 DEF WholeTableMigrations, Migration
<1> QED
    BY <1>1 DEF IndexVanishes, IndexVanishesRust, IndexVanishesGo

\* What a run with nothing left to send has made of the indexes.
LEMMA FinishMeets ==
    ASSUME NEW U, LossInv(U), IInv, ReachInv, NEW r \in Runners, RunSettles(r),
           AsWanted(files[r], catalog), pc[r] = "committed", todo[r] = {}
    PROVE  Meets(files[r], catalog)
<1> DEFINE f == files[r]
           h == have[r]
           c == catalog
<1>1. /\ TablesMeet(f, c) /\ IndexesStay(f, h, c) /\ SurplusIndexesKnown(r)
      /\ \A m \in Sent(r) : IndexServed(c, m)
    BY DEF RunSettles, KnowsIndexes, Reads, Active
<1>2. left[r].namespaces = {} /\ Planned(r)
    BY DEF ReachInv, ReadInv, HoldsPlan
<1>3. PICK orders \in Orders(f.groups) :
          plan[r] = Plan(f, h, orders) /\ Disallowed(f, h, orders) = {}
    BY <1>2 DEF Planned
<1>4. /\ IsFiles(f) /\ IsSchema(h) /\ IsCatalog(c)
      /\ \A i \in DOMAIN c.indexes : c.indexes[i].table \in DOMAIN f.tables
    BY <1>1 DEF IInv, Environment, RunInv, LossInv, Sound, TablesMeet
<1>5. \A m \in IndexMigrations(f, h, orders) : IndexServed(c, m)
    BY <1>1, <1>3 DEF Plan, Sent
<1>6. ASSUME NEW i \in DOMAIN f.indexes
      PROVE  i \in DOMAIN c.indexes /\ SameIndex(c.indexes[i], f.indexes[i])
    <2>1. i \in DOMAIN c.indexes
        <3>1. CASE i \in DOMAIN h.indexes
            BY <1>1, <3>1 DEF IndexesStay
        <3>2. CASE i \notin DOMAIN h.indexes
            <4> DEFINE m == Migration("create_index", f.indexes[i].table, i)
            <4>1. m \in IndexMigrations(f, h, orders)
                BY <3>2 DEF IndexMigrations, IndexesToCreate
            <4>2. IndexServed(c, m)
                BY <1>5, <4>1
            <4> QED
                BY <4>2 DEF IndexServed, Migration
        <3> QED
            BY <3>1, <3>2
    <2> QED
        BY <2>1 DEF AsWanted
<1>7. ASSUME NEW i \in DOMAIN c.indexes \ DOMAIN f.indexes
      PROVE  \E g \in f.groups : g.policy = "DEPRECATED" /\ CoversIndex(g, i, c.indexes[i])
    <2> DEFINE index == h.indexes[i]
               order == orders[<<index.table, i>>]
    <2>1. i \in DOMAIN h.indexes
        BY <1>1, <1>2, <1>7 DEF SurplusIndexesKnown
    <2>2. SameIndex(index, c.indexes[i])
        BY <1>7, <2>1 DEF LossInv, RunLoss, Reflects
    <2>3. ~IndexVanishes(f, h, i)
        <3>1. index.table \in DOMAIN f.tables
            BY <1>4, <1>7, <2>2 DEF SameIndex
        <3> QED
            BY <3>1, IndexTableStays
    <2>4. IndexVerdict(i, index, order) # "none"
        <3>1. Open(f, h, orders)
            BY <1>3, OpenIff
        <3> QED
            BY <1>7, <2>1, <2>3, <3>1 DEF Open
    <2>5. IndexVerdict(i, index, order) # "DROP"
        <3>1. SUFFICES ASSUME IndexVerdict(i, index, order) = "DROP"
                       PROVE  FALSE
            OBVIOUS
        <3> DEFINE m == Migration("drop_index", index.table, i)
        <3>2. m \in IndexMigrations(f, h, orders)
            BY <1>7, <2>1, <3>1 DEF IndexMigrations, SurplusIndexes
        <3>3. IndexServed(c, m)
            BY <1>5, <3>2
        <3> QED
            BY <1>7, <3>3 DEF IndexServed, Migration
    <2>6. order \in Iterations(f.groups)
        <3>1. index.table \in Tables /\ i \in Indexes
            BY <1>4, <2>1, SchemaParts
        <3> QED
            BY <3>1, IterationOf
    <2> HIDE DEF index, order
    <2>7. \E g \in f.groups : g.policy = "DEPRECATED" /\ CoversIndex(g, i, index)
        BY <1>4, <2>4, <2>5, <2>6, IndexTolerated
    <2> QED
        BY <2>2, <2>7, SameIndexCovered
<1> QED
    BY <1>1, <1>6, <1>7 DEF Meets, IndexesMeet, Tolerates

LEMMA StopsSettle ==
    ASSUME NEW U, LossInv(U), IInv, ReachInv, NEW r \in Runners, RunSettles(r),
           AsWanted(files[r], catalog),
           \/ Refuse(r) \/ DryRun(r) \/ Finish(r)
           \/ FaultOutsideTransaction(r) \/ FaultInTransaction(r)
           \/ FaultAtCommit(r) \/ FaultInBuild(r)
           \/ (ExecuteInTransaction(r) \/ ExecuteIndex(r)) /\ Stop(r, "failed")
    PROVE  RunSettles(r)'
<1>1. PICK p \in {"refused", "failed", "done"} :
          Stop(r, p) /\ (p = "done" => r \in DryRunners \/ Finish(r))
    BY DEF Refuse, DryRun, FaultOutsideTransaction, FaultInTransaction, FaultAtCommit,
           FaultInBuild, Fault, Finish
<1>2. /\ pc'[r] = p /\ have'[r] = EmptySchema /\ plan'[r] = {} /\ todo'[r] = {}
    BY <1>1 DEF Stop, IInv, Shape
<1>3. ASSUME p = "done", r \notin DryRunners
      PROVE  Meets(files'[r], catalog')
    <2>1. Finish(r)
        BY <1>1, <1>3
    <2>2. /\ pc[r] = "committed" /\ todo[r] = {} /\ UNCHANGED <<files, catalog>>
        BY <2>1 DEF Finish
    <2> QED
        BY <2>2, FinishMeets
<1>4. Sent(r)' = {} /\ pc'[r] \in AtRest \cup {"connected"}
    BY <1>2 DEF Sent, AtRest
<1> QED
    BY <1>2, <1>3, <1>4, StoppedSettles

-----------------------------------------------------------------------------
(* The invariant.                                                          *)

LEMMA InitSettles ==
    ASSUME NEW U, IndexesAreKept(U), Init
    PROVE  SettleInv(U)
<1>1. PICK s \in Scenarios : catalog = s.catalog /\ files = s.files
    BY DEF Init
<1>2. ASSUME NEW r \in Runners
      PROVE  RunSettles(r)
    <2>1. pc[r] = "idle" /\ have[r] = EmptySchema /\ plan[r] = {}
        BY DEF Init
    <2>2. DOMAIN have[r].indexes = {} /\ Sent(r) = {} /\ pc[r] \notin Reads
        BY <2>1 DEF EmptySchema, Sent, Reads, Active
    <2>3. KnowsIndexes(r)
        BY <2>2 DEF KnowsIndexes, IndexesStay
    <2> QED
        BY <2>1, <2>3 DEF RunSettles
<1> QED
    BY <1>1, <1>2 DEF IndexesAreKept, SettleInv

LEMMA OwnStepSettles ==
    ASSUME NEW U, LossInv(U), IInv, OpenInv, ReachInv, SettleInv(U), NEW r \in Runners,
           Settles(files[r]), files' = files,
           \/ Connect(r) \/ Step(r)
           \/ FaultOutsideTransaction(r) \/ FaultInTransaction(r)
           \/ FaultAtCommit(r) \/ FaultInBuild(r)
    PROVE  RunSettles(r)'
<1>1. /\ RunSettles(r) /\ KnowsIndexes(r)
      /\ IndexesFit(U, files[r]) /\ AsWanted(files[r], catalog)
    BY DEF SettleInv, RunSettles
<1>2. ReadInv(r) /\ Housed(files[r], catalog)
    BY DEF ReachInv
<1>3. CASE Connect(r)
    BY <1>2, <1>3, ConnectSettles
<1>4. CASE ListUserSchemas(r)
    BY <1>2, <1>4, ListUserSchemasSettles
<1>5. CASE ListTables(r) \/ ListColumns(r) \/ ListUniqueKeys(r) \/ ListForeignKeys(r)
    BY <1>1, <1>5, ListsSettle
<1>6. CASE ListIndexes(r)
    BY <1>1, <1>6, ListIndexesSettles
<1>7. CASE MakePlan(r)
    BY <1>1, <1>7, MakePlanSettles
<1>8. CASE Begin(r) \/ NoTransaction(r) \/ Commit(r) \/ StartBuild(r)
    BY <1>1, <1>8, GoesOnSettles
<1>9. CASE \/ Refuse(r) \/ DryRun(r) \/ Finish(r)
           \/ FaultOutsideTransaction(r) \/ FaultInTransaction(r)
           \/ FaultAtCommit(r) \/ FaultInBuild(r)
           \/ (ExecuteInTransaction(r) \/ ExecuteIndex(r)) /\ Stop(r, "failed")
    BY <1>1, <1>9, StopsSettle
<1>10. CASE ExecuteInTransaction(r) /\ ~Stop(r, "failed")
    <2>1. PICK m : Executes(r, m)
        BY <1>10 DEF ExecuteInTransaction, Executes
    <2> QED
        BY <1>1, <2>1, ExecutesSettles
<1>11. CASE ExecuteIndex(r) /\ ~Stop(r, "failed")
    BY <1>1, <1>11, ExecuteIndexSettles
<1>12. CASE FinishBuild(r)
    BY <1>1, <1>12, FinishBuildSettles
<1> QED
    BY <1>3, <1>4, <1>5, <1>6, <1>7, <1>8, <1>9, <1>10, <1>11, <1>12 DEF Step

\* SettleInv is an invariant of overlapping runs that agree on their files.
LEMMA SettleInductive ==
    ASSUME AgreeOnFiles, NEW U, NamesAreKept(U), SurplusKeysRest, FilesAreConsistent,
           SurplusIsHoused, IndexesAreKept(U)
    PROVE  Spec => []SettleInv(U)
<1>1. Init => SettleInv(U)
    BY InitSettles
<1>2. IInv /\ LossInv(U) /\ OpenInv /\ ReachInv /\ SettleInv(U) /\ [Next]_vars => SettleInv(U)'
    <2>1. ASSUME IInv, LossInv(U), OpenInv, ReachInv, SettleInv(U), Next
          PROVE  SettleInv(U)'
        <3>1. PICK r \in Runners :
                  \/ Connect(r) \/ Step(r)
                  \/ FaultOutsideTransaction(r) \/ FaultInTransaction(r)
                  \/ FaultAtCommit(r) \/ FaultInBuild(r)
            BY <2>1 DEF Next
        <3>2. ASSUME NEW q \in Runners
              PROVE  Settles(files[q]) /\ files' = files
            BY <2>1, <3>1, StepSettles
        <3>3. RunSettles(r)'
            BY <2>1, <3>1, <3>2, OwnStepSettles
        <3>4. ASSUME NEW q \in Runners, q # r
              PROVE  RunSettles(q)'
            <4>1. RunSettles(q)
                BY <2>1 DEF SettleInv
            <4> QED
                BY <2>1, <3>1, <3>2, <3>4, <4>1, OthersSettle
        <3> QED
            BY <2>1, <3>2, <3>3, <3>4 DEF SettleInv, Settles
    <2>2. ASSUME IInv, SettleInv(U), UNCHANGED vars
          PROVE  SettleInv(U)'
        BY <2>2 DEF vars, SettleInv, RunSettles, KnowsIndexes, SurplusIndexesKnown, Sent
    <2> QED
        BY <2>1, <2>2
<1> QED
    BY <1>1, <1>2, Inductive, LossInductive, OpenInductive, ReachInductive, PTL DEF Spec

-----------------------------------------------------------------------------
(* The next plan.                                                          *)

\* Files that are met are ones the planner recognises in the database.
LEMMA MetIsRecognised ==
    ASSUME NEW f, IsFiles(f), NEW c, IsCatalog(c), TablesMeet(f, c), SurplusRests(f, c),
           AsWanted(f, c), WantedKeysRest(f), PoliciesApart(f)
    PROVE  Recognises(f, c)
<1>1. DOMAIN c.tables = DOMAIN f.tables
    BY DEF TablesMeet
<1>2. ASSUME NEW t \in DOMAIN c.tables, NEW fk \in c.tables[t].foreignKeys
      PROVE  RestsOnConstraint(c, fk)
    <2>1. CASE fk \in f.tables[t].foreignKeys
        <3>1. fk.references \in DOMAIN f.tables /\ RestsOnConstraint(f, fk)
            BY <1>1, <2>1 DEF WantedKeysRest
        <3>2. /\ c.tables[fk.references].primaryKey = f.tables[fk.references].primaryKey
              /\ f.tables[fk.references].uniques \subseteq c.tables[fk.references].uniques
            BY <3>1 DEF TablesMeet, KeysMeet
        <3> QED
            BY <3>1, <3>2 DEF RestsOnConstraint
    <2>2. CASE fk \notin f.tables[t].foreignKeys
        BY <1>1, <1>2, <2>2 DEF SurplusRests
    <2> QED
        BY <2>1, <2>2
<1>3. KeysRest(c)
    BY <1>2 DEF KeysRest
<1>4. ASSUME NEW i \in DOMAIN f.indexes \cap DOMAIN Introspected(c).indexes
      PROVE  Introspected(c).indexes[i].table = f.indexes[i].table
    <2>1. i \in DOMAIN c.indexes /\ Introspected(c).indexes[i] = ReadIndex(c.indexes[i])
        BY <1>4, ReadIndexes
    <2>2. c.indexes[i].table = f.indexes[i].table
        BY <1>4, <2>1 DEF AsWanted, SameIndex
    <2> QED
        BY <2>1, <2>2 DEF ReadIndex
<1>5. ASSUME NEW g \in f.groups, NEW h \in f.groups, g.policy # h.policy
      PROVE  /\ \A x, type : ~(CoversColumn(g, x, type) /\ CoversColumn(h, x, type))
             /\ \A x : ~(CoversUnique(g, x) /\ CoversUnique(h, x))
             /\ \A x : ~(CoversForeignKey(g, x) /\ CoversForeignKey(h, x))
             /\ \A i, x : ~(CoversIndex(g, i, x) /\ CoversIndex(h, i, x))
    <2>1. Apart(g, h)
        BY <1>5 DEF PoliciesApart
    <2>2. \A x, type : ~(CoversColumn(g, x, type) /\ CoversColumn(h, x, type))
        BY <2>1 DEF Apart, CoversColumn
    <2>3. \A x : ~(CoversUnique(g, x) /\ CoversUnique(h, x))
        BY <2>1 DEF Apart, CoversUnique, CoversUniqueRust, CoversUniqueGo
    <2>4. \A x : ~(CoversForeignKey(g, x) /\ CoversForeignKey(h, x))
        BY <2>1 DEF Apart, CoversForeignKey, CoversForeignKeyRust, CoversForeignKeyGo
    <2>5. \A i, x : ~(CoversIndex(g, i, x) /\ CoversIndex(h, i, x))
        BY <2>1 DEF Apart, CoversIndex, CoversIndexRust, CoversIndexGo, IndexMatches
    <2> QED
        BY <2>2, <2>3, <2>4, <2>5
<1>6. OnePolicy(f, Introspected(c))
    BY <1>5 DEF OnePolicy, Undivided
<1> QED
    BY <1>3, <1>4, <1>6 DEF Recognises, SameTables

\* Runs of one version of the files may overlap, crash, fail and be repeated
\* at any moment, and others may go on after one has reported success: from
\* that report on, until the run is started again, a new plan from the same
\* files has nothing in it.
THEOREM DoneIsConverged ==
    ASSUME AgreeOnFiles, NEW U, NamesAreKept(U), SurplusKeysRest, FilesAreConsistent,
           SurplusIsHoused, IndexesAreKept(U), FilesAreClear
    PROVE  Spec => []DoneMeansConverged
<1> DEFINE Clear == \A r \in Runners : WantedKeysRest(files[r]) /\ PoliciesApart(files[r])
<1>1. Spec => []Clear
    <2>1. Init => Clear
        BY DEF Init, FilesAreClear
    <2>2. IInv /\ LossInv(U) /\ Clear /\ [Next]_vars => Clear'
        <3>1. IInv /\ LossInv(U) /\ Next => files' = files
            BY StepChangesCatalog DEF Next
        <3>2. UNCHANGED vars => files' = files
            BY DEF vars
        <3> QED
            BY <3>1, <3>2
    <2> HIDE DEF Clear
    <2> QED
        BY <2>1, <2>2, Inductive, LossInductive, PTL DEF Spec
<1>2. IInv /\ OpenInv /\ SettleInv(U) /\ Clear => DoneMeansConverged
    <2>1. SUFFICES ASSUME IInv, OpenInv, SettleInv(U), Clear,
                          NEW r \in Runners \ DryRunners, pc[r] = "done"
                   PROVE  Remaining(files[r], catalog) = {}
        BY DEF DoneMeansConverged
    <2>2. /\ Meets(files[r], catalog) /\ AsWanted(files[r], catalog)
          /\ SurplusRests(files[r], catalog)
          /\ WantedKeysRest(files[r]) /\ PoliciesApart(files[r])
          /\ IsFiles(files[r]) /\ IsCatalog(catalog)
        BY <2>1 DEF SettleInv, RunSettles, OpenInv, IInv, Environment
    <2>3. Recognises(files[r], catalog)
        BY <2>2, MetIsRecognised DEF Meets
    <2> QED
        BY <2>2, <2>3, EmptyPlanIffMeets
<1> HIDE DEF Clear
<1> QED
    BY <1>1, <1>2, Inductive, OpenInductive, SettleInductive, PTL

-----------------------------------------------------------------------------
(* One run at a time: what it takes for the server to accept a plan.       *)

\* At most one of the runs that overlap changes the database.
OneDeploys == \A r, q \in Runners \ DryRunners : r = q

\* The names of UNIQUE constraints are those of their indexes, so that no two
\* are alike in the whole database; those of foreign keys differ in a table.
NamesAreFree(f, c) ==
    /\ \A t \in DOMAIN f.tables : \A u \in f.tables[t].uniques :
          /\ u.name \notin DOMAIN c.indexes
          /\ \A s \in DOMAIN f.tables : \A v \in f.tables[s].uniques :
                v.name = u.name => s = t /\ v = u
          /\ \A s \in DOMAIN c.tables : \A v \in c.tables[s].uniques :
                v.name = u.name => s = t /\ v = u
    /\ \A t \in DOMAIN f.tables \cap DOMAIN c.tables :
          \A fk \in f.tables[t].foreignKeys, gk \in c.tables[t].foreignKeys :
              fk.name = gk.name => fk = gk

\* A new table carries its foreign keys from the start: what they refer to is
\* created before, or is in the database with its key.
NewTablesRefer(f, c) ==
    LET created == DOMAIN f.tables \ DOMAIN c.tables
    IN  /\ CycleBound(f, created) = {}
        /\ \A t \in created : \A fk \in f.tables[t].foreignKeys :
              /\ Elements(fk.referenced) # {}
              /\ fk.references \in DOMAIN c.tables => UniqueOn(c, fk.references, fk.referenced)

\* A foreign key that rests on UNIQUE constraint u of table t, and would not
\* rest on the primary key that the files give the table.
RestsOnUnique(f, t, u, fk) ==
    /\ fk.references = t
    /\ Elements(fk.referenced) = Elements(u.columns)
    /\ Elements(f.tables[t].primaryKey) # Elements(u.columns)

\* The files give nothing away that a foreign key rests on: what it rests on
\* is dropped before it is, or fails to be dropped.
Removable(f, c) ==
    /\ \A t \in DOMAIN c.tables : MayLoseTable(f, c, t) => ~TableIsReferenced(c, t)
    /\ \A t \in DOMAIN c.tables : \A x \in DOMAIN c.tables[t].columns :
          MayLoseColumn(f, c, t, x) => ~ColumnIsReferenced(c, t, x)
    /\ \A t \in DOMAIN f.tables \cap DOMAIN c.tables :
          \A u \in c.tables[t].uniques \ f.tables[t].uniques :
              Drops(f, LAMBDA g : CoversUnique(g, u)) =>
                  \A pair \in ForeignKeysOf(c) \cup ForeignKeysOf(f) :
                      ~RestsOnUnique(f, t, u, pair[2])

Executable(f, c) ==
    /\ NamesAreFree(f, c) /\ NewTablesRefer(f, c) /\ Removable(f, c)
    /\ KeysRest(c)
    /\ \A i \in DOMAIN f.indexes : CreateIndexParses(f, i)

PlansFit ==
    \A s \in Scenarios : \A r \in Runners : Executable(s.files[r], s.catalog)

-----------------------------------------------------------------------------
(* What the only run that changes the database knows of it.                *)

\* Nobody changes what a run reads until it commits.
ReadOnly == {"listed", "columns", "unique keys read", "foreign keys read", "planned", "transaction"}

TableIsRead(r, t) ==
    LET had == have[r].tables[t]
        now == catalog.tables[t]
    IN  /\ had.columns = now.columns
        /\ UniquesRead(r, t) => had.primaryKey = now.primaryKey /\ had.uniques = now.uniques
        /\ ForeignKeysRead(r, t) => had.foreignKeys = ReadForeignKeys(catalog, t)

ReadsTrue(r) ==
    /\ \A t \in DOMAIN have[r].tables : t \in DOMAIN catalog.tables /\ TableIsRead(r, t)
    /\ \A t \in DOMAIN catalog.tables :
          /\ UniquesRead(r, t) => t \in DOMAIN have[r].tables
          /\ pc[r] = "columns" /\ InReach(r, t) =>
                t \in DOMAIN have[r].tables \cup left[r].tables
    /\ pc[r] = "columns" => left[r].tables \subseteq DOMAIN catalog.tables

FreeUnique(w, name) ==
    \A s \in DOMAIN w.tables : \A v \in w.tables[s].uniques : v.name # name

\* What m is to add to the catalog w is not there, and a table it is to drop is.
Pending(f, w, m) ==
    /\ m.kind = "create_table" =>
          /\ m.on \notin DOMAIN w.tables
          /\ \A u \in f.tables[m.on].uniques : FreeUnique(w, u.name)
    /\ m.kind = "drop_table" => m.on \in DOMAIN w.tables
    /\ m.kind = "add_unique_key" => FreeUnique(w, m.name)
    /\ m.on \in DOMAIN w.tables =>
          LET now == w.tables[m.on]
          IN  /\ m.kind = "add_column" => m.name \notin DOMAIN now.columns
              /\ m.kind = "add_primary_key" => now.primaryKey = NoPrimaryKey
              /\ m.kind = "add_foreign_key" => \A fk \in now.foreignKeys : fk.name # m.name

Deploys(r) ==
    /\ pc[r] \in ReadOnly => ReadsTrue(r)
    /\ pc[r] = "transaction" =>
          /\ \A m \in InTransaction(todo[r]) : Pending(files[r], working, m)
          /\ (\A m \in Sent(r) : m.kind \notin Taking) => working.indexes = catalog.indexes

\* The runs with --dry-run never get as far as to change anything.
ExecInv ==
    \A r \in Runners :
        /\ Executable(files[r], catalog)
        /\ WantedKeysRest(files[r]) /\ PoliciesApart(files[r])
        /\ IF r \in DryRunners THEN pc[r] \notin {"transaction", "committed", "building"}
           ELSE Deploys(r)

-----------------------------------------------------------------------------
(* What a plan says of the objects its statements name.                    *)

Named3(m, kind, on, name) == m.kind = kind /\ m.on = on /\ m.name = name

\* What is planned for a table on both sides that adds to it.
AddsMissing(f, h, m) ==
    LET want == f.tables[m.on]
        had == h.tables[m.on]
    IN  /\ m.on \in CommonTables(f, h)
        /\ m.kind = "add_column" => m.name \in MissingColumns(want, had)
        /\ m.kind = "add_primary_key" => AddPrimaryKey(want, had) /\ m.name = NoName
        /\ m.kind = "add_unique_key" => \E u \in MissingUniques(want, had) : u.name = m.name
        /\ m.kind = "add_foreign_key" => \E fk \in MissingForeignKeys(want, had) : fk.name = m.name

PlannedFor(f, h, m) ==
    /\ m.kind = "create_table" => m.on \in MissingTables(f, h) /\ m.name = NoName
    /\ m.kind = "drop_table" => m.on \in SurplusTables(f, h) /\ m.name = NoName
    /\ m.kind \in OnOneTable => AddsMissing(f, h, m)

LEMMA TablePlannedFor ==
    ASSUME NEW f, NEW h, NEW orders, NEW t \in CommonTables(f, h),
           NEW m \in TableMigrations(f.tables[t], h.tables[t], t, orders)
    PROVE  m.on = t /\ m.kind \in OnOneTable /\ AddsMissing(f, h, m)
<1> DEFINE want == f.tables[t]
           had == h.tables[t]
<1>1. CASE m \in ColumnMigrations(want, had, t, orders)
    <2>1. \/ \E x : m = Migration("drop_column", t, x)
          \/ \E x \in MissingColumns(want, had) : m = Migration("add_column", t, x)
          \/ \E x : m = Migration("alter_column", t, x)
        BY <1>1, Zenon DEF ColumnMigrations
    <2> QED
        BY <2>1 DEF Migration, AddsMissing, OnOneTable
<1>2. CASE m \in PrimaryKeyMigrations(want, had, t)
    <2>1. AddPrimaryKey(want, had) /\ m = Migration("add_primary_key", t, NoName)
        BY <1>2 DEF PrimaryKeyMigrations
    <2> QED
        BY <2>1 DEF Migration, AddsMissing, OnOneTable
<1>3. CASE m \in UniqueMigrations(want, had, t, orders)
    <2>1. \/ \E u \in MissingUniques(want, had) : m = Migration("add_unique_key", t, u.name)
          \/ \E x : m = Migration("drop_unique_key", t, x)
        BY <1>3, Zenon DEF UniqueMigrations
    <2> QED
        BY <2>1 DEF Migration, AddsMissing, OnOneTable
<1>4. CASE m \in ForeignKeyMigrations(want, had, t, orders)
    <2>1. \/ \E fk \in MissingForeignKeys(want, had) : m = Migration("add_foreign_key", t, fk.name)
          \/ \E x : m = Migration("drop_foreign_key", t, x)
        BY <1>4, Zenon DEF ForeignKeyMigrations
    <2> QED
        BY <2>1 DEF Migration, AddsMissing, OnOneTable
<1> QED
    BY <1>1, <1>2, <1>3, <1>4 DEF TableMigrations

LEMMA PlanIsFor ==
    ASSUME NEW f, NEW h, NEW orders, NEW m \in Plan(f, h, orders)
    PROVE  PlannedFor(f, h, m)
<1>1. CASE m \in NamespaceMigrations(f, h)
    BY <1>1 DEF NamespaceMigrations, Migration, PlannedFor, OnOneTable
<1>2. CASE m \in WholeTableMigrations(f, h)
    BY <1>2 DEF WholeTableMigrations, Migration, PlannedFor, OnOneTable
<1>3. CASE \E t \in CommonTables(f, h) : m \in TableMigrations(f.tables[t], h.tables[t], t, orders)
    BY <1>3, TablePlannedFor DEF PlannedFor, OnOneTable
<1>4. CASE m \in IndexMigrations(f, h, orders)
    <2>1. \E t, i : m = Migration("create_index", t, i) \/ m = Migration("drop_index", t, i)
        BY <1>4, Zenon DEF IndexMigrations
    <2> QED
        BY <2>1 DEF Migration, PlannedFor, OnOneTable
<1> QED
    BY <1>1, <1>2, <1>3, <1>4 DEF Plan

\* A migration is told by its kind, what it is on and its name.
LEMMA SameMigration ==
    ASSUME NEW m \in Migrations, NEW n \in Migrations, Named3(m, n.kind, n.on, n.name)
    PROVE  m = n
BY DEF Migrations, Named3

-----------------------------------------------------------------------------
(* The ranks of what is added, in both implementations.                    *)

LEMMA AddingRankList ==
    ASSUME NEW rank \in {GoRank, RustRank}
    PROVE  /\ DOMAIN rank = 1..13
           /\ \A i \in 1..13 : rank[i] = "create_schema" <=> i = 1
           /\ \A i \in 1..13 : rank[i] = "create_table" <=> i = 2
           /\ \A i \in 1..13 : rank[i] = "add_column" <=> i = 3
           /\ \A i \in 1..13 : rank[i] = "add_primary_key" <=> i = 5
           /\ \A i \in 1..13 : rank[i] = "add_unique_key" <=> i = 6
           /\ \A i \in 1..13 : rank[i] = "add_foreign_key" <=> i = 7
<1>1. CASE rank = GoRank
    <2>1. /\ rank[1] = "create_schema" /\ rank[2] = "create_table" /\ rank[3] = "add_column"
          /\ rank[4] = "alter_column" /\ rank[5] = "add_primary_key"
          /\ rank[6] = "add_unique_key" /\ rank[7] = "add_foreign_key"
          /\ rank[8] = "create_index"
          /\ rank[9] = "drop_unique_key" /\ rank[10] = "drop_foreign_key"
          /\ rank[11] = "drop_index" /\ rank[12] = "drop_column" /\ rank[13] = "drop_table"
          /\ DOMAIN rank = 1..13
        BY <1>1 DEF GoRank
    <2> QED
        BY <2>1
<1>2. CASE rank = RustRank
    <2>1. /\ rank[1] = "create_schema" /\ rank[2] = "create_table" /\ rank[3] = "add_column"
          /\ rank[4] = "alter_column" /\ rank[5] = "add_primary_key"
          /\ rank[6] = "add_unique_key" /\ rank[7] = "add_foreign_key"
          /\ rank[8] = "create_index"
          /\ rank[9] = "drop_column" /\ rank[10] = "drop_table"
          /\ rank[11] = "drop_unique_key" /\ rank[12] = "drop_foreign_key"
          /\ rank[13] = "drop_index"
          /\ DOMAIN rank = 1..13
        BY <1>2 DEF RustRank
    <2> QED
        BY <2>1
<1> QED
    BY <1>1, <1>2

LEMMA AddingRanks ==
    /\ Rank("create_schema") = 1 /\ Rank("create_table") = 2 /\ Rank("add_column") = 3
    /\ Rank("add_primary_key") = 5 /\ Rank("add_unique_key") = 6 /\ Rank("add_foreign_key") = 7
<1> DEFINE rank == IF Go THEN GoRank ELSE RustRank
<1>1. /\ DOMAIN rank = 1..13
      /\ \A i \in 1..13 : rank[i] = "create_schema" <=> i = 1
      /\ \A i \in 1..13 : rank[i] = "create_table" <=> i = 2
      /\ \A i \in 1..13 : rank[i] = "add_column" <=> i = 3
      /\ \A i \in 1..13 : rank[i] = "add_primary_key" <=> i = 5
      /\ \A i \in 1..13 : rank[i] = "add_unique_key" <=> i = 6
      /\ \A i \in 1..13 : rank[i] = "add_foreign_key" <=> i = 7
    BY AddingRankList
<1>2. \A k : Rank(k) = CHOOSE i \in DOMAIN rank : rank[i] = k
    BY DEF Rank
<1> HIDE DEF rank
<1> QED
    BY <1>1, <1>2

-----------------------------------------------------------------------------
(* What has been sent when a statement is next.                            *)

IsNext(r, m) == m \in NextOf(files[r], plan[r], InTransaction(todo[r]))

LEMMA EarlierIsSent ==
    ASSUME NEW r, NEW m, IsNext(r, m), NEW n \in plan[r], n # m, ~OutOfTransaction(n),
           Before(files[r], plan[r], n, m)
    PROVE  n \in Sent(r)
BY DEF IsNext, NextOf, InTransaction, Sent

LEMMA LowerIsSent ==
    ASSUME NEW r, NEW m, IsNext(r, m), NEW n \in plan[r], ~OutOfTransaction(n),
           Rank(n.kind) < Rank(m.kind), Rank(n.kind) \in 1..13
    PROVE  n \in Sent(r)
<1>1. n # m /\ Before(files[r], plan[r], n, m)
    BY DEF Before
<1> QED
    BY <1>1, EarlierIsSent

\* While a statement that adds is still to be sent, nothing has been taken.
LEMMA NothingTakenYet ==
    ASSUME IInv, NEW r \in Runners, NEW m \in todo[r], m.kind \in Adding, NEW n \in Sent(r)
    PROVE  n.kind \notin Taking
<1>1. ~SentBefore(r, m, n)
    BY DEF IInv, RunInv, Sent
<1> QED
    BY <1>1, AddsBeforeTakes

-----------------------------------------------------------------------------
(* What comes with a statement is what it names, and nothing else.         *)

TableDoes(want, old, new, t, n) ==
    /\ \A x \in DOMAIN new.columns \ DOMAIN old.columns : Named3(n, "add_column", t, x)
    /\ new.primaryKey \notin {NoPrimaryKey, old.primaryKey} =>
          n.kind = "add_primary_key" /\ n.on = t
    /\ \A u \in new.uniques \ old.uniques :
          Named3(n, "add_unique_key", t, u.name) /\ u \in want.uniques
    /\ \A fk \in new.foreignKeys \ old.foreignKeys : Named3(n, "add_foreign_key", t, fk.name)

Does(f, w, d, n) ==
    /\ \A t \in DOMAIN w.tables \ DOMAIN d.tables : n.kind = "drop_table" /\ n.on = t
    /\ \A t \in DOMAIN d.tables :
          IF t \in DOMAIN w.tables
          THEN TableDoes(f.tables[t], w.tables[t], d.tables[t], t, n)
          ELSE n.kind = "create_table" /\ n.on = t /\ d.tables[t].uniques = f.tables[t].uniques

LEMMA NothingDoes ==
    ASSUME NEW f, NEW c, NEW n
    PROVE  Does(f, c, c, n)
BY DEF Does, TableDoes

LEMMA OnTableDoes ==
    ASSUME NEW f, NEW c, IsCatalog(c), NEW n, NEW t \in DOMAIN c.tables, NEW x,
           TableDoes(f.tables[t], c.tables[t], x, t, n)
    PROVE  Does(f, c, OnTable(c, t, x), n)
<1>1. /\ DOMAIN OnTable(c, t, x).tables = DOMAIN c.tables
      /\ OnTable(c, t, x).tables[t] = x
      /\ \A s \in DOMAIN c.tables : s # t => OnTable(c, t, x).tables[s] = c.tables[s]
    BY OnTableParts
<1>2. ASSUME NEW s \in DOMAIN c.tables
      PROVE  TableDoes(f.tables[s], c.tables[s], c.tables[s], s, n)
    BY DEF TableDoes
<1> QED
    BY <1>1, <1>2 DEF Does

LEMMA AlterDoes ==
    ASSUME NEW c, IsCatalog(c), NEW f, AllConsistent(f), NEW h, NEW m,
           m.kind \in Adding \ {"create_schema", "create_table"},
           m.on \in DOMAIN f.tables, JustifiedInTable(f, h, m),
           m.on \in DOMAIN c.tables, AlterTableAccepts(c, m, f, h)
    PROVE  Does(f, c, AlterTableEffect(c, m, f, h), m)
<1> DEFINE t == m.on
           table == c.tables[t]
           want == f.tables[t]
<1>1. IsTable(table) /\ Consistent(want)
    BY CatalogRecord DEF AllConsistent
<1>2. SUFFICES \E x : AlterTableEffect(c, m, f, h) = OnTable(c, t, x) /\ TableDoes(want, table, x, t, m)
    BY OnTableDoes
<1>3. CASE m.kind = "add_column"
    <2> DEFINE x == [table EXCEPT !.columns = With(@, m.name, want.columns[m.name])]
    <2>1. AlterTableEffect(c, m, f, h) = OnTable(c, t, x)
        BY <1>3 DEF AlterTableEffect
    <2>2. /\ DOMAIN x.columns = DOMAIN table.columns \cup {m.name}
          /\ x.primaryKey = table.primaryKey /\ x.uniques = table.uniques
          /\ x.foreignKeys = table.foreignKeys
        BY <1>1 DEF IsTable, With
    <2> HIDE DEF x
    <2> QED
        BY <1>3, <2>1, <2>2 DEF TableDoes, Named3
<1>4. CASE m.kind = "alter_column"
    <2> DEFINE x == [table EXCEPT !.columns[m.name] =
                        AlteredColumn(@, h.tables[t].columns[m.name], want.columns[m.name])]
    <2>1. AlterTableEffect(c, m, f, h) = OnTable(c, t, x)
        BY <1>4 DEF AlterTableEffect
    <2>2. /\ DOMAIN x.columns = DOMAIN table.columns
          /\ x.primaryKey = table.primaryKey /\ x.uniques = table.uniques
          /\ x.foreignKeys = table.foreignKeys
        BY <1>1 DEF IsTable
    <2> HIDE DEF x
    <2> QED
        BY <2>1, <2>2 DEF TableDoes
<1>5. CASE m.kind = "add_primary_key"
    <2> DEFINE x == WithPrimaryKey(table, want.primaryKey)
    <2>1. AlterTableEffect(c, m, f, h) = OnTable(c, t, x)
        BY <1>5 DEF AlterTableEffect
    <2>2. /\ DOMAIN x.columns = DOMAIN table.columns
          /\ x.uniques = table.uniques /\ x.foreignKeys = table.foreignKeys
        BY <1>1, WithPrimaryKeyParts
    <2> HIDE DEF x
    <2> QED
        BY <1>5, <2>1, <2>2 DEF TableDoes
<1>6. CASE m.kind = "add_unique_key"
    <2> DEFINE u == WantedUnique(f, t, m.name)
               x == [table EXCEPT !.uniques = @ \cup {u}]
    <2>1. AlterTableEffect(c, m, f, h) = OnTable(c, t, x)
        BY <1>6 DEF AlterTableEffect
    <2>2. u \in want.uniques /\ u.name = m.name
        BY <1>6 DEF JustifiedInTable, WantedUnique
    <2> HIDE DEF u
    <2>3. /\ x.columns = table.columns /\ x.primaryKey = table.primaryKey
          /\ x.uniques = table.uniques \cup {u} /\ x.foreignKeys = table.foreignKeys
        BY <1>1 DEF IsTable
    <2> HIDE DEF x
    <2> QED
        BY <1>6, <2>1, <2>2, <2>3 DEF TableDoes, Named3
<1>7. CASE m.kind = "add_foreign_key"
    <2> DEFINE fk == WantedForeignKey(f, t, m.name)
               x == [table EXCEPT !.foreignKeys = @ \cup {fk}]
    <2>1. AlterTableEffect(c, m, f, h) = OnTable(c, t, x)
        BY <1>7 DEF AlterTableEffect
    <2>2. fk \in want.foreignKeys /\ fk.name = m.name
        BY <1>7 DEF JustifiedInTable, WantedForeignKey
    <2> HIDE DEF fk
    <2>3. /\ x.columns = table.columns /\ x.primaryKey = table.primaryKey
          /\ x.uniques = table.uniques /\ x.foreignKeys = table.foreignKeys \cup {fk}
        BY <1>1 DEF IsTable
    <2> HIDE DEF x
    <2> QED
        BY <1>7, <2>1, <2>2, <2>3 DEF TableDoes, Named3
<1> QED
    BY <1>3, <1>4, <1>5, <1>6, <1>7 DEF Adding

LEMMA AddingDoes ==
    ASSUME NEW c, IsCatalog(c), NEW f, IsFiles(f), AllConsistent(f), NEW h, NEW m,
           m.kind \in Adding, Justified(f, h, m), Accepts(c, m, f, h)
    PROVE  Does(f, c, Effect(c, m, f, h), m)
<1> DEFINE d == Effect(c, m, f, h)
<1>1. CASE m.kind = "create_schema"
    <2>1. d = [c EXCEPT !.namespaces = @ \cup {m.on}]
        BY <1>1 DEF Effect
    <2>2. d.tables = c.tables
        BY <2>1, CatalogRecord
    <2> HIDE DEF d
    <2> QED
        BY <2>2 DEF Does, TableDoes, d
<1>2. CASE m.kind = "create_table"
    <2>1. m.on \in DOMAIN f.tables /\ m.on \notin DOMAIN c.tables
        BY <1>2 DEF Justified, Accepts, CreateTableAccepted
    <2>2. d = [c EXCEPT !.tables = With(@, m.on, Stored(f.tables[m.on]))]
        BY <1>2 DEF Effect
    <2>3. d.tables = With(c.tables, m.on, Stored(f.tables[m.on]))
        BY <2>2, CatalogRecord
    <2>4. Stored(f.tables[m.on]).uniques = f.tables[m.on].uniques
        BY <2>1, FilesParts, StoredParts
    <2>5. /\ DOMAIN d.tables = DOMAIN c.tables \cup {m.on}
          /\ d.tables[m.on].uniques = f.tables[m.on].uniques
          /\ \A s \in DOMAIN c.tables : d.tables[s] = c.tables[s]
        BY <2>1, <2>3, <2>4 DEF With
    <2> HIDE DEF d
    <2> QED
        BY <1>2, <2>1, <2>5 DEF Does, TableDoes, d
<1>3. CASE m.kind \in Adding \ {"create_schema", "create_table"}
    <2>1. m.on \in DOMAIN f.tables /\ JustifiedInTable(f, h, m)
        BY <1>3 DEF Justified, Adding
    <2>2. m.on \in DOMAIN c.tables /\ AlterTableAccepts(c, m, f, h)
        BY <1>3 DEF Accepts, Adding
    <2>3. d = AlterTableEffect(c, m, f, h)
        BY <1>3 DEF Effect, Adding
    <2> QED
        BY <1>3, <2>1, <2>2, <2>3, AlterDoes
<1> QED
    BY <1>1, <1>2, <1>3

LEMMA TakingDoes ==
    ASSUME NEW c, IsCatalog(c), NEW f, NEW h, NEW m,
           m.kind \in Taking, Accepts(c, m, f, h)
    PROVE  Does(f, c, Effect(c, m, f, h), m)
<1> DEFINE t == m.on
           d == Effect(c, m, f, h)
<1>1. CASE m.kind = "drop_table"
    <2>1. d = DropTable(c, t)
        BY <1>1 DEF Effect
    <2>2. /\ DOMAIN d.tables = DOMAIN c.tables \ {t}
          /\ \A s \in DOMAIN d.tables : d.tables[s] = c.tables[s]
        BY <2>1, DropTableParts
    <2> HIDE DEF d
    <2> QED
        BY <1>1, <2>2 DEF Does, TableDoes, d
<1>2. CASE m.kind \in {"drop_column", "drop_unique_key", "drop_foreign_key"}
    <2>1. t \in DOMAIN c.tables /\ IsTable(c.tables[t])
        BY <1>2, CatalogRecord DEF Accepts
    <2>2. d = AlterTableEffect(c, m, f, h)
        BY <1>2 DEF Effect
    <2>3. CASE m.kind = "drop_column"
        <3>1. d = IF m.name \in DOMAIN c.tables[t].columns THEN DropColumn(c, t, m.name) ELSE c
            BY <2>2, <2>3 DEF AlterTableEffect
        <3>2. CASE d = c
            BY <3>2, NothingDoes
        <3>3. CASE d = DropColumn(c, t, m.name)
            <4> DEFINE e == DropColumn(c, t, m.name)
            <4>1. /\ DOMAIN e.tables = DOMAIN c.tables
                  /\ \A s \in DOMAIN c.tables : s # t => e.tables[s] = c.tables[s]
                  /\ DOMAIN e.tables[t].columns \subseteq DOMAIN c.tables[t].columns
                  /\ e.tables[t].uniques \subseteq c.tables[t].uniques
                  /\ e.tables[t].foreignKeys \subseteq c.tables[t].foreignKeys
                BY <2>1, DropColumnParts
            <4>2. e.tables[t].primaryKey \in {NoPrimaryKey, c.tables[t].primaryKey}
                BY <2>1, DropColumnKey
            <4> HIDE DEF e
            <4>3. Does(f, c, e, m)
                BY <4>1, <4>2 DEF Does, TableDoes
            <4> QED
                BY <3>3, <4>3 DEF e
        <3> QED
            BY <3>1, <3>2, <3>3
    <2>4. CASE m.kind \in {"drop_unique_key", "drop_foreign_key"}
        <3> DEFINE x == DropConstraint(c.tables[t], m.name)
        <3>1. d = OnTable(c, t, x)
            BY <2>2, <2>4 DEF AlterTableEffect
        <3>2. /\ x.columns = c.tables[t].columns /\ x.primaryKey = c.tables[t].primaryKey
              /\ x.uniques \subseteq c.tables[t].uniques
              /\ x.foreignKeys \subseteq c.tables[t].foreignKeys
            BY <2>1, DropConstraintParts
        <3> HIDE DEF x
        <3>3. TableDoes(f.tables[t], c.tables[t], x, t, m)
            BY <3>2 DEF TableDoes
        <3> QED
            BY <2>1, <3>1, <3>3, OnTableDoes
    <2> QED
        BY <1>2, <2>3, <2>4
<1> QED
    BY <1>1, <1>2 DEF Taking

-----------------------------------------------------------------------------
\* What m is to add stays away until m is sent, whatever else the plan does.
LEMMA PendingStays ==
    ASSUME NEW f, NEW h, NEW c, NamesAreFree(f, c), NEW w, NEW d,
           NEW m \in Migrations, PlannedFor(f, h, m), NEW n \in Migrations, PlannedFor(f, h, n), n # m,
           Does(f, w, d, n), Pending(f, w, m)
    PROVE  Pending(f, d, m)
<1>1. ~Named3(n, m.kind, m.on, m.name)
    BY SameMigration
<1>2. ASSUME m.kind = "create_table"
      PROVE  /\ m.on \notin DOMAIN d.tables
             /\ \A u \in f.tables[m.on].uniques : FreeUnique(d, u.name)
    <2>1. m.on \notin DOMAIN w.tables /\ \A u \in f.tables[m.on].uniques : FreeUnique(w, u.name)
        BY <1>2 DEF Pending
    <2>2. m.on \in DOMAIN f.tables /\ m.name = NoName
        BY <1>2 DEF PlannedFor, MissingTables
    <2>3. ~(n.kind = "create_table" /\ n.on = m.on)
        BY <1>1, <1>2, <2>2 DEF PlannedFor, Named3
    <2>4. m.on \notin DOMAIN d.tables
        BY <2>1, <2>3 DEF Does
    <2>5. ASSUME NEW u \in f.tables[m.on].uniques, NEW s \in DOMAIN d.tables,
                 NEW v \in d.tables[s].uniques, v.name = u.name
          PROVE  FALSE
        <3>1. CASE s \in DOMAIN w.tables
            <4>1. v \notin w.tables[s].uniques
                BY <2>1, <2>5, <3>1 DEF FreeUnique
            <4>2. v \in f.tables[s].uniques /\ n.on = s /\ n.kind = "add_unique_key"
                BY <2>5, <3>1, <4>1 DEF Does, TableDoes, Named3
            <4>3. s \in DOMAIN f.tables
                BY <4>2 DEF PlannedFor, OnOneTable, AddsMissing, CommonTables
            <4>4. s = m.on
                BY <2>2, <2>5, <4>2, <4>3 DEF NamesAreFree
            <4> QED
                BY <2>1, <3>1, <4>4
        <3>2. CASE s \notin DOMAIN w.tables
            <4>1. v \in f.tables[s].uniques /\ n.on = s /\ n.kind = "create_table"
                BY <2>5, <3>2 DEF Does
            <4>2. s \in DOMAIN f.tables
                BY <4>1 DEF PlannedFor, MissingTables
            <4>3. s = m.on
                BY <2>2, <2>5, <4>1, <4>2 DEF NamesAreFree
            <4> QED
                BY <2>3, <4>1, <4>3
        <3> QED
            BY <3>1, <3>2
    <2> QED
        BY <2>4, <2>5 DEF FreeUnique
<1>3. ASSUME m.kind = "drop_table"
      PROVE  m.on \in DOMAIN d.tables
    <2>1. m.on \in DOMAIN w.tables /\ m.name = NoName
        BY <1>3 DEF Pending, PlannedFor
    <2>2. ~(n.kind = "drop_table" /\ n.on = m.on)
        BY <1>1, <1>3, <2>1 DEF PlannedFor, Named3
    <2> QED
        BY <2>1, <2>2 DEF Does
<1>4. ASSUME m.kind = "add_unique_key"
      PROVE  FreeUnique(d, m.name)
    <2>1. PICK u \in f.tables[m.on].uniques : u.name = m.name
        BY <1>4 DEF PlannedFor, OnOneTable, AddsMissing, MissingUniques
    <2>2. m.on \in DOMAIN f.tables /\ m.on \in DOMAIN h.tables
        BY <1>4 DEF PlannedFor, OnOneTable, AddsMissing, CommonTables
    <2>3. FreeUnique(w, m.name)
        BY <1>4 DEF Pending
    <2>4. ASSUME NEW s \in DOMAIN d.tables, NEW v \in d.tables[s].uniques, v.name = m.name
          PROVE  FALSE
        <3>1. CASE s \in DOMAIN w.tables
            <4>1. v \notin w.tables[s].uniques
                BY <2>3, <2>4, <3>1 DEF FreeUnique
            <4>2. /\ v \in f.tables[s].uniques
                  /\ n.on = s /\ n.kind = "add_unique_key" /\ n.name = v.name
                BY <2>4, <3>1, <4>1 DEF Does, TableDoes, Named3
            <4>3. s \in DOMAIN f.tables
                BY <4>2 DEF PlannedFor, OnOneTable, AddsMissing, CommonTables
            <4>4. s = m.on
                BY <2>1, <2>2, <2>4, <4>2, <4>3 DEF NamesAreFree
            <4> QED
                BY <1>1, <1>4, <2>4, <4>2, <4>4 DEF Named3
        <3>2. CASE s \notin DOMAIN w.tables
            <4>1. v \in f.tables[s].uniques /\ n.on = s /\ n.kind = "create_table"
                BY <2>4, <3>2 DEF Does
            <4>2. s \in DOMAIN f.tables /\ s \notin DOMAIN h.tables
                BY <4>1 DEF PlannedFor, MissingTables
            <4>3. s = m.on
                BY <2>1, <2>2, <2>4, <4>1, <4>2 DEF NamesAreFree
            <4> QED
                BY <2>2, <4>2, <4>3
        <3> QED
            BY <3>1, <3>2
    <2> QED
        BY <2>4 DEF FreeUnique
<1>5. ASSUME m.on \in DOMAIN d.tables, m.kind \in {"add_column", "add_primary_key", "add_foreign_key"}
      PROVE  m.on \in DOMAIN w.tables
    <2>1. m.on \in DOMAIN h.tables
        BY <1>5 DEF PlannedFor, OnOneTable, AddsMissing, CommonTables
    <2> QED
        BY <1>5, <2>1 DEF Does, PlannedFor, MissingTables
<1>6. ASSUME m.on \in DOMAIN d.tables, m.kind = "add_column"
      PROVE  m.name \notin DOMAIN d.tables[m.on].columns
    <2>1. m.on \in DOMAIN w.tables /\ m.name \notin DOMAIN w.tables[m.on].columns
        BY <1>5, <1>6 DEF Pending
    <2> QED
        BY <1>1, <1>6, <2>1 DEF Does, TableDoes
<1>7. ASSUME m.on \in DOMAIN d.tables, m.kind = "add_primary_key"
      PROVE  d.tables[m.on].primaryKey = NoPrimaryKey
    <2>1. m.on \in DOMAIN w.tables /\ w.tables[m.on].primaryKey = NoPrimaryKey
        BY <1>5, <1>7 DEF Pending
    <2>2. ~(n.kind = "add_primary_key" /\ n.on = m.on)
        BY <1>1, <1>7 DEF PlannedFor, OnOneTable, AddsMissing, Named3
    <2> QED
        BY <1>7, <2>1, <2>2 DEF Does, TableDoes
<1>8. ASSUME m.on \in DOMAIN d.tables, m.kind = "add_foreign_key"
      PROVE  \A fk \in d.tables[m.on].foreignKeys : fk.name # m.name
    <2>1. m.on \in DOMAIN w.tables /\ \A fk \in w.tables[m.on].foreignKeys : fk.name # m.name
        BY <1>5, <1>8 DEF Pending
    <2> QED
        BY <1>1, <1>8, <2>1 DEF Does, TableDoes, Named3
<1> QED
    BY <1>2, <1>3, <1>4, <1>6, <1>7, <1>8 DEF Pending

\* h is what the queries find in c, table by table.
TablesAreRead(h, c) ==
    /\ DOMAIN h.tables = DOMAIN c.tables
    /\ \A t \in DOMAIN c.tables :
          /\ h.tables[t].columns = c.tables[t].columns
          /\ h.tables[t].primaryKey = c.tables[t].primaryKey
          /\ h.tables[t].uniques = c.tables[t].uniques
          /\ h.tables[t].foreignKeys = ReadForeignKeys(c, t)

\* What is planned to be added to a database that was read is not there.
LEMMA PendingAtFirst ==
    ASSUME NEW f, NEW h, NEW c, NamesAreFree(f, c), KeysRest(c), TablesAreRead(h, c),
           NEW m, PlannedFor(f, h, m)
    PROVE  Pending(f, c, m)
<1> DEFINE t == m.on
<1>1. ASSUME m.kind = "create_table"
      PROVE  t \notin DOMAIN c.tables /\ \A u \in f.tables[t].uniques : FreeUnique(c, u.name)
    <2>1. t \in DOMAIN f.tables /\ t \notin DOMAIN c.tables
        BY <1>1 DEF PlannedFor, MissingTables, TablesAreRead
    <2> QED
        BY <2>1 DEF NamesAreFree, FreeUnique
<1>2. ASSUME m.kind = "drop_table"
      PROVE  t \in DOMAIN c.tables
    BY <1>2 DEF PlannedFor, SurplusTables, TablesAreRead
<1>3. ASSUME m.kind \in OnOneTable
      PROVE  /\ t \in DOMAIN f.tables /\ t \in DOMAIN c.tables
             /\ h.tables[t].columns = c.tables[t].columns
             /\ h.tables[t].primaryKey = c.tables[t].primaryKey
             /\ h.tables[t].uniques = c.tables[t].uniques
             /\ h.tables[t].foreignKeys = c.tables[t].foreignKeys
    <2>1. t \in DOMAIN f.tables /\ t \in DOMAIN c.tables
        BY <1>3 DEF PlannedFor, AddsMissing, CommonTables, TablesAreRead
    <2>2. ReadForeignKeys(c, t) = c.tables[t].foreignKeys
        BY <2>1 DEF ReadForeignKeys, KeysRest
    <2> QED
        BY <2>1, <2>2 DEF TablesAreRead
<1>4. ASSUME m.kind = "add_unique_key"
      PROVE  FreeUnique(c, m.name)
    <2>1. PICK u \in f.tables[t].uniques : u.name = m.name /\ u \notin h.tables[t].uniques
        BY <1>4 DEF PlannedFor, OnOneTable, AddsMissing, MissingUniques, HaveUnique
    <2> QED
        BY <1>3, <1>4, <2>1 DEF NamesAreFree, FreeUnique, OnOneTable
<1>5. ASSUME m.kind = "add_column"
      PROVE  m.name \notin DOMAIN c.tables[t].columns
    BY <1>3, <1>5 DEF PlannedFor, OnOneTable, AddsMissing, MissingColumns
<1>6. ASSUME m.kind = "add_primary_key"
      PROVE  c.tables[t].primaryKey = NoPrimaryKey
    BY <1>3, <1>6 DEF PlannedFor, OnOneTable, AddsMissing, AddPrimaryKey
<1>7. ASSUME m.kind = "add_foreign_key"
      PROVE  \A fk \in c.tables[t].foreignKeys : fk.name # m.name
    <2>1. PICK fk \in f.tables[t].foreignKeys : fk.name = m.name /\ fk \notin h.tables[t].foreignKeys
        BY <1>7 DEF PlannedFor, OnOneTable, AddsMissing, MissingForeignKeys, HaveForeignKey
    <2> QED
        BY <1>3, <1>7, <2>1 DEF NamesAreFree, OnOneTable
<1> QED
    BY <1>1, <1>2, <1>4, <1>5, <1>6, <1>7 DEF Pending

-----------------------------------------------------------------------------
(* The statement that run r is about to send from its transaction.         *)

AboutToSend(U, r, m) ==
    /\ LossInv(U) /\ IInv /\ OpenInv /\ ReachInv /\ ExecInv
    /\ r \in Runners /\ pc[r] = "transaction"
    /\ IsNext(r, m)

LEMMA WhatIsSent ==
    ASSUME NEW U, NEW r, NEW m, AboutToSend(U, r, m)
    PROVE  /\ m \in todo[r] /\ m \in plan[r] /\ m \in Migrations
           /\ Justified(files[r], have[r], m)
           /\ m.kind \in Adding \cup Taking
           /\ Pending(files[r], working, m)
<1>1. m \in InTransaction(todo[r]) /\ r \in Runners /\ pc[r] = "transaction" /\ IInv /\ ExecInv
    BY DEF AboutToSend, IsNext, NextOf
<1>2. m \in todo[r] /\ m \in plan[r] /\ m \in Migrations
    BY <1>1 DEF InTransaction, IInv, RunInv, Shape
<1>3. m.kind \in Adding \cup Taking
    BY <1>1, <1>2 DEF InTransaction, OutOfTransaction, Migrations, Kinds, Adding, Taking
<1>4. Justified(files[r], have[r], m)
    BY <1>1, <1>2 DEF IInv, RunInv
<1>5. Pending(files[r], working, m)
    BY <1>1 DEF ExecInv, Deploys
<1> QED
    BY <1>2, <1>3, <1>4, <1>5

LEMMA WhereItIsSent ==
    ASSUME NEW U, NEW r, NEW m, AboutToSend(U, r, m)
    PROVE  /\ r \in Runners /\ pc[r] = "transaction"
           /\ IsFiles(files[r]) /\ IsSchema(have[r]) /\ IsCatalog(catalog) /\ IsCatalog(working)
           /\ AllConsistent(files[r]) /\ WantedKeysRest(files[r])
           /\ Executable(files[r], catalog)
           /\ Nearer(files[r], have[r], catalog) /\ Nearer(files[r], catalog, working)
           /\ Known(files[r], have[r], catalog)
           /\ Evolves(files[r], catalog, working) /\ StaysOpen(files[r], catalog, working)
           /\ IndexesOnlyGo(catalog, working) /\ KeptSoFar(r)
           /\ Sound(U, working) /\ KindsApart(U, files[r].tables)
           /\ Reflects(files[r], have[r], catalog)
           /\ (\A n \in Sent(r) : n.kind \notin Taking) => working.indexes = catalog.indexes
<1>1. /\ r \in Runners /\ pc[r] = "transaction" /\ IInv /\ LossInv(U) /\ OpenInv
      /\ ReachInv /\ ExecInv
    BY DEF AboutToSend
<1>2. IsFiles(files[r]) /\ IsSchema(have[r]) /\ IsCatalog(catalog) /\ IsCatalog(working)
    BY <1>1 DEF IInv, Environment, RunInv
<1>3. /\ AllConsistent(files[r]) /\ ReadInv(r) /\ ServedInv(r)
    BY <1>1 DEF ReachInv, AllConsistent
<1>4. /\ WantedKeysRest(files[r]) /\ Executable(files[r], catalog) /\ Deploys(r)
    BY <1>1 DEF ExecInv
<1>5. Known(files[r], have[r], catalog)
    BY <1>1, <1>3, PlannedKnown DEF HoldsPlan
<1>6. RunLoss(U, r) /\ InTransactionInv(U, r)
    BY <1>1 DEF LossInv, RunLoss
<1>7. StaysOpen(files[r], catalog, working)
    BY <1>1 DEF OpenInv
<1> QED
    BY <1>1, <1>2, <1>3, <1>4, <1>5, <1>6, <1>7
       DEF ReadInv, ServedInv, Deploys, RunLoss, InTransactionInv

\* The plan, and what of it has been sent.
LEMMA WhatIsPlanned ==
    ASSUME NEW U, NEW r, NEW m, AboutToSend(U, r, m)
    PROVE  /\ Planned(r)
           /\ PlannedFor(files[r], have[r], m)
           /\ \A n \in Sent(r) : Served(files[r], have[r], working, n)
<1>1. r \in Runners /\ pc[r] = "transaction" /\ ReachInv
    BY DEF AboutToSend
<1>2. Planned(r) /\ ServedInv(r)
    BY <1>1 DEF ReachInv, ReadInv, HoldsPlan
<1>3. PlannedFor(files[r], have[r], m)
    BY <1>2, WhatIsSent, PlanIsFor DEF Planned
<1> QED
    BY <1>1, <1>2, <1>3 DEF ServedInv

-----------------------------------------------------------------------------
(* What is there when a statement is next.                                 *)

\* What ranks lower has had its effect.
LEMMA LowerIsServed ==
    ASSUME NEW U, NEW r, NEW m, AboutToSend(U, r, m), NEW n \in plan[r], n.kind \in Adding,
           Rank(n.kind) < Rank(m.kind)
    PROVE  Served(files[r], have[r], working, n)
<1>1. ~OutOfTransaction(n) /\ Rank(n.kind) \in 1..13
    BY Ranks DEF OutOfTransaction, Adding
<1>2. n \in Sent(r)
    BY <1>1, LowerIsSent DEF AboutToSend
<1> QED
    BY <1>2, WhatIsPlanned

LEMMA PlannedOpen ==
    ASSUME NEW U, NEW r, NEW m, AboutToSend(U, r, m)
    PROVE  \E orders : /\ plan[r] = Plan(files[r], have[r], orders)
                       /\ Open(files[r], have[r], orders)
BY WhatIsPlanned, OpenIff DEF Planned

\* A wanted table that was there when it was read.
LEMMA KnownTableStays ==
    ASSUME NEW U, NEW r, NEW m, AboutToSend(U, r, m),
           NEW t \in DOMAIN files[r].tables, t \in DOMAIN have[r].tables
    PROVE  LET want == files[r].tables[t]
           IN  /\ t \in DOMAIN catalog.tables /\ t \in DOMAIN working.tables
               /\ TableNearer(want, have[r].tables[t], working.tables[t])
               /\ TableNearer(want, catalog.tables[t], working.tables[t])
               /\ working.tables[t].primaryKey \in {NoPrimaryKey, want.primaryKey}
<1> DEFINE want == files[r].tables[t]
<1>1. /\ Nearer(files[r], have[r], catalog) /\ Nearer(files[r], catalog, working)
      /\ Known(files[r], have[r], catalog) /\ StaysOpen(files[r], catalog, working)
    BY WhereItIsSent
<1>2. Nearer(files[r], have[r], working)
    BY <1>1, NearerOn
<1>3. t \in DOMAIN catalog.tables /\ t \in DOMAIN working.tables
    BY <1>1 DEF Nearer
<1>4. /\ TableNearer(want, have[r].tables[t], working.tables[t])
      /\ TableNearer(want, catalog.tables[t], working.tables[t])
    BY <1>1, <1>2, <1>3 DEF Nearer
<1>5. PICK orders : Open(files[r], have[r], orders)
    BY PlannedOpen
<1>6. have[r].tables[t].primaryKey \in {NoPrimaryKey, want.primaryKey}
    BY <1>5 DEF Open, OpenTable
<1>7. catalog.tables[t].primaryKey \in {NoPrimaryKey, want.primaryKey, have[r].tables[t].primaryKey}
    BY <1>1 DEF Known, UniquesKnown, KeyStays
<1>8. working.tables[t].primaryKey \in {NoPrimaryKey, want.primaryKey, catalog.tables[t].primaryKey}
    BY <1>1, <1>3 DEF StaysOpen, TableStaysOpen
<1> QED
    BY <1>3, <1>4, <1>6, <1>7, <1>8

\* After ADD COLUMN, the wanted columns of the wanted tables.
LEMMA WantedColumnsThere ==
    ASSUME NEW U, NEW r, NEW m, AboutToSend(U, r, m), Rank(m.kind) > 3, Rank(m.kind) \in 1..13,
           NEW t \in DOMAIN files[r].tables, t \in DOMAIN have[r].tables
    PROVE  DOMAIN files[r].tables[t].columns \subseteq DOMAIN working.tables[t].columns
<1> DEFINE want == files[r].tables[t]
           had == have[r].tables[t]
<1>1. SUFFICES ASSUME NEW x \in DOMAIN want.columns PROVE x \in DOMAIN working.tables[t].columns
    OBVIOUS
<1>2. CASE x \in DOMAIN had.columns
    BY <1>2, KnownTableStays DEF TableNearer
<1>3. CASE x \notin DOMAIN had.columns
    <2> DEFINE n == Migration("add_column", t, x)
    <2>1. PICK orders : plan[r] = Plan(files[r], have[r], orders) /\ Open(files[r], have[r], orders)
        BY PlannedOpen
    <2>2. ~NotNullNoDefault(want.columns[x])
        BY <1>3, <2>1 DEF Open, OpenTable
    <2>3. n \in ColumnMigrations(want, had, t, orders)
        BY <1>3, <2>2 DEF ColumnMigrations, MissingColumns
    <2>4. n \in plan[r]
        BY <2>1, <2>3 DEF Plan, TableMigrations, CommonTables
    <2>5. n.kind = "add_column" /\ n.on = t /\ n.name = x
        BY DEF Migration
    <2> HIDE DEF n
    <2>6. Served(files[r], have[r], working, n)
        BY <2>4, <2>5, LowerIsServed, AddingRanks DEF Adding
    <2> QED
        BY <2>5, <2>6 DEF Served, TableServed
<1> QED
    BY <1>2, <1>3

\* After CREATE TABLE, the wanted tables.
LEMMA NewTableThere ==
    ASSUME NEW U, NEW r, NEW m, AboutToSend(U, r, m), Rank(m.kind) > 2, Rank(m.kind) \in 1..13,
           NEW t \in DOMAIN files[r].tables, t \notin DOMAIN have[r].tables
    PROVE  t \in DOMAIN working.tables /\ TableIs(files[r].tables[t], working.tables[t])
<1> DEFINE n == Migration("create_table", t, NoName)
<1>1. n.kind = "create_table" /\ n.on = t
    BY DEF Migration
<1>2. n \in plan[r]
    BY PlannedOpen DEF Plan, WholeTableMigrations, MissingTables
<1> HIDE DEF n
<1>3. Served(files[r], have[r], working, n)
    BY <1>1, <1>2, LowerIsServed, AddingRanks DEF Adding
<1> QED
    BY <1>1, <1>3 DEF Served

\* After ADD PRIMARY KEY and ADD UNIQUE, the wanted keys of the wanted tables.
LEMMA WantedKeysThere ==
    ASSUME NEW U, NEW r, NEW m, AboutToSend(U, r, m), Rank(m.kind) > 6, Rank(m.kind) \in 1..13,
           NEW t \in DOMAIN files[r].tables
    PROVE  /\ t \in DOMAIN working.tables
           /\ working.tables[t].primaryKey = files[r].tables[t].primaryKey
           /\ files[r].tables[t].uniques \subseteq working.tables[t].uniques
<1> DEFINE want == files[r].tables[t]
           had == have[r].tables[t]
           now == working.tables[t]
<1>1. CASE t \notin DOMAIN have[r].tables
    BY <1>1, NewTableThere DEF TableIs
<1>2. CASE t \in DOMAIN have[r].tables
    <2>1. PICK orders : plan[r] = Plan(files[r], have[r], orders) /\ Open(files[r], have[r], orders)
        BY PlannedOpen
    <2>2. \A n \in TableMigrations(want, had, t, orders) : n \in plan[r]
        BY <1>2, <2>1 DEF Plan, CommonTables
    <2>3. /\ TableNearer(want, had, now) /\ t \in DOMAIN working.tables
          /\ now.primaryKey \in {NoPrimaryKey, want.primaryKey}
        BY <1>2, KnownTableStays
    <2>4. now.primaryKey = want.primaryKey
        <3>1. CASE want.primaryKey # NoPrimaryKey /\ had.primaryKey = want.primaryKey
            BY <2>3, <3>1 DEF TableNearer
        <3>2. CASE want.primaryKey # NoPrimaryKey /\ had.primaryKey = NoPrimaryKey
            <4> DEFINE n == Migration("add_primary_key", t, NoName)
            <4>1. n.kind = "add_primary_key" /\ n.on = t
                BY DEF Migration
            <4>2. n \in plan[r]
                BY <2>2, <3>2 DEF TableMigrations, PrimaryKeyMigrations, AddPrimaryKey
            <4> HIDE DEF n
            <4>3. Served(files[r], have[r], working, n)
                BY <4>1, <4>2, LowerIsServed, AddingRanks DEF Adding
            <4> QED
                BY <4>1, <4>3 DEF Served, TableServed
        <3>3. had.primaryKey \in {NoPrimaryKey, want.primaryKey}
            BY <1>2, <2>1 DEF Open, OpenTable
        <3> QED
            BY <2>3, <3>1, <3>2, <3>3
    <2>5. ASSUME NEW u \in want.uniques
          PROVE  u \in now.uniques
        <3>1. CASE u \in had.uniques
            BY <2>3, <2>5, <3>1 DEF TableNearer, Named
        <3>2. CASE u \notin had.uniques
            <4> DEFINE n == Migration("add_unique_key", t, u.name)
            <4>1. n.kind = "add_unique_key" /\ n.on = t /\ n.name = u.name
                BY DEF Migration
            <4>2. n \in plan[r]
                BY <2>2, <2>5, <3>2 DEF TableMigrations, UniqueMigrations, MissingUniques, HaveUnique
            <4> HIDE DEF n
            <4>3. Served(files[r], have[r], working, n)
                BY <4>1, <4>2, LowerIsServed, AddingRanks DEF Adding
            <4> QED
                BY <2>5, <4>1, <4>3 DEF Served, TableServed
        <3> QED
            BY <3>1, <3>2
    <2> QED
        BY <2>3, <2>4, <2>5
<1> QED
    BY <1>1, <1>2

-----------------------------------------------------------------------------
(* Every statement is accepted when it is next, kind by kind.              *)

\* A run that reads to the end has read what is there.
LEMMA PlansFromTruth ==
    ASSUME NEW r \in Runners, ReadInv(r), pc[r] \in {"planned", "transaction"}, ReadsTrue(r)
    PROVE  TablesAreRead(have[r], catalog)
<1>1. left[r].namespaces = {}
    BY DEF ReadInv, HoldsPlan
<1>2. \A t : UniquesRead(r, t) /\ ForeignKeysRead(r, t)
    BY <1>1 DEF UniquesRead, ForeignKeysRead, HasRead, Underway
<1> QED
    BY <1>2 DEF ReadsTrue, TableIsRead, TablesAreRead

LEMMA SentFromTruth ==
    ASSUME NEW U, NEW r, NEW m, AboutToSend(U, r, m)
    PROVE  TablesAreRead(have[r], catalog)
<1>1. r \in Runners /\ pc[r] = "transaction" /\ ReadInv(r) /\ ReadsTrue(r)
    BY DEF AboutToSend, ReachInv, ExecInv, Deploys, ReadOnly
<1> QED
    BY <1>1, PlansFromTruth

LEMMA ForeignKeyPairs ==
    ASSUME NEW c, NEW pair
    PROVE  pair \in ForeignKeysOf(c) <=>
              \E s \in DOMAIN c.tables : \E fk \in c.tables[s].foreignKeys : pair = <<s, fk>>
<1> DEFINE on(s) == {<<s, fk>> : fk \in c.tables[s].foreignKeys}
<1>1. pair \in ForeignKeysOf(c) <=> \E s \in DOMAIN c.tables : pair \in on(s)
    BY DEF ForeignKeysOf
<1>2. \A s : pair \in on(s) <=> \E fk \in c.tables[s].foreignKeys : pair = <<s, fk>>
    BY Zenon
<1> HIDE DEF on
<1> QED
    BY <1>1, <1>2

\* No foreign key comes but those that the files ask for.
LEMMA KeysAreKnown ==
    ASSUME NEW f, NEW c, NEW d, Evolves(f, c, d), NEW s \in DOMAIN d.tables,
           NEW fk \in d.tables[s].foreignKeys
    PROVE  \/ s \in DOMAIN f.tables /\ fk \in f.tables[s].foreignKeys
           \/ s \in DOMAIN c.tables /\ fk \in c.tables[s].foreignKeys
BY DEF Evolves, TableEvolves, Asked

\* Keys that stay are ones that foreign keys may refer to.
LEMMA UniqueOnStays ==
    ASSUME NEW c, NEW d, NEW t, NEW columns, UniqueOn(c, t, columns),
           Elements(c.tables[t].primaryKey) = Elements(columns) =>
              d.tables[t].primaryKey = c.tables[t].primaryKey,
           c.tables[t].uniques \subseteq d.tables[t].uniques, d.indexes = c.indexes
    PROVE  UniqueOn(d, t, columns)
BY DEF UniqueOn

LEMMA RestsIsUniqueOn ==
    ASSUME NEW f, NEW d, NEW fk, RestsOnConstraint(f, fk),
           d.tables[fk.references].primaryKey = f.tables[fk.references].primaryKey,
           f.tables[fk.references].uniques \subseteq d.tables[fk.references].uniques
    PROVE  UniqueOn(d, fk.references, fk.referenced)
BY DEF RestsOnConstraint, UniqueOn

\* What a new table refers to is there when it is created.
LEMMA NewTableResolves ==
    ASSUME NEW U, NEW r, NEW m, AboutToSend(U, r, m), m.kind = "create_table",
           NEW fk \in files[r].tables[m.on].foreignKeys, fk.references # m.on
    PROVE  Resolvable(working, fk)
<1> DEFINE f == files[r]
           h == have[r]
           c == catalog
           w == working
           t == m.on
           s == fk.references
<1>1. TablesAreRead(h, c) /\ IInv /\ r \in Runners
    BY SentFromTruth DEF AboutToSend
<1>2. t \in DOMAIN f.tables /\ t \notin DOMAIN c.tables
    BY <1>1, WhatIsPlanned DEF PlannedFor, MissingTables, TablesAreRead
<1>3. s \in DOMAIN f.tables /\ RestsOnConstraint(f, fk)
    BY <1>2, WhereItIsSent DEF WantedKeysRest
<1>4. NewTablesRefer(f, c)
    BY WhereItIsSent DEF Executable
<1>5. CASE s \notin DOMAIN c.tables
    <2> DEFINE n == Migration("create_table", s, NoName)
               created == DOMAIN f.tables \ DOMAIN c.tables
    <2>1. PICK orders : plan[r] = Plan(f, h, orders)
        BY PlannedOpen
    <2>2. n.kind = "create_table" /\ n.on = s /\ n # m
        BY DEF Migration
    <2>3. n \in plan[r]
        BY <1>1, <1>3, <1>5, <2>1 DEF Plan, WholeTableMigrations, MissingTables, TablesAreRead
    <2> HIDE DEF n
    <2>4. CreatedTables(plan[r]) = created
        <3>1. ASSUME NEW x \in created PROVE x \in CreatedTables(plan[r])
            <4>1. Migration("create_table", x, NoName) \in plan[r]
                BY <1>1, <2>1 DEF Plan, WholeTableMigrations, MissingTables, TablesAreRead
            <4> QED
                BY <4>1 DEF CreatedTables, Migration
        <3>2. ASSUME NEW k \in plan[r], k.kind = "create_table" PROVE k.on \in created
            <4>1. PlannedFor(f, h, k)
                BY <2>1, PlanIsFor
            <4> QED
                BY <1>1, <3>2, <4>1 DEF PlannedFor, MissingTables, TablesAreRead
        <3> QED
            BY <3>1, <3>2 DEF CreatedTables
    <2>5. CycleBound(f, created) = {}
        BY <1>4 DEF NewTablesRefer
    <2>6. s \in References(f, t)
        BY DEF References
    <2>7. Before(f, plan[r], n, m)
        BY <2>2, <2>4, <2>5, <2>6 DEF Before, CreatedBefore
    <2>8. n \in Sent(r)
        BY <2>2, <2>3, <2>7, EarlierIsSent DEF AboutToSend, OutOfTransaction
    <2>9. Served(f, h, w, n)
        BY <2>8, WhatIsPlanned
    <2>10. s \in DOMAIN w.tables /\ TableIs(f.tables[s], w.tables[s])
        BY <2>2, <2>9 DEF Served
    <2> QED
        BY <1>3, <2>10, RestsIsUniqueOn DEF TableIs, Resolvable
<1>6. CASE s \in DOMAIN c.tables
    <2>1. UniqueOn(c, s, fk.referenced) /\ Elements(fk.referenced) # {}
        BY <1>2, <1>4, <1>6 DEF NewTablesRefer
    <2>2. s \in DOMAIN h.tables
        BY <1>1, <1>6 DEF TablesAreRead
    <2>3. /\ s \in DOMAIN w.tables
          /\ TableNearer(f.tables[s], c.tables[s], w.tables[s])
        BY <1>3, <2>2, KnownTableStays
    <2>4. c.tables[s].primaryKey \in {NoPrimaryKey, f.tables[s].primaryKey}
        <3>1. PICK orders : Open(f, h, orders)
            BY PlannedOpen
        <3>2. h.tables[s].primaryKey \in {NoPrimaryKey, f.tables[s].primaryKey}
            BY <1>3, <2>2, <3>1 DEF Open, OpenTable
        <3> QED
            BY <1>1, <1>6, <3>2 DEF TablesAreRead
    <2>5. ASSUME Elements(c.tables[s].primaryKey) = Elements(fk.referenced)
          PROVE  w.tables[s].primaryKey = c.tables[s].primaryKey
        <3>1. c.tables[s].primaryKey # NoPrimaryKey
            BY <2>1, <2>5 DEF NoPrimaryKey, Elements
        <3> QED
            BY <2>3, <2>4, <3>1 DEF TableNearer
    <2>6. m \in todo[r] /\ m.kind \in Adding
        BY WhatIsSent DEF Adding
    <2>7. \A n \in Sent(r) : n.kind \notin Taking
        BY <1>1, <2>6, NothingTakenYet
    <2>8. c.tables[s].uniques \subseteq w.tables[s].uniques /\ w.indexes = c.indexes
        BY <1>6, <2>7, WhereItIsSent DEF KeptSoFar
    <2>9. UniqueOn(w, s, fk.referenced)
        BY <2>1, <2>5, <2>8, UniqueOnStays
    <2> QED
        BY <2>3, <2>9 DEF Resolvable
<1> QED
    BY <1>5, <1>6

LEMMA CreateTableAccepts ==
    ASSUME NEW U, NEW r, NEW m, AboutToSend(U, r, m), m.kind = "create_table"
    PROVE  CreateTableAccepted(working, m.on, files[r])
<1> DEFINE f == files[r]
           h == have[r]
           c == catalog
           w == working
           t == m.on
           want == f.tables[t]
           created == With(w.tables, t, Stored(want))
           after == [w EXCEPT !.tables = created]
<1>1. t \notin DOMAIN w.tables /\ \A u \in want.uniques : FreeUnique(w, u.name)
    BY WhatIsSent DEF Pending
<1>2. t \in DOMAIN f.tables
    BY WhatIsPlanned DEF PlannedFor, MissingTables
<1>3. NamespaceOf[t] \in w.namespaces
    <2> DEFINE ns == NamespaceOf[t]
               n == Migration("create_schema", ns, NoName)
    <2>1. ns \in CollectDesiredNamespaces(f)
        BY <1>2 DEF CollectDesiredNamespaces
    <2>2. CASE ns \in h.namespaces
        <3>1. Nearer(f, h, w)
            BY WhereItIsSent, NearerOn
        <3> QED
            BY <2>1, <2>2, <3>1 DEF Nearer
    <2>3. CASE ns \notin h.namespaces
        <3>1. n.kind = "create_schema" /\ n.on = ns
            BY DEF Migration
        <3>2. n \in plan[r]
            BY <2>1, <2>3, PlannedOpen DEF Plan, NamespaceMigrations, MissingNamespaces
        <3> HIDE DEF n
        <3>3. Served(f, h, w, n)
            BY <3>1, <3>2, LowerIsServed, AddingRanks DEF Adding
        <3> QED
            BY <3>1, <3>3 DEF Served
    <2> QED
        BY <2>2, <2>3
<1>4. NamesApart(want)
    BY <1>2, WhereItIsSent DEF AllConsistent, Consistent
<1>5. ASSUME NEW u \in want.uniques
      PROVE  u.name \notin DOMAIN w.indexes \cup UniqueNames(w)
    <2>1. u.name \notin DOMAIN w.indexes
        BY <1>2, WhereItIsSent DEF Executable, NamesAreFree, IndexesOnlyGo
    <2>2. u.name \notin UniqueNames(w)
        BY <1>1 DEF FreeUnique, UniqueNames
    <2> QED
        BY <2>1, <2>2
<1>6. after.tables = created /\ after.indexes = w.indexes
    BY WhereItIsSent, CatalogRecord
<1>7. /\ DOMAIN created = DOMAIN w.tables \cup {t} /\ created[t] = Stored(want)
      /\ \A s \in DOMAIN w.tables : created[s] = w.tables[s]
    BY <1>1 DEF With
<1>8. IsTable(want)
    BY <1>2, WhereItIsSent, FilesParts
<1> HIDE DEF created, after
<1>9. ASSUME NEW fk \in want.foreignKeys
      PROVE  Resolvable(after, fk)
    <2>1. CASE fk.references = t
        <3>1. RestsOnConstraint(f, fk)
            BY <1>2, WhereItIsSent DEF WantedKeysRest
        <3>2. Stored(want).primaryKey = want.primaryKey /\ Stored(want).uniques = want.uniques
            BY <1>8, StoredColumns, StoredParts
        <3>3. UniqueOn(after, fk.references, fk.referenced)
            BY <1>6, <1>7, <2>1, <3>1, <3>2, RestsIsUniqueOn
        <3> QED
            BY <1>6, <1>7, <2>1, <3>3 DEF Resolvable
    <2>2. CASE fk.references # t
        <3>1. Resolvable(w, fk)
            BY <2>2, NewTableResolves
        <3>2. fk.references \in DOMAIN w.tables /\ UniqueOn(w, fk.references, fk.referenced)
            BY <3>1 DEF Resolvable
        <3>3. after.tables[fk.references] = w.tables[fk.references]
            BY <1>6, <1>7, <3>2
        <3>4. UniqueOn(after, fk.references, fk.referenced)
            BY <1>6, <3>2, <3>3, UniqueOnStays
        <3> QED
            BY <1>6, <1>7, <3>2, <3>4 DEF Resolvable
    <2> QED
        BY <2>1, <2>2
<1> QED
    BY <1>1, <1>3, <1>4, <1>5, <1>9 DEF CreateTableAccepted, after, created

\* What a statement on one table finds there.
LEMMA OnKnownTable ==
    ASSUME NEW U, NEW r, NEW m, AboutToSend(U, r, m), m.kind \in OnOneTable
    PROVE  /\ m.on \in DOMAIN files[r].tables /\ m.on \in DOMAIN have[r].tables
           /\ m.on \in DOMAIN catalog.tables /\ m.on \in DOMAIN working.tables
           /\ Consistent(files[r].tables[m.on])
           /\ JustifiedInTable(files[r], have[r], m)
           /\ have[r].tables[m.on].columns = catalog.tables[m.on].columns
           /\ have[r].tables[m.on].uniques = catalog.tables[m.on].uniques
<1>1. AddsMissing(files[r], have[r], m)
    BY WhatIsPlanned DEF PlannedFor
<1>2. m.on \in DOMAIN files[r].tables /\ m.on \in DOMAIN have[r].tables
    BY <1>1 DEF AddsMissing, CommonTables
<1>3. m.on \in DOMAIN catalog.tables /\ m.on \in DOMAIN working.tables
    BY <1>2, KnownTableStays
<1>4. JustifiedInTable(files[r], have[r], m)
    BY WhatIsSent DEF Justified, OnOneTable
<1>5. Consistent(files[r].tables[m.on])
    BY <1>2, WhereItIsSent DEF AllConsistent
<1> QED
    BY <1>2, <1>3, <1>4, <1>5, SentFromTruth DEF TablesAreRead

LEMMA ColumnAccepts ==
    ASSUME NEW U, NEW r, NEW m, AboutToSend(U, r, m), m.kind \in {"add_column", "alter_column"}
    PROVE  AlterTableAccepts(working, m, files[r], have[r])
<1> DEFINE t == m.on
           want == files[r].tables[t]
           now == working.tables[t]
<1>1. m.kind \in OnOneTable
    BY DEF OnOneTable
<1>2. CASE m.kind = "add_column"
    <2>1. m.name \notin DOMAIN now.columns
        BY <1>1, <1>2, OnKnownTable, WhatIsSent DEF Pending
    <2> QED
        BY <1>2, <2>1 DEF AlterTableAccepts
<1>3. CASE m.kind = "alter_column"
    <2>0. JustifiedInTable(files[r], have[r], m)
        BY <1>1, OnKnownTable
    <2>1. m.name \in DOMAIN want.columns /\ m.name \in DOMAIN have[r].tables[t].columns
        BY <1>3, <2>0 DEF JustifiedInTable
    <2>2. /\ TableNearer(want, have[r].tables[t], now)
          /\ now.primaryKey \in {NoPrimaryKey, want.primaryKey}
        BY <1>1, OnKnownTable, KnownTableStays
    <2>3. m.name \in DOMAIN now.columns
        BY <2>1, <2>2 DEF TableNearer
    <2>4. want.columns[m.name].nullable => m.name \notin Elements(want.primaryKey)
        BY <1>1, OnKnownTable DEF Consistent
    <2>5. m.name \notin Elements(NoPrimaryKey)
        BY DEF NoPrimaryKey, Elements
    <2> QED
        BY <1>3, <2>2, <2>3, <2>4, <2>5 DEF AlterTableAccepts, DropsNotNull
<1> QED
    BY <1>2, <1>3

LEMMA AddKeyAccepts ==
    ASSUME NEW U, NEW r, NEW m, AboutToSend(U, r, m),
           m.kind \in {"add_primary_key", "add_unique_key", "add_foreign_key"}
    PROVE  AlterTableAccepts(working, m, files[r], have[r])
<1> DEFINE f == files[r]
           w == working
           t == m.on
           want == f.tables[t]
           now == w.tables[t]
<1>1. m.kind \in OnOneTable
    BY DEF OnOneTable
<1>2. /\ t \in DOMAIN f.tables /\ t \in DOMAIN have[r].tables /\ t \in DOMAIN w.tables
      /\ Consistent(want) /\ JustifiedInTable(f, have[r], m)
    BY <1>1, OnKnownTable
<1>3. DOMAIN want.columns \subseteq DOMAIN now.columns
    <2>1. Rank(m.kind) > 3 /\ Rank(m.kind) \in 1..13
        BY AddingRanks
    <2> QED
        BY <1>2, <2>1, WantedColumnsThere
<1>4. Pending(f, w, m) /\ NamesApart(want)
    BY <1>2, WhatIsSent DEF Consistent
<1>5. CASE m.kind = "add_primary_key"
    <2>1. now.primaryKey = NoPrimaryKey
        BY <1>2, <1>4, <1>5 DEF Pending
    <2>2. Elements(want.primaryKey) \subseteq DOMAIN now.columns
        BY <1>2, <1>3 DEF Consistent
    <2> QED
        BY <1>5, <2>1, <2>2 DEF AlterTableAccepts
<1>6. CASE m.kind = "add_unique_key"
    <2>1. PICK u \in want.uniques : u.name = m.name
        BY <1>2, <1>6 DEF JustifiedInTable
    <2>2. WantedUnique(f, t, m.name) = u
        BY <1>4, <2>1, WantedUniqueIs
    <2>3. u.name \notin DOMAIN w.indexes
        BY <1>2, WhereItIsSent DEF Executable, NamesAreFree, IndexesOnlyGo
    <2>4. FreeUnique(w, m.name)
        BY <1>4, <1>6 DEF Pending
    <2>5. m.name \notin UniqueNames(w)
        BY <2>4 DEF FreeUnique, UniqueNames
    <2>6. m.name \notin ConstraintsOf(now)
        <3>1. \A fk \in now.foreignKeys : fk.name # m.name
            BY <1>2, <2>1, WhereItIsSent DEF Sound, KindsApart
        <3> QED
            BY <1>2, <2>4, <3>1 DEF FreeUnique, ConstraintsOf
    <2>7. Elements(u.columns) \subseteq DOMAIN now.columns
        BY <1>2, <1>3 DEF Consistent
    <2> QED
        BY <1>6, <2>1, <2>2, <2>3, <2>5, <2>6, <2>7 DEF AlterTableAccepts
<1>7. CASE m.kind = "add_foreign_key"
    <2>1. PICK fk \in want.foreignKeys : fk.name = m.name
        BY <1>2, <1>7 DEF JustifiedInTable
    <2>2. WantedForeignKey(f, t, m.name) = fk
        BY <1>4, <2>1, WantedForeignKeyIs
    <2>3. m.name \notin ConstraintsOf(now)
        <3>1. \A gk \in now.foreignKeys : gk.name # m.name
            BY <1>2, <1>4, <1>7 DEF Pending
        <3>2. \A u \in now.uniques : u.name # m.name
            BY <1>2, <2>1, WhereItIsSent DEF Sound, KindsApart
        <3> QED
            BY <3>1, <3>2 DEF ConstraintsOf
    <2>4. Elements(fk.columns) \subseteq DOMAIN now.columns
        BY <1>2, <1>3 DEF Consistent
    <2>5. fk.references \in DOMAIN f.tables /\ RestsOnConstraint(f, fk)
        BY <1>2, WhereItIsSent DEF WantedKeysRest
    <2>6. Rank(m.kind) > 6 /\ Rank(m.kind) \in 1..13
        BY <1>7, AddingRanks
    <2>7. /\ fk.references \in DOMAIN w.tables
          /\ w.tables[fk.references].primaryKey = f.tables[fk.references].primaryKey
          /\ f.tables[fk.references].uniques \subseteq w.tables[fk.references].uniques
        BY <2>5, <2>6, WantedKeysThere
    <2>8. Resolvable(w, fk)
        BY <2>5, <2>7, RestsIsUniqueOn DEF Resolvable
    <2> QED
        BY <1>7, <2>2, <2>3, <2>4, <2>8 DEF AlterTableAccepts
<1> QED
    BY <1>5, <1>6, <1>7

\* The foreign keys of the transaction are wanted, or were in the database.
LEMMA KeysInTransaction ==
    ASSUME NEW U, NEW r, NEW m, AboutToSend(U, r, m), NEW pair \in ForeignKeysOf(working)
    PROVE  \E s, fk :
              /\ pair = <<s, fk>>
              /\ \/ /\ s \in DOMAIN files[r].tables /\ fk \in files[r].tables[s].foreignKeys
                    /\ fk.references \in DOMAIN files[r].tables /\ RestsOnConstraint(files[r], fk)
                    /\ pair \in ForeignKeysOf(files[r])
                 \/ pair \in ForeignKeysOf(catalog)
<1>0. PICK s \in DOMAIN working.tables : \E fk \in working.tables[s].foreignKeys : pair = <<s, fk>>
    BY ForeignKeyPairs
<1>1. PICK fk \in working.tables[s].foreignKeys : pair = <<s, fk>>
    BY <1>0
<1>2. \/ s \in DOMAIN files[r].tables /\ fk \in files[r].tables[s].foreignKeys
      \/ s \in DOMAIN catalog.tables /\ fk \in catalog.tables[s].foreignKeys
    BY WhereItIsSent, KeysAreKnown
<1>3. CASE s \in DOMAIN files[r].tables /\ fk \in files[r].tables[s].foreignKeys
    <2>1. pair \in ForeignKeysOf(files[r])
        BY <1>1, <1>3, ForeignKeyPairs
    <2> QED
        BY <1>1, <1>3, <2>1, WhereItIsSent DEF WantedKeysRest
<1>4. CASE s \in DOMAIN catalog.tables /\ fk \in catalog.tables[s].foreignKeys
    <2>1. pair \in ForeignKeysOf(catalog)
        BY <1>1, <1>4, ForeignKeyPairs
    <2> QED
        BY <1>1, <2>1
<1> QED
    BY <1>2, <1>3, <1>4

LEMMA DropTableAccepts ==
    ASSUME NEW U, NEW r, NEW m, AboutToSend(U, r, m), m.kind = "drop_table"
    PROVE  m.on \in DOMAIN working.tables /\ ~TableIsReferenced(working, m.on)
<1> DEFINE f == files[r]
           c == catalog
           t == m.on
<1>1. t \in DOMAIN working.tables
    BY WhatIsSent DEF Pending
<1>0. Justified(f, have[r], m)
    BY WhatIsSent
<1>2. MayLoseTable(f, have[r], t) /\ t \in DOMAIN have[r].tables
    BY <1>0 DEF Justified
<1>3. t \notin DOMAIN f.tables /\ t \in DOMAIN c.tables
    BY <1>2, SentFromTruth DEF MayLoseTable, TablesAreRead
<1>4. have[r].tables[t].columns = c.tables[t].columns
    BY <1>3, SentFromTruth DEF TablesAreRead
<1>5. MayLoseTable(f, c, t)
    BY <1>2, <1>4 DEF MayLoseTable, ColumnTypes
<1>6. ~TableIsReferenced(c, t)
    BY <1>3, <1>5, WhereItIsSent DEF Executable, Removable
<1>7. ASSUME NEW pair \in ForeignKeysOf(working), pair[1] # t, pair[2].references = t
      PROVE  FALSE
    BY <1>3, <1>6, <1>7, KeysInTransaction DEF TableIsReferenced
<1> QED
    BY <1>1, <1>7 DEF TableIsReferenced

\* What a wanted foreign key refers to are columns that are wanted.
LEMMA WantedKeyColumns ==
    ASSUME NEW f, AllConsistent(f), NEW fk, fk.references \in DOMAIN f.tables,
           RestsOnConstraint(f, fk)
    PROVE  Elements(fk.referenced) \subseteq DOMAIN f.tables[fk.references].columns
BY DEF AllConsistent, Consistent, RestsOnConstraint

LEMMA DropColumnAccepts ==
    ASSUME NEW U, NEW r, NEW m, AboutToSend(U, r, m), m.kind = "drop_column"
    PROVE  AlterTableAccepts(working, m, files[r], have[r])
<1> DEFINE f == files[r]
           c == catalog
           t == m.on
           x == m.name
<1>1. m.kind \in OnOneTable
    BY DEF OnOneTable
<1>0. /\ t \in DOMAIN f.tables /\ t \in DOMAIN c.tables
      /\ have[r].tables[t].columns = c.tables[t].columns
      /\ JustifiedInTable(f, have[r], m)
    BY <1>1, OnKnownTable
<1>2. x \in DOMAIN have[r].tables[t].columns /\ MayLoseColumn(f, have[r], t, x)
    BY <1>0 DEF JustifiedInTable
<1>3. MayLoseColumn(f, c, t, x) /\ x \notin DOMAIN f.tables[t].columns
    BY <1>0, <1>2 DEF MayLoseColumn
<1>4. ~ColumnIsReferenced(c, t, x)
    BY <1>0, <1>2, <1>3, WhereItIsSent DEF Executable, Removable
<1>5. ASSUME NEW pair \in ForeignKeysOf(working), pair[2].references = t,
             x \in Elements(pair[2].referenced), ~(pair[1] = t /\ x \in Elements(pair[2].columns))
      PROVE  FALSE
    <2>1. pair \notin ForeignKeysOf(c)
        BY <1>4, <1>5 DEF ColumnIsReferenced
    <2>2. PICK s, fk : pair = <<s, fk>> /\ RestsOnConstraint(f, fk)
        BY <2>1, KeysInTransaction
    <2>3. AllConsistent(f)
        BY WhereItIsSent
    <2> QED
        BY <1>0, <1>3, <1>5, <2>2, <2>3, WantedKeyColumns
<1>6. ~ColumnIsReferenced(working, t, x)
    BY <1>5 DEF ColumnIsReferenced
<1> QED
    BY <1>6 DEF AlterTableAccepts

LEMMA DropUniqueAccepts ==
    ASSUME NEW U, NEW r, NEW m, AboutToSend(U, r, m), m.kind = "drop_unique_key"
    PROVE  AlterTableAccepts(working, m, files[r], have[r])
<1> DEFINE f == files[r]
           c == catalog
           w == working
           t == m.on
           want == f.tables[t]
<1>1. m.kind \in OnOneTable
    BY DEF OnOneTable
<1>2. /\ t \in DOMAIN f.tables /\ t \in DOMAIN c.tables /\ t \in DOMAIN w.tables
      /\ have[r].tables[t].uniques = c.tables[t].uniques
      /\ JustifiedInTable(f, have[r], m)
    BY <1>1, OnKnownTable
<1>0. \E v \in have[r].tables[t].uniques \ want.uniques :
         v.name = m.name /\ Drops(f, LAMBDA g : CoversUnique(g, v))
    BY <1>2 DEF JustifiedInTable
<1>3. PICK v \in c.tables[t].uniques \ want.uniques :
         v.name = m.name /\ Drops(f, LAMBDA g : CoversUnique(g, v))
    BY <1>0, <1>2 DEF Drops
<1>4. w.tables[t].primaryKey = want.primaryKey
    <2>1. Rank(m.kind) > 6 /\ Rank(m.kind) \in 1..13
        BY Ranks DEF Taking
    <2> QED
        BY <1>2, <2>1, WantedKeysThere
<1>5. ASSUME NEW u \in w.tables[t].uniques, u.name = m.name
      PROVE  u = v
    <2>1. u \notin want.uniques
        BY <1>2, <1>3, <1>5, WhereItIsSent DEF Executable, NamesAreFree
    <2>2. u \in c.tables[t].uniques
        BY <1>2, <1>5, <2>1, WhereItIsSent DEF Evolves, TableEvolves
    <2>3. NamesApart(c.tables[t])
        BY <1>2 DEF AboutToSend, LossInv, Sound
    <2> QED
        BY <1>3, <1>5, <2>2, <2>3 DEF NamesApart
<1>6. \A pair \in ForeignKeysOf(c) \cup ForeignKeysOf(f) : ~RestsOnUnique(f, t, v, pair[2])
    BY <1>2, <1>3, WhereItIsSent DEF Executable, Removable
<1>7. ASSUME NEW pair \in ForeignKeysOf(w), pair[2].references = t,
             Elements(pair[2].referenced) = Elements(v.columns),
             Elements(w.tables[t].primaryKey) # Elements(v.columns)
      PROVE  FALSE
    <2>1. pair \in ForeignKeysOf(c) \cup ForeignKeysOf(f)
        BY KeysInTransaction
    <2> QED
        BY <1>4, <1>6, <1>7, <2>1 DEF RestsOnUnique
<1>8. ~UniqueIsReferenced(w, t, m.name)
    BY <1>5, <1>7 DEF UniqueIsReferenced
<1> QED
    BY <1>8 DEF AlterTableAccepts

\* The plan of the only run that changes the database is accepted, statement
\* by statement.
LEMMA TransactionAccepts ==
    ASSUME NEW U, NEW r, NEW m, AboutToSend(U, r, m)
    PROVE  Accepts(working, m, files[r], have[r])
<1>1. m.kind \in Adding \cup Taking
    BY WhatIsSent
<1>2. CASE m.kind = "create_schema"
    BY <1>2 DEF Accepts
<1>3. CASE m.kind = "create_table"
    BY <1>3, CreateTableAccepts DEF Accepts
<1>4. CASE m.kind = "drop_table"
    BY <1>4, DropTableAccepts DEF Accepts
<1>5. CASE m.kind \in OnOneTable
    <2>1. m.on \in DOMAIN working.tables
        BY <1>5, OnKnownTable
    <2>2. AlterTableAccepts(working, m, files[r], have[r])
        <3>1. CASE m.kind = "drop_foreign_key"
            BY <3>1 DEF AlterTableAccepts
        <3> QED
            BY <1>5, <3>1, ColumnAccepts, AddKeyAccepts, DropColumnAccepts, DropUniqueAccepts
               DEF OnOneTable
    <2> QED
        BY <1>5, <2>1, <2>2 DEF Accepts, OnOneTable
<1> QED
    BY <1>1, <1>2, <1>3, <1>4, <1>5 DEF Adding, Taking, OnOneTable

-----------------------------------------------------------------------------
(* Index statements, once the tables are what the files ask for.           *)

LEMMA CreateIndexAccepts ==
    ASSUME NEW U, NEW f, NEW c, TablesMeet(f, c), IndexesFit(U, f), Executable(f, c),
           NEW i \in DOMAIN f.indexes
    PROVE  CreateIndexAccepted(c, i, f)
<1> DEFINE t == f.indexes[i].table
<1>1. CreateIndexParses(f, i)
    BY DEF Executable
<1>2. t \in DOMAIN f.tables /\ Elements(f.indexes[i].columns) \subseteq DOMAIN f.tables[t].columns
    BY DEF IndexesFit
<1>3. t \in DOMAIN c.tables /\ DOMAIN f.tables[t].columns \subseteq DOMAIN c.tables[t].columns
    BY <1>2 DEF TablesMeet, ColumnsMeet
<1> QED
    BY <1>1, <1>2, <1>3 DEF CreateIndexAccepted

\* Foreign keys rest on constraints, so that none rests on a mere index.
LEMMA DropIndexAccepts ==
    ASSUME NEW c, IsCatalog(c), KeysRest(c), NEW i \in DOMAIN c.indexes
    PROVE  ~IndexIsReferenced(c, i)
<1> DEFINE rest == [c EXCEPT !.indexes = Without(@, i)]
<1>1. rest.tables = c.tables
    BY DEF IsCatalog
<1>2. ASSUME NEW pair \in ForeignKeysOf(c), pair[2].references = c.indexes[i].table
      PROVE  UniqueOn(rest, c.indexes[i].table, pair[2].referenced)
    <2>1. PICK s \in DOMAIN c.tables : \E fk \in c.tables[s].foreignKeys : pair = <<s, fk>>
        BY ForeignKeyPairs
    <2>2. RestsOnConstraint(c, pair[2])
        BY <2>1 DEF KeysRest
    <2> HIDE DEF rest
    <2> QED
        BY <1>1, <1>2, <2>2 DEF RestsOnConstraint, UniqueOn
<1> QED
    BY <1>2 DEF IndexIsReferenced

LEMMA IndexAccepts ==
    ASSUME NEW U, LossInv(U), IInv, SettleInv(U), ExecInv, NEW r \in Runners,
           pc[r] = "committed", NEW m \in IndexStatements(r)
    PROVE  Accepts(catalog, m, files[r], have[r])
<1>1. /\ TablesMeet(files[r], catalog) /\ IndexesFit(U, files[r])
      /\ Executable(files[r], catalog) /\ IsCatalog(catalog) /\ Sound(U, catalog)
    BY DEF SettleInv, RunSettles, ExecInv, IInv, Environment, LossInv
<1>2. m.kind \in {"create_index", "drop_index"}
      /\ (m.kind = "create_index" => m.name \in DOMAIN files[r].indexes)
    BY IndexStatement
<1>3. CASE m.kind = "create_index"
    BY <1>1, <1>2, <1>3, CreateIndexAccepts DEF Accepts
<1>4. CASE m.kind = "drop_index"
    <2>1. KeysRest(catalog)
        BY <1>1 DEF Executable
    <2> QED
        BY <1>1, <1>4, <2>1, DropIndexAccepts DEF Accepts
<1> QED
    BY <1>2, <1>3, <1>4

\* The invariants of the runs say what the property does.
LEMMA ExecImplies ==
    ASSUME NEW U, LossInv(U), IInv, OpenInv, ReachInv, SettleInv(U), ExecInv
    PROVE  PlanIsExecutable
<1>1. ASSUME NEW r \in Runners, pc[r] = "transaction",
             NEW m \in NextOf(files[r], plan[r], InTransaction(todo[r]))
      PROVE  Accepts(working, m, files[r], have[r])
    <2>1. AboutToSend(U, r, m)
        BY <1>1 DEF AboutToSend, IsNext
    <2> QED
        BY <2>1, TransactionAccepts
<1>2. ASSUME NEW r \in Runners, pc[r] = "committed", NEW m \in IndexStatements(r)
      PROVE  Accepts(catalog, m, files[r], have[r])
    BY <1>2, IndexAccepts
<1> QED
    BY <1>1, <1>2 DEF PlanIsExecutable

-----------------------------------------------------------------------------
(* Every commit leaves a database that the files can be applied to.        *)

\* What the files tolerate they do not give away.
LEMMA ToleratedIsKept ==
    ASSUME NEW f, PoliciesApart(f)
    PROVE  /\ \A x, type : ~(/\ Tolerates(f, LAMBDA g : CoversColumn(g, x, type))
                             /\ Drops(f, LAMBDA g : CoversColumn(g, x, type)))
           /\ \A u : ~(/\ Tolerates(f, LAMBDA g : CoversUnique(g, u))
                       /\ Drops(f, LAMBDA g : CoversUnique(g, u)))
<1>1. ASSUME NEW g \in f.groups, NEW h \in f.groups,
             g.policy = "DEPRECATED", h.policy = "DROP"
      PROVE  /\ \A x, type : ~(CoversColumn(g, x, type) /\ CoversColumn(h, x, type))
             /\ \A u : ~(CoversUnique(g, u) /\ CoversUnique(h, u))
    <2>1. Apart(g, h)
        BY <1>1 DEF PoliciesApart
    <2>2. \A x, type : ~(CoversColumn(g, x, type) /\ CoversColumn(h, x, type))
        BY <2>1 DEF Apart, CoversColumn
    <2>3. \A u : ~(CoversUnique(g, u) /\ CoversUnique(h, u))
        BY <2>1 DEF Apart, CoversUnique, CoversUniqueRust, CoversUniqueGo
    <2> QED
        BY <2>2, <2>3
<1> QED
    BY <1>1 DEF Tolerates, Drops

\* Once the files are met there is nothing that they would still take.
LEMMA NothingToRemove ==
    ASSUME NEW f, NEW d, TablesMeet(f, d), PoliciesApart(f)
    PROVE  Removable(f, d)
<1>1. DOMAIN d.tables = DOMAIN f.tables
    BY DEF TablesMeet
<1>2. \A t \in DOMAIN d.tables : ~MayLoseTable(f, d, t)
    BY <1>1 DEF MayLoseTable
<1>3. ASSUME NEW t \in DOMAIN d.tables, NEW x \in DOMAIN d.tables[t].columns,
             MayLoseColumn(f, d, t, x)
      PROVE  FALSE
    <2> DEFINE type == d.tables[t].columns[x].type
    <2>1. ColumnsMeet(f, t, d.tables[t])
        BY <1>1 DEF TablesMeet
    <2>2. x \notin DOMAIN f.tables[t].columns
        BY <1>3 DEF MayLoseColumn
    <2>3. /\ ~RemovedAllows(f.tables[t], x, type)
          /\ Tolerates(f, LAMBDA g : CoversColumn(g, x, type))
        BY <2>1, <2>2 DEF ColumnsMeet, Tolerates
    <2>4. Drops(f, LAMBDA g : CoversColumn(g, x, type))
        BY <1>3, <2>3 DEF MayLoseColumn, Drops
    <2>5. ~(/\ Tolerates(f, LAMBDA g : CoversColumn(g, x, type))
            /\ Drops(f, LAMBDA g : CoversColumn(g, x, type)))
        BY ToleratedIsKept DEF Tolerates, Drops
    <2> QED
        BY <2>3, <2>4, <2>5
<1>4. ASSUME NEW t \in DOMAIN f.tables \cap DOMAIN d.tables,
             NEW u \in d.tables[t].uniques \ f.tables[t].uniques,
             Drops(f, LAMBDA g : CoversUnique(g, u))
      PROVE  FALSE
    <2>1. KeysMeet(f, t, d.tables[t])
        BY DEF TablesMeet
    <2>2. Tolerates(f, LAMBDA g : CoversUnique(g, u))
        BY <2>1 DEF KeysMeet, Tolerates
    <2>3. ~(/\ Tolerates(f, LAMBDA g : CoversUnique(g, u))
            /\ Drops(f, LAMBDA g : CoversUnique(g, u)))
        BY ToleratedIsKept DEF Tolerates, Drops
    <2> QED
        BY <1>4, <2>2, <2>3 DEF Drops
<1> QED
    BY <1>2, <1>3, <1>4 DEF Removable, Drops

\* Names stay free: what comes has been asked for.
LEMMA NamesStayFree ==
    ASSUME NEW U, NEW f, KindsApart(U, f.tables), IndexesFit(U, f), AllConsistent(f),
           NEW c, NEW d, NamesAreFree(f, c), Evolves(f, c, d)
    PROVE  NamesAreFree(f, d)
<1>1. ASSUME NEW t \in DOMAIN f.tables, NEW u \in f.tables[t].uniques, u.name \in DOMAIN d.indexes
      PROVE  FALSE
    <2>1. u.name \in U /\ u.name \notin DOMAIN f.indexes
        BY DEF KindsApart, IndexesFit
    <2> QED
        BY <1>1, <2>1 DEF Evolves, NamesAreFree
<1>2. ASSUME NEW t \in DOMAIN f.tables, NEW u \in f.tables[t].uniques,
             NEW s \in DOMAIN d.tables, NEW v \in d.tables[s].uniques, v.name = u.name
      PROVE  s = t /\ v = u
    <2>1. \/ s \in DOMAIN f.tables /\ v \in f.tables[s].uniques
          \/ s \in DOMAIN c.tables /\ v \in c.tables[s].uniques
        BY DEF Evolves, TableEvolves, Asked
    <2> QED
        BY <1>2, <2>1 DEF NamesAreFree
<1>3. ASSUME NEW t \in DOMAIN f.tables \cap DOMAIN d.tables,
             NEW fk \in f.tables[t].foreignKeys, NEW gk \in d.tables[t].foreignKeys,
             fk.name = gk.name
      PROVE  fk = gk
    <2>1. CASE gk \in f.tables[t].foreignKeys
        BY <1>3, <2>1 DEF AllConsistent, Consistent, NamesApart
    <2>2. CASE gk \notin f.tables[t].foreignKeys
        <3>1. t \in DOMAIN c.tables /\ gk \in c.tables[t].foreignKeys
            BY <2>2 DEF Evolves, TableEvolves, Asked
        <3> QED
            BY <1>3, <3>1 DEF NamesAreFree
    <2> QED
        BY <2>1, <2>2
<1> QED
    BY <1>1, <1>2, <1>3 DEF NamesAreFree

LEMMA MetStaysExecutable ==
    ASSUME NEW U, NEW f, IsFiles(f), AllConsistent(f), KindsApart(U, f.tables), IndexesFit(U, f),
           NEW c, NEW d, IsCatalog(d), Executable(f, c), Evolves(f, c, d), TablesMeet(f, d),
           SurplusRests(f, d), AsWanted(f, d), WantedKeysRest(f), PoliciesApart(f)
    PROVE  Executable(f, d)
<1>1. NamesAreFree(f, d)
    BY NamesStayFree DEF Executable
<1>2. Removable(f, d)
    BY NothingToRemove
<1>3. KeysRest(d)
    BY MetIsRecognised DEF Recognises
<1>4. NewTablesRefer(f, d)
    <2>1. DOMAIN f.tables \ DOMAIN d.tables = {}
        BY DEF TablesMeet
    <2>2. CycleBound(f, {}) = {}
        BY DEF CycleBound
    <2> QED
        BY <2>1, <2>2 DEF NewTablesRefer
<1> QED
    BY <1>1, <1>2, <1>3, <1>4 DEF Executable

\* When a step changes the database.
LEMMA ChangesWhen ==
    ASSUME IInv, NEW r \in Runners,
           \/ Connect(r) \/ Step(r)
           \/ FaultOutsideTransaction(r) \/ FaultInTransaction(r)
           \/ FaultAtCommit(r) \/ FaultInBuild(r)
    PROVE  catalog' = catalog \/ Commits(r) \/ pc[r] \in {"committed", "building"}
<1>1. CASE \/ Connect(r) \/ ListUserSchemas(r) \/ ListTables(r) \/ ListColumns(r)
           \/ ListUniqueKeys(r) \/ ListForeignKeys(r) \/ ListIndexes(r)
           \/ Refuse(r) \/ MakePlan(r) \/ DryRun(r) \/ Begin(r) \/ NoTransaction(r)
           \/ ExecuteInTransaction(r) \/ Finish(r)
           \/ FaultOutsideTransaction(r) \/ FaultInTransaction(r)
    BY <1>1 DEF Connect, ListUserSchemas, ListTables, ListColumns, ListUniqueKeys,
                ListForeignKeys, ListIndexes, Refuse, MakePlan, DryRun, Begin, NoTransaction,
                ExecuteInTransaction, Finish, FaultOutsideTransaction, FaultInTransaction
<1>2. CASE ExecuteIndex(r) \/ StartBuild(r) \/ FinishBuild(r) \/ FaultInBuild(r)
    BY <1>2 DEF ExecuteIndex, StartBuild, FinishBuild, FaultInBuild
<1> QED
    BY <1>1, <1>2 DEF Step, Commits

LEMMA StepExecutable ==
    ASSUME NEW U, LossInv(U), IInv, IInv', OpenInv, OpenInv', ReachInv, SettleInv(U),
           SettleInv(U)', ExecInv, NEW r \in Runners, Next,
           \/ Connect(r) \/ Step(r)
           \/ FaultOutsideTransaction(r) \/ FaultInTransaction(r)
           \/ FaultAtCommit(r) \/ FaultInBuild(r),
           NEW q \in Runners
    PROVE  Executable(files[q], catalog')
<1>1. files[q] = files[r] /\ Executable(files[q], catalog) /\ files' = files
    BY StepSettles DEF LossInv, ExecInv
<1>2. Settles(files[q])
    BY StepSettles
<1>3. CASE catalog' = catalog
    BY <1>1, <1>3
<1>4. CASE Commits(r) \/ pc[r] \in {"committed", "building"}
    <2>1. TablesMeet(files[q], catalog')
        <3>1. CASE Commits(r)
            BY <1>1, <3>1, CommitMeets
        <3>2. CASE pc[r] \in {"committed", "building"}
            BY <1>1, <1>2, <3>2 DEF SettleInv, RunSettles, Settles
        <3> QED
            BY <1>4, <3>1, <3>2
    <2>2. /\ IsFiles(files[q]) /\ AllConsistent(files[q]) /\ KindsApart(U, files[q].tables)
          /\ IndexesFit(U, files[q]) /\ WantedKeysRest(files[q]) /\ PoliciesApart(files[q])
        BY DEF IInv, Environment, ReachInv, AllConsistent, LossInv, RunLoss, SettleInv, ExecInv
    <2>3. IsCatalog(catalog') /\ SurplusRests(files[q], catalog') /\ AsWanted(files[q], catalog')
        BY <1>1 DEF IInv, Environment, OpenInv, SettleInv
    <2>4. Evolves(files[q], catalog, catalog')
        BY <1>2 DEF Settles
    <2> QED
        BY <1>1, <2>1, <2>2, <2>3, <2>4, MetStaysExecutable
<1> QED
    BY <1>3, <1>4, ChangesWhen

-----------------------------------------------------------------------------
(* What a run reads of a database that nobody changes is what is there.    *)

\* Not one of the tables has been read yet.
LEMMA ListUserSchemasTrue ==
    ASSUME IInv, NEW r \in Runners, ReadInv(r), Housed(files[r], catalog), ListUserSchemas(r)
    PROVE  ReadsTrue(r)'
<1> DEFINE f == files[r]
           c == catalog
           h == have'[r]
<1>1. pc'[r] = "listed" /\ catalog' = c /\ have[r] = EmptySchema
    BY DEF ListUserSchemas, ReadInv, IInv, Shape
<1>2. h = [have[r] EXCEPT !.namespaces = c.namespaces]
      /\ left'[r] = [left[r] EXCEPT !.namespaces = CollectDesiredNamespaces(f) \cup c.namespaces]
    BY DEF ListUserSchemas, IInv, Shape
<1>3. DOMAIN h.tables = {}
    <2>1. [EmptySchema EXCEPT !.namespaces = c.namespaces] =
             [namespaces |-> c.namespaces, tables |-> << >>, indexes |-> << >>]
        BY DEF EmptySchema
    <2> QED
        BY <1>1, <1>2, <2>1
<1>4. left'[r].namespaces = CollectDesiredNamespaces(f) \cup c.namespaces
    <2>1. left[r] \in Leftovers
        BY DEF IInv, Shape
    <2> QED
        BY <1>2, <2>1 DEF Leftovers
<1> HIDE DEF h
<1>5. \A t \in DOMAIN c.tables : NamespaceOf[t] \in left'[r].namespaces
    BY <1>4 DEF Housed, CollectDesiredNamespaces
<1>6. \A t \in DOMAIN c.tables : ~UniquesRead(r, t)'
    BY <1>1, <1>5 DEF UniquesRead, HasRead, Underway
<1> QED
    BY <1>1, <1>3, <1>6 DEF ReadsTrue, h

\* A query that reads of no table but says where the run is.
LEMMA TableStaysRead ==
    ASSUME NEW r \in Runners, NEW t, TableIsRead(r, t), have'[r].tables[t] = have[r].tables[t],
           catalog' = catalog, UniquesRead(r, t)' => UniquesRead(r, t),
           ForeignKeysRead(r, t)' => ForeignKeysRead(r, t)
    PROVE  TableIsRead(r, t)'
BY DEF TableIsRead

LEMMA ListTablesTrue ==
    ASSUME IInv, NEW r \in Runners, ReadsTrue(r), ListTables(r)
    PROVE  ReadsTrue(r)'
<1> DEFINE c == catalog
           h == have[r]
           listed == {t \in DOMAIN c.tables : InReach(r, t)}
<1>1. pc[r] = "listed" /\ pc'[r] = "columns" /\ catalog' = c /\ have'[r] = h
    BY DEF ListTables, IInv, Shape
<1>2. left'[r] = [left[r] EXCEPT !.tables = listed]
    BY DEF ListTables, IInv, Shape
<1>3. left'[r].namespaces = left[r].namespaces /\ left'[r].tables = listed
    <2>1. left[r] \in Leftovers
        BY DEF IInv, Shape
    <2> QED
        BY <1>2, <2>1 DEF Leftovers
<1>4. \A t : InReach(r, t)' <=> InReach(r, t)
    BY <1>3 DEF InReach, Reading, IsFirst
<1>5. \A t : /\ UniquesRead(r, t)' => UniquesRead(r, t)
             /\ ForeignKeysRead(r, t)' => ForeignKeysRead(r, t)
    BY <1>1, <1>3, <1>4 DEF UniquesRead, ForeignKeysRead, HasRead, Underway
<1>6. \A t \in DOMAIN h.tables : t \in DOMAIN c.tables /\ TableIsRead(r, t)'
    BY <1>1, <1>5, TableStaysRead DEF ReadsTrue
<1>7. \A t \in DOMAIN c.tables : InReach(r, t)' => t \in left'[r].tables
    BY <1>3, <1>4
<1>8. left'[r].tables \subseteq DOMAIN c.tables
    BY <1>3
<1>9. \A t \in DOMAIN c.tables : UniquesRead(r, t)' => t \in DOMAIN h.tables
    BY <1>5 DEF ReadsTrue
<1> QED
    BY <1>1, <1>6, <1>7, <1>8, <1>9 DEF ReadsTrue

LEMMA ListColumnsTrue ==
    ASSUME IInv, NEW r \in Runners, ReadInv(r), ReadsTrue(r), ListColumns(r)
    PROVE  ReadsTrue(r)'
<1>1. PICK t \in left[r].tables :
          /\ have' = [have EXCEPT ![r].tables = With(@, t, WithoutKeys(ColumnsOf(t)))]
          /\ left' = [left EXCEPT ![r].tables = @ \ {t}]
    BY DEF ListColumns
<1> DEFINE c == catalog
           h == have[r]
           new == WithoutKeys(ColumnsOf(t))
           ts == With(h.tables, t, new)
           k == [h EXCEPT !.tables = ts]
<1>2. /\ pc[r] = "columns" /\ pc'[r] = "columns" /\ catalog' = c /\ have'[r] = k
    BY <1>1 DEF ListColumns, IInv, Shape
<1>3. left'[r].namespaces = left[r].namespaces /\ left'[r].tables = left[r].tables \ {t}
    <2>1. left[r] \in Leftovers /\ left'[r] = [left[r] EXCEPT !.tables = left[r].tables \ {t}]
        BY <1>1 DEF IInv, Shape
    <2> QED
        BY <2>1 DEF Leftovers
<1>4. t \in DOMAIN c.tables /\ new.columns = c.tables[t].columns
    BY <1>2 DEF WithoutKeys, ColumnsOf, ReadsTrue
<1> HIDE DEF new
<1>5. /\ DOMAIN ts = DOMAIN h.tables \cup {t} /\ ts[t] = new
      /\ \A s \in DOMAIN h.tables : s # t => ts[s] = h.tables[s]
    BY DEF With
<1> HIDE DEF ts
<1>6. k.tables = ts
    BY DEF IInv, RunInv, IsSchema
<1> HIDE DEF k
<1>7. InReach(r, t)
    BY <1>2 DEF ReadInv, ListedColumns
<1>8. \A s : InReach(r, s)' <=> InReach(r, s)
    BY <1>3 DEF InReach, Reading, IsFirst
<1>9. \A s : /\ UniquesRead(r, s)' => UniquesRead(r, s)
             /\ ForeignKeysRead(r, s)' => ForeignKeysRead(r, s)
    BY <1>2, <1>3, <1>8 DEF UniquesRead, ForeignKeysRead, HasRead
<1>10. ~UniquesRead(r, t)' /\ ~ForeignKeysRead(r, t)'
    BY <1>2, <1>7, <1>8 DEF UniquesRead, ForeignKeysRead, HasRead, Underway
<1>11. ASSUME NEW s \in DOMAIN ts
       PROVE  s \in DOMAIN c.tables /\ TableIsRead(r, s)'
    <2>1. CASE s = t
        BY <1>2, <1>4, <1>5, <1>6, <1>10, <2>1 DEF TableIsRead
    <2>2. CASE s # t
        BY <1>2, <1>5, <1>6, <1>9, <1>11, <2>2, TableStaysRead DEF ReadsTrue
    <2> QED
        BY <2>1, <2>2
<1>12. \A s \in DOMAIN c.tables : UniquesRead(r, s)' => s \in DOMAIN ts
    BY <1>5, <1>9 DEF ReadsTrue
<1>13. \A s \in DOMAIN c.tables : InReach(r, s)' => s \in DOMAIN ts \cup left'[r].tables
    BY <1>2, <1>3, <1>5, <1>8 DEF ReadsTrue
<1>14. left'[r].tables \subseteq DOMAIN c.tables
    BY <1>2, <1>3 DEF ReadsTrue
<1> QED
    BY <1>2, <1>6, <1>11, <1>12, <1>13, <1>14 DEF ReadsTrue

LEMMA ListUniqueKeysTrue ==
    ASSUME IInv, NEW r \in Runners, ReadsTrue(r), ListUniqueKeys(r)
    PROVE  ReadsTrue(r)'
<1> DEFINE c == catalog
           h == have[r]
           Keyed(t) == [h.tables[t] EXCEPT !.primaryKey = c.tables[t].primaryKey,
                                           !.uniques = c.tables[t].uniques]
           ts == [t \in DOMAIN h.tables |->
                     IF InReach(r, t) /\ t \in DOMAIN c.tables THEN Keyed(t) ELSE h.tables[t]]
           k == [h EXCEPT !.tables = ts]
<1>1. /\ pc[r] = "columns" /\ pc'[r] = "unique keys read" /\ catalog' = c
      /\ left[r].tables = {} /\ left'[r] = left[r] /\ have'[r] = k
    BY DEF ListUniqueKeys, IInv, Shape
<1>2. ASSUME NEW t \in DOMAIN h.tables
      PROVE  /\ Keyed(t).columns = h.tables[t].columns
             /\ Keyed(t).primaryKey = c.tables[t].primaryKey
             /\ Keyed(t).uniques = c.tables[t].uniques
    <2> DEFINE old == h.tables[t]
               p == c.tables[t].primaryKey
               us == c.tables[t].uniques
               a == [columns |-> old.columns, primaryKey |-> p, uniques |-> old.uniques,
                     foreignKeys |-> old.foreignKeys, removed |-> old.removed]
    <2>1. IsTable(old)
        BY SchemaParts DEF IInv, RunInv
    <2>2. [old EXCEPT !.primaryKey = p] = a
        <3> HIDE DEF old, p
        <3> QED
            BY <2>1 DEF IsTable
    <2>3. [a EXCEPT !.uniques = us] =
             [columns |-> old.columns, primaryKey |-> p, uniques |-> us,
              foreignKeys |-> old.foreignKeys, removed |-> old.removed]
        OBVIOUS
    <2>4. Keyed(t) = [[old EXCEPT !.primaryKey = p] EXCEPT !.uniques = us]
        OBVIOUS
    <2> HIDE DEF Keyed, old
    <2> QED
        BY <2>2, <2>3, <2>4 DEF old
<1> HIDE DEF Keyed
<1>3. /\ DOMAIN ts = DOMAIN h.tables
      /\ \A t \in DOMAIN h.tables :
            /\ InReach(r, t) /\ t \in DOMAIN c.tables => ts[t] = Keyed(t)
            /\ ~InReach(r, t) => ts[t] = h.tables[t]
    OBVIOUS
<1> HIDE DEF ts
<1>4. k.tables = ts
    BY DEF IInv, RunInv, IsSchema
<1> HIDE DEF k
<1>5. \A t : InReach(r, t)' <=> InReach(r, t)
    BY <1>1 DEF InReach, Reading, IsFirst
<1>6. \A t : ~InReach(r, t) => /\ UniquesRead(r, t)' => UniquesRead(r, t)
                               /\ ForeignKeysRead(r, t)' => ForeignKeysRead(r, t)
    BY <1>1, <1>5 DEF UniquesRead, ForeignKeysRead, HasRead
<1>7. \A t : InReach(r, t) => ~ForeignKeysRead(r, t)'
    BY <1>1, <1>5 DEF ForeignKeysRead, HasRead, Underway
<1>8. ASSUME NEW t \in DOMAIN ts
      PROVE  t \in DOMAIN c.tables /\ TableIsRead(r, t)'
    <2>1. t \in DOMAIN c.tables /\ TableIsRead(r, t) /\ t \in DOMAIN h.tables
        BY <1>3 DEF ReadsTrue
    <2>2. CASE InReach(r, t)
        <3>1. ts[t] = Keyed(t) /\ ~ForeignKeysRead(r, t)'
            BY <1>3, <1>7, <2>1, <2>2
        <3> QED
            BY <1>1, <1>2, <1>4, <2>1, <3>1 DEF TableIsRead
    <2>3. CASE ~InReach(r, t)
        BY <1>1, <1>3, <1>4, <1>6, <2>1, <2>3, TableStaysRead
    <2> QED
        BY <2>1, <2>2, <2>3
<1>9. \A t \in DOMAIN c.tables : UniquesRead(r, t)' => t \in DOMAIN ts
    BY <1>1, <1>3, <1>6 DEF ReadsTrue
<1> QED
    BY <1>1, <1>4, <1>8, <1>9 DEF ReadsTrue

LEMMA ListForeignKeysTrue ==
    ASSUME IInv, NEW r \in Runners, ReadsTrue(r), ListForeignKeys(r)
    PROVE  ReadsTrue(r)'
<1> DEFINE c == catalog
           h == have[r]
           Keyed(t) == [h.tables[t] EXCEPT !.foreignKeys = ReadForeignKeys(c, t)]
           ts == [t \in DOMAIN h.tables |->
                     IF InReach(r, t) /\ t \in DOMAIN c.tables THEN Keyed(t) ELSE h.tables[t]]
           k == [h EXCEPT !.tables = ts]
<1>1. /\ pc[r] = "unique keys read" /\ pc'[r] = "foreign keys read"
      /\ catalog' = c /\ left'[r] = left[r] /\ have'[r] = k
    BY DEF ListForeignKeys, IInv, Shape
<1>2. ASSUME NEW t \in DOMAIN h.tables
      PROVE  /\ Keyed(t).columns = h.tables[t].columns
             /\ Keyed(t).primaryKey = h.tables[t].primaryKey
             /\ Keyed(t).uniques = h.tables[t].uniques
             /\ Keyed(t).foreignKeys = ReadForeignKeys(c, t)
    <2> DEFINE old == h.tables[t]
               fks == ReadForeignKeys(c, t)
    <2>1. IsTable(old)
        BY SchemaParts DEF IInv, RunInv
    <2> HIDE DEF old, fks
    <2>2. [old EXCEPT !.foreignKeys = fks] =
             [columns |-> old.columns, primaryKey |-> old.primaryKey, uniques |-> old.uniques,
              foreignKeys |-> fks, removed |-> old.removed]
        BY <2>1 DEF IsTable
    <2>3. Keyed(t) = [old EXCEPT !.foreignKeys = fks]
        BY DEF old, fks
    <2> HIDE DEF Keyed
    <2> QED
        BY <2>2, <2>3 DEF old, fks
<1> HIDE DEF Keyed
<1>3. /\ DOMAIN ts = DOMAIN h.tables
      /\ \A t \in DOMAIN h.tables :
            /\ InReach(r, t) /\ t \in DOMAIN c.tables => ts[t] = Keyed(t)
            /\ ~InReach(r, t) => ts[t] = h.tables[t]
    OBVIOUS
<1> HIDE DEF ts
<1>4. k.tables = ts
    BY DEF IInv, RunInv, IsSchema
<1> HIDE DEF k
<1>5. \A t : InReach(r, t)' <=> InReach(r, t)
    BY <1>1 DEF InReach, Reading, IsFirst
<1>6. \A t : /\ UniquesRead(r, t)' => UniquesRead(r, t)
             /\ ~InReach(r, t) /\ ForeignKeysRead(r, t)' => ForeignKeysRead(r, t)
    BY <1>1, <1>5 DEF UniquesRead, ForeignKeysRead, HasRead, Underway
<1>7. ASSUME NEW t \in DOMAIN ts
      PROVE  t \in DOMAIN c.tables /\ TableIsRead(r, t)'
    <2>1. t \in DOMAIN c.tables /\ TableIsRead(r, t) /\ t \in DOMAIN h.tables
        BY <1>3 DEF ReadsTrue
    <2>2. CASE InReach(r, t)
        <3>1. ts[t] = Keyed(t)
            BY <1>3, <2>1, <2>2
        <3>2. ReadForeignKeys(c, t)' = ReadForeignKeys(c, t)
            BY <1>1
        <3> QED
            BY <1>1, <1>2, <1>4, <1>6, <2>1, <3>1, <3>2 DEF TableIsRead
    <2>3. CASE ~InReach(r, t)
        BY <1>1, <1>3, <1>4, <1>6, <2>1, <2>3, TableStaysRead
    <2> QED
        BY <2>1, <2>2, <2>3
<1>8. \A t \in DOMAIN c.tables : UniquesRead(r, t)' => t \in DOMAIN ts
    BY <1>3, <1>6 DEF ReadsTrue
<1> QED
    BY <1>1, <1>4, <1>7, <1>8 DEF ReadsTrue

\* The namespace has been read when the next one is begun.
LEMMA ListIndexesTrue ==
    ASSUME IInv, NEW r \in Runners, ReadsTrue(r), ListIndexes(r)
    PROVE  ReadsTrue(r)'
<1>1. PICK is : have'[r] = [have[r] EXCEPT !.indexes = is]
    BY DEF ListIndexes, IInv, Shape
<1>2. /\ pc[r] = "foreign keys read" /\ pc'[r] = "listed" /\ catalog' = catalog
      /\ left'[r] = [left[r] EXCEPT !.namespaces = left[r].namespaces \ {Reading(r)}]
    BY DEF ListIndexes, IInv, Shape
<1>3. left'[r].namespaces = left[r].namespaces \ {Reading(r)}
    <2>1. left[r] \in Leftovers
        BY DEF IInv, Shape
    <2> QED
        BY <1>2, <2>1 DEF Leftovers
<1>4. have'[r].tables = have[r].tables
    BY <1>1 DEF IInv, RunInv, IsSchema
<1>5. \A t : /\ UniquesRead(r, t)' => UniquesRead(r, t)
             /\ ForeignKeysRead(r, t)' => ForeignKeysRead(r, t)
    BY <1>2, <1>3 DEF UniquesRead, ForeignKeysRead, HasRead, InReach, Underway
<1>6. \A t \in DOMAIN have[r].tables : t \in DOMAIN catalog.tables /\ TableIsRead(r, t)'
    BY <1>2, <1>4, <1>5, TableStaysRead DEF ReadsTrue
<1>7. \A t \in DOMAIN catalog.tables : UniquesRead(r, t)' => t \in DOMAIN have[r].tables
    BY <1>5 DEF ReadsTrue
<1> QED
    BY <1>2, <1>4, <1>6, <1>7 DEF ReadsTrue

\* A run that has read to the end of it and moves on.
LEMMA MovesOnTrue ==
    ASSUME NEW r \in Runners, ReadsTrue(r), catalog' = catalog,
           have'[r] = have[r], left'[r] = left[r],
           pc[r] \notin Underway, pc'[r] \notin Underway
    PROVE  ReadsTrue(r)'
<1>1. \A t : /\ UniquesRead(r, t)' => UniquesRead(r, t)
             /\ ForeignKeysRead(r, t)' => ForeignKeysRead(r, t)
    BY DEF UniquesRead, ForeignKeysRead, HasRead
<1>2. \A t \in DOMAIN have[r].tables : TableIsRead(r, t)'
    BY <1>1, TableStaysRead DEF ReadsTrue
<1>3. pc'[r] # "columns"
    BY DEF Underway
<1> QED
    BY <1>1, <1>2, <1>3 DEF ReadsTrue

-----------------------------------------------------------------------------
(* The only run that changes the database, and those that do not.          *)

LEMMA BeginDeploys ==
    ASSUME IInv, NEW U, LossInv(U), ReachInv, ExecInv, NEW r \in Runners, Begin(r),
           Deploys(r)
    PROVE  Deploys(r)'
<1>1. /\ pc[r] = "planned" /\ pc'[r] = "transaction" /\ working' = catalog
      /\ UNCHANGED <<catalog, files, left, have, plan, todo>>
    BY DEF Begin, IInv, Shape
<1>2. ReadsTrue(r) /\ ReadsTrue(r)'
    BY <1>1, MovesOnTrue DEF Deploys, ReadOnly, Underway
<1>3. TablesAreRead(have[r], catalog)
    BY <1>1, <1>2, PlansFromTruth DEF ReachInv
<1>4. Executable(files[r], catalog) /\ todo[r] = plan[r]
    BY <1>1 DEF ExecInv, LossInv, RunLoss
<1>5. ASSUME NEW m \in todo[r]
      PROVE  Pending(files[r], catalog, m)
    <2>1. PlannedFor(files[r], have[r], m)
        BY <1>1, <1>4, PlanIsFor DEF ReachInv, ReadInv, HoldsPlan, Planned
    <2> QED
        BY <1>3, <1>4, <2>1, PendingAtFirst DEF Executable
<1> QED
    BY <1>1, <1>2, <1>5 DEF Deploys, InTransaction

LEMMA ExecutesDeploys ==
    ASSUME NEW U, LossInv(U), IInv, OpenInv, ReachInv, ExecInv, NEW r \in Runners, NEW m,
           Executes(r, m), Deploys(r)
    PROVE  Deploys(r)'
<1> DEFINE f == files[r]
           h == have[r]
           w == working
<1>1. /\ pc[r] = "transaction" /\ pc' = pc /\ UNCHANGED <<catalog, files, left, have, plan>>
      /\ working' = Effect(w, m, f, h) /\ Accepts(w, m, f, h)
      /\ IsNext(r, m)
    BY DEF Executes, IsNext
<1>2. AboutToSend(U, r, m)
    BY <1>1 DEF AboutToSend
<1>3. /\ todo'[r] = todo[r] \ {m}
      /\ m \in todo[r] /\ m.kind \in Adding \cup Taking /\ Sent(r)' = Sent(r) \cup {m}
    BY Executed DEF Executes, IInv, Shape
<1>4. ReadsTrue(r)'
    BY <1>1, MovesOnTrue DEF Deploys, ReadOnly, Underway
<1>5. Does(f, w, working', m)
    BY <1>1, <1>2, <1>3, WhatIsSent, WhereItIsSent, AddingDoes, TakingDoes
<1>6. ASSUME NEW n \in InTransaction(todo'[r])
      PROVE  Pending(f, working', n)
    <2>1. n \in todo[r] /\ n # m /\ n \in plan[r] /\ n \in Migrations
        BY <1>3 DEF InTransaction, IInv, Shape, RunInv
    <2>2. PlannedFor(f, h, n)
        BY <1>2, <2>1, WhatIsPlanned, PlanIsFor DEF Planned
    <2>3. PlannedFor(f, h, m) /\ m \in Migrations
        BY <1>2, WhatIsPlanned, WhatIsSent
    <2>4. NamesAreFree(f, catalog)
        BY <1>2, WhereItIsSent DEF Executable
    <2>5. Pending(f, w, n)
        BY <1>1, <1>6, <2>1 DEF Deploys, InTransaction
    <2> QED
        BY <1>5, <2>1, <2>2, <2>3, <2>4, <2>5, PendingStays
<1>7. ASSUME \A n \in Sent(r)' : n.kind \notin Taking
      PROVE  working'.indexes = catalog'.indexes
    <2>1. m.kind \in Adding /\ w.indexes = catalog.indexes
        BY <1>1, <1>3, <1>7 DEF Deploys
    <2>2. Grows(f, w, working')
        BY <1>1, <1>2, <2>1, WhatIsSent, WhereItIsSent, AddingGrows
    <2> QED
        BY <1>1, <2>1, <2>2 DEF Grows
<1> QED
    BY <1>1, <1>4, <1>6, <1>7 DEF Deploys

LEMMA OwnDeploys ==
    ASSUME NEW U, LossInv(U), IInv, OpenInv, ReachInv, ExecInv, NEW r \in Runners, Deploys(r),
           \/ Connect(r) \/ Step(r)
           \/ FaultOutsideTransaction(r) \/ FaultInTransaction(r)
           \/ FaultAtCommit(r) \/ FaultInBuild(r)
    PROVE  Deploys(r)'
<1>1. ReadInv(r) /\ Housed(files[r], catalog) /\ pc \in [Runners -> AtRest \cup Active]
    BY DEF ReachInv, IInv, Shape
<1>2. CASE \/ ListUserSchemas(r) \/ ListTables(r) \/ ListColumns(r)
           \/ ListUniqueKeys(r) \/ ListForeignKeys(r) \/ ListIndexes(r)
    <2>1. ReadsTrue(r)'
        <3>1. CASE ListUserSchemas(r)
            BY <1>1, <3>1, ListUserSchemasTrue
        <3>2. CASE ~ListUserSchemas(r)
            <4>1. ReadsTrue(r)
                BY <1>2, <3>2 DEF Deploys, ReadOnly, ListTables, ListColumns, ListUniqueKeys,
                                  ListForeignKeys, ListIndexes
            <4> QED
                BY <1>1, <1>2, <3>2, <4>1, ListTablesTrue, ListColumnsTrue, ListUniqueKeysTrue,
                   ListForeignKeysTrue, ListIndexesTrue
        <3> QED
            BY <3>1, <3>2
    <2>2. pc'[r] # "transaction"
        BY <1>1, <1>2 DEF ListUserSchemas, ListTables, ListColumns, ListUniqueKeys,
                          ListForeignKeys, ListIndexes
    <2> QED
        BY <2>1, <2>2 DEF Deploys
<1>3. CASE MakePlan(r)
    <2>1. /\ pc[r] = "listed" /\ pc'[r] = "planned" /\ catalog' = catalog
          /\ have'[r] = have[r] /\ left'[r] = left[r]
        BY <1>1, <1>3 DEF MakePlan, HasIntrospected
    <2>2. ReadsTrue(r)'
        BY <2>1, MovesOnTrue DEF Deploys, ReadOnly, Underway
    <2> QED
        BY <2>1, <2>2 DEF Deploys
<1>4. CASE Begin(r)
    BY <1>4, BeginDeploys
<1>5. CASE ExecuteInTransaction(r)
    <2>1. CASE \E m : Executes(r, m)
        BY <2>1, ExecutesDeploys
    <2>2. CASE Stop(r, "failed")
        BY <1>1, <2>2 DEF Stop, Deploys, ReadOnly
    <2> QED
        BY <1>5, <2>1, <2>2 DEF ExecuteInTransaction, Executes
<1>6. CASE \/ Connect(r) \/ Refuse(r) \/ DryRun(r) \/ NoTransaction(r) \/ Commit(r)
           \/ ExecuteIndex(r) \/ StartBuild(r) \/ FinishBuild(r) \/ Finish(r)
           \/ FaultOutsideTransaction(r) \/ FaultInTransaction(r)
           \/ FaultAtCommit(r) \/ FaultInBuild(r)
    <2>1. pc'[r] \in AtRest \cup {"connected", "committed", "building"}
        BY <1>1, <1>6 DEF Connect, Refuse, DryRun, NoTransaction, Commit, ExecuteIndex,
                          StartBuild, FinishBuild, Finish, Stop, Fault, AtRest,
                          FaultOutsideTransaction, FaultInTransaction, FaultAtCommit, FaultInBuild
    <2> QED
        BY <2>1 DEF Deploys, ReadOnly, AtRest
<1> QED
    BY <1>2, <1>3, <1>4, <1>5, <1>6 DEF Step

\* A run with --dry-run stops when it has its plan.
LEMMA OwnDry ==
    ASSUME IInv, NEW r \in DryRunners, r \in Runners,
           pc[r] \notin {"transaction", "committed", "building"},
           \/ Connect(r) \/ Step(r)
           \/ FaultOutsideTransaction(r) \/ FaultInTransaction(r)
           \/ FaultAtCommit(r) \/ FaultInBuild(r)
    PROVE  pc'[r] \notin {"transaction", "committed", "building"}
<1>1. pc \in [Runners -> AtRest \cup Active]
    BY DEF IInv, Shape
<1>2. CASE \/ Connect(r) \/ ListUserSchemas(r) \/ ListTables(r) \/ ListColumns(r)
           \/ ListUniqueKeys(r) \/ ListForeignKeys(r) \/ ListIndexes(r)
           \/ Refuse(r) \/ MakePlan(r) \/ DryRun(r)
           \/ FaultOutsideTransaction(r)
    BY <1>1, <1>2 DEF Connect, ListUserSchemas, ListTables, ListColumns, ListUniqueKeys,
                      ListForeignKeys, ListIndexes, Refuse, MakePlan, DryRun, Stop, Fault,
                      FaultOutsideTransaction
<1>3. CASE \/ Begin(r) \/ NoTransaction(r) \/ ExecuteInTransaction(r) \/ Commit(r)
           \/ ExecuteIndex(r) \/ StartBuild(r) \/ FinishBuild(r) \/ Finish(r)
           \/ FaultInTransaction(r) \/ FaultAtCommit(r) \/ FaultInBuild(r)
    BY <1>3 DEF Begin, NoTransaction, ExecuteInTransaction, Commit, ExecuteIndex, StartBuild,
                FinishBuild, Finish, FaultInTransaction, FaultAtCommit, FaultInBuild
<1> QED
    BY <1>2, <1>3 DEF Step

\* The others change nothing that the run that deploys has read.
LEMMA OthersDeploy ==
    ASSUME OneDeploys, NEW U, LossInv(U), IInv, ExecInv, NEW r \in Runners,
           NEW q \in Runners \ DryRunners, q # r, files' = files,
           \/ Connect(r) \/ Step(r)
           \/ FaultOutsideTransaction(r) \/ FaultInTransaction(r)
           \/ FaultAtCommit(r) \/ FaultInBuild(r)
    PROVE  Deploys(q)'
<1>1. /\ pc'[q] = pc[q] /\ have'[q] = have[q] /\ left'[q] = left[q]
      /\ plan'[q] = plan[q] /\ todo'[q] = todo[q]
    BY OthersKept DEF IInv
<1>2. catalog' = catalog
    <2>1. r \in DryRunners
        BY DEF OneDeploys
    <2>2. pc[r] \notin {"transaction", "committed", "building"}
        BY <2>1 DEF ExecInv
    <2> QED
        BY <2>2, ChangesWhen DEF Commits, Commit, FaultAtCommit
<1>3. Deploys(q)
    BY DEF ExecInv
<1>4. ReadsTrue(q) => ReadsTrue(q)'
    BY <1>1, <1>2 DEF ReadsTrue, TableIsRead, UniquesRead, ForeignKeysRead, HasRead, InReach,
                      Reading, IsFirst, ReadForeignKeys
<1>5. pc[q] = "transaction" => working' = working
    BY OthersWait
<1>6. Sent(q)' = Sent(q)
    BY <1>1 DEF Sent
<1> QED
    BY <1>1, <1>2, <1>3, <1>4, <1>5, <1>6 DEF Deploys

-----------------------------------------------------------------------------
(* The invariant.                                                          *)

LEMMA InitExec ==
    ASSUME PlansFit, FilesAreClear, Init
    PROVE  ExecInv
<1>1. PICK s \in Scenarios : catalog = s.catalog /\ files = s.files
    BY DEF Init
<1>2. \A r \in Runners : pc[r] = "idle"
    BY DEF Init
<1> QED
    BY <1>1, <1>2 DEF PlansFit, FilesAreClear, ExecInv, Deploys, ReadOnly

LEMMA StepExec ==
    ASSUME OneDeploys, NEW U, LossInv(U), IInv, IInv', OpenInv, OpenInv', ReachInv,
           SettleInv(U), SettleInv(U)', ExecInv, Next
    PROVE  ExecInv'
<1>1. PICK r \in Runners :
          \/ Connect(r) \/ Step(r)
          \/ FaultOutsideTransaction(r) \/ FaultInTransaction(r)
          \/ FaultAtCommit(r) \/ FaultInBuild(r)
    BY DEF Next
<1>2. files' = files
    BY <1>1, StepChangesCatalog
<1>3. ASSUME NEW q \in Runners
      PROVE  Executable(files[q], catalog')
    BY <1>1, StepExecutable
<1>4. ASSUME NEW q \in Runners \ DryRunners
      PROVE  Deploys(q)'
    <2>1. CASE q = r
        <3>1. Deploys(r)
            BY <2>1 DEF ExecInv
        <3> QED
            BY <1>1, <2>1, <3>1, OwnDeploys
    <2>2. CASE q # r
        BY <1>1, <1>2, <2>2, OthersDeploy
    <2> QED
        BY <2>1, <2>2
<1>5. ASSUME NEW q \in Runners, q \in DryRunners
      PROVE  pc'[q] \notin {"transaction", "committed", "building"}
    <2>1. pc[q] \notin {"transaction", "committed", "building"}
        BY <1>5 DEF ExecInv
    <2>2. CASE q = r
        BY <1>1, <1>5, <2>1, <2>2, OwnDry
    <2>3. CASE q # r
        <3>1. pc'[q] = pc[q]
            BY <1>1, <2>3, OthersKept DEF IInv
        <3> QED
            BY <2>1, <3>1
    <2> QED
        BY <2>2, <2>3
<1> QED
    BY <1>2, <1>3, <1>4, <1>5 DEF ExecInv

\* ExecInv is an invariant when at most one of the runs changes the database.
LEMMA ExecInductive ==
    ASSUME OneDeploys, AgreeOnFiles, NEW U, NamesAreKept(U), SurplusKeysRest,
           FilesAreConsistent, SurplusIsHoused, IndexesAreKept(U), FilesAreClear, PlansFit
    PROVE  Spec => []ExecInv
<1>1. Init => ExecInv
    BY InitExec
<1>2. /\ LossInv(U) /\ IInv /\ IInv' /\ OpenInv /\ OpenInv' /\ ReachInv
      /\ SettleInv(U) /\ SettleInv(U)' /\ ExecInv /\ [Next]_vars
      => ExecInv'
    <2>1. ASSUME LossInv(U), IInv, IInv', OpenInv, OpenInv', ReachInv,
                 SettleInv(U), SettleInv(U)', ExecInv, Next
          PROVE  ExecInv'
        BY <2>1, StepExec
    <2>2. ASSUME ExecInv, UNCHANGED vars
          PROVE  ExecInv'
        <3>1. ASSUME NEW q \in Runners
              PROVE  ReadsTrue(q) => ReadsTrue(q)'
            BY <2>2 DEF vars, ReadsTrue, TableIsRead, UniquesRead, ForeignKeysRead, HasRead,
                        InReach, Reading, IsFirst, ReadForeignKeys
        <3>2. ASSUME NEW q \in Runners
              PROVE  Deploys(q) => Deploys(q)'
            BY <2>2, <3>1 DEF vars, Deploys, Sent
        <3> QED
            BY <2>2, <3>2 DEF vars, ExecInv
    <2> QED
        BY <2>1, <2>2
<1> QED
    BY <1>1, <1>2, Inductive, LossInductive, OpenInductive, ReachInductive, SettleInductive,
       PTL DEF Spec

\* A run that alone changes the database, whatever dry runs go on beside it and
\* wherever it or an earlier run crashed or failed, never has a statement of
\* its plan refused: each one that may be sent next is accepted, in the
\* transaction as after it.
THEOREM PlansAreExecutable ==
    ASSUME OneDeploys, AgreeOnFiles, NEW U, NamesAreKept(U), SurplusKeysRest,
           FilesAreConsistent, SurplusIsHoused, IndexesAreKept(U), FilesAreClear, PlansFit
    PROVE  Spec => []PlanIsExecutable
<1>1. LossInv(U) /\ IInv /\ OpenInv /\ ReachInv /\ SettleInv(U) /\ ExecInv => PlanIsExecutable
    BY ExecImplies
<1> QED
    BY <1>1, Inductive, LossInductive, OpenInductive, ReachInductive, SettleInductive,
       ExecInductive, PTL
=============================================================================
