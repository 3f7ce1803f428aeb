---------------------------- MODULE RunnerProofs ----------------------------
(***************************************************************************)
(* What holds of every number of runs, every database and all files:       *)
(* the state stays typed, every statement a run still has to send is       *)
(* justified by what its files give away, and statements are sent in the   *)
(* order of the plan.                                                      *)
(*                                                                         *)
(* The inductive invariant says of each run what its place in the program  *)
(* means: before it has planned and after it has ended it holds no plan,   *)
(* and what follows the commit has nothing of the transaction left to do.  *)
(***************************************************************************)
EXTENDS Runner, PostgresProofs

Environment ==
    /\ IsCatalog(catalog)
    /\ IsCatalog(working)
    /\ owner \in Runners \cup {NoRunner}
    /\ faults \in 0..MaxFaults
    /\ files = [r \in Runners |-> files[r]]
    /\ \A r \in Runners : IsFiles(files[r])

Shape ==
    /\ pc \in [Runners -> AtRest \cup Active]
    /\ left \in [Runners -> Leftovers]
    /\ have = [r \in Runners |-> have[r]]
    /\ plan \in [Runners -> SUBSET Migrations]
    /\ todo \in [Runners -> SUBSET Migrations]

\* Migration m of the plan of run r goes before n: those of the transaction in
\* the order of the plan, and index statements after it.
SentBefore(r, m, n) ==
    \/ ~OutOfTransaction(m) /\ OutOfTransaction(n)
    \/ (OutOfTransaction(m) <=> OutOfTransaction(n)) /\ Before(files[r], plan[r], m, n)

HoldsPlan == {"planned", "transaction", "committed", "building"}

RunInv(r) ==
    /\ IsSchema(have[r])
    /\ todo[r] \subseteq plan[r]
    /\ pc[r] \notin HoldsPlan => plan[r] = {}
    /\ pc[r] \in {"committed", "building"} => InTransaction(todo[r]) = {}
    /\ \A m \in plan[r] : Justified(files[r], have[r], m)
    /\ \A sent \in plan[r] \ todo[r], waiting \in todo[r] : ~SentBefore(r, waiting, sent)

IInv == Environment /\ Shape /\ \A r \in Runners : RunInv(r)

LEMMA Implies ==
    IInv => TypeOK /\ PlanIsJustified
    BY DEF IInv, Environment, Shape, RunInv, TypeOK, PlanIsJustified

-----------------------------------------------------------------------------
(* What is read is a schema.                                               *)

LEMMA SchemaRecord ==
    ASSUME NEW s, IsSchema(s)
    PROVE  /\ s.namespaces \subseteq Namespaces
           /\ AreTables(s.tables)
           /\ IsMapTo(s.indexes, Indexes, Index)
    BY DEF IsSchema

LEMMA ReplaceNamespaces ==
    ASSUME NEW s, IsSchema(s), NEW ns \in SUBSET Namespaces
    PROVE  IsSchema([s EXCEPT !.namespaces = ns])
<1>1. [s EXCEPT !.namespaces = ns] =
         [namespaces |-> ns, tables |-> s.tables, indexes |-> s.indexes]
    BY DEF IsSchema
<1> QED
    BY <1>1, SchemaRecord DEF IsSchema

LEMMA ReplaceTables ==
    ASSUME NEW s, IsSchema(s), NEW ts, AreTables(ts)
    PROVE  IsSchema([s EXCEPT !.tables = ts])
<1>1. [s EXCEPT !.tables = ts] =
         [namespaces |-> s.namespaces, tables |-> ts, indexes |-> s.indexes]
    BY DEF IsSchema
<1> QED
    BY <1>1, SchemaRecord DEF IsSchema

LEMMA ReplaceIndexes ==
    ASSUME NEW s, IsSchema(s), NEW is, IsMapTo(is, Indexes, Index)
    PROVE  IsSchema([s EXCEPT !.indexes = is])
<1>1. [s EXCEPT !.indexes = is] =
         [namespaces |-> s.namespaces, tables |-> s.tables, indexes |-> is]
    BY DEF IsSchema
<1> QED
    BY <1>1, SchemaRecord DEF IsSchema

LEMMA EmptySchemaType ==
    IsSchema(EmptySchema) /\ IsCatalog(EmptySchema)
<1>1. AreTables(<< >>)
    BY DEF AreTables, IsMap
<1>2. IsMapTo(<< >>, Indexes, Index) /\ IsMapTo(<< >>, Indexes, CatalogIndex)
    BY DEF IsMapTo
<1> QED
    BY <1>1, <1>2 DEF EmptySchema, IsSchema, IsCatalog

\* A table whose keys have not been read is a table, and so is one with keys.
LEMMA WithoutKeysType ==
    ASSUME NEW cs, IsMapTo(cs, Columns, Column)
    PROVE  IsTable(WithoutKeys(cs))
<1>1. IsMapTo(<< >>, Columns, Types \cup {AnyType})
    BY DEF IsMapTo
<1>2. << >> \in ColumnList
    BY DEF ColumnList
<1> QED
    BY <1>1, <1>2, MakeTable DEF WithoutKeys, NoPrimaryKey

LEMMA WithKeys ==
    ASSUME NEW t, IsTable(t), NEW p \in ColumnList, NEW us \in SUBSET Unique
    PROVE  IsTable([t EXCEPT !.primaryKey = p, !.uniques = us])
<1> DEFINE keyed == [columns |-> t.columns, primaryKey |-> p, uniques |-> t.uniques,
                     foreignKeys |-> t.foreignKeys, removed |-> t.removed]
<1>1. [t EXCEPT !.primaryKey = p] = keyed
    BY DEF IsTable
<1>2. IsTable(keyed)
    BY TableRecord, MakeTable
<1> HIDE DEF keyed
<1>3. IsTable([keyed EXCEPT !.uniques = us])
    BY <1>2, ReplaceUniques
<1> QED
    BY <1>1, <1>3

LEMMA ReadIndexType ==
    ASSUME NEW c, IsCatalog(c), NEW i \in DOMAIN c.indexes
    PROVE  i \in Indexes /\ ReadIndex(c.indexes[i]) \in Index
    BY CatalogRecord DEF IsMapTo, CatalogIndex, Index, ReadIndex

-----------------------------------------------------------------------------
LEMMA InitInv ==
    ASSUME Init
    PROVE  IInv
<1>1. PICK s \in Scenarios : catalog = s.catalog /\ files = s.files
    BY DEF Init
<1>2. IsCatalog(catalog) /\ files = [r \in Runners |-> files[r]]
      /\ \A r \in Runners : IsFiles(files[r])
    BY <1>1, RunnerAssumption
<1>3. Environment
    BY <1>2, EmptySchemaType, RunnerAssumption DEF Init, Environment
<1>4. Shape
    BY DEF Init, Shape, AtRest, Leftovers, NothingLeft
<1>5. \A r \in Runners : RunInv(r)
    BY EmptySchemaType DEF Init, RunInv, HoldsPlan
<1> QED
    BY <1>3, <1>4, <1>5 DEF IInv

\* A run that is not the one that takes the step is where it was.
LEMMA OthersStay ==
    ASSUME NEW q \in Runners, RunInv(q), files' = files, pc'[q] = pc[q],
           have'[q] = have[q], plan'[q] = plan[q], todo'[q] = todo[q]
    PROVE  RunInv(q)'
    BY DEF RunInv, SentBefore

\* A step of run r, given what it leaves of that run.
LEMMA RunMoves ==
    ASSUME Shape, \A q \in Runners : RunInv(q), NEW r \in Runners, files' = files,
           NEW p \in AtRest \cup Active, pc' = [pc EXCEPT ![r] = p],
           NEW h, have' = [have EXCEPT ![r] = h],
           NEW pl \in SUBSET Migrations, plan' = [plan EXCEPT ![r] = pl],
           NEW td \in SUBSET Migrations, todo' = [todo EXCEPT ![r] = td],
           left' \in [Runners -> Leftovers], RunInv(r)'
    PROVE  Shape' /\ \A q \in Runners : RunInv(q)'
<1>1. pc' \in [Runners -> AtRest \cup Active]
    BY DEF Shape
<1>2. have' = [q \in Runners |-> have'[q]]
    BY DEF Shape
<1>3. plan' \in [Runners -> SUBSET Migrations]
    BY DEF Shape
<1>4. todo' \in [Runners -> SUBSET Migrations]
    BY DEF Shape
<1>5. ASSUME NEW q \in Runners, q # r
      PROVE  RunInv(q)'
    <2>1. pc'[q] = pc[q]
        BY <1>5 DEF Shape
    <2>2. have'[q] = have[q]
        BY <1>5 DEF Shape
    <2>3. plan'[q] = plan[q]
        BY <1>5 DEF Shape
    <2>4. todo'[q] = todo[q]
        BY <1>5 DEF Shape
    <2> QED
        BY <2>1, <2>2, <2>3, <2>4, OthersStay
<1> QED
    BY <1>1, <1>2, <1>3, <1>4, <1>5 DEF Shape

LEMMA RunStops ==
    ASSUME Shape, \A q \in Runners : RunInv(q), NEW r \in Runners, files' = files,
           NEW result \in AtRest, Stop(r, result)
    PROVE  Shape' /\ \A q \in Runners : RunInv(q)'
<1>1. pc'[r] = result /\ plan'[r] = {} /\ todo'[r] = {}
    BY DEF Shape, Stop
<1>2. have'[r] = EmptySchema
    BY DEF Shape, Stop
<1>3. result \notin HoldsPlan
    BY DEF AtRest, HoldsPlan
<1>4. RunInv(r)'
    BY <1>1, <1>2, <1>3, EmptySchemaType DEF RunInv, HoldsPlan
<1>5. /\ pc' = [pc EXCEPT ![r] = result] /\ have' = [have EXCEPT ![r] = EmptySchema]
      /\ plan' = [plan EXCEPT ![r] = {}] /\ todo' = [todo EXCEPT ![r] = {}]
    BY DEF Stop
<1>6. result \in AtRest \cup Active /\ {} \in SUBSET Migrations
    OBVIOUS
<1>7. left' \in [Runners -> Leftovers]
    BY DEF Shape, Stop, Leftovers, NothingLeft
<1> QED
    BY <1>4, <1>5, <1>6, <1>7, RunMoves

\* A run without a plan reads on.
LEMMA RunReads ==
    ASSUME Shape, \A q \in Runners : RunInv(q), NEW r \in Runners, files' = files,
           pc[r] \notin HoldsPlan,
           NEW p \in Active \ HoldsPlan, pc' = [pc EXCEPT ![r] = p],
           NEW h, IsSchema(h), have' = [have EXCEPT ![r] = h],
           left' \in [Runners -> Leftovers], UNCHANGED <<plan, todo>>
    PROVE  Shape' /\ \A q \in Runners : RunInv(q)'
<1>1. plan[r] = {} /\ todo[r] = {}
    BY DEF RunInv
<1>2. pc'[r] = p
    BY DEF Shape
<1>3. have'[r] = h
    BY DEF Shape
<1>4. plan'[r] = {} /\ todo'[r] = {}
    BY <1>1
<1>5. RunInv(r)'
    BY <1>2, <1>3, <1>4 DEF RunInv, HoldsPlan
<1>6. plan' = [plan EXCEPT ![r] = {}]
    BY <1>1 DEF Shape
<1>7. todo' = [todo EXCEPT ![r] = {}]
    BY <1>1 DEF Shape
<1> QED
    BY <1>5, <1>6, <1>7, RunMoves

\* A run that holds a plan goes on with it, or with less of it.
LEMMA RunGoesOn ==
    ASSUME Shape, \A q \in Runners : RunInv(q), NEW r \in Runners, files' = files,
           NEW p \in HoldsPlan, pc' = [pc EXCEPT ![r] = p],
           NEW td \in SUBSET todo[r], todo' = [todo EXCEPT ![r] = td],
           p \in {"committed", "building"} => InTransaction(td) = {},
           \A sent \in todo[r] \ td, waiting \in td : ~SentBefore(r, waiting, sent),
           UNCHANGED <<left, have, plan>>
    PROVE  Shape' /\ \A q \in Runners : RunInv(q)'
<1>1. pc'[r] = p
    BY DEF Shape
<1>2. todo'[r] = td
    BY DEF Shape
<1>3. \A sent \in plan[r] \ td, waiting \in td : ~SentBefore(r, waiting, sent)
    BY DEF RunInv
<1>4. \A sent \in plan'[r] \ todo'[r], waiting \in todo'[r] : ~SentBefore(r, waiting, sent)'
    BY <1>2, <1>3 DEF SentBefore
<1>5. RunInv(r)'
    <2>1. IsSchema(have[r])' /\ (todo[r] \subseteq plan[r])'
        BY <1>2 DEF RunInv
    <2>2. (pc[r] \notin HoldsPlan => plan[r] = {})'
        BY <1>1
    <2>3. (pc[r] \in {"committed", "building"} => InTransaction(todo[r]) = {})'
        BY <1>1, <1>2
    <2>4. (\A m \in plan[r] : Justified(files[r], have[r], m))'
        BY DEF RunInv
    <2> QED
        BY <1>4, <2>1, <2>2, <2>3, <2>4 DEF RunInv
<1>6. td \in SUBSET Migrations /\ plan[r] \in SUBSET Migrations
    BY DEF Shape
<1>7. plan' = [plan EXCEPT ![r] = plan[r]]
    BY DEF Shape
<1>8. have' = [have EXCEPT ![r] = have[r]]
    BY DEF Shape
<1>9. p \in AtRest \cup Active
    BY DEF HoldsPlan, Active
<1>10. left' \in [Runners -> Leftovers]
    BY DEF Shape
<1> QED
    BY <1>5, <1>6, <1>7, <1>8, <1>9, <1>10, RunMoves

-----------------------------------------------------------------------------
(* The steps, one action each.                                             *)

LEMMA ConnectInv ==
    ASSUME IInv, NEW r \in Runners, Connect(r)
    PROVE  IInv'
<1>1. Environment'
    BY DEF IInv, Environment, Connect
<1>2. pc[r] \notin HoldsPlan /\ "connected" \in Active \ HoldsPlan
    BY DEF Connect, AtRest, Active, HoldsPlan
<1>3. IsSchema(have[r]) /\ have' = [have EXCEPT ![r] = have[r]]
    BY DEF IInv, Shape, RunInv, Connect
<1>4. left' \in [Runners -> Leftovers]
    BY DEF IInv, Shape, Connect
<1> QED
    BY <1>1, <1>2, <1>3, <1>4, RunReads DEF IInv, Connect

LEMMA ListUserSchemasInv ==
    ASSUME IInv, NEW r \in Runners, ListUserSchemas(r)
    PROVE  IInv'
<1> DEFINE h == [have[r] EXCEPT !.namespaces = catalog.namespaces]
<1>1. Environment'
    BY DEF IInv, Environment, ListUserSchemas
<1>2. pc[r] \notin HoldsPlan /\ "listed" \in Active \ HoldsPlan
    BY DEF ListUserSchemas, Active, HoldsPlan
<1>3. IsSchema(h)
    BY CatalogRecord, ReplaceNamespaces DEF IInv, Environment, RunInv
<1>4. have' = [have EXCEPT ![r] = h]
    BY DEF ListUserSchemas
<1>5. left' \in [Runners -> Leftovers]
    <2>1. CollectDesiredNamespaces(files[r]) \cup catalog.namespaces \subseteq Namespaces
        BY DesiredNamespacesType, CatalogRecord DEF IInv, Environment
    <2> QED
        BY <2>1 DEF IInv, Shape, Leftovers, ListUserSchemas
<1> HIDE DEF h
<1> QED
    BY <1>1, <1>2, <1>3, <1>4, <1>5, RunReads DEF IInv, ListUserSchemas

LEMMA ListTablesInv ==
    ASSUME IInv, NEW r \in Runners, ListTables(r)
    PROVE  IInv'
<1>1. Environment'
    BY DEF IInv, Environment, ListTables
<1>2. pc[r] \notin HoldsPlan /\ "columns" \in Active \ HoldsPlan
    BY DEF ListTables, Active, HoldsPlan
<1>3. IsSchema(have[r]) /\ have' = [have EXCEPT ![r] = have[r]]
    BY DEF IInv, Shape, RunInv, ListTables
<1>4. left' \in [Runners -> Leftovers]
    <2>1. {t \in DOMAIN catalog.tables : InReach(r, t)} \subseteq Tables
        BY CatalogRecord DEF IInv, Environment
    <2> QED
        BY <2>1 DEF IInv, Shape, Leftovers, ListTables
<1> QED
    BY <1>1, <1>2, <1>3, <1>4, RunReads DEF IInv, ListTables

LEMMA ListColumnsInv ==
    ASSUME IInv, NEW r \in Runners, ListColumns(r)
    PROVE  IInv'
<1>1. PICK t \in left[r].tables :
          /\ have' = [have EXCEPT ![r].tables = With(@, t, WithoutKeys(ColumnsOf(t)))]
          /\ left' = [left EXCEPT ![r].tables = @ \ {t}]
    BY DEF ListColumns
<1> DEFINE ts == With(have[r].tables, t, WithoutKeys(ColumnsOf(t)))
           h == [have[r] EXCEPT !.tables = ts]
<1>2. Environment'
    BY DEF IInv, Environment, ListColumns
<1>3. pc[r] \notin HoldsPlan /\ "columns" \in Active \ HoldsPlan
      /\ pc' = [pc EXCEPT ![r] = "columns"]
    BY DEF IInv, Shape, ListColumns, Active, HoldsPlan
<1>4. left' \in [Runners -> Leftovers]
    BY <1>1 DEF IInv, Shape, Leftovers
<1>5. AreTables(ts)
    <2>1. IsMapTo(<< >>, Columns, Column)
        BY DEF IsMapTo
    <2>2. IsMapTo(ColumnsOf(t), Columns, Column)
        BY <2>1, CatalogRecord, TableRecord DEF IInv, Environment, ColumnsOf
    <2>3. IsTable(WithoutKeys(ColumnsOf(t)))
        BY <2>2, WithoutKeysType
    <2>4. t \in Tables
        BY DEF IInv, Shape, Leftovers
    <2>5. AreTables(have[r].tables)
        BY SchemaRecord DEF IInv, RunInv
    <2> QED
        BY <2>3, <2>4, <2>5, WithTable
<1>6. have' = [have EXCEPT ![r] = h]
    BY <1>1
<1> HIDE DEF ts
<1>7. IsSchema(h)
    BY <1>5, ReplaceTables DEF IInv, RunInv
<1> HIDE DEF h
<1> QED
    BY <1>2, <1>3, <1>4, <1>6, <1>7, RunReads DEF IInv, ListColumns

LEMMA ListUniqueKeysInv ==
    ASSUME IInv, NEW r \in Runners, ListUniqueKeys(r)
    PROVE  IInv'
<1> DEFINE old == have[r].tables
           ts == [t \in DOMAIN old |->
                     IF InReach(r, t) /\ t \in DOMAIN catalog.tables
                     THEN [old[t] EXCEPT !.primaryKey = catalog.tables[t].primaryKey,
                                         !.uniques = catalog.tables[t].uniques]
                     ELSE old[t]]
           h == [have[r] EXCEPT !.tables = ts]
<1>1. Environment'
    BY DEF IInv, Environment, ListUniqueKeys
<1>2. pc[r] \notin HoldsPlan /\ "unique keys read" \in Active \ HoldsPlan
    BY DEF ListUniqueKeys, Active, HoldsPlan
<1>3. \A t \in DOMAIN catalog.tables :
         catalog.tables[t].primaryKey \in ColumnList /\ catalog.tables[t].uniques \in SUBSET Unique
    BY CatalogRecord, TableRecord DEF IInv, Environment
<1>4. \A t \in DOMAIN old : t \in Tables /\ IsTable(old[t])
    BY SchemaRecord, TablesOf DEF IInv, RunInv
<1>5. AreTables(ts)
    <2>1. ASSUME NEW t \in DOMAIN old, t \in DOMAIN catalog.tables
          PROVE  IsTable([old[t] EXCEPT !.primaryKey = catalog.tables[t].primaryKey,
                                        !.uniques = catalog.tables[t].uniques])
        BY <1>3, <1>4, <2>1, WithKeys
    <2>2. \A t \in DOMAIN old : IsTable(ts[t])
        BY <1>4, <2>1
    <2>3. DOMAIN ts = DOMAIN old /\ IsMap(ts, Tables)
        BY <1>4 DEF IsMap
    <2> HIDE DEF ts
    <2> QED
        BY <2>2, <2>3 DEF AreTables
<1>6. have' = [have EXCEPT ![r] = h]
    BY DEF ListUniqueKeys
<1> HIDE DEF ts
<1>7. IsSchema(h)
    BY <1>5, ReplaceTables DEF IInv, RunInv
<1> HIDE DEF h
<1>8. left' \in [Runners -> Leftovers]
    BY DEF IInv, Shape, ListUniqueKeys
<1> QED
    BY <1>1, <1>2, <1>6, <1>7, <1>8, RunReads DEF IInv, ListUniqueKeys

LEMMA ListForeignKeysInv ==
    ASSUME IInv, NEW r \in Runners, ListForeignKeys(r)
    PROVE  IInv'
<1> DEFINE old == have[r].tables
           ts == [t \in DOMAIN old |->
                     IF InReach(r, t) /\ t \in DOMAIN catalog.tables
                     THEN [old[t] EXCEPT !.foreignKeys = ReadForeignKeys(catalog, t)]
                     ELSE old[t]]
           h == [have[r] EXCEPT !.tables = ts]
<1>1. Environment'
    BY DEF IInv, Environment, ListForeignKeys
<1>2. pc[r] \notin HoldsPlan /\ "foreign keys read" \in Active \ HoldsPlan
    BY DEF ListForeignKeys, Active, HoldsPlan
<1>3. \A t \in DOMAIN catalog.tables : ReadForeignKeys(catalog, t) \in SUBSET ForeignKey
    BY CatalogRecord, TableRecord DEF IInv, Environment, ReadForeignKeys
<1>4. \A t \in DOMAIN old : t \in Tables /\ IsTable(old[t])
    BY SchemaRecord, TablesOf DEF IInv, RunInv
<1>5. AreTables(ts)
    <2>1. ASSUME NEW t \in DOMAIN old, t \in DOMAIN catalog.tables
          PROVE  IsTable([old[t] EXCEPT !.foreignKeys = ReadForeignKeys(catalog, t)])
        BY <1>3, <1>4, <2>1, ReplaceForeignKeys
    <2>2. \A t \in DOMAIN old : IsTable(ts[t])
        BY <1>4, <2>1
    <2>3. DOMAIN ts = DOMAIN old /\ IsMap(ts, Tables)
        BY <1>4 DEF IsMap
    <2> HIDE DEF ts
    <2> QED
        BY <2>2, <2>3 DEF AreTables
<1>6. have' = [have EXCEPT ![r] = h]
    BY DEF ListForeignKeys
<1> HIDE DEF ts
<1>7. IsSchema(h)
    BY <1>5, ReplaceTables DEF IInv, RunInv
<1> HIDE DEF h
<1>8. left' \in [Runners -> Leftovers]
    BY DEF IInv, Shape, ListForeignKeys
<1> QED
    BY <1>1, <1>2, <1>6, <1>7, <1>8, RunReads DEF IInv, ListForeignKeys

LEMMA ListIndexesInv ==
    ASSUME IInv, NEW r \in Runners, ListIndexes(r)
    PROVE  IInv'
<1> DEFINE old == have[r].indexes
           found == {i \in DOMAIN catalog.indexes : InReach(r, catalog.indexes[i].table)}
           is == [i \in DOMAIN old \cup found |->
                     IF i \in found THEN ReadIndex(catalog.indexes[i]) ELSE old[i]]
           h == [have[r] EXCEPT !.indexes = is]
<1>1. Environment'
    BY DEF IInv, Environment, ListIndexes
<1>2. pc[r] \notin HoldsPlan /\ "listed" \in Active \ HoldsPlan
    BY DEF ListIndexes, Active, HoldsPlan
<1>3. IsMapTo(is, Indexes, Index)
    <2>1. \A i \in found : i \in Indexes /\ ReadIndex(catalog.indexes[i]) \in Index
        BY ReadIndexType DEF IInv, Environment
    <2>2. \A i \in DOMAIN old : i \in Indexes /\ old[i] \in Index
        BY SchemaRecord DEF IInv, RunInv, IsMapTo
    <2> HIDE DEF found, old
    <2> QED
        BY <2>1, <2>2 DEF IsMapTo
<1>4. have' = [have EXCEPT ![r] = h]
    BY DEF ListIndexes
<1> HIDE DEF is
<1>5. IsSchema(h)
    BY <1>3, ReplaceIndexes DEF IInv, RunInv
<1>6. left' \in [Runners -> Leftovers]
    BY DEF IInv, Shape, Leftovers, ListIndexes
<1> HIDE DEF h
<1> QED
    BY <1>1, <1>2, <1>4, <1>5, <1>6, RunReads DEF IInv, ListIndexes

LEMMA RefuseInv ==
    ASSUME IInv, NEW r \in Runners, Refuse(r)
    PROVE  IInv'
<1>1. Environment'
    BY DEF IInv, Environment, Refuse
<1> QED
    BY <1>1, RunStops DEF IInv, Refuse, AtRest

LEMMA MakePlanInv ==
    ASSUME IInv, NEW r \in Runners, MakePlan(r)
    PROVE  IInv'
<1>1. Environment'
    BY DEF IInv, Environment, MakePlan
<1>2. PICK orders \in Orders(files[r].groups) :
          /\ plan' = [plan EXCEPT ![r] = Plan(files[r], have[r], orders)]
          /\ todo' = [todo EXCEPT ![r] = Plan(files[r], have[r], orders)]
    BY DEF MakePlan
<1> DEFINE new == Plan(files[r], have[r], orders)
<1>3. IsFiles(files[r]) /\ IsSchema(have[r])
    BY DEF IInv, Environment, RunInv
<1>4. \A m \in new : m \in Migrations /\ Justified(files[r], have[r], m)
    BY <1>3, PlanJustified
<1>5. pc' = [pc EXCEPT ![r] = "planned"] /\ files' = files /\ have' = have
    BY DEF MakePlan
<1> HIDE DEF new
<1>6. plan' = [plan EXCEPT ![r] = new] /\ todo' = [todo EXCEPT ![r] = new]
    BY <1>2 DEF new
<1>7. plan'[r] = new /\ todo'[r] = new /\ pc'[r] = "planned"
    BY <1>5, <1>6 DEF IInv, Shape
<1>8. RunInv(r)'
    BY <1>3, <1>4, <1>5, <1>7 DEF RunInv, HoldsPlan
<1>9. have' = [have EXCEPT ![r] = have[r]]
    BY <1>5 DEF IInv, Shape
<1>10. "planned" \in AtRest \cup Active /\ new \in SUBSET Migrations
    BY <1>4 DEF Active
<1>11. left' \in [Runners -> Leftovers]
    BY DEF IInv, Shape, MakePlan
<1> QED
    BY <1>1, <1>5, <1>6, <1>8, <1>9, <1>10, <1>11, RunMoves DEF IInv

LEMMA DryRunInv ==
    ASSUME IInv, NEW r \in Runners, DryRun(r)
    PROVE  IInv'
<1>1. Environment'
    BY DEF IInv, Environment, DryRun
<1> QED
    BY <1>1, RunStops DEF IInv, DryRun, AtRest

\* A run that goes on with all of what it has to do.
LEMMA KeepsTodo ==
    ASSUME IInv, NEW r \in Runners, NEW p \in HoldsPlan,
           pc' = [pc EXCEPT ![r] = p], files' = files, UNCHANGED <<left, have, plan, todo>>,
           p \in {"committed", "building"} => InTransaction(todo[r]) = {}
    PROVE  Shape' /\ \A q \in Runners : RunInv(q)'
<1>1. todo' = [todo EXCEPT ![r] = todo[r]]
    BY DEF IInv, Shape
<1>2. \A sent \in todo[r] \ todo[r], waiting \in todo[r] : ~SentBefore(r, waiting, sent)
    OBVIOUS
<1> QED
    BY <1>1, <1>2, RunGoesOn DEF IInv

LEMMA BeginInv ==
    ASSUME IInv, NEW r \in Runners, Begin(r)
    PROVE  IInv'
<1>1. Environment'
    BY DEF IInv, Environment, Begin
<1>2. Shape' /\ \A q \in Runners : RunInv(q)'
    BY KeepsTodo DEF Begin, HoldsPlan
<1> QED
    BY <1>1, <1>2 DEF IInv

LEMMA NoTransactionInv ==
    ASSUME IInv, NEW r \in Runners, NoTransaction(r)
    PROVE  IInv'
<1>1. Environment'
    BY DEF IInv, Environment, NoTransaction
<1>2. Shape' /\ \A q \in Runners : RunInv(q)'
    BY KeepsTodo DEF NoTransaction, HoldsPlan
<1> QED
    BY <1>1, <1>2 DEF IInv

LEMMA CommitInv ==
    ASSUME IInv, NEW r \in Runners, Commit(r)
    PROVE  IInv'
<1>1. Environment'
    BY EmptySchemaType DEF IInv, Environment, Commit, Rollback
<1>2. Shape' /\ \A q \in Runners : RunInv(q)'
    BY KeepsTodo DEF Commit, HoldsPlan
<1> QED
    BY <1>1, <1>2 DEF IInv

\* A statement that is sent from the transaction is the next one, so nothing
\* that still waits had to go before it.
LEMMA SentInTransaction ==
    ASSUME NEW r, NEW m \in NextOf(files[r], plan[r], InTransaction(todo[r]))
    PROVE  \A waiting \in todo[r] \ {m} : ~SentBefore(r, waiting, m)
<1>1. m \in todo[r] /\ ~OutOfTransaction(m)
    BY DEF NextOf, InTransaction
<1>2. \A n \in InTransaction(todo[r]) \ {m} : ~Before(files[r], plan[r], n, m)
    BY DEF NextOf
<1> QED
    BY <1>1, <1>2 DEF SentBefore, InTransaction

LEMMA SentAfterTransaction ==
    ASSUME NEW r, InTransaction(todo[r]) = {}, NEW m \in IndexStatements(r)
    PROVE  \A waiting \in todo[r] \ {m} : ~SentBefore(r, waiting, m)
<1>1. m \in todo[r] /\ OutOfTransaction(m)
    BY DEF IndexStatements, NextOf, AfterTransaction
<1>2. \A n \in AfterTransaction(todo[r]) \ {m} : ~Before(files[r], plan[r], n, m)
    BY DEF IndexStatements, NextOf
<1>3. \A n \in todo[r] : n \in AfterTransaction(todo[r]) /\ OutOfTransaction(n)
    BY DEF InTransaction, AfterTransaction
<1> QED
    BY <1>1, <1>2, <1>3 DEF SentBefore

\* A run that sends statement m.
LEMMA Sends ==
    ASSUME IInv, NEW r \in Runners, NEW m \in todo[r], NEW p \in HoldsPlan,
           pc' = [pc EXCEPT ![r] = p], files' = files, UNCHANGED <<left, have, plan>>,
           todo' = [todo EXCEPT ![r] = @ \ {m}],
           p \in {"committed", "building"} => InTransaction(todo[r]) = {},
           \A waiting \in todo[r] \ {m} : ~SentBefore(r, waiting, m)
    PROVE  Shape' /\ \A q \in Runners : RunInv(q)'
<1> DEFINE td == todo[r] \ {m}
<1>1. td \in SUBSET todo[r] /\ todo' = [todo EXCEPT ![r] = td]
    OBVIOUS
<1>2. p \in {"committed", "building"} => InTransaction(td) = {}
    BY DEF InTransaction
<1>3. \A sent \in todo[r] \ td, waiting \in td : ~SentBefore(r, waiting, sent)
    OBVIOUS
<1> HIDE DEF td
<1> QED
    BY <1>1, <1>2, <1>3, RunGoesOn DEF IInv

\* What a run has to do is justified, so that its effect is a catalog.
LEMMA TodoIsJustified ==
    ASSUME IInv, NEW r \in Runners, NEW m \in todo[r]
    PROVE  /\ m \in Migrations /\ Justified(files[r], have[r], m)
           /\ IsFiles(files[r]) /\ IsSchema(have[r])
<1>1. m \in plan[r]
    BY DEF IInv, RunInv
<1> QED
    BY <1>1 DEF IInv, RunInv, Shape, Environment

LEMMA ExecuteInTransactionInv ==
    ASSUME IInv, NEW r \in Runners, ExecuteInTransaction(r)
    PROVE  IInv'
<1>1. PICK m \in NextOf(files[r], plan[r], InTransaction(todo[r])) :
          \/ /\ Accepts(working, m, files[r], have[r])
             /\ working' = Effect(working, m, files[r], have[r])
             /\ todo' = [todo EXCEPT ![r] = @ \ {m}]
             /\ UNCHANGED <<owner, pc, left, have, plan>>
          \/ /\ ~Accepts(working, m, files[r], have[r])
             /\ Rollback
             /\ Stop(r, "failed")
    BY DEF ExecuteInTransaction
<1>2. m \in todo[r]
    BY DEF NextOf, InTransaction
<1>3. UNCHANGED <<catalog, files, faults>> /\ pc[r] = "transaction"
    BY DEF ExecuteInTransaction
<1>4. CASE /\ Accepts(working, m, files[r], have[r])
           /\ working' = Effect(working, m, files[r], have[r])
           /\ todo' = [todo EXCEPT ![r] = @ \ {m}]
           /\ UNCHANGED <<owner, pc, left, have, plan>>
    <2>1. IsCatalog(working)'
        BY <1>2, <1>4, TodoIsJustified, EffectType DEF IInv, Environment
    <2>2. Environment'
        BY <1>3, <1>4, <2>1 DEF IInv, Environment
    <2>3. pc' = [pc EXCEPT ![r] = "transaction"]
        BY <1>3, <1>4 DEF IInv, Shape
    <2>4. "transaction" \in HoldsPlan
        BY DEF HoldsPlan
    <2>5. \A waiting \in todo[r] \ {m} : ~SentBefore(r, waiting, m)
        BY SentInTransaction
    <2> QED
        BY <1>2, <1>3, <1>4, <2>2, <2>3, <2>4, <2>5, Sends DEF IInv
<1>5. CASE Rollback /\ Stop(r, "failed")
    <2>1. Environment'
        BY <1>3, <1>5, EmptySchemaType DEF IInv, Environment, Rollback
    <2> QED
        BY <1>3, <1>5, <2>1, RunStops DEF IInv, AtRest
<1> QED
    BY <1>1, <1>4, <1>5

LEMMA ExecuteIndexInv ==
    ASSUME IInv, NEW r \in Runners, ExecuteIndex(r)
    PROVE  IInv'
<1>1. PICK m \in IndexStatements(r) :
          \/ /\ Accepts(catalog, m, files[r], have[r])
             /\ catalog' = Effect(catalog, m, files[r], have[r])
             /\ todo' = [todo EXCEPT ![r] = @ \ {m}]
             /\ UNCHANGED <<pc, left, have, plan>>
          \/ Stop(r, "failed") /\ UNCHANGED catalog
    BY DEF ExecuteIndex
<1>2. m \in todo[r]
    BY DEF IndexStatements, NextOf, AfterTransaction
<1>3. UNCHANGED <<owner, working, files, faults>> /\ pc[r] = "committed"
    BY DEF ExecuteIndex
<1>4. CASE /\ Accepts(catalog, m, files[r], have[r])
           /\ catalog' = Effect(catalog, m, files[r], have[r])
           /\ todo' = [todo EXCEPT ![r] = @ \ {m}]
           /\ UNCHANGED <<pc, left, have, plan>>
    <2>1. IsCatalog(catalog)'
        BY <1>2, <1>4, TodoIsJustified, EffectType DEF IInv, Environment
    <2>2. Environment'
        BY <1>3, <1>4, <2>1 DEF IInv, Environment
    <2>3. pc' = [pc EXCEPT ![r] = "committed"]
        BY <1>3, <1>4 DEF IInv, Shape
    <2>4. "committed" \in HoldsPlan
        BY DEF HoldsPlan
    <2>5. InTransaction(todo[r]) = {}
        BY <1>3 DEF IInv, RunInv
    <2>6. \A waiting \in todo[r] \ {m} : ~SentBefore(r, waiting, m)
        BY <2>5, SentAfterTransaction
    <2> QED
        BY <1>2, <1>3, <1>4, <2>2, <2>3, <2>4, <2>5, <2>6, Sends DEF IInv
<1>5. CASE Stop(r, "failed") /\ UNCHANGED catalog
    <2>1. Environment'
        BY <1>3, <1>5 DEF IInv, Environment
    <2> QED
        BY <1>3, <1>5, <2>1, RunStops DEF IInv, AtRest
<1> QED
    BY <1>1, <1>4, <1>5

LEMMA StartBuildInv ==
    ASSUME IInv, NEW r \in Runners, StartBuild(r)
    PROVE  IInv'
<1>1. PICK m \in IndexStatements(r) :
          Builds(catalog, m) /\ catalog' = CreateIndexEffect(catalog, m.name, files[r], FALSE)
    BY DEF StartBuild
<1>2. m \in todo[r]
    BY DEF IndexStatements, NextOf, AfterTransaction
<1>3. m.name \in DOMAIN files[r].indexes
    BY <1>1, <1>2, TodoIsJustified DEF Builds, Justified
<1>4. IsCatalog(catalog)'
    BY <1>1, <1>3, CreateIndexType DEF IInv, Environment
<1>5. Environment'
    BY <1>4 DEF IInv, Environment, StartBuild
<1>6. InTransaction(todo[r]) = {}
    BY DEF IInv, RunInv, StartBuild
<1>7. Shape' /\ \A q \in Runners : RunInv(q)'
    BY <1>6, KeepsTodo DEF StartBuild, HoldsPlan
<1> QED
    BY <1>5, <1>7 DEF IInv

LEMMA FinishBuildInv ==
    ASSUME IInv, NEW r \in Runners, FinishBuild(r)
    PROVE  IInv'
<1>1. PICK m \in IndexStatements(r) :
          /\ catalog' = [catalog EXCEPT !.indexes[m.name].valid = TRUE]
          /\ todo' = [todo EXCEPT ![r] = @ \ {m}]
    BY DEF FinishBuild
<1>2. m \in todo[r]
    BY DEF IndexStatements, NextOf, AfterTransaction
<1>3. IsCatalog(catalog)'
    BY <1>1, MakeValidType DEF IInv, Environment
<1>4. Environment'
    BY <1>3 DEF IInv, Environment, FinishBuild
<1>5. InTransaction(todo[r]) = {}
    BY DEF IInv, RunInv, FinishBuild
<1>6. \A waiting \in todo[r] \ {m} : ~SentBefore(r, waiting, m)
    BY <1>5, SentAfterTransaction
<1>7. /\ pc' = [pc EXCEPT ![r] = "committed"] /\ files' = files
      /\ UNCHANGED <<left, have, plan>> /\ "committed" \in HoldsPlan
    BY DEF FinishBuild, HoldsPlan
<1> QED
    BY <1>1, <1>2, <1>4, <1>5, <1>6, <1>7, Sends DEF IInv

LEMMA FinishInv ==
    ASSUME IInv, NEW r \in Runners, Finish(r)
    PROVE  IInv'
<1>1. Environment'
    BY DEF IInv, Environment, Finish
<1> QED
    BY <1>1, RunStops DEF IInv, Finish, AtRest

\* A fault ends the run; what is left to show is the catalog it leaves.
LEMMA FaultInv ==
    ASSUME IInv, NEW r \in Runners, Fault(r),
           IsCatalog(catalog)', IsCatalog(working)', (owner \in Runners \cup {NoRunner})'
    PROVE  IInv'
<1>1. faults' \in 0..MaxFaults
    BY RunnerAssumption DEF IInv, Environment, Fault
<1>2. Environment'
    BY <1>1 DEF IInv, Environment, Fault
<1> QED
    BY <1>2, RunStops DEF IInv, Fault, AtRest

LEMMA FaultsInv ==
    ASSUME IInv, NEW r \in Runners,
           \/ FaultOutsideTransaction(r) \/ FaultInTransaction(r)
           \/ FaultAtCommit(r) \/ FaultInBuild(r)
    PROVE  IInv'
<1>1. CASE FaultOutsideTransaction(r)
    BY <1>1, FaultInv DEF IInv, Environment, FaultOutsideTransaction
<1>2. CASE FaultInTransaction(r)
    BY <1>2, EmptySchemaType, FaultInv DEF IInv, Environment, FaultInTransaction, Rollback
<1>3. CASE FaultAtCommit(r)
    BY <1>3, EmptySchemaType, FaultInv DEF IInv, Environment, FaultAtCommit, Rollback
<1>4. CASE FaultInBuild(r)
    <2>1. \/ UNCHANGED catalog
          \/ \E m \in IndexStatements(r) :
                catalog' = [catalog EXCEPT !.indexes[m.name].valid = TRUE]
        BY <1>4 DEF FaultInBuild
    <2>2. IsCatalog(catalog)
        BY DEF IInv, Environment
    <2>3. CASE UNCHANGED catalog
        <3>1. IsCatalog(catalog)'
            BY <2>2, <2>3
        <3> QED
            BY <1>4, <3>1, FaultInv DEF IInv, Environment, FaultInBuild
    <2>4. CASE \E m \in IndexStatements(r) :
                  catalog' = [catalog EXCEPT !.indexes[m.name].valid = TRUE]
        <3>1. PICK m \in IndexStatements(r) :
                  catalog' = [catalog EXCEPT !.indexes[m.name].valid = TRUE]
            BY <2>4
        <3>2. IsCatalog([catalog EXCEPT !.indexes[m.name].valid = TRUE])
            BY <2>2, MakeValidType
        <3>3. IsCatalog(catalog')
            BY <3>1, <3>2
        <3> QED
            BY <1>4, <3>3, FaultInv DEF IInv, Environment, FaultInBuild
    <2> QED
        BY <2>1, <2>3, <2>4
<1> QED
    BY <1>1, <1>2, <1>3, <1>4

-----------------------------------------------------------------------------
\* IInv is an invariant of every number of overlapping, crashing runs.
THEOREM Inductive == Spec => []IInv
<1>1. Init => IInv
    BY InitInv
<1>2. IInv /\ [Next]_vars => IInv'
    <2>1. ASSUME IInv, NEW r \in Runners, Connect(r) \/ Step(r) PROVE IInv'
        BY <2>1, ConnectInv, ListUserSchemasInv, ListTablesInv, ListColumnsInv,
           ListUniqueKeysInv, ListForeignKeysInv, ListIndexesInv, RefuseInv, MakePlanInv, DryRunInv,
           BeginInv, NoTransactionInv, ExecuteInTransactionInv, CommitInv,
           ExecuteIndexInv, StartBuildInv, FinishBuildInv, FinishInv DEF Step
    <2>2. ASSUME IInv, UNCHANGED vars PROVE IInv'
        <3>1. Environment' /\ Shape'
            BY <2>2 DEF IInv, Environment, Shape, vars
        <3>2. \A q \in Runners : RunInv(q)'
            BY <2>2, OthersStay DEF IInv, vars
        <3> QED
            BY <3>1, <3>2 DEF IInv
    <2> QED
        BY <2>1, <2>2, FaultsInv DEF Next
<1> QED
    BY <1>1, <1>2, PTL DEF Spec

\* The catalog, what every run has read and planned, and its place in the
\* program stay typed, whatever the runs, their files and the faults.
THEOREM TypeCorrect == Spec => []TypeOK
<1>1. IInv => TypeOK
    BY Implies
<1> QED
    BY <1>1, Inductive, PTL

\* Every statement of every plan, until the run ends, is justified by the
\* files of the run and by what it read: no object goes that no directive
\* gives away, no column is narrowed without a value for its rows.
THEOREM PlansAreJustified == Spec => []PlanIsJustified
<1>1. IInv => PlanIsJustified
    BY Implies
<1> QED
    BY <1>1, Inductive, PTL

-----------------------------------------------------------------------------
(* The planner's verdict on the database itself: what a run reads of a     *)
(* database nobody changes meanwhile is the database.                      *)

\* Every foreign key refers to a constraint, so that the query finds it.
KeysRest(c) ==
    \A t \in DOMAIN c.tables : \A fk \in c.tables[t].foreignKeys : RestsOnConstraint(c, fk)

LEMMA ReadTables ==
    ASSUME NEW c, IsCatalog(c), KeysRest(c)
    PROVE  Introspected(c).tables = c.tables
<1> DEFINE ReadTable(t) == [c.tables[t] EXCEPT !.foreignKeys = ReadForeignKeys(c, t)]
<1>1. ASSUME NEW t \in DOMAIN c.tables PROVE ReadTable(t) = c.tables[t]
    <2>1. ReadForeignKeys(c, t) = c.tables[t].foreignKeys
        BY DEF KeysRest, ReadForeignKeys
    <2> DEFINE table == c.tables[t]
    <2>2. IsTable(table)
        BY CatalogRecord
    <2> HIDE DEF table
    <2>3. [table EXCEPT !.foreignKeys = table.foreignKeys] = table
        BY <2>2 DEF IsTable
    <2> QED
        BY <2>1, <2>3 DEF table
<1>2. Introspected(c).tables = [t \in DOMAIN c.tables |-> ReadTable(t)]
    BY DEF Introspected
<1>3. c.tables = [t \in DOMAIN c.tables |-> c.tables[t]]
    BY CatalogRecord DEF AreTables, IsMap
<1> HIDE DEF ReadTable
<1>4. [t \in DOMAIN c.tables |-> ReadTable(t)] = [t \in DOMAIN c.tables |-> c.tables[t]]
    BY <1>1
<1> QED
    BY <1>2, <1>3, <1>4

LEMMA ReadIndexes ==
    ASSUME NEW c, IsCatalog(c)
    PROVE  /\ DOMAIN Introspected(c).indexes = DOMAIN c.indexes
           /\ \A i \in DOMAIN c.indexes : Introspected(c).indexes[i] = ReadIndex(c.indexes[i])
           /\ IsMapTo(Introspected(c).indexes, Indexes, Index)
<1> DEFINE seen == [i \in DOMAIN c.indexes |-> ReadIndex(c.indexes[i])]
<1>1. Introspected(c).indexes = seen
    BY DEF Introspected
<1>2. IsMapTo(seen, Indexes, Index)
    BY ReadIndexType DEF IsMapTo
<1> QED
    BY <1>1, <1>2

LEMMA ReadSchema ==
    ASSUME NEW c, IsCatalog(c), KeysRest(c)
    PROVE  IsSchema(Introspected(c)) /\ Introspected(c).namespaces = c.namespaces
<1> DEFINE ts == Introspected(c).tables
           is == Introspected(c).indexes
<1>1. Introspected(c) = [namespaces |-> c.namespaces, tables |-> ts, indexes |-> is]
    BY DEF Introspected
<1>2. AreTables(ts) /\ IsMapTo(is, Indexes, Index) /\ c.namespaces \subseteq Namespaces
    BY ReadTables, ReadIndexes, CatalogRecord
<1> HIDE DEF ts, is
<1>3. IsSchema([namespaces |-> c.namespaces, tables |-> ts, indexes |-> is])
    BY <1>2 DEF IsSchema
<1> QED
    BY <1>1, <1>3

\* A group covers an index whether or not it is valid.
LEMMA CoversWhatIsRead ==
    ASSUME NEW g, NEW i, NEW index
    PROVE  CoversIndex(g, i, ReadIndex(index)) <=> CoversIndex(g, i, index)
    BY DEF CoversIndex, CoversIndexRust, CoversIndexGo, IndexMatches, ReadIndex

LEMMA MeetsAsRead ==
    ASSUME NEW f, NEW c, IsCatalog(c), KeysRest(c)
    PROVE  Meets(f, Introspected(c)) <=> Meets(f, c)
<1>1. TablesMeet(f, Introspected(c)) <=> TablesMeet(f, c)
    BY ReadTables, ReadSchema DEF TablesMeet
<1>2. ASSUME NEW i \in DOMAIN c.indexes, NEW wanted
      PROVE  SameIndex(Introspected(c).indexes[i], wanted) <=> SameIndex(c.indexes[i], wanted)
    <2> DEFINE index == c.indexes[i]
    <2>1. SameIndex(ReadIndex(index), wanted) <=> SameIndex(index, wanted)
        BY DEF SameIndex, ReadIndex
    <2>2. Introspected(c).indexes[i] = ReadIndex(index)
        BY ReadIndexes
    <2> HIDE DEF index
    <2>3. SameIndex(Introspected(c).indexes[i], wanted) <=> SameIndex(index, wanted)
        BY <2>1, <2>2
    <2> QED
        BY <2>3 DEF index
<1>3. ASSUME NEW i \in DOMAIN c.indexes
      PROVE  (\E g \in f.groups : g.policy = "DEPRECATED"
                                  /\ CoversIndex(g, i, Introspected(c).indexes[i]))
             <=> (\E g \in f.groups : g.policy = "DEPRECATED" /\ CoversIndex(g, i, c.indexes[i]))
    BY ReadIndexes, CoversWhatIsRead
<1>4. IndexesMeet(f, Introspected(c)) <=> IndexesMeet(f, c)
    BY <1>2, <1>3, ReadIndexes DEF IndexesMeet, Tolerates
<1> QED
    BY <1>1, <1>4 DEF Meets

\* What the planner's comparison relies on: keys the queries find, indexes of
\* one name on one table, and drift groups that agree on what they cover.
Recognises(f, c) ==
    /\ KeysRest(c)
    /\ SameTables(f, Introspected(c))
    /\ OnePolicy(f, Introspected(c))

LEMMA EmptyPlanIffMeets ==
    ASSUME NEW f, IsFiles(f), NEW c, IsCatalog(c), Recognises(f, c)
    PROVE  Remaining(f, c) = {} /\ Verdict(f, c) = {} <=> Meets(f, c)
<1> DEFINE read == Introspected(c)
<1>1. IsSchema(read) /\ SameTables(f, read) /\ OnePolicy(f, read)
    BY ReadSchema DEF Recognises
<1>2. Meets(f, read) <=> Meets(f, c)
    BY MeetsAsRead DEF Recognises
<1>3. PICK some \in Orders(f.groups) : TRUE
    BY FilesParts, OrdersExist
<1> HIDE DEF read
<1>4. \A orders \in Orders(f.groups) :
          Plan(f, read, orders) = {} /\ Disallowed(f, read, orders) = {} <=> Meets(f, read)
    BY <1>1, NothingToDoIffMet
<1>5. /\ Remaining(f, c) = {} <=> \A orders \in Orders(f.groups) : Plan(f, read, orders) = {}
      /\ Verdict(f, c) = {} <=> \A orders \in Orders(f.groups) : Disallowed(f, read, orders) = {}
    BY DEF Remaining, Verdict, read
<1> QED
    BY <1>2, <1>3, <1>4, <1>5

\* At every moment of every run the planner would find nothing to do and
\* nothing to refuse exactly when the database is what the files ask for,
\* as long as what it compares by is unambiguous.
THEOREM EmptyPlanIsRight ==
    Spec /\ [](\A r \in Runners : Recognises(files[r], catalog)) => []EmptyPlanMeansMeets
<1> DEFINE Clear == \A r \in Runners : Recognises(files[r], catalog)
<1>1. IInv /\ Clear => EmptyPlanMeansMeets
    BY EmptyPlanIffMeets DEF IInv, Environment, EmptyPlanMeansMeets
<1> QED
    BY <1>1, Inductive, PTL
=============================================================================
