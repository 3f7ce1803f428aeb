----------------------------- MODULE DiffProofs -----------------------------
(***************************************************************************)
(* The planner keeps to the contract, for all files, all databases and all *)
(* orders in which the drift groups may be looked at.                      *)
(***************************************************************************)
EXTENDS Contract, FiniteSetTheorems, FunctionTheorems, NaturalsInduction,
        WellFoundedInduction, TLAPS

\* The first of the indexes that satisfy something exists.
LEMMA LeastIndex ==
    ASSUME NEW S \in SUBSET Nat, S # {}
    PROVE  \E i \in S : \A j \in S : i <= j
<1>1. PICK i \in S : \A j \in S : ~(<<j, i>> \in OpToRel(<, Nat))
    BY NatLessThanWellFounded, WFMin
<1>2. \A j \in S : ~(j < i)
    BY <1>1 DEF OpToRel
<1> QED
    BY <1>2

LEMMA OrderType ==
    ASSUME NEW groups, IsFiniteSet(groups), NEW order \in Iterations(groups)
    PROVE  /\ DOMAIN order \subseteq Nat
           /\ \A i \in DOMAIN order : order[i] \in groups
<1>1. Cardinality(groups) \in Nat
    BY FS_CardinalityType
<1> QED
    BY <1>1 DEF Iterations

\* A surplus object is planned to be dropped only if some group with policy
\* DROP covers it; which group that is may depend on the order, not whether
\* there is one.
LEMMA ColumnDropDeclared ==
    ASSUME NEW f, IsFiniteSet(f.groups), NEW order \in Iterations(f.groups),
           NEW want, NEW c, NEW type,
           ColumnVerdict(want, c, type, order) = "DROP"
    PROVE  \/ RemovedAllows(want, c, type)
           \/ \E g \in f.groups : g.policy = "DROP" /\ CoversColumn(g, c, type)
<1> SUFFICES ASSUME ~RemovedAllows(want, c, type)
             PROVE  \E g \in f.groups : g.policy = "DROP" /\ CoversColumn(g, c, type)
    OBVIOUS
<1> DEFINE S == {i \in DOMAIN order : CoversColumn(order[i], c, type)}
<1>1. S \in SUBSET Nat /\ S # {}
    BY OrderType DEF ColumnVerdict, FirstPolicy
<1>2. order[CHOOSE i \in S : \A j \in S : i <= j].policy = "DROP"
    BY DEF ColumnVerdict, FirstPolicy
<1>3. (CHOOSE i \in S : \A j \in S : i <= j) \in S
    BY <1>1, LeastIndex
<1> QED
    BY <1>2, <1>3, OrderType

LEMMA UniqueDropDeclared ==
    ASSUME NEW f, IsFiniteSet(f.groups), NEW order \in Iterations(f.groups),
           NEW u,
           UniqueVerdict(u, order) = "DROP"
    PROVE  \E g \in f.groups : g.policy = "DROP" /\ CoversUnique(g, u)
<1> DEFINE S == {i \in DOMAIN order : CoversUnique(order[i], u)}
<1>1. S \in SUBSET Nat /\ S # {}
    BY OrderType DEF UniqueVerdict, FirstPolicy
<1>2. order[CHOOSE i \in S : \A j \in S : i <= j].policy = "DROP"
    BY DEF UniqueVerdict, FirstPolicy
<1>3. (CHOOSE i \in S : \A j \in S : i <= j) \in S
    BY <1>1, LeastIndex
<1> QED
    BY <1>2, <1>3, OrderType

LEMMA ForeignKeyDropDeclared ==
    ASSUME NEW f, IsFiniteSet(f.groups), NEW order \in Iterations(f.groups),
           NEW fk,
           ForeignKeyVerdict(fk, order) = "DROP"
    PROVE  \E g \in f.groups : g.policy = "DROP" /\ CoversForeignKey(g, fk)
<1> DEFINE S == {i \in DOMAIN order : CoversForeignKey(order[i], fk)}
<1>1. S \in SUBSET Nat /\ S # {}
    BY OrderType DEF ForeignKeyVerdict, FirstPolicy
<1>2. order[CHOOSE i \in S : \A j \in S : i <= j].policy = "DROP"
    BY DEF ForeignKeyVerdict, FirstPolicy
<1>3. (CHOOSE i \in S : \A j \in S : i <= j) \in S
    BY <1>1, LeastIndex
<1> QED
    BY <1>2, <1>3, OrderType

LEMMA IndexDropDeclared ==
    ASSUME NEW f, IsFiniteSet(f.groups), NEW order \in Iterations(f.groups),
           NEW name, NEW index,
           IndexVerdict(name, index, order) = "DROP"
    PROVE  \E g \in f.groups : g.policy = "DROP" /\ CoversIndex(g, name, index)
<1> DEFINE S == {i \in DOMAIN order : CoversIndex(order[i], name, index)}
<1>1. S \in SUBSET Nat /\ S # {}
    BY OrderType DEF IndexVerdict, FirstPolicy
<1>2. order[CHOOSE i \in S : \A j \in S : i <= j].policy = "DROP"
    BY DEF IndexVerdict, FirstPolicy
<1>3. (CHOOSE i \in S : \A j \in S : i <= j) \in S
    BY <1>1, LeastIndex
<1> QED
    BY <1>2, <1>3, OrderType

\* What a run happens to iterate over for one object.
LEMMA IterationOf ==
    ASSUME NEW groups, NEW orders \in Orders(groups), NEW t \in Tables,
           NEW name \in Columns \cup ConstraintNames \cup Indexes
    PROVE  orders[<<t, name>>] \in Iterations(groups)
<1>1. <<t, name>> \in Objects
    BY DEF Objects
<1>2. CASE Go
    BY <1>1, <1>2 DEF Orders, OrdersGo
<1>3. CASE ~Go
    BY <1>1, <1>3 DEF Orders, OrdersRust
<1> QED
    BY <1>2, <1>3

-----------------------------------------------------------------------------
(* What is known of the parts of files and of a schema that was read.      *)

LEMMA TableParts ==
    ASSUME NEW t, IsTable(t)
    PROVE  /\ DOMAIN t.columns \subseteq Columns
           /\ \A c \in DOMAIN t.columns : t.columns[c] \in Column
           /\ \A u \in t.uniques : u \in Unique /\ u.name \in ConstraintNames
           /\ \A fk \in t.foreignKeys :
                 /\ fk \in ForeignKey
                 /\ fk.name \in ConstraintNames /\ fk.references \in Tables
           /\ t.primaryKey \in ColumnList
    BY DEF IsTable, IsMapTo, Unique, ForeignKey

LEMMA FilesParts ==
    ASSUME NEW f, IsFiles(f)
    PROVE  /\ f.schemas \subseteq Namespaces
           /\ IsFiniteSet(f.groups)
           /\ DOMAIN f.tables \subseteq Tables
           /\ \A t \in DOMAIN f.tables : IsTable(f.tables[t])
           /\ DOMAIN f.indexes \subseteq Indexes
           /\ \A i \in DOMAIN f.indexes :
                 f.indexes[i] \in Index /\ f.indexes[i].table \in Tables
    BY DEF IsFiles, AreTables, IsMap, IsMapTo, Index

LEMMA SchemaParts ==
    ASSUME NEW read, IsSchema(read)
    PROVE  /\ read.namespaces \subseteq Namespaces
           /\ DOMAIN read.tables \subseteq Tables
           /\ \A t \in DOMAIN read.tables : IsTable(read.tables[t])
           /\ DOMAIN read.indexes \subseteq Indexes
           /\ \A i \in DOMAIN read.indexes :
                 read.indexes[i] \in Index /\ read.indexes[i].table \in Tables
    BY DEF IsSchema, AreTables, IsMap, IsMapTo, Index

LEMMA DesiredNamespacesType ==
    ASSUME NEW f, IsFiles(f)
    PROVE  CollectDesiredNamespaces(f) \subseteq Namespaces
<1>1. \A t \in Tables : NamespaceOf[t] \in Namespaces
    BY SchemaAssumption
<1>2. {NamespaceOf[t] : t \in DOMAIN f.tables} \subseteq Namespaces
    BY <1>1, FilesParts
<1>3. {NamespaceOf[fk.references] :
          fk \in UNION {f.tables[t].foreignKeys : t \in DOMAIN f.tables}} \subseteq Namespaces
    BY <1>1, FilesParts, TableParts
<1>4. {NamespaceOf[f.indexes[i].table] : i \in DOMAIN f.indexes} \subseteq Namespaces
    BY <1>1, FilesParts
<1> QED
    BY <1>2, <1>3, <1>4, FilesParts DEF CollectDesiredNamespaces

-----------------------------------------------------------------------------
(* The parts of a plan, one lemma each.                                    *)

LEMMA NamespacesJustified ==
    ASSUME NEW f, IsFiles(f), NEW read, IsSchema(read),
           NEW m \in NamespaceMigrations(f, read)
    PROVE  m \in Migrations /\ Justified(f, read, m)
<1>1. PICK ns \in MissingNamespaces(f, read) : m = Migration("create_schema", ns, NoName)
    BY DEF NamespaceMigrations
<1>2. m.kind = "create_schema" /\ m.on = ns /\ m.name = NoName
    BY <1>1 DEF Migration
<1>3. ns \in Namespaces
    BY <1>1, DesiredNamespacesType DEF MissingNamespaces
<1>4. m \in Migrations
    BY <1>1, <1>3 DEF Migration, Migrations, Kinds
<1> QED
    BY <1>1, <1>2, <1>4 DEF Justified, MissingNamespaces

LEMMA WholeTablesJustified ==
    ASSUME NEW f, IsFiles(f), NEW read, IsSchema(read),
           NEW m \in WholeTableMigrations(f, read)
    PROVE  m \in Migrations /\ Justified(f, read, m)
<1>1. CASE \E t \in SurplusTables(f, read) :
              DropTableAllowed(f, read, t) /\ m = Migration("drop_table", t, NoName)
    <2>1. PICK t \in SurplusTables(f, read) :
              DropTableAllowed(f, read, t) /\ m = Migration("drop_table", t, NoName)
        BY <1>1
    <2>2. t \in Tables /\ t \in DOMAIN read.tables \ DOMAIN f.tables
        BY <2>1, SchemaParts DEF SurplusTables
    <2>3. m \in Migrations
        BY <2>1, <2>2 DEF Migration, Migrations, Kinds
    <2>4. m.kind = "drop_table" /\ m.on = t
        BY <2>1 DEF Migration
    <2>5. /\ t \in DOMAIN f.allowDropTables
          /\ TablesMatchForDrop(read.tables[t], f.allowDropTables[t])
        BY <2>1 DEF DropTableAllowed
    <2>6. ColumnTypes(read.tables[t]) = ColumnTypes(f.allowDropTables[t])
        BY <2>5 DEF TablesMatchForDrop, ColumnTypes
    <2>7. MayLoseTable(f, read, t)
        BY <2>2, <2>5, <2>6 DEF MayLoseTable
    <2> QED
        BY <2>2, <2>3, <2>4, <2>7 DEF Justified
<1>2. CASE \E t \in MissingTables(f, read) : m = Migration("create_table", t, NoName)
    <2>1. PICK t \in MissingTables(f, read) : m = Migration("create_table", t, NoName)
        BY <1>2
    <2>2. t \in Tables /\ t \in DOMAIN f.tables \ DOMAIN read.tables
        BY <2>1, FilesParts DEF MissingTables
    <2>3. m \in Migrations
        BY <2>1, <2>2 DEF Migration, Migrations, Kinds
    <2>4. m.kind = "create_table" /\ m.on = t
        BY <2>1 DEF Migration
    <2> QED
        BY <2>2, <2>3, <2>4 DEF Justified
<1> QED
    BY <1>1, <1>2 DEF WholeTableMigrations

LEMMA IndexesJustified ==
    ASSUME NEW f, IsFiles(f), NEW read, IsSchema(read),
           NEW orders \in Orders(f.groups),
           NEW m \in IndexMigrations(f, read, orders)
    PROVE  m \in Migrations /\ Justified(f, read, m)
<1>1. CASE \E i \in IndexesToCreate(f, read) :
              m = Migration("create_index", f.indexes[i].table, i)
    <2>1. PICK i \in IndexesToCreate(f, read) :
              m = Migration("create_index", f.indexes[i].table, i)
        BY <1>1
    <2>2. i \in DOMAIN f.indexes /\ i \in Indexes /\ f.indexes[i].table \in Tables
        BY <2>1, FilesParts DEF IndexesToCreate
    <2>3. m \in Migrations
        BY <2>1, <2>2 DEF Migration, Migrations, Kinds
    <2>4. m.kind = "create_index" /\ m.on = f.indexes[i].table /\ m.name = i
        BY <2>1 DEF Migration
    <2> QED
        BY <2>2, <2>3, <2>4 DEF Justified
<1>2. CASE \E i \in SurplusIndexes(f, read) :
              /\ IndexVerdict(i, read.indexes[i], orders[<<read.indexes[i].table, i>>]) = "DROP"
              /\ m = Migration("drop_index", read.indexes[i].table, i)
    <2>1. PICK i \in SurplusIndexes(f, read) :
              /\ IndexVerdict(i, read.indexes[i], orders[<<read.indexes[i].table, i>>]) = "DROP"
              /\ m = Migration("drop_index", read.indexes[i].table, i)
        BY <1>2
    <2>2. /\ i \in DOMAIN read.indexes \ DOMAIN f.indexes
          /\ i \in Indexes /\ read.indexes[i].table \in Tables
        BY <2>1, SchemaParts DEF SurplusIndexes
    <2>3. m \in Migrations
        BY <2>1, <2>2 DEF Migration, Migrations, Kinds
    <2>4. m.kind = "drop_index" /\ m.name = i
        BY <2>1 DEF Migration
    <2>5. \E g \in f.groups : g.policy = "DROP" /\ CoversIndex(g, i, read.indexes[i])
        BY <2>1, <2>2, FilesParts, IterationOf, IndexDropDeclared
    <2> QED
        BY <2>2, <2>3, <2>4, <2>5 DEF Justified, Drops
<1> QED
    BY <1>1, <1>2 DEF IndexMigrations

\* The four parts of the migrations of a table that is on both sides.
LEMMA ColumnsJustified ==
    ASSUME NEW f, IsFiles(f), NEW read, IsSchema(read),
           NEW orders \in Orders(f.groups), NEW t \in CommonTables(f, read),
           NEW m \in ColumnMigrations(f.tables[t], read.tables[t], t, orders)
    PROVE  m \in Migrations /\ Justified(f, read, m)
<1> DEFINE want == f.tables[t]
           had == read.tables[t]
<1>0. /\ t \in Tables /\ t \in DOMAIN f.tables /\ t \in DOMAIN read.tables
      /\ DOMAIN want.columns \subseteq Columns /\ DOMAIN had.columns \subseteq Columns
      /\ \A c \in DOMAIN want.columns : want.columns[c] \in Column
      /\ \A c \in DOMAIN had.columns : had.columns[c] \in Column
    BY FilesParts, SchemaParts, TableParts DEF CommonTables
<1>1. CASE \E c \in SurplusColumns(want, had) :
              /\ ColumnVerdict(want, c, had.columns[c].type, orders[<<t, c>>]) = "DROP"
              /\ m = Migration("drop_column", t, c)
    <2>1. PICK c \in SurplusColumns(want, had) :
              /\ ColumnVerdict(want, c, had.columns[c].type, orders[<<t, c>>]) = "DROP"
              /\ m = Migration("drop_column", t, c)
        BY <1>1
    <2>2. c \in Columns /\ c \in DOMAIN had.columns \ DOMAIN want.columns
        BY <1>0, <2>1 DEF SurplusColumns
    <2>3. m \in Migrations
        BY <1>0, <2>1, <2>2 DEF Migration, Migrations, Kinds
    <2>4. m.kind = "drop_column" /\ m.on = t /\ m.name = c
        BY <2>1 DEF Migration
    <2>5. \/ RemovedAllows(want, c, had.columns[c].type)
          \/ \E g \in f.groups : g.policy = "DROP" /\ CoversColumn(g, c, had.columns[c].type)
        BY <1>0, <2>1, <2>2, FilesParts, IterationOf, ColumnDropDeclared
    <2>6. MayLoseColumn(f, read, t, c)
        BY <1>0, <2>2, <2>5 DEF MayLoseColumn, Drops
    <2> QED
        BY <1>0, <2>2, <2>3, <2>4, <2>6 DEF Justified, JustifiedInTable
<1>2. CASE \E c \in MissingColumns(want, had) :
              ~NotNullNoDefault(want.columns[c]) /\ m = Migration("add_column", t, c)
    <2>1. PICK c \in MissingColumns(want, had) :
              ~NotNullNoDefault(want.columns[c]) /\ m = Migration("add_column", t, c)
        BY <1>2
    <2>2. c \in Columns /\ c \in DOMAIN want.columns \ DOMAIN had.columns
        BY <1>0, <2>1 DEF MissingColumns
    <2>3. m \in Migrations
        BY <1>0, <2>1, <2>2 DEF Migration, Migrations, Kinds
    <2>4. m.kind = "add_column" /\ m.on = t /\ m.name = c
        BY <2>1 DEF Migration
    <2>5. want.columns[c].nullable \/ want.columns[c].default # NoDefault
        BY <2>1 DEF NotNullNoDefault
    <2> QED
        BY <1>0, <2>2, <2>3, <2>4, <2>5 DEF Justified, JustifiedInTable
<1>3. CASE \E c \in ChangedColumns(want, had) :
              ~Narrows(want, had, c) /\ m = Migration("alter_column", t, c)
    <2>1. PICK c \in ChangedColumns(want, had) :
              ~Narrows(want, had, c) /\ m = Migration("alter_column", t, c)
        BY <1>3
    <2>2. c \in Columns /\ c \in DOMAIN want.columns \cap DOMAIN had.columns
        BY <1>0, <2>1 DEF ChangedColumns
    <2>3. m \in Migrations
        BY <1>0, <2>1, <2>2 DEF Migration, Migrations, Kinds
    <2>4. m.kind = "alter_column" /\ m.on = t /\ m.name = c
        BY <2>1 DEF Migration
    <2>5. want.columns[c].nullable \/ ~had.columns[c].nullable
        BY <2>1 DEF Narrows
    <2> QED
        BY <1>0, <2>2, <2>3, <2>4, <2>5 DEF Justified, JustifiedInTable
<1> QED
    BY <1>1, <1>2, <1>3 DEF ColumnMigrations

LEMMA PrimaryKeysJustified ==
    ASSUME NEW f, IsFiles(f), NEW read, IsSchema(read),
           NEW t \in CommonTables(f, read),
           NEW m \in PrimaryKeyMigrations(f.tables[t], read.tables[t], t)
    PROVE  m \in Migrations /\ Justified(f, read, m)
<1>1. t \in Tables /\ t \in DOMAIN f.tables /\ t \in DOMAIN read.tables
    BY FilesParts DEF CommonTables
<1>2. /\ read.tables[t].primaryKey = NoPrimaryKey
      /\ m = Migration("add_primary_key", t, NoName)
    BY DEF PrimaryKeyMigrations, AddPrimaryKey
<1>3. m.kind = "add_primary_key" /\ m.on = t
    BY <1>2 DEF Migration
<1>4. m \in Migrations
    BY <1>1, <1>2 DEF Migration, Migrations, Kinds
<1> QED
    BY <1>1, <1>2, <1>3, <1>4 DEF Justified, JustifiedInTable

LEMMA UniquesJustified ==
    ASSUME NEW f, IsFiles(f), NEW read, IsSchema(read),
           NEW orders \in Orders(f.groups), NEW t \in CommonTables(f, read),
           NEW m \in UniqueMigrations(f.tables[t], read.tables[t], t, orders)
    PROVE  m \in Migrations /\ Justified(f, read, m)
<1> DEFINE want == f.tables[t]
           had == read.tables[t]
<1>0. /\ t \in Tables /\ t \in DOMAIN f.tables /\ t \in DOMAIN read.tables
      /\ \A u \in want.uniques \cup had.uniques : u.name \in ConstraintNames
    BY FilesParts, SchemaParts, TableParts DEF CommonTables
<1>1. CASE \E u \in MissingUniques(want, had) : m = Migration("add_unique_key", t, u.name)
    <2>1. PICK u \in MissingUniques(want, had) : m = Migration("add_unique_key", t, u.name)
        BY <1>1
    <2>2. u \in want.uniques
        BY <2>1 DEF MissingUniques
    <2>3. m.kind = "add_unique_key" /\ m.on = t /\ m.name = u.name
        BY <2>1 DEF Migration
    <2>4. m \in Migrations
        BY <1>0, <2>1, <2>2 DEF Migration, Migrations, Kinds
    <2> QED
        BY <1>0, <2>2, <2>3, <2>4 DEF Justified, JustifiedInTable
<1>2. CASE \E u \in SurplusUniques(want, had) :
              UniqueVerdict(u, orders[<<t, u.name>>]) = "DROP" /\ m = Migration("drop_unique_key", t, u.name)
    <2>1. PICK u \in SurplusUniques(want, had) :
              UniqueVerdict(u, orders[<<t, u.name>>]) = "DROP" /\ m = Migration("drop_unique_key", t, u.name)
        BY <1>2
    <2>2. u \in had.uniques \ want.uniques
        BY <2>1 DEF SurplusUniques, HaveUnique
    <2>3. m.kind = "drop_unique_key" /\ m.on = t /\ m.name = u.name
        BY <2>1 DEF Migration
    <2>4. m \in Migrations
        BY <1>0, <2>1, <2>2 DEF Migration, Migrations, Kinds
    <2>5. \E g \in f.groups : g.policy = "DROP" /\ CoversUnique(g, u)
        BY <1>0, <2>1, <2>2, FilesParts, IterationOf, UniqueDropDeclared
    <2> QED
        BY <1>0, <2>2, <2>3, <2>4, <2>5 DEF Justified, JustifiedInTable, Drops
<1> QED
    BY <1>1, <1>2 DEF UniqueMigrations

LEMMA ForeignKeysJustified ==
    ASSUME NEW f, IsFiles(f), NEW read, IsSchema(read),
           NEW orders \in Orders(f.groups), NEW t \in CommonTables(f, read),
           NEW m \in ForeignKeyMigrations(f.tables[t], read.tables[t], t, orders)
    PROVE  m \in Migrations /\ Justified(f, read, m)
<1> DEFINE want == f.tables[t]
           had == read.tables[t]
<1>0. /\ t \in Tables /\ t \in DOMAIN f.tables /\ t \in DOMAIN read.tables
      /\ \A fk \in want.foreignKeys \cup had.foreignKeys : fk.name \in ConstraintNames
    BY FilesParts, SchemaParts, TableParts DEF CommonTables
<1>1. CASE \E fk \in MissingForeignKeys(want, had) :
              m = Migration("add_foreign_key", t, fk.name)
    <2>1. PICK fk \in MissingForeignKeys(want, had) :
              m = Migration("add_foreign_key", t, fk.name)
        BY <1>1
    <2>2. fk \in want.foreignKeys
        BY <2>1 DEF MissingForeignKeys
    <2>3. m.kind = "add_foreign_key" /\ m.on = t /\ m.name = fk.name
        BY <2>1 DEF Migration
    <2>4. m \in Migrations
        BY <1>0, <2>1, <2>2 DEF Migration, Migrations, Kinds
    <2> QED
        BY <1>0, <2>2, <2>3, <2>4 DEF Justified, JustifiedInTable
<1>2. CASE \E fk \in SurplusForeignKeys(want, had) :
              /\ ForeignKeyVerdict(fk, orders[<<t, fk.name>>]) = "DROP"
              /\ m = Migration("drop_foreign_key", t, fk.name)
    <2>1. PICK fk \in SurplusForeignKeys(want, had) :
              /\ ForeignKeyVerdict(fk, orders[<<t, fk.name>>]) = "DROP"
              /\ m = Migration("drop_foreign_key", t, fk.name)
        BY <1>2
    <2>2. fk \in had.foreignKeys \ want.foreignKeys
        BY <2>1 DEF SurplusForeignKeys, HaveForeignKey
    <2>3. m.kind = "drop_foreign_key" /\ m.on = t /\ m.name = fk.name
        BY <2>1 DEF Migration
    <2>4. m \in Migrations
        BY <1>0, <2>1, <2>2 DEF Migration, Migrations, Kinds
    <2>5. \E g \in f.groups : g.policy = "DROP" /\ CoversForeignKey(g, fk)
        BY <1>0, <2>1, <2>2, FilesParts, IterationOf, ForeignKeyDropDeclared
    <2> QED
        BY <1>0, <2>2, <2>3, <2>4, <2>5 DEF Justified, JustifiedInTable, Drops
<1> QED
    BY <1>1, <1>2 DEF ForeignKeyMigrations

-----------------------------------------------------------------------------
\* Everything in a plan is justified: whatever the files, the database and
\* the order of the groups, nothing is dropped that no directive of the files
\* gives away, and no column becomes NOT NULL without a value for its rows.
THEOREM PlanJustified ==
    ASSUME NEW f, IsFiles(f), NEW read, IsSchema(read),
           NEW orders \in Orders(f.groups), NEW m \in Plan(f, read, orders)
    PROVE  m \in Migrations /\ Justified(f, read, m)
<1>1. CASE m \in NamespaceMigrations(f, read)
    BY <1>1, NamespacesJustified
<1>2. CASE m \in WholeTableMigrations(f, read)
    BY <1>2, WholeTablesJustified
<1>3. CASE \E t \in CommonTables(f, read) :
              m \in TableMigrations(f.tables[t], read.tables[t], t, orders)
    <2>1. PICK t \in CommonTables(f, read) :
              m \in TableMigrations(f.tables[t], read.tables[t], t, orders)
        BY <1>3
    <2> QED
        BY <2>1, ColumnsJustified, PrimaryKeysJustified, UniquesJustified,
           ForeignKeysJustified DEF TableMigrations
<1>4. CASE m \in IndexMigrations(f, read, orders)
    BY <1>4, IndexesJustified
<1> QED
    BY <1>1, <1>2, <1>3, <1>4 DEF Plan

-----------------------------------------------------------------------------
(* Conversely, the planner overlooks nothing.  A surplus object that is    *)
(* neither dropped nor refused is covered by a DEPRECATED group.           *)

LEMMA ColumnTolerated ==
    ASSUME NEW f, IsFiles(f), NEW order \in Iterations(f.groups),
           NEW want, NEW c, NEW type,
           ColumnVerdict(want, c, type, order) # "DROP", ColumnVerdict(want, c, type, order) # "none"
    PROVE  ~RemovedAllows(want, c, type) /\ \E g \in f.groups : g.policy = "DEPRECATED" /\ CoversColumn(g, c, type)
<1> DEFINE S == {i \in DOMAIN order : CoversColumn(order[i], c, type)}
           least == CHOOSE i \in S : \A j \in S : i <= j
<1>0. IsFiniteSet(f.groups) /\ \A g \in f.groups : g.policy \in {"DROP", "DEPRECATED"}
    BY DEF IsFiles, DriftGroup, Policies
<1>1. S \in SUBSET Nat /\ S # {}
    BY <1>0, OrderType DEF ColumnVerdict, FirstPolicy
<1>2. ColumnVerdict(want, c, type, order) = order[least].policy
    BY <1>1 DEF ColumnVerdict, FirstPolicy
<1>3. least \in S
    BY <1>1, LeastIndex
<1> HIDE DEF least
<1>4. order[least] \in f.groups /\ CoversColumn(order[least], c, type)
    BY <1>0, <1>3, OrderType
<1> QED
    BY <1>0, <1>2, <1>4 DEF ColumnVerdict

LEMMA UniqueTolerated ==
    ASSUME NEW f, IsFiles(f), NEW order \in Iterations(f.groups),
           NEW u,
           UniqueVerdict(u, order) # "DROP", UniqueVerdict(u, order) # "none"
    PROVE  \E g \in f.groups : g.policy = "DEPRECATED" /\ CoversUnique(g, u)
<1> DEFINE S == {i \in DOMAIN order : CoversUnique(order[i], u)}
           least == CHOOSE i \in S : \A j \in S : i <= j
<1>0. IsFiniteSet(f.groups) /\ \A g \in f.groups : g.policy \in {"DROP", "DEPRECATED"}
    BY DEF IsFiles, DriftGroup, Policies
<1>1. S \in SUBSET Nat /\ S # {}
    BY <1>0, OrderType DEF UniqueVerdict, FirstPolicy
<1>2. UniqueVerdict(u, order) = order[least].policy
    BY <1>1 DEF UniqueVerdict, FirstPolicy
<1>3. least \in S
    BY <1>1, LeastIndex
<1> HIDE DEF least
<1>4. order[least] \in f.groups /\ CoversUnique(order[least], u)
    BY <1>0, <1>3, OrderType
<1> QED
    BY <1>0, <1>2, <1>4

LEMMA ForeignKeyTolerated ==
    ASSUME NEW f, IsFiles(f), NEW order \in Iterations(f.groups),
           NEW fk,
           ForeignKeyVerdict(fk, order) # "DROP", ForeignKeyVerdict(fk, order) # "none"
    PROVE  \E g \in f.groups : g.policy = "DEPRECATED" /\ CoversForeignKey(g, fk)
<1> DEFINE S == {i \in DOMAIN order : CoversForeignKey(order[i], fk)}
           least == CHOOSE i \in S : \A j \in S : i <= j
<1>0. IsFiniteSet(f.groups) /\ \A g \in f.groups : g.policy \in {"DROP", "DEPRECATED"}
    BY DEF IsFiles, DriftGroup, Policies
<1>1. S \in SUBSET Nat /\ S # {}
    BY <1>0, OrderType DEF ForeignKeyVerdict, FirstPolicy
<1>2. ForeignKeyVerdict(fk, order) = order[least].policy
    BY <1>1 DEF ForeignKeyVerdict, FirstPolicy
<1>3. least \in S
    BY <1>1, LeastIndex
<1> HIDE DEF least
<1>4. order[least] \in f.groups /\ CoversForeignKey(order[least], fk)
    BY <1>0, <1>3, OrderType
<1> QED
    BY <1>0, <1>2, <1>4

LEMMA ColumnsAreMet ==
    ASSUME NEW f, IsFiles(f), NEW read, IsSchema(read), NEW orders \in Orders(f.groups),
           NEW t \in CommonTables(f, read),
           ColumnMigrations(f.tables[t], read.tables[t], t, orders) = {},
           ColumnRefusals(f.tables[t], read.tables[t], t, orders) = {}
    PROVE  ColumnsMeet(f, t, read.tables[t])
<1> DEFINE want == f.tables[t]
           had == read.tables[t]
<1>1. ASSUME NEW c \in DOMAIN want.columns
      PROVE  c \in DOMAIN had.columns /\ had.columns[c] = want.columns[c]
    <2>1. c \notin MissingColumns(want, had)
        BY DEF ColumnMigrations, ColumnRefusals
    <2>2. c \notin ChangedColumns(want, had)
        BY DEF ColumnMigrations, ColumnRefusals
    <2> QED
        BY <2>1, <2>2 DEF MissingColumns, ChangedColumns
<1>2. ASSUME NEW c \in DOMAIN had.columns \ DOMAIN want.columns
      PROVE  /\ ~RemovedAllows(want, c, had.columns[c].type)
             /\ \E g \in f.groups :
                   g.policy = "DEPRECATED" /\ CoversColumn(g, c, had.columns[c].type)
    <2>1. c \in SurplusColumns(want, had)
        BY DEF SurplusColumns
    <2>2. /\ ColumnVerdict(want, c, had.columns[c].type, orders[<<t, c>>]) # "DROP"
          /\ ColumnVerdict(want, c, had.columns[c].type, orders[<<t, c>>]) # "none"
        BY <2>1 DEF ColumnMigrations, ColumnRefusals
    <2>3. t \in Tables /\ c \in Columns
        BY FilesParts, SchemaParts, TableParts DEF CommonTables
    <2> QED
        BY <2>2, <2>3, IterationOf, ColumnTolerated
<1> QED
    BY <1>1, <1>2 DEF ColumnsMeet, Tolerates

LEMMA KeysAreMet ==
    ASSUME NEW f, IsFiles(f), NEW read, IsSchema(read), NEW orders \in Orders(f.groups),
           NEW t \in CommonTables(f, read),
           TableMigrations(f.tables[t], read.tables[t], t, orders) = {},
           TableRefusals(f.tables[t], read.tables[t], t, orders) = {}
    PROVE  KeysMeet(f, t, read.tables[t])
<1> DEFINE want == f.tables[t]
           had == read.tables[t]
<1>1. had.primaryKey = want.primaryKey
    <2>1. ~AddPrimaryKey(want, had)
        BY DEF TableMigrations, PrimaryKeyMigrations
    <2>2. ~PrimaryKeyMismatch(want, had)
        BY DEF TableRefusals, PrimaryKeyRefusals
    <2> QED
        BY <2>1, <2>2 DEF AddPrimaryKey, PrimaryKeyMismatch
<1>2. want.uniques \subseteq had.uniques
    <2>1. MissingUniques(want, had) = {}
        BY DEF TableMigrations, UniqueMigrations
    <2> QED
        BY <2>1 DEF MissingUniques, HaveUnique
<1>3. want.foreignKeys \subseteq had.foreignKeys
    <2>1. MissingForeignKeys(want, had) = {}
        BY DEF TableMigrations, ForeignKeyMigrations
    <2> QED
        BY <2>1 DEF MissingForeignKeys, HaveForeignKey
<1>4. ASSUME NEW u \in had.uniques \ want.uniques
      PROVE  \E g \in f.groups : g.policy = "DEPRECATED" /\ CoversUnique(g, u)
    <2>1. u \in SurplusUniques(want, had)
        BY DEF SurplusUniques, HaveUnique
    <2>2. UniqueVerdict(u, orders[<<t, u.name>>]) # "DROP" /\ UniqueVerdict(u, orders[<<t, u.name>>]) # "none"
        BY <2>1 DEF TableMigrations, TableRefusals, UniqueMigrations, UniqueRefusals
    <2>3. t \in Tables /\ u.name \in ConstraintNames
        BY FilesParts, SchemaParts, TableParts DEF CommonTables
    <2> QED
        BY <2>2, <2>3, IterationOf, UniqueTolerated
<1>5. ASSUME NEW fk \in had.foreignKeys \ want.foreignKeys
      PROVE  \E g \in f.groups : g.policy = "DEPRECATED" /\ CoversForeignKey(g, fk)
    <2>1. fk \in SurplusForeignKeys(want, had)
        BY DEF SurplusForeignKeys, HaveForeignKey
    <2>2. ForeignKeyVerdict(fk, orders[<<t, fk.name>>]) # "DROP" /\ ForeignKeyVerdict(fk, orders[<<t, fk.name>>]) # "none"
        BY <2>1 DEF TableMigrations, TableRefusals, ForeignKeyMigrations, ForeignKeyRefusals
    <2>3. t \in Tables /\ fk.name \in ConstraintNames
        BY FilesParts, SchemaParts, TableParts DEF CommonTables
    <2> QED
        BY <2>2, <2>3, IterationOf, ForeignKeyTolerated
<1> QED
    BY <1>1, <1>2, <1>3, <1>4, <1>5 DEF KeysMeet, Tolerates

\* If the planner has nothing to do and nothing to refuse, the namespaces,
\* tables, columns and keys are what the files ask for, up to surplus that a
\* DEPRECATED group tolerates, and every index of the files is found under
\* its name with its definition (on its table or on another: the planner
\* does not look).
THEOREM NothingToDoMeansMet ==
    ASSUME NEW f, IsFiles(f), NEW read, IsSchema(read), NEW orders \in Orders(f.groups),
           Plan(f, read, orders) = {}, Disallowed(f, read, orders) = {}
    PROVE  /\ TablesMeet(f, read)
           /\ \A i \in DOMAIN f.indexes :
                 i \in DOMAIN read.indexes /\ IndexMatches(read.indexes[i], f.indexes[i])
<1>1. /\ NamespaceMigrations(f, read) = {} /\ WholeTableMigrations(f, read) = {}
      /\ IndexMigrations(f, read, orders) = {}
    BY DEF Plan
<1>2. \A t \in CommonTables(f, read) :
          /\ TableMigrations(f.tables[t], read.tables[t], t, orders) = {}
          /\ TableRefusals(f.tables[t], read.tables[t], t, orders) = {}
    BY DEF Plan, Disallowed
<1>3. CollectDesiredNamespaces(f) \subseteq read.namespaces
    BY <1>1 DEF NamespaceMigrations, MissingNamespaces
<1>4. read.namespaces \ {Public} \subseteq CollectDesiredNamespaces(f)
    <2>1. SurplusNamespaces(f, read) = {}
        BY DEF Disallowed
    <2> QED
        BY <2>1 DEF SurplusNamespaces
<1>5. DOMAIN read.tables = DOMAIN f.tables
    <2>1. MissingTables(f, read) = {}
        BY <1>1 DEF WholeTableMigrations
    <2>2. SurplusTables(f, read) = {}
        <3>1. \A t \in SurplusTables(f, read) : ~DropTableAllowed(f, read, t)
            BY <1>1 DEF WholeTableMigrations
        <3>2. \A t \in SurplusTables(f, read) : DropTableAllowed(f, read, t)
            BY DEF Disallowed
        <3> QED
            BY <3>1, <3>2
    <2> QED
        BY <2>1, <2>2 DEF MissingTables, SurplusTables
<1>6. ASSUME NEW t \in DOMAIN f.tables
      PROVE  ColumnsMeet(f, t, read.tables[t]) /\ KeysMeet(f, t, read.tables[t])
    <2>1. t \in CommonTables(f, read)
        BY <1>5 DEF CommonTables
    <2>2. /\ TableMigrations(f.tables[t], read.tables[t], t, orders) = {}
          /\ TableRefusals(f.tables[t], read.tables[t], t, orders) = {}
        BY <1>2, <2>1
    <2>3. /\ ColumnMigrations(f.tables[t], read.tables[t], t, orders) = {}
          /\ ColumnRefusals(f.tables[t], read.tables[t], t, orders) = {}
        BY <2>2 DEF TableMigrations, TableRefusals
    <2> QED
        BY <2>1, <2>2, <2>3, ColumnsAreMet, KeysAreMet
<1>7. \A i \in DOMAIN f.indexes :
          i \in DOMAIN read.indexes /\ IndexMatches(read.indexes[i], f.indexes[i])
    BY <1>1 DEF IndexMigrations, IndexesToCreate
<1> QED
    BY <1>3, <1>4, <1>5, <1>6, <1>7 DEF TablesMeet

-----------------------------------------------------------------------------
(* The converse: what the files ask for is left alone.                     *)

\* An iteration yields every group.
LEMMA IterationVisits ==
    ASSUME NEW groups, IsFiniteSet(groups), NEW order \in Iterations(groups), NEW g \in groups
    PROVE  \E i \in DOMAIN order : order[i] = g
<1> DEFINE S == 1..Cardinality(groups)
<1>1. Cardinality(groups) \in Nat
    BY FS_CardinalityType
<1>2. Cardinality(S) = Cardinality(groups)
    BY <1>1, FS_Interval
<1>3. order \in [S -> groups] /\ \A i, j \in S : i # j => order[i] # order[j]
    BY DEF Iterations
<1> HIDE DEF S
<1>4. order \in Injection(S, groups)
    BY <1>3 DEF Injection, IsInjective
<1>5. order \in Surjection(S, groups)
    BY <1>2, <1>4, FS_Injection
<1> QED
    BY <1>3, <1>5 DEF Surjection

LEMMA OrdersExist ==
    ASSUME NEW groups, IsFiniteSet(groups)
    PROVE  Orders(groups) # {}
<1> DEFINE S == 1..Cardinality(groups)
<1>1. PICK order : order \in Bijection(S, groups)
    BY FS_CardinalityType, Fun_ExistsBij
<1>2. order \in Iterations(groups)
    BY <1>1 DEF Bijection, Injection, IsInjective, Iterations
<1>3. [object \in Objects |-> order] \in Orders(groups)
    BY <1>2 DEF Orders, OrdersRust, OrdersGo
<1> QED
    BY <1>3

\* A group tolerates the object, and every group that covers it does.
OnlyTolerates(f, Covers(_)) ==
    /\ \E g \in f.groups : Covers(g)
    /\ \A g \in f.groups : Covers(g) => g.policy = "DEPRECATED"

LEMMA ColumnLeftAlone ==
    ASSUME NEW f, IsFiles(f), NEW order \in Iterations(f.groups), NEW want, NEW c, NEW type, ~RemovedAllows(want, c, type),
           OnlyTolerates(f, LAMBDA g : CoversColumn(g, c, type))
    PROVE  ColumnVerdict(want, c, type, order) = "DEPRECATED"
<1> DEFINE S == {i \in DOMAIN order : CoversColumn(order[i], c, type)}
           least == CHOOSE i \in S : \A j \in S : i <= j
<1>1. IsFiniteSet(f.groups)
    BY DEF IsFiles
<1>2. /\ \E g \in f.groups : CoversColumn(g, c, type)
      /\ \A g \in f.groups : CoversColumn(g, c, type) => g.policy = "DEPRECATED"
    BY DEF OnlyTolerates
<1>3. S \in SUBSET Nat /\ S # {}
    BY <1>1, <1>2, OrderType, IterationVisits
<1>4. ColumnVerdict(want, c, type, order) = order[least].policy
    BY <1>3 DEF ColumnVerdict, FirstPolicy
<1>5. least \in S
    BY <1>3, LeastIndex
<1> HIDE DEF least
<1>6. order[least] \in f.groups /\ CoversColumn(order[least], c, type)
    BY <1>1, <1>5, OrderType
<1> QED
    BY <1>2, <1>4, <1>6

LEMMA UniqueLeftAlone ==
    ASSUME NEW f, IsFiles(f), NEW order \in Iterations(f.groups), NEW u,
           OnlyTolerates(f, LAMBDA g : CoversUnique(g, u))
    PROVE  UniqueVerdict(u, order) = "DEPRECATED"
<1> DEFINE S == {i \in DOMAIN order : CoversUnique(order[i], u)}
           least == CHOOSE i \in S : \A j \in S : i <= j
<1>1. IsFiniteSet(f.groups)
    BY DEF IsFiles
<1>2. /\ \E g \in f.groups : CoversUnique(g, u)
      /\ \A g \in f.groups : CoversUnique(g, u) => g.policy = "DEPRECATED"
    BY DEF OnlyTolerates
<1>3. S \in SUBSET Nat /\ S # {}
    BY <1>1, <1>2, OrderType, IterationVisits
<1>4. UniqueVerdict(u, order) = order[least].policy
    BY <1>3 DEF UniqueVerdict, FirstPolicy
<1>5. least \in S
    BY <1>3, LeastIndex
<1> HIDE DEF least
<1>6. order[least] \in f.groups /\ CoversUnique(order[least], u)
    BY <1>1, <1>5, OrderType
<1> QED
    BY <1>2, <1>4, <1>6

LEMMA ForeignKeyLeftAlone ==
    ASSUME NEW f, IsFiles(f), NEW order \in Iterations(f.groups), NEW fk,
           OnlyTolerates(f, LAMBDA g : CoversForeignKey(g, fk))
    PROVE  ForeignKeyVerdict(fk, order) = "DEPRECATED"
<1> DEFINE S == {i \in DOMAIN order : CoversForeignKey(order[i], fk)}
           least == CHOOSE i \in S : \A j \in S : i <= j
<1>1. IsFiniteSet(f.groups)
    BY DEF IsFiles
<1>2. /\ \E g \in f.groups : CoversForeignKey(g, fk)
      /\ \A g \in f.groups : CoversForeignKey(g, fk) => g.policy = "DEPRECATED"
    BY DEF OnlyTolerates
<1>3. S \in SUBSET Nat /\ S # {}
    BY <1>1, <1>2, OrderType, IterationVisits
<1>4. ForeignKeyVerdict(fk, order) = order[least].policy
    BY <1>3 DEF ForeignKeyVerdict, FirstPolicy
<1>5. least \in S
    BY <1>3, LeastIndex
<1> HIDE DEF least
<1>6. order[least] \in f.groups /\ CoversForeignKey(order[least], fk)
    BY <1>1, <1>5, OrderType
<1> QED
    BY <1>2, <1>4, <1>6

LEMMA IndexLeftAlone ==
    ASSUME NEW f, IsFiles(f), NEW order \in Iterations(f.groups), NEW name, NEW index,
           OnlyTolerates(f, LAMBDA g : CoversIndex(g, name, index))
    PROVE  IndexVerdict(name, index, order) = "DEPRECATED"
<1> DEFINE S == {i \in DOMAIN order : CoversIndex(order[i], name, index)}
           least == CHOOSE i \in S : \A j \in S : i <= j
<1>1. IsFiniteSet(f.groups)
    BY DEF IsFiles
<1>2. /\ \E g \in f.groups : CoversIndex(g, name, index)
      /\ \A g \in f.groups : CoversIndex(g, name, index) => g.policy = "DEPRECATED"
    BY DEF OnlyTolerates
<1>3. S \in SUBSET Nat /\ S # {}
    BY <1>1, <1>2, OrderType, IterationVisits
<1>4. IndexVerdict(name, index, order) = order[least].policy
    BY <1>3 DEF IndexVerdict, FirstPolicy
<1>5. least \in S
    BY <1>3, LeastIndex
<1> HIDE DEF least
<1>6. order[least] \in f.groups /\ CoversIndex(order[least], name, index)
    BY <1>1, <1>5, OrderType
<1> QED
    BY <1>2, <1>4, <1>6

LEMMA IndexTolerated ==
    ASSUME NEW f, IsFiles(f), NEW order \in Iterations(f.groups), NEW name, NEW index,
           IndexVerdict(name, index, order) # "DROP", IndexVerdict(name, index, order) # "none"
    PROVE  \E g \in f.groups : g.policy = "DEPRECATED" /\ CoversIndex(g, name, index)
<1> DEFINE S == {i \in DOMAIN order : CoversIndex(order[i], name, index)}
           least == CHOOSE i \in S : \A j \in S : i <= j
<1>0. IsFiniteSet(f.groups) /\ \A g \in f.groups : g.policy \in {"DROP", "DEPRECATED"}
    BY DEF IsFiles, DriftGroup, Policies
<1>1. S \in SUBSET Nat /\ S # {}
    BY <1>0, OrderType DEF IndexVerdict, FirstPolicy
<1>2. IndexVerdict(name, index, order) = order[least].policy
    BY <1>1 DEF IndexVerdict, FirstPolicy
<1>3. least \in S
    BY <1>1, LeastIndex
<1> HIDE DEF least
<1>4. order[least] \in f.groups /\ CoversIndex(order[least], name, index)
    BY <1>0, <1>3, OrderType
<1> QED
    BY <1>0, <1>2, <1>4

-----------------------------------------------------------------------------
(* When the order in which groups are looked at makes no difference.       *)

Undivided(f, Covers(_)) ==
    \A g, h \in f.groups : Covers(g) /\ Covers(h) => g.policy = h.policy

\* No surplus object is covered by a group that tolerates it and by one that
\* lets it be dropped.
OnePolicy(f, read) ==
    /\ \A t \in CommonTables(f, read) :
          LET want == f.tables[t]
              had == read.tables[t]
          IN  /\ \A c \in SurplusColumns(want, had) :
                    Undivided(f, LAMBDA g : CoversColumn(g, c, had.columns[c].type))
              /\ \A u \in SurplusUniques(want, had) :
                    Undivided(f, LAMBDA g : CoversUnique(g, u))
              /\ \A fk \in SurplusForeignKeys(want, had) :
                    Undivided(f, LAMBDA g : CoversForeignKey(g, fk))
    /\ \A i \in SurplusIndexes(f, read) :
          Undivided(f, LAMBDA g : CoversIndex(g, i, read.indexes[i]))

LEMMA MetColumnsStay ==
    ASSUME NEW f, IsFiles(f), NEW read, IsSchema(read), OnePolicy(f, read),
           NEW orders \in Orders(f.groups), NEW t \in CommonTables(f, read),
           ColumnsMeet(f, t, read.tables[t])
    PROVE  /\ ColumnMigrations(f.tables[t], read.tables[t], t, orders) = {}
           /\ ColumnRefusals(f.tables[t], read.tables[t], t, orders) = {}
<1> DEFINE want == f.tables[t]
           had == read.tables[t]
<1>1. MissingColumns(want, had) = {} /\ ChangedColumns(want, had) = {}
    BY DEF ColumnsMeet, MissingColumns, ChangedColumns
<1>2. ASSUME NEW c \in SurplusColumns(want, had)
      PROVE  ColumnVerdict(want, c, had.columns[c].type, orders[<<t, c>>]) = "DEPRECATED"
    <2> DEFINE type == had.columns[c].type
    <2>1. ~RemovedAllows(want, c, type) /\ Tolerates(f, LAMBDA g : CoversColumn(g, c, type))
        BY DEF ColumnsMeet, SurplusColumns
    <2>2. Undivided(f, LAMBDA g : CoversColumn(g, c, type))
        BY DEF OnePolicy
    <2>3. OnlyTolerates(f, LAMBDA g : CoversColumn(g, c, type))
        BY <2>1, <2>2 DEF Tolerates, Undivided, OnlyTolerates
    <2>4. t \in Tables /\ c \in Columns
        BY FilesParts, SchemaParts, TableParts DEF CommonTables, SurplusColumns
    <2>5. orders[<<t, c>>] \in Iterations(f.groups)
        BY <2>4, IterationOf
    <2> QED
        BY <2>1, <2>3, <2>5, ColumnLeftAlone
<1>3. "DEPRECATED" # "DROP" /\ "DEPRECATED" # "none"
    OBVIOUS
<1> QED
    BY <1>1, <1>2, <1>3 DEF ColumnMigrations, ColumnRefusals

LEMMA MetKeysStay ==
    ASSUME NEW f, IsFiles(f), NEW read, IsSchema(read), OnePolicy(f, read),
           NEW orders \in Orders(f.groups), NEW t \in CommonTables(f, read),
           KeysMeet(f, t, read.tables[t])
    PROVE  LET want == f.tables[t]
               had == read.tables[t]
           IN  /\ PrimaryKeyMigrations(want, had, t) = {}
               /\ PrimaryKeyRefusals(want, had, t) = {}
               /\ UniqueMigrations(want, had, t, orders) = {}
               /\ UniqueRefusals(want, had, t, orders) = {}
               /\ ForeignKeyMigrations(want, had, t, orders) = {}
               /\ ForeignKeyRefusals(want, had, t, orders) = {}
<1> DEFINE want == f.tables[t]
           had == read.tables[t]
<1>1. PrimaryKeyMigrations(want, had, t) = {} /\ PrimaryKeyRefusals(want, had, t) = {}
    BY DEF KeysMeet, PrimaryKeyMigrations, PrimaryKeyRefusals, AddPrimaryKey, PrimaryKeyMismatch
<1>2. MissingUniques(want, had) = {} /\ MissingForeignKeys(want, had) = {}
    BY DEF KeysMeet, MissingUniques, MissingForeignKeys, HaveUnique, HaveForeignKey
<1>3. ASSUME NEW u \in SurplusUniques(want, had)
      PROVE  UniqueVerdict(u, orders[<<t, u.name>>]) = "DEPRECATED"
    <2>0. u \in had.uniques \ want.uniques
        BY DEF SurplusUniques, HaveUnique
    <2>1. \E g \in f.groups : g.policy = "DEPRECATED" /\ CoversUnique(g, u)
        BY <2>0 DEF KeysMeet, Tolerates
    <2>2. Undivided(f, LAMBDA g : CoversUnique(g, u))
        BY DEF OnePolicy
    <2>3. OnlyTolerates(f, LAMBDA g : CoversUnique(g, u))
        BY <2>1, <2>2 DEF Undivided, OnlyTolerates
    <2>4. t \in Tables /\ u.name \in ConstraintNames
        BY <2>0, FilesParts, SchemaParts, TableParts DEF CommonTables
    <2>5. orders[<<t, u.name>>] \in Iterations(f.groups)
        BY <2>4, IterationOf
    <2> QED
        BY <2>3, <2>5, UniqueLeftAlone
<1>4. ASSUME NEW fk \in SurplusForeignKeys(want, had)
      PROVE  ForeignKeyVerdict(fk, orders[<<t, fk.name>>]) = "DEPRECATED"
    <2>0. fk \in had.foreignKeys \ want.foreignKeys
        BY DEF SurplusForeignKeys, HaveForeignKey
    <2>1. \E g \in f.groups : g.policy = "DEPRECATED" /\ CoversForeignKey(g, fk)
        BY <2>0 DEF KeysMeet, Tolerates
    <2>2. Undivided(f, LAMBDA g : CoversForeignKey(g, fk))
        BY DEF OnePolicy
    <2>3. OnlyTolerates(f, LAMBDA g : CoversForeignKey(g, fk))
        BY <2>1, <2>2 DEF Undivided, OnlyTolerates
    <2>4. t \in Tables /\ fk.name \in ConstraintNames
        BY <2>0, FilesParts, SchemaParts, TableParts DEF CommonTables
    <2>5. orders[<<t, fk.name>>] \in Iterations(f.groups)
        BY <2>4, IterationOf
    <2> QED
        BY <2>3, <2>5, ForeignKeyLeftAlone
<1>5. "DEPRECATED" # "DROP" /\ "DEPRECATED" # "none"
    OBVIOUS
<1>6. UniqueMigrations(want, had, t, orders) = {} /\ UniqueRefusals(want, had, t, orders) = {}
    BY <1>2, <1>3, <1>5 DEF UniqueMigrations, UniqueRefusals
<1>7. /\ ForeignKeyMigrations(want, had, t, orders) = {}
      /\ ForeignKeyRefusals(want, had, t, orders) = {}
    BY <1>2, <1>4, <1>5 DEF ForeignKeyMigrations, ForeignKeyRefusals
<1> QED
    BY <1>1, <1>6, <1>7

LEMMA MetIndexesStay ==
    ASSUME NEW f, IsFiles(f), NEW read, IsSchema(read), OnePolicy(f, read),
           NEW orders \in Orders(f.groups), IndexesMeet(f, read)
    PROVE  IndexMigrations(f, read, orders) = {} /\ IndexRefusals(f, read, orders) = {}
<1>1. IndexesToCreate(f, read) = {}
    BY DEF IndexesMeet, IndexesToCreate, SameIndex, IndexMatches
<1>2. ASSUME NEW i \in SurplusIndexes(f, read)
      PROVE  LET index == read.indexes[i]
             IN  IndexVerdict(i, index, orders[<<index.table, i>>]) = "DEPRECATED"
    <2> DEFINE index == read.indexes[i]
    <2>1. Tolerates(f, LAMBDA g : CoversIndex(g, i, index))
        BY DEF IndexesMeet, SurplusIndexes
    <2>2. Undivided(f, LAMBDA g : CoversIndex(g, i, index))
        BY DEF OnePolicy
    <2>3. OnlyTolerates(f, LAMBDA g : CoversIndex(g, i, index))
        BY <2>1, <2>2 DEF Tolerates, Undivided, OnlyTolerates
    <2>4. index.table \in Tables /\ i \in Indexes
        BY SchemaParts DEF SurplusIndexes
    <2>5. orders[<<index.table, i>>] \in Iterations(f.groups)
        BY <2>4, IterationOf
    <2> QED
        BY <2>3, <2>5, IndexLeftAlone
<1>3. "DEPRECATED" # "DROP" /\ "DEPRECATED" # "none"
    OBVIOUS
<1> QED
    BY <1>1, <1>2, <1>3 DEF IndexMigrations, IndexRefusals

\* A database that is what the files ask for is left alone, in whatever order
\* the groups are looked at.
THEOREM MetMeansNothingToDo ==
    ASSUME NEW f, IsFiles(f), NEW read, IsSchema(read), OnePolicy(f, read),
           NEW orders \in Orders(f.groups), Meets(f, read)
    PROVE  Plan(f, read, orders) = {} /\ Disallowed(f, read, orders) = {}
<1>1. TablesMeet(f, read) /\ IndexesMeet(f, read)
    BY DEF Meets
<1>2. NamespaceMigrations(f, read) = {} /\ SurplusNamespaces(f, read) = {}
    BY <1>1 DEF TablesMeet, NamespaceMigrations, MissingNamespaces, SurplusNamespaces
<1>3. SurplusTables(f, read) = {} /\ MissingTables(f, read) = {}
    BY <1>1 DEF TablesMeet, SurplusTables, MissingTables
<1>4. WholeTableMigrations(f, read) = {}
    BY <1>3 DEF WholeTableMigrations
<1>5. ASSUME NEW t \in CommonTables(f, read)
      PROVE  /\ TableMigrations(f.tables[t], read.tables[t], t, orders) = {}
             /\ TableRefusals(f.tables[t], read.tables[t], t, orders) = {}
    <2>1. ColumnsMeet(f, t, read.tables[t]) /\ KeysMeet(f, t, read.tables[t])
        BY <1>1 DEF TablesMeet, CommonTables
    <2> QED
        BY <2>1, MetColumnsStay, MetKeysStay DEF TableMigrations, TableRefusals
<1>6. IndexMigrations(f, read, orders) = {} /\ IndexRefusals(f, read, orders) = {}
    BY <1>1, MetIndexesStay
<1>7. Plan(f, read, orders) = {}
    BY <1>2, <1>4, <1>5, <1>6 DEF Plan
<1>8. Disallowed(f, read, orders) = {}
    BY <1>2, <1>3, <1>5, <1>6 DEF Disallowed
<1> QED
    BY <1>7, <1>8

\* The planner compares an index by its name and looks at no table.
SameTables(f, read) ==
    \A i \in DOMAIN f.indexes \cap DOMAIN read.indexes :
        read.indexes[i].table = f.indexes[i].table

\* The planner has nothing to do and nothing to refuse exactly when the
\* database is what the files ask for.
THEOREM NothingToDoIffMet ==
    ASSUME NEW f, IsFiles(f), NEW read, IsSchema(read), OnePolicy(f, read), SameTables(f, read),
           NEW orders \in Orders(f.groups)
    PROVE  Plan(f, read, orders) = {} /\ Disallowed(f, read, orders) = {} <=> Meets(f, read)
<1> SUFFICES ASSUME Plan(f, read, orders) = {}, Disallowed(f, read, orders) = {}
             PROVE  Meets(f, read)
    BY MetMeansNothingToDo
<1>1. TablesMeet(f, read)
    BY NothingToDoMeansMet
<1>2. ASSUME NEW i \in DOMAIN f.indexes
      PROVE  i \in DOMAIN read.indexes /\ SameIndex(read.indexes[i], f.indexes[i])
    <2>1. i \in DOMAIN read.indexes /\ IndexMatches(read.indexes[i], f.indexes[i])
        BY NothingToDoMeansMet
    <2> QED
        BY <2>1 DEF SameTables, IndexMatches, SameIndex
<1>3. ASSUME NEW i \in DOMAIN read.indexes \ DOMAIN f.indexes
      PROVE  \E g \in f.groups : g.policy = "DEPRECATED" /\ CoversIndex(g, i, read.indexes[i])
    <2> DEFINE index == read.indexes[i]
               verdict == IndexVerdict(i, index, orders[<<index.table, i>>])
    <2>1. i \in SurplusIndexes(f, read)
        BY DEF SurplusIndexes
    <2>2. IndexMigrations(f, read, orders) = {} /\ WholeTableMigrations(f, read) = {}
        BY DEF Plan
    <2>3. verdict # "DROP"
        BY <2>1, <2>2 DEF IndexMigrations
    <2>4. ~IndexVanishes(f, read, i)
        BY <2>2 DEF IndexVanishes, IndexVanishesRust, IndexVanishesGo
    <2>5. verdict # "none"
      <3>1. IndexRefusals(f, read, orders) = {}
          BY DEF Disallowed
      <3> QED
          BY <2>1, <2>4, <3>1 DEF IndexRefusals
    <2>6. index.table \in Tables /\ i \in Indexes
        BY SchemaParts
    <2>7. orders[<<index.table, i>>] \in Iterations(f.groups)
        BY <2>6, IterationOf
    <2> QED
        BY <2>3, <2>5, <2>7, IndexTolerated
<1> QED
    BY <1>1, <1>2, <1>3 DEF Meets, IndexesMeet, Tolerates
=============================================================================
