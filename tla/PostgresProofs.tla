--------------------------- MODULE PostgresProofs ---------------------------
(***************************************************************************)
(* What one statement of a plan does to a catalog.  Every justified        *)
(* statement that the server accepts turns a catalog into a catalog, and   *)
(* it takes nothing but what the files give away: a statement either adds  *)
(* to the catalog (Grows) or takes from it (Shrinks); either way nothing   *)
(* appears that the files do not ask for (Evolves), so that what a run has *)
(* read goes on to describe the surplus it decided about (Reflects), and   *)
(* what one statement loses adds up to what the transaction loses.         *)
(***************************************************************************)
EXTENDS Postgres, DiffProofs, MigrationOrder

(* Building tables and catalogs from their parts.                          *)

LEMMA TableRecord ==
    ASSUME NEW t, IsTable(t)
    PROVE  /\ t = [columns |-> t.columns, primaryKey |-> t.primaryKey,
                   uniques |-> t.uniques, foreignKeys |-> t.foreignKeys,
                   removed |-> t.removed]
           /\ t.primaryKey \in ColumnList
           /\ t.uniques \in SUBSET Unique
           /\ t.foreignKeys \in SUBSET ForeignKey
           /\ IsMapTo(t.columns, Columns, Column)
           /\ IsMapTo(t.removed, Columns, Types \cup {AnyType})
    BY DEF IsTable

LEMMA MakeTable ==
    ASSUME NEW c, IsMapTo(c, Columns, Column), NEW p \in ColumnList,
           NEW u \in SUBSET Unique, NEW f \in SUBSET ForeignKey,
           NEW d, IsMapTo(d, Columns, Types \cup {AnyType})
    PROVE  IsTable([columns |-> c, primaryKey |-> p, uniques |-> u,
                    foreignKeys |-> f, removed |-> d])
    BY DEF IsTable

\* Replacing parts of a record that is a table, or a catalog.
LEMMA ExceptRemoved ==
    ASSUME NEW t, IsTable(t), NEW d
    PROVE  [t EXCEPT !.removed = d] =
              [columns |-> t.columns, primaryKey |-> t.primaryKey, uniques |-> t.uniques,
               foreignKeys |-> t.foreignKeys, removed |-> d]
    BY DEF IsTable

LEMMA ExceptPrimaryKey ==
    ASSUME NEW t, IsTable(t), NEW p, NEW c
    PROVE  [t EXCEPT !.columns = c, !.primaryKey = p] =
              [columns |-> c, primaryKey |-> p, uniques |-> t.uniques,
               foreignKeys |-> t.foreignKeys, removed |-> t.removed]
<1>1. [t EXCEPT !.columns = c] =
         [columns |-> c, primaryKey |-> t.primaryKey, uniques |-> t.uniques,
          foreignKeys |-> t.foreignKeys, removed |-> t.removed]
    BY DEF IsTable
<1>2. [[columns |-> c, primaryKey |-> t.primaryKey, uniques |-> t.uniques,
        foreignKeys |-> t.foreignKeys, removed |-> t.removed] EXCEPT !.primaryKey = p] =
         [columns |-> c, primaryKey |-> p, uniques |-> t.uniques,
          foreignKeys |-> t.foreignKeys, removed |-> t.removed]
    OBVIOUS
<1> QED
    BY <1>1, <1>2

LEMMA ExceptIndexes ==
    ASSUME NEW c, IsCatalog(c), NEW is
    PROVE  [c EXCEPT !.indexes = is] =
              [namespaces |-> c.namespaces, tables |-> c.tables, indexes |-> is]
    BY DEF IsCatalog

LEMMA WithMap ==
    ASSUME NEW S, NEW T, NEW f, IsMapTo(f, S, T), NEW x \in S, NEW y \in T
    PROVE  IsMapTo(With(f, x, y), S, T)
    BY DEF IsMapTo, With

LEMMA RestrictMap ==
    ASSUME NEW S, NEW T, NEW f, IsMapTo(f, S, T), NEW R
    PROVE  IsMapTo(Restriction(f, R), S, T)
    BY DEF IsMapTo, Restriction

LEMMA WithoutMap ==
    ASSUME NEW S, NEW T, NEW f, IsMapTo(f, S, T), NEW x
    PROVE  IsMapTo(Without(f, x), S, T)
    BY RestrictMap DEF Without

LEMMA WithTable ==
    ASSUME NEW ts, AreTables(ts), NEW t \in Tables, NEW x, IsTable(x)
    PROVE  AreTables(With(ts, t, x))
    BY DEF AreTables, IsMap, With

LEMMA WithoutTable ==
    ASSUME NEW ts, AreTables(ts), NEW t
    PROVE  AreTables(Without(ts, t))
    BY DEF AreTables, IsMap, Without, Restriction

LEMMA CatalogRecord ==
    ASSUME NEW c, IsCatalog(c)
    PROVE  /\ c = [namespaces |-> c.namespaces, tables |-> c.tables, indexes |-> c.indexes]
           /\ c.namespaces \subseteq Namespaces
           /\ AreTables(c.tables)
           /\ IsMapTo(c.indexes, Indexes, CatalogIndex)
           /\ DOMAIN c.tables \subseteq Tables
           /\ \A t \in DOMAIN c.tables : IsTable(c.tables[t])
    BY DEF IsCatalog, AreTables, IsMap

LEMMA MakeCatalog ==
    ASSUME NEW n \in SUBSET Namespaces, NEW ts, AreTables(ts),
           NEW is, IsMapTo(is, Indexes, CatalogIndex)
    PROVE  IsCatalog([namespaces |-> n, tables |-> ts, indexes |-> is])
    BY DEF IsCatalog

LEMMA OnTableType ==
    ASSUME NEW c, IsCatalog(c), NEW t \in DOMAIN c.tables, NEW x, IsTable(x)
    PROVE  IsCatalog(OnTable(c, t, x))
<1>1. AreTables([c.tables EXCEPT ![t] = x])
    BY CatalogRecord DEF AreTables, IsMap
<1>2. OnTable(c, t, x) = [namespaces |-> c.namespaces,
                          tables |-> [c.tables EXCEPT ![t] = x], indexes |-> c.indexes]
    BY CatalogRecord DEF OnTable
<1> QED
    BY <1>1, <1>2, CatalogRecord, MakeCatalog

\* NOT NULL on the columns of a primary key keeps a table a table.
LEMMA WithPrimaryKeyType ==
    ASSUME NEW t, IsTable(t), NEW key \in ColumnList
    PROVE  IsTable(WithPrimaryKey(t, key))
<1>1. IsMapTo(t.columns, Columns, Column)
    BY TableRecord
<1>2. \A c \in DOMAIN t.columns : [t.columns[c] EXCEPT !.nullable = FALSE] \in Column
    <2> TAKE c \in DOMAIN t.columns
    <2>1. t.columns[c] \in Column
        BY <1>1 DEF IsMapTo
    <2> QED
        BY <2>1 DEF Column
<1>3. IsMapTo(NotNull(t.columns, key), Columns, Column)
    BY <1>1, <1>2 DEF IsMapTo, NotNull
<1>4. WithPrimaryKey(t, key) =
         [columns |-> NotNull(t.columns, key), primaryKey |-> key, uniques |-> t.uniques,
          foreignKeys |-> t.foreignKeys, removed |-> t.removed]
    BY ExceptPrimaryKey DEF WithPrimaryKey
<1> QED
    BY <1>3, <1>4, TableRecord, MakeTable

LEMMA StoredType ==
    ASSUME NEW t, IsTable(t)
    PROVE  IsTable(Stored(t))
<1> DEFINE w == WithPrimaryKey(t, t.primaryKey)
<1>1. IsTable(w)
    BY TableRecord, WithPrimaryKeyType
<1>2. IsMapTo(<< >>, Columns, Types \cup {AnyType})
    BY DEF IsMapTo
<1>3. Stored(t) = [w EXCEPT !.removed = << >>]
    BY DEF Stored
<1> HIDE DEF w
<1>4. Stored(t) = [columns |-> w.columns, primaryKey |-> w.primaryKey, uniques |-> w.uniques,
                   foreignKeys |-> w.foreignKeys, removed |-> << >>]
    BY <1>1, <1>3, ExceptRemoved
<1>5. /\ IsMapTo(w.columns, Columns, Column) /\ w.primaryKey \in ColumnList
      /\ w.uniques \in SUBSET Unique /\ w.foreignKeys \in SUBSET ForeignKey
    BY <1>1, TableRecord
<1> QED
    BY <1>2, <1>4, <1>5, MakeTable

LEMMA DropColumnType ==
    ASSUME NEW c, IsCatalog(c), NEW t \in DOMAIN c.tables, NEW name
    PROVE  IsCatalog(DropColumn(c, t, name))
<1> DEFINE table == c.tables[t]
           left == [columns |-> Without(table.columns, name),
                    primaryKey |-> IF name \in Elements(table.primaryKey)
                                   THEN NoPrimaryKey ELSE table.primaryKey,
                    uniques |-> {u \in table.uniques : name \notin Elements(u.columns)},
                    foreignKeys |-> {fk \in table.foreignKeys : name \notin Elements(fk.columns)},
                    removed |-> table.removed]
           Kept == {i \in DOMAIN c.indexes :
                       ~(c.indexes[i].table = t /\ name \in Elements(c.indexes[i].columns))}
<1>1. IsTable(table)
    BY CatalogRecord
<1>2. NoPrimaryKey \in ColumnList
    BY DEF NoPrimaryKey, ColumnList
<1>3. IsMapTo(Without(table.columns, name), Columns, Column)
    BY <1>1, TableRecord, WithoutMap
<1>4. IsTable(left)
    BY <1>1, <1>2, <1>3, TableRecord, MakeTable
<1>5. IsCatalog(OnTable(c, t, left)) /\ OnTable(c, t, left).indexes = c.indexes
    <2> HIDE DEF left
    <2>1. IsCatalog(OnTable(c, t, left))
        BY <1>4, OnTableType
    <2>2. OnTable(c, t, left).indexes = c.indexes
        BY CatalogRecord DEF OnTable
    <2> QED
        BY <2>1, <2>2
<1>6. DropColumn(c, t, name) =
         [OnTable(c, t, left) EXCEPT !.indexes = Restriction(c.indexes, Kept)]
    BY DEF DropColumn
<1>7. IsMapTo(Restriction(c.indexes, Kept), Indexes, CatalogIndex)
    BY CatalogRecord, RestrictMap
<1> HIDE DEF left, Kept
<1>8. DropColumn(c, t, name) =
         [namespaces |-> OnTable(c, t, left).namespaces, tables |-> OnTable(c, t, left).tables,
          indexes |-> Restriction(c.indexes, Kept)]
    BY <1>5, <1>6, ExceptIndexes
<1> QED
    BY <1>5, <1>7, <1>8, CatalogRecord, MakeCatalog

LEMMA DropTableType ==
    ASSUME NEW c, IsCatalog(c), NEW t
    PROVE  IsCatalog(DropTable(c, t))
<1> DEFINE Kept == {i \in DOMAIN c.indexes : c.indexes[i].table # t}
<1>1. AreTables(Without(c.tables, t))
    BY CatalogRecord, WithoutTable
<1>2. IsMapTo(Restriction(c.indexes, Kept), Indexes, CatalogIndex)
    BY CatalogRecord, RestrictMap
<1>3. DropTable(c, t) = [namespaces |-> c.namespaces, tables |-> Without(c.tables, t),
                         indexes |-> Restriction(c.indexes, Kept)]
    <2>1. DropTable(c, t) = [c EXCEPT !.tables = Without(c.tables, t),
                                      !.indexes = Restriction(c.indexes, Kept)]
        BY DEF DropTable
    <2> HIDE DEF Kept
    <2>2. [c EXCEPT !.tables = Without(c.tables, t)] =
             [namespaces |-> c.namespaces, tables |-> Without(c.tables, t),
              indexes |-> c.indexes]
        BY DEF IsCatalog
    <2>3. [[namespaces |-> c.namespaces, tables |-> Without(c.tables, t), indexes |-> c.indexes]
              EXCEPT !.indexes = Restriction(c.indexes, Kept)] =
             [namespaces |-> c.namespaces, tables |-> Without(c.tables, t),
              indexes |-> Restriction(c.indexes, Kept)]
        OBVIOUS
    <2> QED
        BY <2>1, <2>2, <2>3
<1> QED
    BY <1>1, <1>2, <1>3, CatalogRecord, MakeCatalog

-----------------------------------------------------------------------------
(* The statements, one by one.                                             *)

LEMMA TablesOf ==
    ASSUME NEW ts, AreTables(ts)
    PROVE  \A t \in DOMAIN ts : IsTable(ts[t]) /\ t \in Tables
    BY DEF AreTables, IsMap

LEMMA CreateSchemaType ==
    ASSUME NEW c, IsCatalog(c), NEW ns \in Namespaces
    PROVE  IsCatalog([c EXCEPT !.namespaces = @ \cup {ns}])
<1>1. [c EXCEPT !.namespaces = @ \cup {ns}] =
         [namespaces |-> c.namespaces \cup {ns}, tables |-> c.tables, indexes |-> c.indexes]
    BY DEF IsCatalog
<1> QED
    BY <1>1, CatalogRecord, MakeCatalog

LEMMA CreateTableType ==
    ASSUME NEW c, IsCatalog(c), NEW t \in Tables, NEW x, IsTable(x)
    PROVE  IsCatalog([c EXCEPT !.tables = With(@, t, x)])
<1>1. [c EXCEPT !.tables = With(@, t, x)] =
         [namespaces |-> c.namespaces, tables |-> With(c.tables, t, x), indexes |-> c.indexes]
    BY DEF IsCatalog
<1>2. AreTables(With(c.tables, t, x))
    BY CatalogRecord, WithTable
<1> QED
    BY <1>1, <1>2, CatalogRecord, MakeCatalog

LEMMA DropIndexType ==
    ASSUME NEW c, IsCatalog(c), NEW i
    PROVE  IsCatalog([c EXCEPT !.indexes = Without(@, i)])
<1>1. [c EXCEPT !.indexes = Without(@, i)] =
         [namespaces |-> c.namespaces, tables |-> c.tables, indexes |-> Without(c.indexes, i)]
    BY DEF IsCatalog
<1>2. IsMapTo(Without(c.indexes, i), Indexes, CatalogIndex)
    BY CatalogRecord, WithoutMap
<1> QED
    BY <1>1, <1>2, CatalogRecord, MakeCatalog

LEMMA CreateIndexType ==
    ASSUME NEW c, IsCatalog(c), NEW f, IsFiles(f), NEW i \in DOMAIN f.indexes,
           NEW valid \in BOOLEAN
    PROVE  IsCatalog(CreateIndexEffect(c, i, f, valid))
<1> DEFINE index == f.indexes[i]
           built == [table |-> index.table, unique |-> index.unique, method |-> index.method,
                     columns |-> index.columns, valid |-> valid]
<1>1. i \in Indexes /\ index \in Index
    BY DEF IsFiles, IsMapTo
<1>2. built \in CatalogIndex
    BY <1>1 DEF Index, CatalogIndex
<1> HIDE DEF built
<1>3. IsMapTo(With(c.indexes, i, built), Indexes, CatalogIndex)
    BY <1>1, <1>2, CatalogRecord, WithMap
<1>4. CreateIndexEffect(c, i, f, valid) \in {c, [c EXCEPT !.indexes = With(c.indexes, i, built)]}
    BY DEF CreateIndexEffect, built
<1>5. [c EXCEPT !.indexes = With(c.indexes, i, built)] =
         [namespaces |-> c.namespaces, tables |-> c.tables,
          indexes |-> With(c.indexes, i, built)]
    BY ExceptIndexes
<1> QED
    BY <1>3, <1>4, <1>5, CatalogRecord, MakeCatalog

\* A finished build turns an index valid; there may be none of that name.
LEMMA MakeValidType ==
    ASSUME NEW c, IsCatalog(c), NEW i
    PROVE  IsCatalog([c EXCEPT !.indexes[i].valid = TRUE])
<1> DEFINE is == [c.indexes EXCEPT ![i].valid = TRUE]
<1>1. \A j \in DOMAIN c.indexes : [c.indexes[j] EXCEPT !.valid = TRUE] \in CatalogIndex
    <2> TAKE j \in DOMAIN c.indexes
    <2>1. c.indexes[j] \in CatalogIndex
        BY CatalogRecord DEF IsMapTo
    <2> QED
        BY <2>1 DEF CatalogIndex
<1>2. IsMapTo(is, Indexes, CatalogIndex)
    BY <1>1, CatalogRecord DEF IsMapTo
<1>3. [c EXCEPT !.indexes[i].valid = TRUE] = [c EXCEPT !.indexes = is]
    OBVIOUS
<1> HIDE DEF is
<1>4. [c EXCEPT !.indexes = is] =
         [namespaces |-> c.namespaces, tables |-> c.tables, indexes |-> is]
    BY ExceptIndexes
<1> QED
    BY <1>2, <1>3, <1>4, CatalogRecord, MakeCatalog

\* Replacing one part of a table.
LEMMA ReplaceColumns ==
    ASSUME NEW t, IsTable(t), NEW cs, IsMapTo(cs, Columns, Column)
    PROVE  IsTable([t EXCEPT !.columns = cs])
<1>1. [t EXCEPT !.columns = cs] =
         [columns |-> cs, primaryKey |-> t.primaryKey, uniques |-> t.uniques,
          foreignKeys |-> t.foreignKeys, removed |-> t.removed]
    BY DEF IsTable
<1> QED
    BY <1>1, TableRecord, MakeTable

LEMMA ReplaceUniques ==
    ASSUME NEW t, IsTable(t), NEW us \in SUBSET Unique
    PROVE  IsTable([t EXCEPT !.uniques = us])
<1>1. [t EXCEPT !.uniques = us] =
         [columns |-> t.columns, primaryKey |-> t.primaryKey, uniques |-> us,
          foreignKeys |-> t.foreignKeys, removed |-> t.removed]
    BY DEF IsTable
<1> QED
    BY <1>1, TableRecord, MakeTable

LEMMA ReplaceForeignKeys ==
    ASSUME NEW t, IsTable(t), NEW fks \in SUBSET ForeignKey
    PROVE  IsTable([t EXCEPT !.foreignKeys = fks])
<1>1. [t EXCEPT !.foreignKeys = fks] =
         [columns |-> t.columns, primaryKey |-> t.primaryKey, uniques |-> t.uniques,
          foreignKeys |-> fks, removed |-> t.removed]
    BY DEF IsTable
<1> QED
    BY <1>1, TableRecord, MakeTable

LEMMA DropConstraintType ==
    ASSUME NEW t, IsTable(t), NEW name
    PROVE  IsTable(DropConstraint(t, name))
<1> DEFINE us == {u \in t.uniques : u.name # name}
           fks == {fk \in t.foreignKeys : fk.name # name}
<1>1. us \in SUBSET Unique /\ fks \in SUBSET ForeignKey
    BY TableRecord
<1>2. DropConstraint(t, name) = [t EXCEPT !.uniques = us, !.foreignKeys = fks]
    BY DEF DropConstraint
<1> HIDE DEF us, fks
<1>3. IsTable([t EXCEPT !.uniques = us])
    BY <1>1, ReplaceUniques
<1>4. IsTable([[t EXCEPT !.uniques = us] EXCEPT !.foreignKeys = fks])
    BY <1>1, <1>3, ReplaceForeignKeys
<1> QED
    BY <1>2, <1>4

-----------------------------------------------------------------------------
\* A justified ALTER TABLE that is accepted keeps the catalog a catalog.
LEMMA AlterTableType ==
    ASSUME NEW c, IsCatalog(c), NEW f, IsFiles(f), NEW h, IsSchema(h), NEW m,
           m.kind \in {"add_column", "alter_column", "add_primary_key", "add_unique_key",
                       "add_foreign_key", "drop_column", "drop_unique_key",
                       "drop_foreign_key"},
           m.on \in DOMAIN f.tables, m.on \in DOMAIN h.tables, m.on \in DOMAIN c.tables,
           JustifiedInTable(f, h, m), AlterTableAccepts(c, m, f, h)
    PROVE  IsCatalog(AlterTableEffect(c, m, f, h))
<1> DEFINE t == m.on
           table == c.tables[t]
           want == f.tables[t]
           had == h.tables[t]
<1>1. IsTable(table)
    BY CatalogRecord
<1>2. IsTable(want) /\ IsTable(had)
    BY TablesOf DEF IsFiles, IsSchema
<1>3. /\ IsMapTo(table.columns, Columns, Column)
      /\ IsMapTo(want.columns, Columns, Column)
      /\ IsMapTo(had.columns, Columns, Column)
    BY <1>1, <1>2, TableRecord
<1>4. CASE m.kind = "add_column"
    <2>1. m.name \in DOMAIN want.columns
        BY <1>4 DEF JustifiedInTable
    <2>2. m.name \in Columns /\ want.columns[m.name] \in Column
        BY <1>3, <2>1 DEF IsMapTo
    <2>3. IsTable([table EXCEPT !.columns = With(table.columns, m.name, want.columns[m.name])])
        BY <1>1, <1>3, <2>2, WithMap, ReplaceColumns
    <2>4. AlterTableEffect(c, m, f, h) =
             OnTable(c, t, [table EXCEPT !.columns =
                               With(table.columns, m.name, want.columns[m.name])])
        BY <1>4 DEF AlterTableEffect
    <2> QED
        BY <2>3, <2>4, OnTableType
<1>5. CASE m.kind = "alter_column"
    <2> DEFINE cs == [table.columns EXCEPT ![m.name] =
                         AlteredColumn(@, had.columns[m.name], want.columns[m.name])]
    <2>1. m.name \in DOMAIN want.columns /\ m.name \in DOMAIN had.columns
        BY <1>5 DEF JustifiedInTable
    <2>2. m.name \in DOMAIN table.columns
        BY <1>5 DEF AlterTableAccepts
    <2>3. /\ want.columns[m.name] \in Column /\ had.columns[m.name] \in Column
          /\ table.columns[m.name] \in Column
        BY <1>3, <2>1, <2>2 DEF IsMapTo
    <2>4. AlteredColumn(table.columns[m.name], had.columns[m.name], want.columns[m.name])
             \in Column
        BY <2>3 DEF AlteredColumn, Column
    <2>5. IsMapTo(cs, Columns, Column)
        BY <1>3, <2>4 DEF IsMapTo
    <2>6. AlterTableEffect(c, m, f, h) = OnTable(c, t, [table EXCEPT !.columns = cs])
        BY <1>5 DEF AlterTableEffect
    <2> HIDE DEF cs
    <2> QED
        BY <1>1, <2>5, <2>6, ReplaceColumns, OnTableType
<1>6. CASE m.kind = "add_primary_key"
    <2>1. IsTable(WithPrimaryKey(table, want.primaryKey))
        BY <1>1, <1>2, TableRecord, WithPrimaryKeyType
    <2>2. AlterTableEffect(c, m, f, h) = OnTable(c, t, WithPrimaryKey(table, want.primaryKey))
        BY <1>6 DEF AlterTableEffect
    <2> QED
        BY <2>1, <2>2, OnTableType
<1>7. CASE m.kind = "add_unique_key"
    <2>1. \E u \in want.uniques : u.name = m.name
        BY <1>7 DEF JustifiedInTable
    <2>2. WantedUnique(f, t, m.name) \in want.uniques
        BY <2>1 DEF WantedUnique
    <2>3. table.uniques \cup {WantedUnique(f, t, m.name)} \in SUBSET Unique
        BY <1>1, <1>2, <2>2, TableRecord
    <2>4. AlterTableEffect(c, m, f, h) =
             OnTable(c, t, [table EXCEPT !.uniques =
                               table.uniques \cup {WantedUnique(f, t, m.name)}])
        BY <1>7 DEF AlterTableEffect
    <2> QED
        BY <1>1, <2>3, <2>4, ReplaceUniques, OnTableType
<1>8. CASE m.kind = "add_foreign_key"
    <2>1. \E fk \in want.foreignKeys : fk.name = m.name
        BY <1>8 DEF JustifiedInTable
    <2>2. WantedForeignKey(f, t, m.name) \in want.foreignKeys
        BY <2>1 DEF WantedForeignKey
    <2>3. table.foreignKeys \cup {WantedForeignKey(f, t, m.name)} \in SUBSET ForeignKey
        BY <1>1, <1>2, <2>2, TableRecord
    <2>4. AlterTableEffect(c, m, f, h) =
             OnTable(c, t, [table EXCEPT !.foreignKeys =
                               table.foreignKeys \cup {WantedForeignKey(f, t, m.name)}])
        BY <1>8 DEF AlterTableEffect
    <2> QED
        BY <1>1, <2>3, <2>4, ReplaceForeignKeys, OnTableType
<1>9. CASE m.kind = "drop_column"
    <2>1. AlterTableEffect(c, m, f, h) \in {c, DropColumn(c, t, m.name)}
        BY <1>9 DEF AlterTableEffect
    <2> QED
        BY <2>1, DropColumnType
<1>10. CASE m.kind \in {"drop_unique_key", "drop_foreign_key"}
    <2>1. AlterTableEffect(c, m, f, h) = OnTable(c, t, DropConstraint(table, m.name))
        BY <1>10 DEF AlterTableEffect
    <2> QED
        BY <1>1, <2>1, DropConstraintType, OnTableType
<1> QED
    BY <1>4, <1>5, <1>6, <1>7, <1>8, <1>9, <1>10

\* Whatever justified statement the server accepts, the catalog it leaves is
\* a catalog: named columns, keys and indexes stay typed and on known tables.
THEOREM EffectType ==
    ASSUME NEW c, IsCatalog(c), NEW f, IsFiles(f), NEW h, IsSchema(h),
           NEW m \in Migrations, Justified(f, h, m), Accepts(c, m, f, h)
    PROVE  IsCatalog(Effect(c, m, f, h))
<1>1. CASE m.kind = "create_schema"
    <2>1. m.on \in CollectDesiredNamespaces(f)
        BY <1>1 DEF Justified
    <2>2. m.on \in Namespaces
        BY <2>1, DesiredNamespacesType
    <2> QED
        BY <1>1, <2>2, CreateSchemaType DEF Effect
<1>2. CASE m.kind = "create_table"
    <2>1. m.on \in DOMAIN f.tables
        BY <1>2 DEF Justified
    <2>2. m.on \in Tables /\ IsTable(f.tables[m.on])
        BY <2>1, TablesOf DEF IsFiles
    <2> QED
        BY <1>2, <2>2, StoredType, CreateTableType DEF Effect
<1>3. CASE m.kind = "drop_table"
    BY <1>3, DropTableType DEF Effect
<1>4. CASE m.kind = "create_index"
    <2>1. m.name \in DOMAIN f.indexes
        BY <1>4 DEF Justified
    <2> QED
        BY <1>4, <2>1, CreateIndexType DEF Effect
<1>5. CASE m.kind = "drop_index"
    BY <1>5, DropIndexType DEF Effect
<1>6. CASE m.kind \in {"add_column", "alter_column", "add_primary_key", "add_unique_key",
                       "add_foreign_key", "drop_column", "drop_unique_key",
                       "drop_foreign_key"}
    <2>1. /\ m.on \in DOMAIN f.tables /\ m.on \in DOMAIN h.tables
          /\ JustifiedInTable(f, h, m)
        BY <1>6 DEF Justified
    <2>2. m.on \in DOMAIN c.tables /\ AlterTableAccepts(c, m, f, h)
        BY <1>6 DEF Accepts
    <2>3. Effect(c, m, f, h) = AlterTableEffect(c, m, f, h)
        BY <1>6 DEF Effect
    <2> QED
        BY <1>6, <2>1, <2>2, <2>3, AlterTableType
<1> QED
    BY <1>1, <1>2, <1>3, <1>4, <1>5, <1>6 DEF Migrations, Kinds

-----------------------------------------------------------------------------
(* What a statement may take away.                                         *)

\* The names in U belong to UNIQUE constraints, the others to foreign keys.
KindsApart(U, tables) ==
    \A t \in DOMAIN tables :
        /\ \A u \in tables[t].uniques : u.name \in U
        /\ \A fk \in tables[t].foreignKeys : fk.name \notin U

Sound(U, c) ==
    /\ KindsApart(U, c.tables)
    /\ \A t \in DOMAIN c.tables : NamesApart(c.tables[t])
    /\ \A i \in DOMAIN c.indexes : c.indexes[i].table \in DOMAIN c.tables

\* Of what the files do not want, table "new" has nothing that "old" had not.
TableEvolves(want, old, new) ==
    /\ \A x \in DOMAIN new.columns \ DOMAIN want.columns :
          x \in DOMAIN old.columns /\ new.columns[x].type = old.columns[x].type
    /\ new.uniques \ want.uniques \subseteq old.uniques
    /\ new.foreignKeys \ want.foreignKeys \subseteq old.foreignKeys

Asked(want, new) ==
    /\ DOMAIN new.columns \subseteq DOMAIN want.columns
    /\ new.uniques \subseteq want.uniques
    /\ new.foreignKeys \subseteq want.foreignKeys

\* The same for the whole catalog.
Evolves(f, c, d) ==
    /\ \A t \in DOMAIN d.tables \ DOMAIN f.tables :
          t \in DOMAIN c.tables /\ d.tables[t] = c.tables[t]
    /\ \A t \in DOMAIN d.tables \cap DOMAIN f.tables :
          IF t \in DOMAIN c.tables
          THEN TableEvolves(f.tables[t], c.tables[t], d.tables[t])
          ELSE Asked(f.tables[t], d.tables[t])
    /\ \A i \in DOMAIN d.indexes \ DOMAIN f.indexes :
          i \in DOMAIN c.indexes /\ SameIndex(d.indexes[i], c.indexes[i])

\* Where both still have a surplus object, what was read is what is there.
TableReflects(want, had, now) ==
    /\ \A x \in (DOMAIN had.columns \cap DOMAIN now.columns) \ DOMAIN want.columns :
          had.columns[x].type = now.columns[x].type
    /\ \A v \in had.uniques, u \in now.uniques \ want.uniques : v.name = u.name => v = u
    /\ \A v \in had.foreignKeys, u \in now.foreignKeys \ want.foreignKeys :
          v.name = u.name => v = u

Reflects(f, read, c) ==
    /\ \A t \in DOMAIN read.tables \cap DOMAIN c.tables :
          IF t \in DOMAIN f.tables
          THEN TableReflects(f.tables[t], read.tables[t], c.tables[t])
          ELSE read.tables[t].columns = c.tables[t].columns
    /\ \A i \in (DOMAIN read.indexes \cap DOMAIN c.indexes) \ DOMAIN f.indexes :
          SameIndex(read.indexes[i], c.indexes[i])

ReadsApart(U, read) ==
    /\ KindsApart(U, read.tables)
    /\ \A t \in DOMAIN read.tables : NamesApart(read.tables[t])

LEMMA EvolvesReflexive ==
    ASSUME NEW f, NEW c
    PROVE  Evolves(f, c, c)
    BY DEF Evolves, TableEvolves, SameIndex

LEMMA TableEvolvesOn ==
    ASSUME NEW want, NEW a, NEW b, NEW c, TableEvolves(want, a, b), TableEvolves(want, b, c)
    PROVE  TableEvolves(want, a, c)
    BY DEF TableEvolves

LEMMA AskedEvolves ==
    ASSUME NEW want, NEW a, NEW b, Asked(want, b)
    PROVE  TableEvolves(want, a, b)
    BY DEF TableEvolves, Asked

LEMMA AskedEvolvesOn ==
    ASSUME NEW want, NEW a, NEW b, Asked(want, a), TableEvolves(want, a, b)
    PROVE  Asked(want, b)
    BY DEF TableEvolves, Asked

LEMMA EvolvesOn ==
    ASSUME NEW f, NEW c, NEW w, NEW d, Evolves(f, c, w), Evolves(f, w, d)
    PROVE  Evolves(f, c, d)
<1>1. \A t \in DOMAIN d.tables \ DOMAIN f.tables :
          t \in DOMAIN c.tables /\ d.tables[t] = c.tables[t]
    BY DEF Evolves
<1>2. ASSUME NEW t \in DOMAIN d.tables, t \in DOMAIN f.tables, t \in DOMAIN c.tables
      PROVE  TableEvolves(f.tables[t], c.tables[t], d.tables[t])
    <2>1. CASE t \in DOMAIN w.tables
        BY <1>2, <2>1, TableEvolvesOn DEF Evolves
    <2>2. CASE t \notin DOMAIN w.tables
        BY <1>2, <2>2, AskedEvolves DEF Evolves
    <2> QED
        BY <2>1, <2>2
<1>3. ASSUME NEW t \in DOMAIN d.tables, t \in DOMAIN f.tables, t \notin DOMAIN c.tables
      PROVE  Asked(f.tables[t], d.tables[t])
    <2>1. CASE t \in DOMAIN w.tables
        BY <1>3, <2>1, AskedEvolvesOn DEF Evolves
    <2>2. CASE t \notin DOMAIN w.tables
        BY <1>3, <2>2 DEF Evolves
    <2> QED
        BY <2>1, <2>2
<1>4. \A i \in DOMAIN d.indexes \ DOMAIN f.indexes :
          i \in DOMAIN c.indexes /\ SameIndex(d.indexes[i], c.indexes[i])
    BY DEF Evolves, SameIndex
<1> QED
    BY <1>1, <1>2, <1>3, <1>4 DEF Evolves

\* What was read goes on to tell the truth about the surplus that is left.
LEMMA ReflectsOn ==
    ASSUME NEW f, NEW h, NEW c, NEW d, Reflects(f, h, c), Evolves(f, c, d)
    PROVE  Reflects(f, h, d)
<1>1. ASSUME NEW t \in DOMAIN h.tables, t \in DOMAIN d.tables, t \notin DOMAIN f.tables
      PROVE  h.tables[t].columns = d.tables[t].columns
    BY <1>1 DEF Reflects, Evolves
<1>2. ASSUME NEW t \in DOMAIN h.tables, t \in DOMAIN d.tables, t \in DOMAIN f.tables
      PROVE  TableReflects(f.tables[t], h.tables[t], d.tables[t])
    <2>1. CASE t \in DOMAIN c.tables
        <3>1. /\ TableReflects(f.tables[t], h.tables[t], c.tables[t])
              /\ TableEvolves(f.tables[t], c.tables[t], d.tables[t])
            BY <1>2, <2>1 DEF Reflects, Evolves
        <3> QED
            BY <3>1 DEF TableReflects, TableEvolves
    <2>2. CASE t \notin DOMAIN c.tables
        BY <1>2, <2>2 DEF Evolves, Asked, TableReflects
    <2> QED
        BY <2>1, <2>2
<1>3. \A i \in (DOMAIN h.indexes \cap DOMAIN d.indexes) \ DOMAIN f.indexes :
          SameIndex(h.indexes[i], d.indexes[i])
    BY DEF Reflects, Evolves, SameIndex
<1> QED
    BY <1>1, <1>2, <1>3 DEF Reflects

-----------------------------------------------------------------------------
(* Statements that add.                                                    *)

TableGrows(want, old, new) ==
    /\ DOMAIN old.columns \subseteq DOMAIN new.columns
    /\ DOMAIN new.columns \subseteq DOMAIN old.columns \cup DOMAIN want.columns
    /\ \A x \in DOMAIN old.columns \ DOMAIN want.columns :
          new.columns[x].type = old.columns[x].type
    /\ old.primaryKey # new.primaryKey => old.primaryKey = NoPrimaryKey
    /\ old.uniques \subseteq new.uniques
    /\ new.uniques \subseteq old.uniques \cup want.uniques
    /\ old.foreignKeys \subseteq new.foreignKeys
    /\ new.foreignKeys \subseteq old.foreignKeys \cup want.foreignKeys
    /\ NamesApart(old) => NamesApart(new)

Grows(f, c, d) ==
    /\ c.namespaces \subseteq d.namespaces
    /\ d.indexes = c.indexes
    /\ DOMAIN c.tables \subseteq DOMAIN d.tables
    /\ \A t \in DOMAIN c.tables :
          \/ d.tables[t] = c.tables[t]
          \/ t \in DOMAIN f.tables /\ TableGrows(f.tables[t], c.tables[t], d.tables[t])
    /\ \A t \in DOMAIN d.tables \ DOMAIN c.tables :
          /\ t \in DOMAIN f.tables
          /\ Asked(f.tables[t], d.tables[t]) /\ NamesApart(d.tables[t])

LEMMA GrowsEvolves ==
    ASSUME NEW f, NEW c, NEW d, Grows(f, c, d)
    PROVE  Evolves(f, c, d)
<1>1. ASSUME NEW t \in DOMAIN d.tables, t \in DOMAIN f.tables, t \in DOMAIN c.tables
      PROVE  TableEvolves(f.tables[t], c.tables[t], d.tables[t])
    <2>1. CASE d.tables[t] = c.tables[t]
        BY <2>1 DEF TableEvolves
    <2>2. CASE TableGrows(f.tables[t], c.tables[t], d.tables[t])
        BY <2>2 DEF TableEvolves, TableGrows
    <2> QED
        BY <1>1, <2>1, <2>2 DEF Grows
<1> QED
    BY <1>1 DEF Grows, Evolves, SameIndex

LEMMA GrowsSound ==
    ASSUME NEW U, NEW f, KindsApart(U, f.tables), NEW c, Sound(U, c), NEW d, Grows(f, c, d)
    PROVE  Sound(U, d)
<1>1. ASSUME NEW t \in DOMAIN d.tables
      PROVE  /\ \A u \in d.tables[t].uniques : u.name \in U
             /\ \A fk \in d.tables[t].foreignKeys : fk.name \notin U
             /\ NamesApart(d.tables[t])
    <2>1. CASE t \notin DOMAIN c.tables
        BY <2>1 DEF Grows, Asked, KindsApart
    <2>2. CASE t \in DOMAIN c.tables
        BY <2>2 DEF Grows, TableGrows, KindsApart, Sound
    <2> QED
        BY <2>1, <2>2
<1> QED
    BY <1>1 DEF Sound, KindsApart, Grows

-----------------------------------------------------------------------------
(* Statements that take.                                                   *)

IndexesOnlyGo(c, d) ==
    /\ DOMAIN d.indexes \subseteq DOMAIN c.indexes
    /\ \A i \in DOMAIN d.indexes : d.indexes[i] = c.indexes[i]

TableShrinks(old, new) ==
    /\ DOMAIN new.columns \subseteq DOMAIN old.columns
    /\ \A x \in DOMAIN new.columns : new.columns[x] = old.columns[x]
    /\ new.uniques \subseteq old.uniques
    /\ new.foreignKeys \subseteq old.foreignKeys

Shrinks(f, c, d) ==
    /\ d.namespaces = c.namespaces
    /\ IndexesOnlyGo(c, d)
    /\ DOMAIN d.tables \subseteq DOMAIN c.tables
    /\ \A t \in DOMAIN d.tables :
          \/ d.tables[t] = c.tables[t]
          \/ t \in DOMAIN f.tables /\ TableShrinks(c.tables[t], d.tables[t])
    /\ \A i \in DOMAIN d.indexes :
          c.indexes[i].table \in DOMAIN c.tables => c.indexes[i].table \in DOMAIN d.tables

LEMMA ShrinksEvolves ==
    ASSUME NEW f, NEW c, NEW d, Shrinks(f, c, d)
    PROVE  Evolves(f, c, d)
<1>1. ASSUME NEW t \in DOMAIN d.tables, t \in DOMAIN f.tables
      PROVE  TableEvolves(f.tables[t], c.tables[t], d.tables[t])
    <2>1. CASE d.tables[t] = c.tables[t]
        BY <2>1 DEF TableEvolves
    <2>2. CASE TableShrinks(c.tables[t], d.tables[t])
        BY <2>2 DEF TableEvolves, TableShrinks
    <2> QED
        BY <1>1, <2>1, <2>2 DEF Shrinks
<1> QED
    BY <1>1 DEF Shrinks, IndexesOnlyGo, Evolves, SameIndex

LEMMA ShrinksSound ==
    ASSUME NEW U, NEW f, NEW c, Sound(U, c), NEW d, Shrinks(f, c, d)
    PROVE  Sound(U, d)
<1>1. ASSUME NEW t \in DOMAIN d.tables
      PROVE  /\ \A u \in d.tables[t].uniques : u.name \in U
             /\ \A fk \in d.tables[t].foreignKeys : fk.name \notin U
             /\ NamesApart(d.tables[t])
    <2>1. /\ \A u \in c.tables[t].uniques : u.name \in U
          /\ \A fk \in c.tables[t].foreignKeys : fk.name \notin U
          /\ NamesApart(c.tables[t])
        BY DEF Sound, KindsApart, Shrinks
    <2>2. d.tables[t].uniques \subseteq c.tables[t].uniques
        BY DEF Shrinks, TableShrinks
    <2>3. d.tables[t].foreignKeys \subseteq c.tables[t].foreignKeys
        BY DEF Shrinks, TableShrinks
    <2> QED
        BY <2>1, <2>2, <2>3 DEF NamesApart
<1>2. \A i \in DOMAIN d.indexes : d.indexes[i].table \in DOMAIN d.tables
    BY DEF Sound, Shrinks, IndexesOnlyGo
<1> QED
    BY <1>1, <1>2 DEF Sound, KindsApart

-----------------------------------------------------------------------------
(***************************************************************************)
(* Losses add up.  c is the catalog the transaction began with, w and d    *)
(* the catalog before and after one of its statements: what of c the       *)
(* statement takes has to be given away by the files.                      *)
(***************************************************************************)
TableGives(f, c, w, d, t) ==
    /\ \A x \in LostColumns(w, d, t) :
          /\ t \in DOMAIN f.tables /\ x \notin DOMAIN f.tables[t].columns
          /\ x \in DOMAIN c.tables[t].columns => MayLoseColumn(f, c, t, x)
    /\ w.tables[t].primaryKey # d.tables[t].primaryKey =>
          \/ w.tables[t].primaryKey = NoPrimaryKey
          \/ \E x \in LostColumns(w, d, t) : x \in Elements(w.tables[t].primaryKey)
    /\ \A u \in (c.tables[t].uniques \cap w.tables[t].uniques) \ d.tables[t].uniques :
          MayLoseKey(u.columns, LostColumns(w, d, t), f, LAMBDA g : CoversUnique(g, u))
    /\ \A fk \in (c.tables[t].foreignKeys \cap w.tables[t].foreignKeys)
                     \ d.tables[t].foreignKeys :
          MayLoseKey(fk.columns, LostColumns(w, d, t), f, LAMBDA g : CoversForeignKey(g, fk))

Gives(f, c, w, d) ==
    /\ w.namespaces \subseteq d.namespaces
    /\ \A t \in DOMAIN c.tables \cap DOMAIN w.tables :
          IF t \in DOMAIN d.tables THEN TableGives(f, c, w, d, t)
          ELSE MayLoseTable(f, c, t)
    /\ \A i \in DOMAIN w.indexes \ DOMAIN d.indexes :
          LET index == w.indexes[i]
          IN  \/ index.table \notin DOMAIN d.tables
              \/ \E x \in LostColumns(w, d, index.table) : x \in Elements(index.columns)

\* A column of c that goes before or in this statement is lost, and given away.
LEMMA ColumnsAddUp ==
    ASSUME NEW f, NEW c, NEW w, NEW d, NEW t, t \in DOMAIN c.tables, t \in DOMAIN w.tables,
           t \in DOMAIN d.tables, KeepsTable(f, c, w, t), TableGives(f, c, w, d, t),
           Evolves(f, c, w), Evolves(f, w, d)
    PROVE  /\ LostColumns(c, w, t) \subseteq LostColumns(c, d, t)
           /\ LostColumns(w, d, t) \subseteq LostColumns(c, d, t)
           /\ \A x \in LostColumns(c, d, t) : MayLoseColumn(f, c, t, x)
<1>1. \A x \in LostColumns(c, w, t) : MayLoseColumn(f, c, t, x)
    BY DEF KeepsTable
<1>2. ASSUME NEW x \in LostColumns(c, w, t)
      PROVE  x \in LostColumns(c, d, t)
    <2>1. t \in DOMAIN f.tables /\ x \notin DOMAIN f.tables[t].columns
        BY <1>1 DEF MayLoseColumn
    <2>2. x \notin DOMAIN w.tables[t].columns /\ x \in DOMAIN c.tables[t].columns
        BY DEF LostColumns
    <2>3. TableEvolves(f.tables[t], w.tables[t], d.tables[t])
        BY <2>1 DEF Evolves
    <2> QED
        BY <2>1, <2>2, <2>3 DEF TableEvolves, LostColumns
<1>3. ASSUME NEW x \in LostColumns(w, d, t)
      PROVE  x \in LostColumns(c, d, t) /\ MayLoseColumn(f, c, t, x)
    <2>1. t \in DOMAIN f.tables /\ x \notin DOMAIN f.tables[t].columns
        BY DEF TableGives
    <2>2. x \in DOMAIN w.tables[t].columns /\ x \notin DOMAIN d.tables[t].columns
        BY DEF LostColumns
    <2>3. TableEvolves(f.tables[t], c.tables[t], w.tables[t])
        BY <2>1 DEF Evolves
    <2>4. x \in DOMAIN c.tables[t].columns
        BY <2>1, <2>2, <2>3 DEF TableEvolves
    <2> QED
        BY <2>2, <2>4 DEF LostColumns, TableGives
<1>4. \A x \in LostColumns(c, d, t) : x \in LostColumns(c, w, t) \/ x \in LostColumns(w, d, t)
    BY DEF LostColumns
<1> QED
    BY <1>1, <1>2, <1>3, <1>4

LEMMA TableAddsUp ==
    ASSUME NEW f, NEW c, NEW w, NEW d, NEW t, t \in DOMAIN c.tables, t \in DOMAIN w.tables,
           t \in DOMAIN d.tables, KeepsTable(f, c, w, t), TableGives(f, c, w, d, t),
           Evolves(f, c, w), Evolves(f, w, d)
    PROVE  KeepsTable(f, c, d, t)
<1> DEFINE old == c.tables[t]
           mid == w.tables[t]
           new == d.tables[t]
           lost == LostColumns(c, d, t)
<1>1. /\ LostColumns(c, w, t) \subseteq lost /\ LostColumns(w, d, t) \subseteq lost
      /\ \A x \in lost : MayLoseColumn(f, c, t, x)
    BY ColumnsAddUp
<1>2. ASSUME old.primaryKey # new.primaryKey
      PROVE  \/ old.primaryKey = NoPrimaryKey
             \/ \E x \in lost : x \in Elements(old.primaryKey)
    <2>1. CASE old.primaryKey = mid.primaryKey
        BY <1>1, <1>2, <2>1 DEF TableGives
    <2>2. CASE old.primaryKey # mid.primaryKey
        BY <1>1, <2>2 DEF KeepsTable
    <2> QED
        BY <2>1, <2>2
<1>3. ASSUME NEW u \in old.uniques \ new.uniques
      PROVE  \/ \E x \in lost : x \in Elements(u.columns)
             \/ \E g \in f.groups : g.policy = "DROP" /\ CoversUnique(g, u)
    <2>1. CASE u \in mid.uniques
        BY <1>1, <1>3, <2>1 DEF TableGives, MayLoseKey, Drops
    <2>2. CASE u \notin mid.uniques
        BY <1>1, <1>3, <2>2 DEF KeepsTable, MayLoseKey, Drops
    <2> QED
        BY <2>1, <2>2
<1>4. ASSUME NEW fk \in old.foreignKeys \ new.foreignKeys
      PROVE  \/ \E x \in lost : x \in Elements(fk.columns)
             \/ \E g \in f.groups : g.policy = "DROP" /\ CoversForeignKey(g, fk)
    <2>1. CASE fk \in mid.foreignKeys
        BY <1>1, <1>4, <2>1 DEF TableGives, MayLoseKey, Drops
    <2>2. CASE fk \notin mid.foreignKeys
        BY <1>1, <1>4, <2>2 DEF KeepsTable, MayLoseKey, Drops
    <2> QED
        BY <2>1, <2>2
<1> QED
    BY <1>1, <1>2, <1>3, <1>4 DEF KeepsTable, MayLoseKey, Drops

\* A table that is lost stays lost: what files give away they do not want.
LEMMA LostTableStaysLost ==
    ASSUME NEW f, NEW c, NEW w, NEW d, OnlyApprovedLoss(f, c, w), Evolves(f, w, d),
           NEW t \in DOMAIN c.tables, t \notin DOMAIN w.tables
    PROVE  MayLoseTable(f, c, t) /\ t \notin DOMAIN d.tables
<1>1. MayLoseTable(f, c, t)
    BY DEF OnlyApprovedLoss
<1>2. t \notin DOMAIN f.tables
    BY <1>1 DEF MayLoseTable
<1> QED
    BY <1>1, <1>2 DEF Evolves

LEMMA IndexAddsUp ==
    ASSUME NEW f, NEW U, NEW c, Sound(U, c), NEW w, NEW d, OnlyApprovedLoss(f, c, w),
           IndexesOnlyGo(c, w), Evolves(f, c, w), Evolves(f, w, d), Gives(f, c, w, d),
           NEW i \in DOMAIN c.indexes, i \notin DOMAIN d.indexes
    PROVE  KeepsIndex(f, c, d, i)
<1> DEFINE index == c.indexes[i]
           t == index.table
<1>1. t \in DOMAIN c.tables
    BY DEF Sound
<1>2. CASE t \notin DOMAIN d.tables
    BY <1>2 DEF KeepsIndex
<1>3. CASE t \in DOMAIN d.tables
    <2>1. t \in DOMAIN w.tables
        BY <1>1, <1>3, LostTableStaysLost
    <2>2. KeepsTable(f, c, w, t) /\ TableGives(f, c, w, d, t)
        BY <1>1, <1>3, <2>1 DEF OnlyApprovedLoss, Gives
    <2>3. /\ LostColumns(c, w, t) \subseteq LostColumns(c, d, t)
          /\ LostColumns(w, d, t) \subseteq LostColumns(c, d, t)
        BY <1>1, <1>3, <2>1, <2>2, ColumnsAddUp
    <2>4. CASE i \in DOMAIN w.indexes
        <3>1. w.indexes[i] = index
            BY <2>4 DEF IndexesOnlyGo
        <3>2. \E x \in LostColumns(w, d, t) : x \in Elements(index.columns)
            BY <1>3, <2>4, <3>1 DEF Gives
        <3> QED
            BY <2>3, <3>2 DEF KeepsIndex, MayLoseKey
    <2>5. CASE i \notin DOMAIN w.indexes
        <3>1. KeepsIndex(f, c, w, i)
            BY <2>5 DEF OnlyApprovedLoss
        <3>2. \/ \E x \in LostColumns(c, w, t) : x \in Elements(index.columns)
              \/ \E g \in f.groups : g.policy = "DROP" /\ CoversIndex(g, i, index)
            BY <2>1, <3>1 DEF KeepsIndex, MayLoseKey, Drops
        <3> QED
            BY <2>3, <3>2 DEF KeepsIndex, MayLoseKey, Drops
    <2> QED
        BY <2>4, <2>5
<1> QED
    BY <1>2, <1>3

\* What was lost before the statement and what it takes is lost after it.
LEMMA LossAddsUp ==
    ASSUME NEW f, NEW U, NEW c, Sound(U, c), NEW w, NEW d, OnlyApprovedLoss(f, c, w),
           IndexesOnlyGo(c, w), Evolves(f, c, w), Evolves(f, w, d), Gives(f, c, w, d)
    PROVE  OnlyApprovedLoss(f, c, d)
<1>1. c.namespaces \subseteq d.namespaces
    BY DEF OnlyApprovedLoss, Gives
<1>2. ASSUME NEW t \in DOMAIN c.tables, t \in DOMAIN d.tables
      PROVE  KeepsTable(f, c, d, t)
    <2>1. t \in DOMAIN w.tables
        BY <1>2, LostTableStaysLost
    <2>2. KeepsTable(f, c, w, t) /\ TableGives(f, c, w, d, t)
        BY <1>2, <2>1 DEF OnlyApprovedLoss, Gives
    <2> QED
        BY <1>2, <2>1, <2>2, TableAddsUp
<1>3. ASSUME NEW t \in DOMAIN c.tables, t \notin DOMAIN d.tables
      PROVE  MayLoseTable(f, c, t)
    BY <1>3 DEF OnlyApprovedLoss, Gives
<1>4. ASSUME NEW i \in DOMAIN c.indexes \ DOMAIN d.indexes
      PROVE  KeepsIndex(f, c, d, i)
    BY IndexAddsUp
<1> QED
    BY <1>1, <1>2, <1>3, <1>4 DEF OnlyApprovedLoss

\* A statement that adds takes nothing.
LEMMA GrowsGives ==
    ASSUME NEW f, NEW c, NEW w, NEW d, Grows(f, w, d)
    PROVE  Gives(f, c, w, d)
<1>1. ASSUME NEW t \in DOMAIN c.tables \cap DOMAIN w.tables
      PROVE  t \in DOMAIN d.tables /\ TableGives(f, c, w, d, t)
    <2>1. t \in DOMAIN d.tables
        BY DEF Grows
    <2>2. LostColumns(w, d, t) = {}
        BY DEF Grows, TableGrows, LostColumns
    <2>3. w.tables[t].primaryKey # d.tables[t].primaryKey =>
              w.tables[t].primaryKey = NoPrimaryKey
        BY DEF Grows, TableGrows
    <2>4. /\ w.tables[t].uniques \subseteq d.tables[t].uniques
          /\ w.tables[t].foreignKeys \subseteq d.tables[t].foreignKeys
        BY DEF Grows, TableGrows
    <2> QED
        BY <2>1, <2>2, <2>3, <2>4 DEF TableGives
<1> QED
    BY <1>1 DEF Grows, Gives

-----------------------------------------------------------------------------
(* What the statements do, part by part.                                   *)

LEMMA OnTableParts ==
    ASSUME NEW c, IsCatalog(c), NEW t \in DOMAIN c.tables, NEW x
    PROVE  /\ OnTable(c, t, x).namespaces = c.namespaces
           /\ OnTable(c, t, x).indexes = c.indexes
           /\ DOMAIN OnTable(c, t, x).tables = DOMAIN c.tables
           /\ OnTable(c, t, x).tables[t] = x
           /\ \A s \in DOMAIN c.tables : s # t => OnTable(c, t, x).tables[s] = c.tables[s]
<1>1. OnTable(c, t, x) = [namespaces |-> c.namespaces,
                          tables |-> [c.tables EXCEPT ![t] = x], indexes |-> c.indexes]
    BY CatalogRecord DEF OnTable
<1>2. \A s \in DOMAIN c.tables : [c.tables EXCEPT ![t] = x][s] = IF s = t THEN x ELSE c.tables[s]
    BY CatalogRecord
<1>3. DOMAIN [c.tables EXCEPT ![t] = x] = DOMAIN c.tables
    OBVIOUS
<1> QED
    BY <1>1, <1>2, <1>3

LEMMA WithPrimaryKeyParts ==
    ASSUME NEW t, IsTable(t), NEW key
    PROVE  LET w == WithPrimaryKey(t, key)
           IN  /\ DOMAIN w.columns = DOMAIN t.columns
               /\ \A x \in DOMAIN t.columns : w.columns[x].type = t.columns[x].type
               /\ w.primaryKey = key /\ w.uniques = t.uniques /\ w.foreignKeys = t.foreignKeys
<1>1. WithPrimaryKey(t, key) =
         [columns |-> NotNull(t.columns, key), primaryKey |-> key, uniques |-> t.uniques,
          foreignKeys |-> t.foreignKeys, removed |-> t.removed]
    BY ExceptPrimaryKey DEF WithPrimaryKey
<1>2. DOMAIN NotNull(t.columns, key) = DOMAIN t.columns
    BY DEF NotNull
<1>3. ASSUME NEW x \in DOMAIN t.columns
      PROVE  NotNull(t.columns, key)[x].type = t.columns[x].type
    <2>1. t.columns[x] \in Column
        BY TableRecord DEF IsMapTo
    <2>2. [t.columns[x] EXCEPT !.nullable = FALSE].type = t.columns[x].type
        BY <2>1 DEF Column
    <2> QED
        BY <2>2 DEF NotNull
<1> QED
    BY <1>1, <1>2, <1>3

LEMMA StoredParts ==
    ASSUME NEW t, IsTable(t)
    PROVE  /\ DOMAIN Stored(t).columns = DOMAIN t.columns
           /\ Stored(t).uniques = t.uniques
           /\ Stored(t).foreignKeys = t.foreignKeys
<1> DEFINE w == WithPrimaryKey(t, t.primaryKey)
<1>1. IsTable(w)
    BY TableRecord, WithPrimaryKeyType
<1>2. Stored(t) = [w EXCEPT !.removed = << >>]
    BY DEF Stored
<1>3. /\ DOMAIN w.columns = DOMAIN t.columns /\ w.uniques = t.uniques
      /\ w.foreignKeys = t.foreignKeys
    BY WithPrimaryKeyParts
<1> HIDE DEF w
<1>4. Stored(t) = [columns |-> w.columns, primaryKey |-> w.primaryKey, uniques |-> w.uniques,
                   foreignKeys |-> w.foreignKeys, removed |-> << >>]
    BY <1>1, <1>2, ExceptRemoved
<1> QED
    BY <1>3, <1>4

\* An ALTER TABLE that lets its table grow lets the catalog grow.
LEMMA OnTableGrows ==
    ASSUME NEW f, NEW c, IsCatalog(c), NEW t \in DOMAIN c.tables, t \in DOMAIN f.tables,
           NEW x, TableGrows(f.tables[t], c.tables[t], x)
    PROVE  Grows(f, c, OnTable(c, t, x))
<1> DEFINE d == OnTable(c, t, x)
<1>1. /\ d.namespaces = c.namespaces /\ d.indexes = c.indexes
      /\ DOMAIN d.tables = DOMAIN c.tables /\ d.tables[t] = x
      /\ \A s \in DOMAIN c.tables : s # t => d.tables[s] = c.tables[s]
    BY OnTableParts
<1> HIDE DEF d
<1>2. Grows(f, c, d)
    BY <1>1 DEF Grows
<1> QED
    BY <1>2 DEF d

Adding == {"create_schema", "create_table", "add_column", "alter_column",
           "add_primary_key", "add_unique_key", "add_foreign_key"}

LEMMA CreateSchemaGrows ==
    ASSUME NEW c, IsCatalog(c), NEW f, NEW h, NEW m, m.kind = "create_schema"
    PROVE  Grows(f, c, Effect(c, m, f, h))
<1>1. Effect(c, m, f, h) = [c EXCEPT !.namespaces = @ \cup {m.on}]
    BY DEF Effect
<1>2. Effect(c, m, f, h) = [namespaces |-> c.namespaces \cup {m.on}, tables |-> c.tables,
                            indexes |-> c.indexes]
    BY <1>1 DEF IsCatalog
<1> QED
    BY <1>2 DEF Grows

LEMMA CreateTableGrows ==
    ASSUME NEW c, IsCatalog(c), NEW f, IsFiles(f), NEW h, NEW m, m.kind = "create_table",
           Justified(f, h, m), Accepts(c, m, f, h)
    PROVE  Grows(f, c, Effect(c, m, f, h))
<1> DEFINE t == m.on
           x == Stored(f.tables[t])
<1>1. t \in DOMAIN f.tables
    BY DEF Justified
<1>2. t \notin DOMAIN c.tables /\ NamesApart(f.tables[t])
    BY DEF Accepts, CreateTableAccepted
<1>3. IsTable(f.tables[t])
    BY <1>1, TablesOf DEF IsFiles
<1>4. /\ DOMAIN x.columns = DOMAIN f.tables[t].columns
      /\ x.uniques = f.tables[t].uniques /\ x.foreignKeys = f.tables[t].foreignKeys
    BY <1>3, StoredParts
<1>5. Asked(f.tables[t], x) /\ NamesApart(x)
    BY <1>2, <1>4 DEF Asked, NamesApart
<1>6. Effect(c, m, f, h) = [c EXCEPT !.tables = With(@, t, x)]
    BY DEF Effect
<1> HIDE DEF x
<1>7. Effect(c, m, f, h) = [namespaces |-> c.namespaces, tables |-> With(c.tables, t, x),
                            indexes |-> c.indexes]
    BY <1>6 DEF IsCatalog
<1>8. /\ DOMAIN With(c.tables, t, x) = DOMAIN c.tables \cup {t}
      /\ With(c.tables, t, x)[t] = x
      /\ \A s \in DOMAIN c.tables : With(c.tables, t, x)[s] = c.tables[s]
    BY <1>2 DEF With
<1> QED
    BY <1>1, <1>2, <1>5, <1>7, <1>8 DEF Grows

LEMMA AddColumnGrows ==
    ASSUME NEW t, IsTable(t), NEW want, NEW x \in DOMAIN want.columns, NEW y
    PROVE  TableGrows(want, t, [t EXCEPT !.columns = With(@, x, y)])
<1>1. [t EXCEPT !.columns = With(@, x, y)] =
         [columns |-> With(t.columns, x, y), primaryKey |-> t.primaryKey,
          uniques |-> t.uniques, foreignKeys |-> t.foreignKeys, removed |-> t.removed]
    BY DEF IsTable
<1>2. /\ DOMAIN With(t.columns, x, y) = DOMAIN t.columns \cup {x}
      /\ \A z \in DOMAIN t.columns : z # x => With(t.columns, x, y)[z] = t.columns[z]
    BY DEF With
<1> QED
    BY <1>1, <1>2 DEF TableGrows, NamesApart

LEMMA AlterColumnGrows ==
    ASSUME NEW t, IsTable(t), NEW want, NEW x \in DOMAIN want.columns, NEW y
    PROVE  TableGrows(want, t, [t EXCEPT !.columns[x] = y])
<1> DEFINE cs == [t.columns EXCEPT ![x] = y]
<1>1. [t EXCEPT !.columns[x] = y] = [t EXCEPT !.columns = cs]
    OBVIOUS
<1>2. DOMAIN cs = DOMAIN t.columns
    OBVIOUS
<1>3. \A z \in DOMAIN t.columns : z # x => cs[z] = t.columns[z]
    BY TableRecord DEF IsMapTo
<1> HIDE DEF cs
<1>4. [t EXCEPT !.columns = cs] =
         [columns |-> cs, primaryKey |-> t.primaryKey,
          uniques |-> t.uniques, foreignKeys |-> t.foreignKeys, removed |-> t.removed]
    BY DEF IsTable
<1> QED
    BY <1>1, <1>2, <1>3, <1>4 DEF TableGrows, NamesApart

LEMMA AddUniqueGrows ==
    ASSUME NEW t, IsTable(t), NEW want, NEW u \in want.uniques, u.name \notin ConstraintsOf(t)
    PROVE  TableGrows(want, t, [t EXCEPT !.uniques = @ \cup {u}])
<1> DEFINE d == [t EXCEPT !.uniques = @ \cup {u}]
<1>1. d = [columns |-> t.columns, primaryKey |-> t.primaryKey, uniques |-> t.uniques \cup {u},
           foreignKeys |-> t.foreignKeys, removed |-> t.removed]
    BY DEF IsTable
<1>2. /\ \A v \in t.uniques : v.name # u.name
      /\ \A fk \in t.foreignKeys : fk.name # u.name
    BY DEF ConstraintsOf
<1> HIDE DEF d
<1>3. NamesApart(t) => NamesApart(d)
    BY <1>1, <1>2 DEF NamesApart
<1>4. TableGrows(want, t, d)
    BY <1>1, <1>3 DEF TableGrows
<1> QED
    BY <1>4 DEF d

LEMMA AddForeignKeyGrows ==
    ASSUME NEW t, IsTable(t), NEW want, NEW fk \in want.foreignKeys,
           fk.name \notin ConstraintsOf(t)
    PROVE  TableGrows(want, t, [t EXCEPT !.foreignKeys = @ \cup {fk}])
<1> DEFINE d == [t EXCEPT !.foreignKeys = @ \cup {fk}]
<1>1. d = [columns |-> t.columns, primaryKey |-> t.primaryKey, uniques |-> t.uniques,
           foreignKeys |-> t.foreignKeys \cup {fk}, removed |-> t.removed]
    BY DEF IsTable
<1>2. /\ \A v \in t.uniques : v.name # fk.name
      /\ \A gk \in t.foreignKeys : gk.name # fk.name
    BY DEF ConstraintsOf
<1> HIDE DEF d
<1>3. NamesApart(t) => NamesApart(d)
    BY <1>1, <1>2 DEF NamesApart
<1>4. TableGrows(want, t, d)
    BY <1>1, <1>3 DEF TableGrows
<1> QED
    BY <1>4 DEF d

LEMMA AddPrimaryKeyGrows ==
    ASSUME NEW t, IsTable(t), NEW want, NEW key, t.primaryKey = NoPrimaryKey
    PROVE  TableGrows(want, t, WithPrimaryKey(t, key))
<1> DEFINE d == WithPrimaryKey(t, key)
<1>1. /\ DOMAIN d.columns = DOMAIN t.columns
      /\ \A x \in DOMAIN t.columns : d.columns[x].type = t.columns[x].type
      /\ d.uniques = t.uniques /\ d.foreignKeys = t.foreignKeys
    BY WithPrimaryKeyParts
<1> HIDE DEF d
<1>2. TableGrows(want, t, d)
    BY <1>1 DEF TableGrows, NamesApart
<1> QED
    BY <1>2 DEF d

\* The statements that add, whatever they add.
LEMMA AddingGrows ==
    ASSUME NEW c, IsCatalog(c), NEW f, IsFiles(f), NEW h, NEW m, m.kind \in Adding,
           Justified(f, h, m), Accepts(c, m, f, h)
    PROVE  Grows(f, c, Effect(c, m, f, h))
<1> DEFINE t == m.on
           table == c.tables[t]
           want == f.tables[t]
<1>1. CASE m.kind = "create_schema"
    BY <1>1, CreateSchemaGrows
<1>2. CASE m.kind = "create_table"
    BY <1>2, CreateTableGrows
<1>3. CASE m.kind \in {"add_column", "alter_column", "add_primary_key", "add_unique_key",
                       "add_foreign_key"}
    <2>1. t \in DOMAIN f.tables /\ JustifiedInTable(f, h, m)
        BY <1>3 DEF Justified
    <2>2. t \in DOMAIN c.tables /\ AlterTableAccepts(c, m, f, h)
        BY <1>3 DEF Accepts
    <2>3. Effect(c, m, f, h) = AlterTableEffect(c, m, f, h)
        BY <1>3 DEF Effect
    <2>4. IsTable(table)
        BY <2>2, CatalogRecord
    <2>5. \E x : TableGrows(want, table, x) /\ AlterTableEffect(c, m, f, h) = OnTable(c, t, x)
        <3>1. CASE m.kind = "add_column"
            <4>1. m.name \in DOMAIN want.columns
                BY <2>1, <3>1 DEF JustifiedInTable
            <4> QED
                BY <2>4, <3>1, <4>1, AddColumnGrows DEF AlterTableEffect
        <3>2. CASE m.kind = "alter_column"
            <4> DEFINE y == AlteredColumn(table.columns[m.name], h.tables[t].columns[m.name],
                                          want.columns[m.name])
            <4>1. m.name \in DOMAIN want.columns
                BY <2>1, <3>2 DEF JustifiedInTable
            <4>2. AlterTableEffect(c, m, f, h) =
                     OnTable(c, t, [table EXCEPT !.columns[m.name] = y])
                BY <3>2 DEF AlterTableEffect
            <4> HIDE DEF y
            <4> QED
                BY <2>4, <4>1, <4>2, AlterColumnGrows
        <3>3. CASE m.kind = "add_primary_key"
            <4>1. table.primaryKey = NoPrimaryKey
                BY <2>2, <3>3 DEF AlterTableAccepts
            <4> QED
                BY <2>4, <3>3, <4>1, AddPrimaryKeyGrows DEF AlterTableEffect
        <3>4. CASE m.kind = "add_unique_key"
            <4> DEFINE u == WantedUnique(f, t, m.name)
            <4>1. \E v \in want.uniques : v.name = m.name
                BY <2>1, <3>4 DEF JustifiedInTable
            <4>2. u \in want.uniques /\ u.name = m.name
                BY <4>1 DEF WantedUnique
            <4>3. m.name \notin ConstraintsOf(table)
                BY <2>2, <3>4 DEF AlterTableAccepts
            <4>4. AlterTableEffect(c, m, f, h) =
                     OnTable(c, t, [table EXCEPT !.uniques = @ \cup {u}])
                BY <3>4 DEF AlterTableEffect
            <4> HIDE DEF u
            <4> QED
                BY <2>4, <4>2, <4>3, <4>4, AddUniqueGrows
        <3>5. CASE m.kind = "add_foreign_key"
            <4> DEFINE fk == WantedForeignKey(f, t, m.name)
            <4>1. \E gk \in want.foreignKeys : gk.name = m.name
                BY <2>1, <3>5 DEF JustifiedInTable
            <4>2. fk \in want.foreignKeys /\ fk.name = m.name
                BY <4>1 DEF WantedForeignKey
            <4>3. m.name \notin ConstraintsOf(table)
                BY <2>2, <3>5 DEF AlterTableAccepts
            <4>4. AlterTableEffect(c, m, f, h) =
                     OnTable(c, t, [table EXCEPT !.foreignKeys = @ \cup {fk}])
                BY <3>5 DEF AlterTableEffect
            <4> HIDE DEF fk
            <4> QED
                BY <2>4, <4>2, <4>3, <4>4, AddForeignKeyGrows
        <3> QED
            BY <1>3, <3>1, <3>2, <3>3, <3>4, <3>5
    <2> QED
        BY <2>1, <2>2, <2>3, <2>5, OnTableGrows
<1> QED
    BY <1>1, <1>2, <1>3 DEF Adding

-----------------------------------------------------------------------------
(* The statements that take, one by one.                                   *)

Taking == {"drop_table", "drop_column", "drop_unique_key", "drop_foreign_key"}

\* A statement that finds nothing to take.
LEMMA NothingTaken ==
    ASSUME NEW f, NEW c, NEW w
    PROVE  Shrinks(f, w, w) /\ Gives(f, c, w, w)
<1>1. Shrinks(f, w, w)
    BY DEF Shrinks, IndexesOnlyGo
<1>2. \A t : LostColumns(w, w, t) = {}
    BY DEF LostColumns
<1>3. \A t : TableGives(f, c, w, w, t)
    BY <1>2 DEF TableGives
<1> QED
    BY <1>1, <1>3 DEF Gives

LEMMA DropTableParts ==
    ASSUME NEW c, IsCatalog(c), NEW t
    PROVE  LET d == DropTable(c, t)
           IN  /\ d.namespaces = c.namespaces
               /\ DOMAIN d.tables = DOMAIN c.tables \ {t}
               /\ \A s \in DOMAIN d.tables : d.tables[s] = c.tables[s]
               /\ DOMAIN d.indexes = {i \in DOMAIN c.indexes : c.indexes[i].table # t}
               /\ \A i \in DOMAIN d.indexes : d.indexes[i] = c.indexes[i]
<1> DEFINE spared == {i \in DOMAIN c.indexes : c.indexes[i].table # t}
           ts == Without(c.tables, t)
           is == Restriction(c.indexes, spared)
<1>1. DropTable(c, t) = [c EXCEPT !.tables = ts, !.indexes = is]
    BY DEF DropTable
<1>2. /\ DOMAIN ts = DOMAIN c.tables \ {t} /\ \A s \in DOMAIN ts : ts[s] = c.tables[s]
      /\ DOMAIN is = spared /\ \A i \in DOMAIN is : is[i] = c.indexes[i]
    BY DEF Without, Restriction
<1>3. spared = {i \in DOMAIN c.indexes : c.indexes[i].table # t}
    OBVIOUS
<1> HIDE DEF ts, is, spared
<1>4. [c EXCEPT !.tables = ts] =
         [namespaces |-> c.namespaces, tables |-> ts, indexes |-> c.indexes]
    BY DEF IsCatalog
<1>5. [[namespaces |-> c.namespaces, tables |-> ts, indexes |-> c.indexes]
          EXCEPT !.indexes = is] = [namespaces |-> c.namespaces, tables |-> ts, indexes |-> is]
    OBVIOUS
<1>6. DropTable(c, t) = [namespaces |-> c.namespaces, tables |-> ts, indexes |-> is]
    BY <1>1, <1>4, <1>5
<1> QED
    BY <1>2, <1>3, <1>6

\* The table a justified drop takes is, as the transaction found it, exactly
\* the one the directive lists.
LEMMA DropTableGives ==
    ASSUME NEW f, NEW h, NEW c, Reflects(f, h, c), NEW w, IsCatalog(w), Evolves(f, c, w),
           NEW t \in DOMAIN w.tables, t \in DOMAIN h.tables, MayLoseTable(f, h, t)
    PROVE  Shrinks(f, w, DropTable(w, t)) /\ Gives(f, c, w, DropTable(w, t))
<1> DEFINE d == DropTable(w, t)
<1>1. /\ d.namespaces = w.namespaces
      /\ DOMAIN d.tables = DOMAIN w.tables \ {t}
      /\ \A s \in DOMAIN d.tables : d.tables[s] = w.tables[s]
      /\ DOMAIN d.indexes = {i \in DOMAIN w.indexes : w.indexes[i].table # t}
      /\ \A i \in DOMAIN d.indexes : d.indexes[i] = w.indexes[i]
    BY DropTableParts
<1> HIDE DEF d
<1>2. Shrinks(f, w, d)
    BY <1>1 DEF Shrinks, IndexesOnlyGo
<1>3. t \notin DOMAIN f.tables
    BY DEF MayLoseTable
<1>4. t \in DOMAIN c.tables /\ h.tables[t].columns = c.tables[t].columns
    BY <1>3 DEF Evolves, Reflects
<1>5. MayLoseTable(f, c, t)
    BY <1>4 DEF MayLoseTable, ColumnTypes
<1>6. ASSUME NEW s \in DOMAIN d.tables
      PROVE  TableGives(f, c, w, d, s)
    <2>1. d.tables[s] = w.tables[s]
        BY <1>1
    <2>2. LostColumns(w, d, s) = {}
        BY <2>1 DEF LostColumns
    <2> QED
        BY <2>1, <2>2 DEF TableGives
<1>7. Gives(f, c, w, d)
    BY <1>1, <1>5, <1>6 DEF Gives
<1> QED
    BY <1>2, <1>7 DEF d

LEMMA DropColumnParts ==
    ASSUME NEW c, IsCatalog(c), NEW t \in DOMAIN c.tables, NEW x
    PROVE  LET d == DropColumn(c, t, x)
               old == c.tables[t]
               new == d.tables[t]
           IN  /\ d.namespaces = c.namespaces
               /\ DOMAIN d.tables = DOMAIN c.tables
               /\ \A s \in DOMAIN c.tables : s # t => d.tables[s] = c.tables[s]
               /\ DOMAIN new.columns = DOMAIN old.columns \ {x}
               /\ \A y \in DOMAIN new.columns : new.columns[y] = old.columns[y]
               /\ x \notin Elements(old.primaryKey) => new.primaryKey = old.primaryKey
               /\ new.uniques = {u \in old.uniques : x \notin Elements(u.columns)}
               /\ new.foreignKeys = {fk \in old.foreignKeys : x \notin Elements(fk.columns)}
               /\ DOMAIN d.indexes = {i \in DOMAIN c.indexes :
                      ~(c.indexes[i].table = t /\ x \in Elements(c.indexes[i].columns))}
               /\ \A i \in DOMAIN d.indexes : d.indexes[i] = c.indexes[i]
<1> DEFINE table == c.tables[t]
           spared == {i \in DOMAIN c.indexes :
                         ~(c.indexes[i].table = t /\ x \in Elements(c.indexes[i].columns))}
           left == [columns |-> Without(table.columns, x),
                    primaryKey |-> IF x \in Elements(table.primaryKey)
                                   THEN NoPrimaryKey ELSE table.primaryKey,
                    uniques |-> {u \in table.uniques : x \notin Elements(u.columns)},
                    foreignKeys |-> {fk \in table.foreignKeys : x \notin Elements(fk.columns)},
                    removed |-> table.removed]
           is == Restriction(c.indexes, spared)
           e == OnTable(c, t, left)
<1>1. DropColumn(c, t, x) = [e EXCEPT !.indexes = is]
    BY DEF DropColumn
<1>2. /\ DOMAIN left.columns = DOMAIN table.columns \ {x}
      /\ \A y \in DOMAIN left.columns : left.columns[y] = table.columns[y]
      /\ x \notin Elements(table.primaryKey) => left.primaryKey = table.primaryKey
      /\ left.uniques = {u \in table.uniques : x \notin Elements(u.columns)}
      /\ left.foreignKeys = {fk \in table.foreignKeys : x \notin Elements(fk.columns)}
    BY DEF Without, Restriction
<1>3. DOMAIN is = spared /\ \A i \in DOMAIN is : is[i] = c.indexes[i]
    BY DEF Restriction
<1>4. spared = {i \in DOMAIN c.indexes :
                   ~(c.indexes[i].table = t /\ x \in Elements(c.indexes[i].columns))}
    OBVIOUS
<1> HIDE DEF left, spared, is
<1>5. /\ e.namespaces = c.namespaces /\ DOMAIN e.tables = DOMAIN c.tables
      /\ e.tables[t] = left /\ \A s \in DOMAIN c.tables : s # t => e.tables[s] = c.tables[s]
    BY OnTableParts
<1>6. e = [namespaces |-> c.namespaces, tables |-> [c.tables EXCEPT ![t] = left],
           indexes |-> c.indexes]
    BY CatalogRecord DEF OnTable
<1> DEFINE ts == [c.tables EXCEPT ![t] = left]
<1>7. [[namespaces |-> c.namespaces, tables |-> ts, indexes |-> c.indexes]
          EXCEPT !.indexes = is] = [namespaces |-> c.namespaces, tables |-> ts, indexes |-> is]
    OBVIOUS
<1>8. DropColumn(c, t, x) = [namespaces |-> e.namespaces, tables |-> e.tables, indexes |-> is]
    BY <1>1, <1>6, <1>7
<1> HIDE DEF e, ts
<1> QED
    BY <1>2, <1>3, <1>4, <1>5, <1>8

\* The column a justified drop takes is, as the transaction found it, one of
\* the type the directive gives.
LEMMA DropColumnGives ==
    ASSUME NEW f, NEW h, NEW c, Reflects(f, h, c), NEW w, IsCatalog(w),
           NEW t \in DOMAIN w.tables, t \in DOMAIN h.tables,
           NEW x, x \in DOMAIN h.tables[t].columns, MayLoseColumn(f, h, t, x),
           x \in DOMAIN w.tables[t].columns
    PROVE  Shrinks(f, w, DropColumn(w, t, x)) /\ Gives(f, c, w, DropColumn(w, t, x))
<1> DEFINE d == DropColumn(w, t, x)
           old == w.tables[t]
           new == d.tables[t]
<1>1. /\ d.namespaces = w.namespaces
      /\ DOMAIN d.tables = DOMAIN w.tables
      /\ \A s \in DOMAIN w.tables : s # t => d.tables[s] = w.tables[s]
      /\ DOMAIN new.columns = DOMAIN old.columns \ {x}
      /\ \A y \in DOMAIN new.columns : new.columns[y] = old.columns[y]
      /\ x \notin Elements(old.primaryKey) => new.primaryKey = old.primaryKey
      /\ new.uniques = {u \in old.uniques : x \notin Elements(u.columns)}
      /\ new.foreignKeys = {fk \in old.foreignKeys : x \notin Elements(fk.columns)}
      /\ DOMAIN d.indexes = {i \in DOMAIN w.indexes :
             ~(w.indexes[i].table = t /\ x \in Elements(w.indexes[i].columns))}
      /\ \A i \in DOMAIN d.indexes : d.indexes[i] = w.indexes[i]
    BY DropColumnParts
<1> HIDE DEF d
<1>2. t \in DOMAIN f.tables /\ x \notin DOMAIN f.tables[t].columns
    BY DEF MayLoseColumn
<1>3. Shrinks(f, w, d)
    <2>1. TableShrinks(old, new)
        BY <1>1 DEF TableShrinks
    <2> QED
        BY <1>1, <1>2, <2>1 DEF Shrinks, IndexesOnlyGo
<1>4. LostColumns(w, d, t) = {x}
    BY <1>1 DEF LostColumns
<1>5. ASSUME t \in DOMAIN c.tables, x \in DOMAIN c.tables[t].columns
      PROVE  MayLoseColumn(f, c, t, x)
    <2>1. h.tables[t].columns[x].type = c.tables[t].columns[x].type
        BY <1>2, <1>5 DEF Reflects, TableReflects
    <2> QED
        BY <2>1 DEF MayLoseColumn, Drops
<1>6. ASSUME t \in DOMAIN c.tables
      PROVE  TableGives(f, c, w, d, t)
    <2>1. old.primaryKey # new.primaryKey => x \in Elements(old.primaryKey)
        BY <1>1
    <2>2. \A u \in old.uniques \ new.uniques : x \in Elements(u.columns)
        BY <1>1
    <2>3. \A fk \in old.foreignKeys \ new.foreignKeys : x \in Elements(fk.columns)
        BY <1>1
    <2> QED
        BY <1>2, <1>4, <1>5, <1>6, <2>1, <2>2, <2>3 DEF TableGives, MayLoseKey
<1>7. ASSUME NEW s \in DOMAIN w.tables, s # t
      PROVE  TableGives(f, c, w, d, s)
    <2>1. d.tables[s] = w.tables[s]
        BY <1>1, <1>7
    <2>2. LostColumns(w, d, s) = {}
        BY <2>1 DEF LostColumns
    <2> QED
        BY <2>1, <2>2 DEF TableGives
<1>8. ASSUME NEW i \in DOMAIN w.indexes \ DOMAIN d.indexes
      PROVE  \E y \in LostColumns(w, d, w.indexes[i].table) : y \in Elements(w.indexes[i].columns)
    BY <1>1, <1>4
<1>9. Gives(f, c, w, d)
    BY <1>1, <1>6, <1>7, <1>8 DEF Gives
<1> QED
    BY <1>3, <1>9 DEF d

\* The files give away every constraint of that name on table t of c.
NameGivenAway(f, c, t, name) ==
    /\ \A u \in c.tables[t].uniques :
          u.name = name => Drops(f, LAMBDA g : CoversUnique(g, u))
    /\ \A fk \in c.tables[t].foreignKeys :
          fk.name = name => Drops(f, LAMBDA g : CoversForeignKey(g, fk))

LEMMA DropConstraintGives ==
    ASSUME NEW f, NEW c, NEW w, IsCatalog(w), NEW t \in DOMAIN w.tables, t \in DOMAIN f.tables,
           NEW name, t \in DOMAIN c.tables => NameGivenAway(f, c, t, name)
    PROVE  LET d == OnTable(w, t, DropConstraint(w.tables[t], name))
           IN  Shrinks(f, w, d) /\ Gives(f, c, w, d)
<1> DEFINE old == w.tables[t]
           new == DropConstraint(old, name)
           us == {u \in old.uniques : u.name # name}
           fks == {fk \in old.foreignKeys : fk.name # name}
           d == OnTable(w, t, new)
<1>1. IsTable(old)
    BY CatalogRecord
<1>2. new = [old EXCEPT !.uniques = us, !.foreignKeys = fks]
    BY DEF DropConstraint
<1>3. new = [columns |-> old.columns, primaryKey |-> old.primaryKey, uniques |-> us,
             foreignKeys |-> fks, removed |-> old.removed]
    <2> HIDE DEF us, fks, old, new
    <2>1. [old EXCEPT !.uniques = us] =
             [columns |-> old.columns, primaryKey |-> old.primaryKey, uniques |-> us,
              foreignKeys |-> old.foreignKeys, removed |-> old.removed]
        BY <1>1 DEF IsTable
    <2>2. [[columns |-> old.columns, primaryKey |-> old.primaryKey, uniques |-> us,
            foreignKeys |-> old.foreignKeys, removed |-> old.removed]
              EXCEPT !.foreignKeys = fks] =
             [columns |-> old.columns, primaryKey |-> old.primaryKey, uniques |-> us,
              foreignKeys |-> fks, removed |-> old.removed]
        OBVIOUS
    <2> QED
        BY <1>2, <2>1, <2>2
<1>4. /\ new.columns = old.columns /\ new.primaryKey = old.primaryKey
      /\ new.uniques = {u \in old.uniques : u.name # name}
      /\ new.foreignKeys = {fk \in old.foreignKeys : fk.name # name}
    BY <1>3
<1> HIDE DEF new
<1>5. /\ d.namespaces = w.namespaces /\ d.indexes = w.indexes
      /\ DOMAIN d.tables = DOMAIN w.tables /\ d.tables[t] = new
      /\ \A s \in DOMAIN w.tables : s # t => d.tables[s] = w.tables[s]
    BY OnTableParts
<1> HIDE DEF d
<1>6. Shrinks(f, w, d)
    <2>1. TableShrinks(old, new)
        BY <1>4 DEF TableShrinks
    <2> QED
        BY <1>5, <2>1 DEF Shrinks, IndexesOnlyGo
<1>7. ASSUME t \in DOMAIN c.tables
      PROVE  TableGives(f, c, w, d, t)
    <2>1. LostColumns(w, d, t) = {}
        BY <1>4, <1>5 DEF LostColumns
    <2>2. NameGivenAway(f, c, t, name)
        BY <1>7
    <2>3. \A u \in (c.tables[t].uniques \cap old.uniques) \ new.uniques :
              Drops(f, LAMBDA g : CoversUnique(g, u))
        BY <1>4, <2>2 DEF NameGivenAway, Drops
    <2>4. \A fk \in (c.tables[t].foreignKeys \cap old.foreignKeys) \ new.foreignKeys :
              Drops(f, LAMBDA g : CoversForeignKey(g, fk))
        BY <1>4, <2>2 DEF NameGivenAway, Drops
    <2> QED
        BY <1>4, <1>5, <2>1, <2>3, <2>4 DEF TableGives, MayLoseKey, Drops
<1>8. ASSUME NEW s \in DOMAIN w.tables, s # t
      PROVE  TableGives(f, c, w, d, s)
    <2>1. d.tables[s] = w.tables[s]
        BY <1>5, <1>8
    <2>2. LostColumns(w, d, s) = {}
        BY <2>1 DEF LostColumns
    <2> QED
        BY <2>1, <2>2 DEF TableGives
<1>9. Gives(f, c, w, d)
    BY <1>5, <1>7, <1>8 DEF Gives
<1> QED
    BY <1>6, <1>9 DEF d, new

\* A constraint the files want under the name of one they give away is one the
\* plan adds under that name.
LEMMA RedefinedUniqueIsAdded ==
    ASSUME NEW f, NEW h, NEW orders, NEW t \in DOMAIN f.tables, t \in DOMAIN h.tables,
           NamesApart(h.tables[t]),
           NEW v \in h.tables[t].uniques \ f.tables[t].uniques,
           NEW u \in f.tables[t].uniques, u.name = v.name
    PROVE  Migration("add_unique_key", t, v.name) \in Plan(f, h, orders)
<1>1. u \notin h.tables[t].uniques
    BY DEF NamesApart
<1>2. u \in MissingUniques(f.tables[t], h.tables[t])
    BY <1>1 DEF MissingUniques, HaveUnique
<1>3. Migration("add_unique_key", t, u.name)
          \in UniqueMigrations(f.tables[t], h.tables[t], t, orders)
    BY <1>2 DEF UniqueMigrations
<1> QED
    BY <1>3 DEF Plan, TableMigrations, CommonTables

LEMMA RedefinedForeignKeyIsAdded ==
    ASSUME NEW f, NEW h, NEW orders, NEW t \in DOMAIN f.tables, t \in DOMAIN h.tables,
           NamesApart(h.tables[t]),
           NEW v \in h.tables[t].foreignKeys \ f.tables[t].foreignKeys,
           NEW fk \in f.tables[t].foreignKeys, fk.name = v.name
    PROVE  Migration("add_foreign_key", t, v.name) \in Plan(f, h, orders)
<1>1. fk \notin h.tables[t].foreignKeys
    BY DEF NamesApart
<1>2. fk \in MissingForeignKeys(f.tables[t], h.tables[t])
    BY <1>1 DEF MissingForeignKeys, HaveForeignKey
<1>3. Migration("add_foreign_key", t, fk.name)
          \in ForeignKeyMigrations(f.tables[t], h.tables[t], t, orders)
    BY <1>2 DEF ForeignKeyMigrations
<1> QED
    BY <1>3 DEF Plan, TableMigrations, CommonTables

\* DROP CONSTRAINT takes by name what the plan decided about by definition:
\* the two agree when the plan's own constraint of that name was new.
LEMMA UniqueNameGivenAway ==
    ASSUME NEW U, NEW f, NEW h, ReadsApart(U, h), NEW c, Sound(U, c), Reflects(f, h, c),
           NEW orders, NEW m, m.kind = "drop_unique_key", Justified(f, h, m),
           m.on \in DOMAIN c.tables,
           Migration("add_unique_key", m.on, m.name) \in Plan(f, h, orders) =>
               m.name \notin ConstraintsOf(c.tables[m.on])
    PROVE  NameGivenAway(f, c, m.on, m.name)
<1> DEFINE t == m.on
<1>1. t \in DOMAIN f.tables /\ t \in DOMAIN h.tables /\ JustifiedInTable(f, h, m)
    BY DEF Justified
<1>2. PICK v \in h.tables[t].uniques \ f.tables[t].uniques :
          v.name = m.name /\ Drops(f, LAMBDA g : CoversUnique(g, v))
    BY <1>1 DEF JustifiedInTable
<1>3. NamesApart(h.tables[t]) /\ m.name \in U
    BY <1>1, <1>2 DEF ReadsApart, KindsApart
<1>4. ASSUME NEW u \in c.tables[t].uniques, u.name = m.name
      PROVE  Drops(f, LAMBDA g : CoversUnique(g, u))
    <2>1. CASE u \in f.tables[t].uniques
        <3>1. Migration("add_unique_key", t, v.name) \in Plan(f, h, orders)
            BY <1>1, <1>2, <1>3, <1>4, <2>1, RedefinedUniqueIsAdded
        <3> QED
            BY <1>2, <1>4, <3>1 DEF ConstraintsOf
    <2>2. CASE u \notin f.tables[t].uniques
        <3>1. u = v
            BY <1>1, <1>2, <1>4, <2>2 DEF Reflects, TableReflects
        <3> QED
            BY <1>2, <3>1
    <2> QED
        BY <2>1, <2>2
<1>5. \A fk \in c.tables[t].foreignKeys : fk.name # m.name
    BY <1>3 DEF Sound, KindsApart
<1> QED
    BY <1>4, <1>5 DEF NameGivenAway

LEMMA ForeignKeyNameGivenAway ==
    ASSUME NEW U, NEW f, NEW h, ReadsApart(U, h), NEW c, Sound(U, c), Reflects(f, h, c),
           NEW orders, NEW m, m.kind = "drop_foreign_key", Justified(f, h, m),
           m.on \in DOMAIN c.tables,
           Migration("add_foreign_key", m.on, m.name) \in Plan(f, h, orders) =>
               m.name \notin ConstraintsOf(c.tables[m.on])
    PROVE  NameGivenAway(f, c, m.on, m.name)
<1> DEFINE t == m.on
<1>1. t \in DOMAIN f.tables /\ t \in DOMAIN h.tables /\ JustifiedInTable(f, h, m)
    BY DEF Justified
<1>2. PICK v \in h.tables[t].foreignKeys \ f.tables[t].foreignKeys :
          v.name = m.name /\ Drops(f, LAMBDA g : CoversForeignKey(g, v))
    BY <1>1 DEF JustifiedInTable
<1>3. NamesApart(h.tables[t]) /\ m.name \notin U
    BY <1>1, <1>2 DEF ReadsApart, KindsApart
<1>4. ASSUME NEW fk \in c.tables[t].foreignKeys, fk.name = m.name
      PROVE  Drops(f, LAMBDA g : CoversForeignKey(g, fk))
    <2>1. CASE fk \in f.tables[t].foreignKeys
        <3>1. Migration("add_foreign_key", t, v.name) \in Plan(f, h, orders)
            BY <1>1, <1>2, <1>3, <1>4, <2>1, RedefinedForeignKeyIsAdded
        <3> QED
            BY <1>2, <1>4, <3>1 DEF ConstraintsOf
    <2>2. CASE fk \notin f.tables[t].foreignKeys
        <3>1. fk = v
            BY <1>1, <1>2, <1>4, <2>2 DEF Reflects, TableReflects
        <3> QED
            BY <1>2, <3>1
    <2> QED
        BY <2>1, <2>2
<1>5. \A u \in c.tables[t].uniques : u.name # m.name
    BY <1>3 DEF Sound, KindsApart
<1> QED
    BY <1>4, <1>5 DEF NameGivenAway

AddOf(m) == Migration(IF m.kind = "drop_unique_key" THEN "add_unique_key" ELSE "add_foreign_key",
                      m.on, m.name)

\* The statements that take, whatever they take: the files give away what of
\* the catalog the transaction began with goes.
LEMMA TakingGives ==
    ASSUME NEW U, NEW f, NEW h, ReadsApart(U, h), NEW c, Sound(U, c), Reflects(f, h, c),
           NEW w, IsCatalog(w), Evolves(f, c, w), NEW orders, NEW m, m.kind \in Taking,
           Justified(f, h, m), Accepts(w, m, f, h),
           m.kind \in {"drop_unique_key", "drop_foreign_key"} /\ m.on \in DOMAIN c.tables
               /\ AddOf(m) \in Plan(f, h, orders) => m.name \notin ConstraintsOf(c.tables[m.on])
    PROVE  Shrinks(f, w, Effect(w, m, f, h)) /\ Gives(f, c, w, Effect(w, m, f, h))
<1>1. CASE m.kind = "drop_table"
    <2>1. m.on \in DOMAIN h.tables /\ MayLoseTable(f, h, m.on)
        BY <1>1 DEF Justified
    <2>2. m.on \in DOMAIN w.tables
        BY <1>1 DEF Accepts
    <2>3. Effect(w, m, f, h) = DropTable(w, m.on)
        BY <1>1 DEF Effect
    <2> QED
        BY <2>1, <2>2, <2>3, DropTableGives
<1>2. CASE m.kind \in {"drop_column", "drop_unique_key", "drop_foreign_key"}
    <2>1. m.on \in DOMAIN f.tables /\ m.on \in DOMAIN h.tables /\ JustifiedInTable(f, h, m)
        BY <1>2 DEF Justified
    <2>2. m.on \in DOMAIN w.tables
        BY <1>2 DEF Accepts
    <2>3. Effect(w, m, f, h) = AlterTableEffect(w, m, f, h)
        BY <1>2 DEF Effect
    <2>4. CASE m.kind = "drop_column"
        <3>1. m.name \in DOMAIN h.tables[m.on].columns /\ MayLoseColumn(f, h, m.on, m.name)
            BY <2>1, <2>4 DEF JustifiedInTable
        <3>2. AlterTableEffect(w, m, f, h) =
                 IF m.name \in DOMAIN w.tables[m.on].columns
                 THEN DropColumn(w, m.on, m.name) ELSE w
            BY <2>4 DEF AlterTableEffect
        <3> QED
            BY <2>1, <2>2, <2>3, <3>1, <3>2, DropColumnGives, NothingTaken
    <2>5. CASE m.kind \in {"drop_unique_key", "drop_foreign_key"}
        <3>1. AlterTableEffect(w, m, f, h) =
                 OnTable(w, m.on, DropConstraint(w.tables[m.on], m.name))
            BY <2>5 DEF AlterTableEffect
        <3>2. ASSUME m.on \in DOMAIN c.tables
              PROVE  NameGivenAway(f, c, m.on, m.name)
            <4>1. CASE m.kind = "drop_unique_key"
                BY <3>2, <4>1, UniqueNameGivenAway DEF AddOf
            <4>2. CASE m.kind = "drop_foreign_key"
                BY <3>2, <4>2, ForeignKeyNameGivenAway DEF AddOf
            <4> QED
                BY <2>5, <4>1, <4>2
        <3> QED
            BY <2>1, <2>2, <2>3, <3>1, <3>2, DropConstraintGives
    <2> QED
        BY <1>2, <2>4, <2>5
<1> QED
    BY <1>1, <1>2 DEF Taking

-----------------------------------------------------------------------------
(* Statements outside of a transaction, which change indexes only.         *)

\* d has the tables of c, and what indexes the files do not want are those of c.
ChangesIndexes(f, c, d) ==
    /\ d.namespaces = c.namespaces
    /\ d.tables = c.tables
    /\ \A i \in DOMAIN d.indexes \ DOMAIN f.indexes :
          i \in DOMAIN c.indexes /\ SameIndex(d.indexes[i], c.indexes[i])
    /\ \A i \in DOMAIN d.indexes : d.indexes[i].table \in DOMAIN d.tables
    /\ \A i \in DOMAIN c.indexes \ DOMAIN d.indexes :
          Drops(f, LAMBDA g : CoversIndex(g, i, c.indexes[i]))

LEMMA ChangesIndexesSafely ==
    ASSUME NEW U, NEW f, NEW c, Sound(U, c), NEW d, ChangesIndexes(f, c, d)
    PROVE  Sound(U, d) /\ Evolves(f, c, d) /\ OnlyApprovedLoss(f, c, d)
<1>1. Sound(U, d)
    BY DEF Sound, ChangesIndexes
<1>2. Evolves(f, c, d)
    BY DEF Evolves, TableEvolves, ChangesIndexes
<1>3. \A t : LostColumns(c, d, t) = {}
    BY DEF LostColumns, ChangesIndexes
<1>4. \A t \in DOMAIN c.tables : KeepsTable(f, c, d, t)
    BY <1>3 DEF KeepsTable, ChangesIndexes
<1>5. ASSUME NEW i \in DOMAIN c.indexes \ DOMAIN d.indexes
      PROVE  KeepsIndex(f, c, d, i)
    BY DEF ChangesIndexes, KeepsIndex, MayLoseKey, Drops
<1>6. OnlyApprovedLoss(f, c, d)
    BY <1>4, <1>5 DEF OnlyApprovedLoss, ChangesIndexes
<1> QED
    BY <1>1, <1>2, <1>6

\* The index a justified drop takes is, as the catalog has it, one that the
\* directive describes.
LEMMA DropIndexChanges ==
    ASSUME NEW U, NEW f, NEW h, NEW c, IsCatalog(c), Sound(U, c), Reflects(f, h, c), NEW m,
           m.kind = "drop_index", Justified(f, h, m)
    PROVE  ChangesIndexes(f, c, Effect(c, m, f, h))
<1> DEFINE i == m.name
           d == Effect(c, m, f, h)
           is == Without(c.indexes, i)
<1>1. i \in DOMAIN h.indexes \ DOMAIN f.indexes
      /\ Drops(f, LAMBDA g : CoversIndex(g, i, h.indexes[i]))
    BY DEF Justified
<1>2. d = [c EXCEPT !.indexes = is]
    BY DEF Effect
<1>3. DOMAIN is = DOMAIN c.indexes \ {i} /\ \A j \in DOMAIN is : is[j] = c.indexes[j]
    BY DEF Without, Restriction
<1> HIDE DEF d, is
<1>4. d = [namespaces |-> c.namespaces, tables |-> c.tables, indexes |-> is]
    BY <1>2, ExceptIndexes
<1>5. i \in DOMAIN c.indexes => Drops(f, LAMBDA g : CoversIndex(g, i, c.indexes[i]))
    <2>1. i \in DOMAIN c.indexes => SameIndex(h.indexes[i], c.indexes[i])
        BY <1>1 DEF Reflects
    <2>2. \A g : i \in DOMAIN c.indexes /\ CoversIndex(g, i, h.indexes[i])
                     => CoversIndex(g, i, c.indexes[i])
        BY <2>1 DEF SameIndex, CoversIndex, CoversIndexGo, CoversIndexRust, IndexMatches
    <2> QED
        BY <1>1, <2>2 DEF Drops
<1>6. \A j \in DOMAIN d.indexes : j \in DOMAIN c.indexes /\ SameIndex(d.indexes[j], c.indexes[j])
    BY <1>3, <1>4 DEF SameIndex
<1>7. \A j \in DOMAIN c.indexes \ DOMAIN d.indexes : j = i
    BY <1>3, <1>4
<1>8. \A j \in DOMAIN d.indexes : d.indexes[j].table \in DOMAIN d.tables
    BY <1>3, <1>4 DEF Sound
<1>9. d.namespaces = c.namespaces /\ d.tables = c.tables
    BY <1>4
<1>10. ASSUME NEW j \in DOMAIN c.indexes \ DOMAIN d.indexes
       PROVE  \E g \in f.groups : g.policy = "DROP" /\ CoversIndex(g, j, c.indexes[j])
    BY <1>5, <1>7 DEF Drops
<1>11. ChangesIndexes(f, c, d)
    BY <1>6, <1>8, <1>9, <1>10 DEF ChangesIndexes, Drops
<1> QED
    BY <1>11 DEF d

\* CREATE INDEX adds what the files say, or finds the name taken.
LEMMA CreateIndexParts ==
    ASSUME NEW c, IsCatalog(c), NEW f, NEW i, NEW valid,
           i \notin DOMAIN c.indexes \cup UniqueNames(c)
    PROVE  LET d == CreateIndexEffect(c, i, f, valid)
           IN  /\ d.namespaces = c.namespaces /\ d.tables = c.tables
               /\ DOMAIN d.indexes = DOMAIN c.indexes \cup {i}
               /\ \A j \in DOMAIN c.indexes : d.indexes[j] = c.indexes[j]
               /\ SameIndex(d.indexes[i], f.indexes[i])
<1> DEFINE index == f.indexes[i]
           built == [table |-> index.table, unique |-> index.unique, method |-> index.method,
                     columns |-> index.columns, valid |-> valid]
           is == With(c.indexes, i, built)
<1>1. CreateIndexEffect(c, i, f, valid) = [c EXCEPT !.indexes = is]
    BY DEF CreateIndexEffect
<1>2. /\ DOMAIN is = DOMAIN c.indexes \cup {i}
      /\ \A j \in DOMAIN c.indexes : is[j] = c.indexes[j]
      /\ is[i] = built
    BY DEF With
<1>3. SameIndex(built, f.indexes[i])
    BY DEF SameIndex
<1> HIDE DEF is, built
<1>4. CreateIndexEffect(c, i, f, valid) =
         [namespaces |-> c.namespaces, tables |-> c.tables, indexes |-> is]
    BY <1>1, ExceptIndexes
<1> QED
    BY <1>2, <1>3, <1>4

LEMMA CreateIndexChanges ==
    ASSUME NEW U, NEW f, NEW c, IsCatalog(c), Sound(U, c), NEW i \in DOMAIN f.indexes,
           CreateIndexAccepted(c, i, f), NEW valid
    PROVE  ChangesIndexes(f, c, CreateIndexEffect(c, i, f, valid))
<1> DEFINE d == CreateIndexEffect(c, i, f, valid)
<1>1. f.indexes[i].table \in DOMAIN c.tables
    BY DEF CreateIndexAccepted
<1>2. CASE i \in DOMAIN c.indexes \cup UniqueNames(c)
    <2>1. d = c
        BY <1>2 DEF CreateIndexEffect
    <2> HIDE DEF d
    <2>2. ChangesIndexes(f, c, d)
        BY <2>1 DEF ChangesIndexes, Sound, SameIndex
    <2> QED
        BY <2>2 DEF d
<1>3. CASE i \notin DOMAIN c.indexes \cup UniqueNames(c)
    <2>1. /\ d.namespaces = c.namespaces /\ d.tables = c.tables
          /\ DOMAIN d.indexes = DOMAIN c.indexes \cup {i}
          /\ \A j \in DOMAIN c.indexes : d.indexes[j] = c.indexes[j]
          /\ SameIndex(d.indexes[i], f.indexes[i])
        BY <1>3, CreateIndexParts
    <2> HIDE DEF d
    <2>2. ChangesIndexes(f, c, d)
        BY <1>1, <2>1 DEF ChangesIndexes, Sound, SameIndex
    <2> QED
        BY <2>2 DEF d
<1> QED
    BY <1>2, <1>3

\* The end of a build says of an index that it is valid, and nothing else.
LEMMA MakeValidParts ==
    ASSUME NEW c, IsCatalog(c), NEW i
    PROVE  LET d == [c EXCEPT !.indexes[i].valid = TRUE]
           IN  /\ d.namespaces = c.namespaces /\ d.tables = c.tables
               /\ DOMAIN d.indexes = DOMAIN c.indexes
               /\ \A j \in DOMAIN c.indexes : j # i => d.indexes[j] = c.indexes[j]
               /\ \A j \in DOMAIN c.indexes : SameIndex(d.indexes[j], c.indexes[j])
<1> DEFINE is == [c.indexes EXCEPT ![i].valid = TRUE]
<1>1. DOMAIN is = DOMAIN c.indexes /\ \A j \in DOMAIN c.indexes : j # i => is[j] = c.indexes[j]
    BY CatalogRecord DEF IsMapTo
<1>2. ASSUME NEW j \in DOMAIN c.indexes
      PROVE  SameIndex(is[j], c.indexes[j])
    <2>1. c.indexes[j] \in CatalogIndex
        BY CatalogRecord DEF IsMapTo
    <2>2. SameIndex([c.indexes[j] EXCEPT !.valid = TRUE], c.indexes[j])
        BY <2>1 DEF CatalogIndex, SameIndex
    <2>3. is[j] = IF j = i THEN [c.indexes[j] EXCEPT !.valid = TRUE] ELSE c.indexes[j]
        BY CatalogRecord DEF IsMapTo
    <2> QED
        BY <2>2, <2>3 DEF SameIndex
<1>3. [c EXCEPT !.indexes[i].valid = TRUE] = [c EXCEPT !.indexes = is]
    OBVIOUS
<1> HIDE DEF is
<1>4. [c EXCEPT !.indexes = is] =
         [namespaces |-> c.namespaces, tables |-> c.tables, indexes |-> is]
    BY ExceptIndexes
<1> QED
    BY <1>1, <1>2, <1>3, <1>4

LEMMA MakeValidChanges ==
    ASSUME NEW U, NEW f, NEW c, IsCatalog(c), Sound(U, c), NEW i
    PROVE  ChangesIndexes(f, c, [c EXCEPT !.indexes[i].valid = TRUE])
<1> DEFINE d == [c EXCEPT !.indexes[i].valid = TRUE]
<1>1. /\ d.namespaces = c.namespaces /\ d.tables = c.tables
      /\ DOMAIN d.indexes = DOMAIN c.indexes
      /\ \A j \in DOMAIN c.indexes : SameIndex(d.indexes[j], c.indexes[j])
    BY MakeValidParts
<1> HIDE DEF d
<1>2. ChangesIndexes(f, c, d)
    BY <1>1 DEF ChangesIndexes, Sound, SameIndex
<1> QED
    BY <1>2 DEF d
=============================================================================
