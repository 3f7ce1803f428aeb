------------------------------ MODULE Postgres ------------------------------
(***************************************************************************)
(* The PostgreSQL catalog and the DDL statements the tool sends to it.     *)
(* This is the environment: it is modelled from the SQL the apply modules  *)
(* build and from the guarantees of the server they rely on.  A catalog is *)
(* a schema whose indexes also say whether they are valid: a failed        *)
(* CREATE INDEX CONCURRENTLY leaves an invalid index behind.               *)
(***************************************************************************)
EXTENDS Diff

CONSTANT Btree   \* the access method of an index created without USING

ASSUME PostgresAssumption == Btree \in Methods

CatalogIndex == [table : Tables, unique : BOOLEAN, method : Methods,
                 columns : ColumnList, valid : BOOLEAN]

IsCatalog(c) ==
    /\ c \in [namespaces : SUBSET Namespaces, tables : {c.tables}, indexes : {c.indexes}]
    /\ AreTables(c.tables)
    /\ IsMapTo(c.indexes, Indexes, CatalogIndex)

Without(f, x) == Restriction(f, DOMAIN f \ {x})
With(f, x, y) == [z \in DOMAIN f \cup {x} |-> IF z = x THEN y ELSE f[z]]

-----------------------------------------------------------------------------
(* Conditions the server checks before it accepts a statement.             *)

\* A key that a FOREIGN KEY may refer to; the order of columns is free.
UniqueOn(catalog, t, columns) ==
    LET table == catalog.tables[t]
        wanted == Elements(columns)
    IN  \/ Elements(table.primaryKey) = wanted
        \/ \E u \in table.uniques : Elements(u.columns) = wanted
        \/ \E i \in DOMAIN catalog.indexes :
              LET index == catalog.indexes[i]
              IN  /\ index.table = t /\ index.unique /\ index.valid
                  /\ Elements(index.columns) = wanted

Resolvable(catalog, fk) ==
    /\ fk.references \in DOMAIN catalog.tables
    /\ UniqueOn(catalog, fk.references, fk.referenced)

\* Whether a foreign key refers to a constraint rather than to a unique index.
RestsOnConstraint(catalog, fk) ==
    LET table == catalog.tables[fk.references]
        wanted == Elements(fk.referenced)
    IN  \/ Elements(table.primaryKey) = wanted
        \/ \E u \in table.uniques : Elements(u.columns) = wanted

\* The foreign keys of the catalog, each with the table it is on.
ForeignKeysOf(catalog) ==
    UNION {{<<t, fk>> : fk \in catalog.tables[t].foreignKeys} :
              t \in DOMAIN catalog.tables}

ConstraintsOf(table) ==
    {u.name : u \in table.uniques} \cup {fk.name : fk \in table.foreignKeys}

\* No two constraints of a table have one name.
NamesApart(table) ==
    /\ \A u, v \in table.uniques : u.name = v.name => u = v
    /\ \A fk, gk \in table.foreignKeys : fk.name = gk.name => fk = gk
    /\ \A u \in table.uniques, fk \in table.foreignKeys : u.name # fk.name

\* A UNIQUE constraint owns an index of the same name.
UniqueNames(catalog) ==
    {u.name : u \in UNION {catalog.tables[t].uniques : t \in DOMAIN catalog.tables}}

\* A primary key makes its columns NOT NULL.
NotNull(columns, key) ==
    [c \in DOMAIN columns |-> IF c \in Elements(key)
                               THEN [columns[c] EXCEPT !.nullable = FALSE]
                               ELSE columns[c]]

WithPrimaryKey(table, key) ==
    [table EXCEPT !.columns = NotNull(table.columns, key), !.primaryKey = key]

\* Mutant: CREATE TABLE loses NOT NULL, but on the primary key.
StoredNullable(table) ==
    [WithPrimaryKey([table EXCEPT !.columns =
                        [c \in DOMAIN @ |-> [@[c] EXCEPT !.nullable = TRUE]]],
                    table.primaryKey) EXCEPT !.removed = << >>]

Stored(table) ==
    [WithPrimaryKey(table, table.primaryKey) EXCEPT !.removed = << >>]

OnTable(catalog, t, table) == [catalog EXCEPT !.tables[t] = table]

\* DROP COLUMN takes every index and constraint the column is part of.
DropColumn(catalog, t, c) ==
    LET table == catalog.tables[t]
        spared == {i \in DOMAIN catalog.indexes :
                      ~(/\ catalog.indexes[i].table = t
                        /\ c \in Elements(catalog.indexes[i].columns))}
        left == [columns |-> Without(table.columns, c),
                 primaryKey |-> IF c \in Elements(table.primaryKey)
                                THEN NoPrimaryKey ELSE table.primaryKey,
                 uniques |-> {u \in table.uniques : c \notin Elements(u.columns)},
                 foreignKeys |-> {fk \in table.foreignKeys : c \notin Elements(fk.columns)},
                 removed |-> table.removed]
    IN  [OnTable(catalog, t, left) EXCEPT !.indexes = Restriction(catalog.indexes, spared)]

DropTable(catalog, t) ==
    LET spared == {i \in DOMAIN catalog.indexes : catalog.indexes[i].table # t}
    IN  [catalog EXCEPT !.tables = Without(catalog.tables, t),
                        !.indexes = Restriction(catalog.indexes, spared)]

-----------------------------------------------------------------------------
(***************************************************************************)
(* The statement of migration m, sent by a run that works from "files" and *)
(* computed the plan from the schema "have".  Accepts says when the server *)
(* executes it, given the catalog alone; Effect is the catalog afterwards. *)
(***************************************************************************)

\* The desired definition of the named part of a table.
WantedUnique(files, t, name) == CHOOSE u \in files.tables[t].uniques : u.name = name
WantedForeignKey(files, t, name) ==
    CHOOSE fk \in files.tables[t].foreignKeys : fk.name = name

CreateTableAccepted(catalog, t, files) ==
    LET created == With(catalog.tables, t, Stored(files.tables[t]))
        after == [catalog EXCEPT !.tables = created]
    IN  /\ t \notin DOMAIN catalog.tables
        /\ NamespaceOf[t] \in catalog.namespaces
        /\ NamesApart(files.tables[t])
        /\ \A u \in files.tables[t].uniques :
              u.name \notin DOMAIN catalog.indexes \cup UniqueNames(catalog)
        /\ \A fk \in files.tables[t].foreignKeys : Resolvable(after, fk)

\* The key of another object that depends on column c of table t.
ColumnIsReferenced(catalog, t, c) ==
    \E pair \in ForeignKeysOf(catalog) :
        /\ pair[2].references = t
        /\ c \in Elements(pair[2].referenced)
        /\ ~(pair[1] = t /\ c \in Elements(pair[2].columns))

TableIsReferenced(catalog, t) ==
    \E pair \in ForeignKeysOf(catalog) : pair[1] # t /\ pair[2].references = t

\* A foreign key rests on the constraint or index it was resolved with.
UniqueIsReferenced(catalog, t, name) ==
    \E u \in catalog.tables[t].uniques, pair \in ForeignKeysOf(catalog) :
        /\ u.name = name
        /\ pair[2].references = t
        /\ Elements(pair[2].referenced) = Elements(u.columns)
        /\ Elements(catalog.tables[t].primaryKey) # Elements(u.columns)

IndexIsReferenced(catalog, i) ==
    LET index == catalog.indexes[i]
        t == index.table
        left == [catalog EXCEPT !.indexes = Without(@, i)]
    IN  \E pair \in ForeignKeysOf(catalog) :
            /\ pair[2].references = t
            /\ ~UniqueOn(left, t, pair[2].referenced)

\* Only the clauses for what differed when the plan was made are sent.
DropsNotNull(t, c, files, have) ==
    ~have.tables[t].columns[c].nullable /\ files.tables[t].columns[c].nullable

\* Mutant: ALTER COLUMN sends no SET DEFAULT.
AlteredButDefault(current, old, new) ==
    [type |-> IF old.type # new.type THEN new.type ELSE current.type,
     nullable |-> IF old.nullable # new.nullable THEN new.nullable ELSE current.nullable,
     default |-> current.default]

AlteredColumn(current, old, new) ==
    [type |-> IF old.type # new.type THEN new.type ELSE current.type,
     nullable |-> IF old.nullable # new.nullable THEN new.nullable ELSE current.nullable,
     default |-> IF old.default # new.default THEN new.default ELSE current.default]

\* The builder puts USING after the column list, where the grammar has no
\* place for it; a statement without USING is a btree.
CreateIndexParses(files, i) == files.indexes[i].method = Btree

CreateIndexAccepted(catalog, i, files) ==
    LET index == files.indexes[i]
    IN  /\ CreateIndexParses(files, i)
        /\ index.table \in DOMAIN catalog.tables
        /\ Elements(index.columns) \subseteq DOMAIN catalog.tables[index.table].columns

AlterTableAccepts(catalog, m, files, have) ==
    LET t == m.on
        table == catalog.tables[t]
        columns == DOMAIN table.columns
    IN  CASE m.kind = "add_column" -> m.name \notin columns
          [] m.kind = "alter_column" ->
                /\ m.name \in columns
                /\ ~(DropsNotNull(t, m.name, files, have)
                        /\ m.name \in Elements(table.primaryKey))
          [] m.kind = "add_primary_key" ->
                /\ table.primaryKey = NoPrimaryKey
                /\ Elements(files.tables[t].primaryKey) \subseteq columns
          [] m.kind = "add_unique_key" ->
                /\ m.name \notin DOMAIN catalog.indexes \cup UniqueNames(catalog)
                                     \cup ConstraintsOf(table)
                /\ Elements(WantedUnique(files, t, m.name).columns) \subseteq columns
          [] m.kind = "add_foreign_key" ->
                /\ m.name \notin ConstraintsOf(table)
                /\ Elements(WantedForeignKey(files, t, m.name).columns) \subseteq columns
                /\ Resolvable(catalog, WantedForeignKey(files, t, m.name))
          [] m.kind = "drop_column" ->
                m.name \in columns => ~ColumnIsReferenced(catalog, t, m.name)
          [] m.kind = "drop_unique_key" -> ~UniqueIsReferenced(catalog, t, m.name)
          [] m.kind = "drop_foreign_key" -> TRUE

Accepts(catalog, m, files, have) ==
    CASE m.kind = "create_schema" -> TRUE
      [] m.kind = "create_table" -> CreateTableAccepted(catalog, m.on, files)
      [] m.kind = "drop_table" ->
            m.on \in DOMAIN catalog.tables /\ ~TableIsReferenced(catalog, m.on)
      [] m.kind = "create_index" -> CreateIndexAccepted(catalog, m.name, files)
      [] m.kind = "drop_index" ->
            m.name \in DOMAIN catalog.indexes => ~IndexIsReferenced(catalog, m.name)
      [] OTHER -> m.on \in DOMAIN catalog.tables
                     /\ AlterTableAccepts(catalog, m, files, have)

DropConstraint(table, name) ==
    [table EXCEPT !.uniques = {u \in table.uniques : u.name # name},
                  !.foreignKeys = {fk \in table.foreignKeys : fk.name # name}]

AlterTableEffect(catalog, m, files, have) ==
    LET t == m.on
        table == catalog.tables[t]
        want == files.tables[t]
    IN  CASE m.kind = "add_column" ->
                OnTable(catalog, t, [table EXCEPT !.columns =
                    With(@, m.name, want.columns[m.name])])
          [] m.kind = "alter_column" ->
                OnTable(catalog, t, [table EXCEPT !.columns[m.name] =
                    AlteredColumn(@, have.tables[t].columns[m.name], want.columns[m.name])])
          [] m.kind = "add_primary_key" ->
                OnTable(catalog, t, WithPrimaryKey(table, want.primaryKey))
          [] m.kind = "add_unique_key" ->
                OnTable(catalog, t, [table EXCEPT !.uniques =
                    @ \cup {WantedUnique(files, t, m.name)}])
          [] m.kind = "add_foreign_key" ->
                OnTable(catalog, t, [table EXCEPT !.foreignKeys =
                    @ \cup {WantedForeignKey(files, t, m.name)}])
          [] m.kind = "drop_column" ->
                IF m.name \in DOMAIN table.columns
                THEN DropColumn(catalog, t, m.name) ELSE catalog
          [] m.kind \in {"drop_unique_key", "drop_foreign_key"} ->
                OnTable(catalog, t, DropConstraint(table, m.name))

\* IF NOT EXISTS looks at the name only: whatever already has it is kept.
CreateIndexEffect(catalog, i, files, valid) ==
    LET index == files.indexes[i]
        built == [table |-> index.table, unique |-> index.unique,
                  method |-> index.method, columns |-> index.columns,
                  valid |-> valid]
    IN  IF i \in DOMAIN catalog.indexes \cup UniqueNames(catalog)
        THEN catalog
        ELSE [catalog EXCEPT !.indexes = With(@, i, built)]

\* Whether the statement builds an index, rather than find the name taken.
Builds(catalog, m) ==
    /\ m.kind = "create_index"
    /\ m.name \notin DOMAIN catalog.indexes \cup UniqueNames(catalog)

Effect(catalog, m, files, have) ==
    CASE m.kind = "create_schema" -> [catalog EXCEPT !.namespaces = @ \cup {m.on}]
      [] m.kind = "create_table" ->
            [catalog EXCEPT !.tables = With(@, m.on, Stored(files.tables[m.on]))]
      [] m.kind = "drop_table" -> DropTable(catalog, m.on)
      [] m.kind = "create_index" -> CreateIndexEffect(catalog, m.name, files, TRUE)
      [] m.kind = "drop_index" -> [catalog EXCEPT !.indexes = Without(@, m.name)]
      [] OTHER -> AlterTableEffect(catalog, m, files, have)
=============================================================================
