-------------------------------- MODULE Diff --------------------------------
(***************************************************************************)
(* The planner: compare the desired files with the schema read from the    *)
(* database and produce the migrations to run and the destructive changes  *)
(* that make the plan refused.                                             *)
(*                                                                         *)
(* The drift groups sit in a hash map; "orders" has, for every object, the *)
(* sequence in which the run happens to iterate over them for it: the same *)
(* for all objects in Rust, where a map keeps its order while it is left   *)
(* alone, and another for each in Go, where every loop starts anew.        *)
(***************************************************************************)
EXTENDS Schema

CONSTANTS
    Go,        \* TRUE: the Go implementation, FALSE: the Rust one
    NoName,    \* the name of a migration of a whole namespace or table
    Position   \* rank of every name in the order strings are compared in

ASSUME DiffAssumption ==
    /\ Go \in BOOLEAN
    /\ NoName \notin Columns \cup ConstraintNames \cup Indexes
    /\ Position \in [Namespaces \cup Tables \cup Indexes -> Nat]
    /\ \A S \in {Namespaces, Tables, Indexes} :
          \A x, y \in S : Position[x] = Position[y] => x = y

Kinds == {"create_schema", "create_table", "add_column", "alter_column",
          "add_primary_key", "add_unique_key", "add_foreign_key",
          "create_index", "drop_column", "drop_table", "drop_unique_key",
          "drop_foreign_key", "drop_index"}

\* A migration names the object it works on; the definition the code embeds
\* in it is the one the files give to that object.
Migrations == [kind : Kinds, on : Namespaces \cup Tables,
               name : {NoName} \cup Columns \cup ConstraintNames \cup Indexes]

Migration(kind, on, name) == [kind |-> kind, on |-> on, name |-> name]

\* A destructive change, which is reported and refuses the whole plan.
RefusalKinds == {"drop_schema", "drop_table", "drop_column",
                 "add_column_not_null_no_default",
                 "alter_column_not_null_no_backfill", "primary_key_mismatch",
                 "drop_unique_key", "drop_foreign_key", "drop_index"}

Refusal(kind, on, name) == [kind |-> kind, on |-> on, name |-> name]

-----------------------------------------------------------------------------
(* Matching.                                                               *)

\* Mutant: extra columns in the directive are overlooked.
TablesMatchInPart(actual, expected) ==
    \A c \in DOMAIN actual.columns :
        /\ c \in DOMAIN expected.columns
        /\ actual.columns[c].type = expected.columns[c].type

\* A table may be dropped only when the directive lists exactly its columns.
TablesMatchForDrop(actual, expected) ==
    /\ DOMAIN actual.columns = DOMAIN expected.columns
    /\ \A c \in DOMAIN actual.columns :
          actual.columns[c].type = expected.columns[c].type

\* The table an index is on is not part of the comparison.
IndexMatches(actual, desired) ==
    /\ actual.unique = desired.unique
    /\ actual.method = desired.method
    /\ actual.columns = desired.columns

\* Constraints are identified by name and definition.
HaveUnique(unique, list) == unique \in list
HaveForeignKey(fk, list) == fk \in list

\* The orders in which one loop over a hash map may yield the groups.
Iterations(groups) ==
    {order \in [1..Cardinality(groups) -> groups] :
        \A i, j \in 1..Cardinality(groups) : i # j => order[i] # order[j]}

\* Columns, constraints and indexes, each with its table.
Objects == Tables \X (Columns \cup ConstraintNames \cup Indexes)

OrdersRust(groups) == {[object \in Objects |-> order] : order \in Iterations(groups)}
OrdersGo(groups) == [Objects -> Iterations(groups)]
Orders(groups) == IF Go THEN OrdersGo(groups) ELSE OrdersRust(groups)

\* The policy of the first group, in iteration order, that covers an object.
FirstPolicy(order, Covers(_)) ==
    LET covering == {i \in DOMAIN order : Covers(order[i])}
    IN  IF covering = {} THEN "none"
        ELSE order[CHOOSE i \in covering : \A j \in covering : i <= j].policy

CoversColumn(group, c, type) ==
    \E a \in group.columns :
        /\ a.name = c
        /\ a.type = type \/ (~Go /\ a.type = AnyType)

CoversUniqueRust(group, unique) ==
    \E a \in group.uniques : a.name = unique.name /\ a.columns = unique.columns
CoversUniqueGo(group, unique) ==
    \E a \in group.uniques : a.name = unique.name
CoversUnique(group, unique) ==
    IF Go THEN CoversUniqueGo(group, unique) ELSE CoversUniqueRust(group, unique)

CoversForeignKeyRust(group, fk) ==
    \E a \in group.foreignKeys : a.name = fk.name /\ a.columns = fk.columns
CoversForeignKeyGo(group, fk) ==
    \E a \in group.foreignKeys : a.name = fk.name
CoversForeignKey(group, fk) ==
    IF Go THEN CoversForeignKeyGo(group, fk) ELSE CoversForeignKeyRust(group, fk)

CoversIndexRust(group, index) == \E a \in group.indexes : IndexMatches(index, a)
CoversIndexGo(group, name, index) ==
    \E a \in group.indexes : IndexMatches(index, a) /\ a.name = name
CoversIndex(group, name, index) ==
    IF Go THEN CoversIndexGo(group, name, index) ELSE CoversIndexRust(group, index)

-----------------------------------------------------------------------------
(* What happens to one surplus object: DROP plans a drop, DEPRECATED       *)
(* leaves it alone, none refuses the plan.                                 *)

RemovedAllows(want, c, type) ==
    /\ c \in DOMAIN want.removed
    /\ want.removed[c] \in {AnyType, type}

\* Mutant: the type of a "-- removed:" directive is not compared.
ColumnVerdictByName(want, c, type, order) ==
    LET Covers(group) == CoversColumn(group, c, type)
    IN  IF c \in DOMAIN want.removed THEN "DROP" ELSE FirstPolicy(order, Covers)

ColumnVerdict(want, c, type, order) ==
    LET Covers(group) == CoversColumn(group, c, type)
    IN  IF RemovedAllows(want, c, type) THEN "DROP" ELSE FirstPolicy(order, Covers)

\* Mutant: any group that covers the constraint counts as DROP.
UniqueVerdictIsDrop(unique, order) ==
    IF \E i \in DOMAIN order : CoversUnique(order[i], unique) THEN "DROP" ELSE "none"

UniqueVerdict(unique, order) ==
    LET Covers(group) == CoversUnique(group, unique)
    IN  FirstPolicy(order, Covers)

ForeignKeyVerdict(fk, order) ==
    LET Covers(group) == CoversForeignKey(group, fk)
    IN  FirstPolicy(order, Covers)

IndexVerdict(name, index, order) ==
    LET Covers(group) == CoversIndex(group, name, index)
    IN  FirstPolicy(order, Covers)

DropTableAllowed(files, have, t) ==
    /\ t \in DOMAIN files.allowDropTables
    /\ TablesMatchForDrop(have.tables[t], files.allowDropTables[t])

-----------------------------------------------------------------------------
(* The comparison, one part at a time.  "files" is the desired side,       *)
(* "have" the schema that was read.                                        *)

MissingNamespaces(files, have) ==
    CollectDesiredNamespaces(files) \ have.namespaces
\* Mutant: the public namespace is reported like any other.
SurplusWithPublic(files, have) == have.namespaces \ CollectDesiredNamespaces(files)

SurplusNamespaces(files, have) ==
    (have.namespaces \ CollectDesiredNamespaces(files)) \ {Public}

MissingTables(files, have) == DOMAIN files.tables \ DOMAIN have.tables
SurplusTables(files, have) == DOMAIN have.tables \ DOMAIN files.tables
CommonTables(files, have) == DOMAIN files.tables \cap DOMAIN have.tables

SurplusColumns(want, have) == DOMAIN have.columns \ DOMAIN want.columns

MissingColumns(want, have) == DOMAIN want.columns \ DOMAIN have.columns

\* A column that cannot be added to a table with rows.
NotNullNoDefault(column) == ~column.nullable /\ column.default = NoDefault

\* Mutant: defaults are not compared.
ChangedButDefault(want, have) ==
    {c \in DOMAIN want.columns \cap DOMAIN have.columns :
        \/ want.columns[c].type # have.columns[c].type
        \/ want.columns[c].nullable # have.columns[c].nullable}

ChangedColumns(want, have) ==
    {c \in DOMAIN want.columns \cap DOMAIN have.columns :
        want.columns[c] # have.columns[c]}

\* Mutant: SET NOT NULL is planned.
NeverNarrows(want, have, c) == FALSE

\* SET NOT NULL does not backfill, so narrowing is never planned.
Narrows(want, have, c) == have.columns[c].nullable /\ ~want.columns[c].nullable

\* Mutant: a primary key the files no longer have is overlooked.
PrimaryKeysDiffer(want, have) ==
    /\ have.primaryKey # NoPrimaryKey /\ want.primaryKey # NoPrimaryKey
    /\ want.primaryKey # have.primaryKey

PrimaryKeyMismatch(want, have) ==
    have.primaryKey # NoPrimaryKey /\ want.primaryKey # have.primaryKey

AddPrimaryKey(want, have) ==
    have.primaryKey = NoPrimaryKey /\ want.primaryKey # NoPrimaryKey

MissingUniques(want, have) ==
    {u \in want.uniques : ~HaveUnique(u, have.uniques)}
SurplusUniques(want, have) ==
    {u \in have.uniques : ~HaveUnique(u, want.uniques)}

MissingForeignKeys(want, have) ==
    {fk \in want.foreignKeys : ~HaveForeignKey(fk, have.foreignKeys)}
SurplusForeignKeys(want, have) ==
    {fk \in have.foreignKeys : ~HaveForeignKey(fk, want.foreignKeys)}

\* Mutant: an index that does not exist is not created.
IndexesToChange(files, have) ==
    {i \in DOMAIN files.indexes \cap DOMAIN have.indexes :
        ~IndexMatches(have.indexes[i], files.indexes[i])}

IndexesToCreate(files, have) ==
    {i \in DOMAIN files.indexes :
        \/ i \notin DOMAIN have.indexes
        \/ ~IndexMatches(have.indexes[i], files.indexes[i])}

SurplusIndexes(files, have) == DOMAIN have.indexes \ DOMAIN files.indexes

ColumnMigrations(want, have, t, orders) ==
    {Migration("drop_column", t, c) :
        c \in {d \in SurplusColumns(want, have) :
                  ColumnVerdict(want, d, have.columns[d].type, orders[<<t, d>>]) = "DROP"}}
    \cup {Migration("add_column", t, c) :
        c \in {d \in MissingColumns(want, have) : ~NotNullNoDefault(want.columns[d])}}
    \cup {Migration("alter_column", t, c) :
        c \in {d \in ChangedColumns(want, have) : ~Narrows(want, have, d)}}

ColumnRefusals(want, have, t, orders) ==
    {Refusal("drop_column", t, c) :
        c \in {d \in SurplusColumns(want, have) :
                  ColumnVerdict(want, d, have.columns[d].type, orders[<<t, d>>]) = "none"}}
    \cup {Refusal("add_column_not_null_no_default", t, c) :
        c \in {d \in MissingColumns(want, have) : NotNullNoDefault(want.columns[d])}}
    \cup {Refusal("alter_column_not_null_no_backfill", t, c) :
        c \in {d \in ChangedColumns(want, have) : Narrows(want, have, d)}}

PrimaryKeyMigrations(want, have, t) ==
    IF AddPrimaryKey(want, have) THEN {Migration("add_primary_key", t, NoName)} ELSE {}

PrimaryKeyRefusals(want, have, t) ==
    IF PrimaryKeyMismatch(want, have) THEN {Refusal("primary_key_mismatch", t, NoName)} ELSE {}

UniqueMigrations(want, have, t, orders) ==
    {Migration("add_unique_key", t, u.name) : u \in MissingUniques(want, have)}
    \cup {Migration("drop_unique_key", t, u.name) :
        u \in {v \in SurplusUniques(want, have) : UniqueVerdict(v, orders[<<t, v.name>>]) = "DROP"}}

UniqueRefusals(want, have, t, orders) ==
    {Refusal("drop_unique_key", t, u.name) :
        u \in {v \in SurplusUniques(want, have) : UniqueVerdict(v, orders[<<t, v.name>>]) = "none"}}

ForeignKeyMigrations(want, have, t, orders) ==
    {Migration("add_foreign_key", t, fk.name) : fk \in MissingForeignKeys(want, have)}
    \cup {Migration("drop_foreign_key", t, fk.name) :
        fk \in {g \in SurplusForeignKeys(want, have) : ForeignKeyVerdict(g, orders[<<t, g.name>>]) = "DROP"}}

ForeignKeyRefusals(want, have, t, orders) ==
    {Refusal("drop_foreign_key", t, fk.name) :
        fk \in {g \in SurplusForeignKeys(want, have) : ForeignKeyVerdict(g, orders[<<t, g.name>>]) = "none"}}

TableMigrations(want, have, t, orders) ==
    ColumnMigrations(want, have, t, orders)
        \cup PrimaryKeyMigrations(want, have, t)
        \cup UniqueMigrations(want, have, t, orders)
        \cup ForeignKeyMigrations(want, have, t, orders)

TableRefusals(want, have, t, orders) ==
    ColumnRefusals(want, have, t, orders)
        \cup PrimaryKeyRefusals(want, have, t)
        \cup UniqueRefusals(want, have, t, orders)
        \cup ForeignKeyRefusals(want, have, t, orders)

NamespaceMigrations(files, have) ==
    {Migration("create_schema", ns, NoName) : ns \in MissingNamespaces(files, have)}

WholeTableMigrations(files, have) ==
    {Migration("drop_table", t, NoName) :
        t \in {s \in SurplusTables(files, have) : DropTableAllowed(files, have, s)}}
    \cup {Migration("create_table", t, NoName) : t \in MissingTables(files, have)}

IndexMigrations(files, have, orders) ==
    {Migration("create_index", files.indexes[i].table, i) : i \in IndexesToCreate(files, have)}
    \cup {Migration("drop_index", have.indexes[i].table, i) :
        i \in {j \in SurplusIndexes(files, have) :
                  IndexVerdict(j, have.indexes[j], orders[<<have.indexes[j].table, j>>]) = "DROP"}}

\* An index of a table that is about to be dropped vanishes with it; only the
\* Rust planner knows that.
IndexVanishesRust(files, have, i) ==
    LET t == have.indexes[i].table
    IN  Migration("drop_table", t, NoName) \in WholeTableMigrations(files, have)
IndexVanishesGo(files, have, i) == FALSE
IndexVanishes(files, have, i) ==
    IF Go THEN IndexVanishesGo(files, have, i) ELSE IndexVanishesRust(files, have, i)

IndexRefusals(files, have, orders) ==
    {Refusal("drop_index", have.indexes[i].table, i) :
        i \in {j \in SurplusIndexes(files, have) :
                  /\ IndexVerdict(j, have.indexes[j], orders[<<have.indexes[j].table, j>>]) = "none"
                  /\ ~IndexVanishes(files, have, j)}}

Plan(files, have, orders) ==
    NamespaceMigrations(files, have)
        \cup WholeTableMigrations(files, have)
        \cup (UNION {TableMigrations(files.tables[t], have.tables[t], t, orders) :
                        t \in CommonTables(files, have)})
        \cup IndexMigrations(files, have, orders)

\* The destructive changes: a plan with one of them is not applied at all.
Disallowed(files, have, orders) ==
    {Refusal("drop_schema", ns, NoName) : ns \in SurplusNamespaces(files, have)}
        \cup {Refusal("drop_table", t, NoName) :
                 t \in {s \in SurplusTables(files, have) : ~DropTableAllowed(files, have, s)}}
        \cup (UNION {TableRefusals(files.tables[t], have.tables[t], t, orders) :
                        t \in CommonTables(files, have)})
        \cup IndexRefusals(files, have, orders)
=============================================================================
