------------------------------- MODULE Schema -------------------------------
(***************************************************************************)
(* The structured model that both sides of a comparison are reduced to:    *)
(* the desired schema parsed from the .sql files and the actual schema     *)
(* read from PostgreSQL.  Text is gone at this point; a table, a column, a *)
(* type or a name is an opaque value that can only be compared.            *)
(***************************************************************************)
EXTENDS Naturals, Sequences, FiniteSets

CONSTANTS
    Namespaces,      \* user namespaces ("CREATE SCHEMA" names), never a system one
    Public,          \* the namespace that is never reported for a drop
    Tables,          \* table keys ("schema.table")
    NamespaceOf,     \* the namespace of each table key
    Columns,         \* column names
    Types,           \* normalised column types
    Defaults,        \* normalised default expressions
    NoDefault,       \* the empty default
    AnyType,         \* the ANY_TYPE wildcard of a drop directive
    ConstraintNames, \* names of UNIQUE and FOREIGN KEY constraints
    Indexes,         \* index keys ("schema.index")
    Methods          \* index access methods

ASSUME SchemaAssumption ==
    /\ NamespaceOf \in [Tables -> Namespaces]
    /\ Public \in Namespaces
    /\ NoDefault \notin Defaults
    /\ AnyType \notin Types

\* f is a map from some of S to T.
IsMap(f, S) == DOMAIN f \subseteq S /\ f = [x \in DOMAIN f |-> f[x]]
IsMapTo(f, S, T) == DOMAIN f \subseteq S /\ f \in [DOMAIN f -> T]

Restriction(f, S) == [x \in DOMAIN f \cap S |-> f[x]]

Elements(seq) == {seq[i] : i \in DOMAIN seq}

-----------------------------------------------------------------------------
Column == [type : Types, nullable : BOOLEAN, default : Defaults \cup {NoDefault}]

ColumnList == Seq(Columns)

\* Option<PrimaryKeyConstraint>: only the column list is ever compared, and
\* a key that exists has at least one column.
NoPrimaryKey == << >>

Unique == [name : ConstraintNames, columns : ColumnList]

ForeignKey == [name : ConstraintNames, columns : ColumnList,
               references : Tables, referenced : ColumnList]

\* "removed" holds the legacy "-- removed: col type" directives of the table
\* body; it is empty in a table read from the database.
IsTable(t) ==
    /\ t \in [columns : {t.columns}, primaryKey : ColumnList,
              uniques : SUBSET Unique, foreignKeys : SUBSET ForeignKey,
              removed : {t.removed}]
    /\ IsMapTo(t.columns, Columns, Column)
    /\ IsMapTo(t.removed, Columns, Types \cup {AnyType})

AreTables(tables) == IsMap(tables, Tables) /\ \A t \in DOMAIN tables : IsTable(tables[t])

\* An index lives in the namespace of its table.
Index == [table : Tables, unique : BOOLEAN, method : Methods,
          columns : ColumnList]

NamedIndex == [name : Indexes, table : Tables, unique : BOOLEAN,
               method : Methods, columns : ColumnList]

IsSchema(s) ==
    /\ s \in [namespaces : SUBSET Namespaces, tables : {s.tables}, indexes : {s.indexes}]
    /\ AreTables(s.tables)
    /\ IsMapTo(s.indexes, Indexes, Index)

-----------------------------------------------------------------------------
(* Drift: what an author declared may be dropped or tolerated. *)

Policies == {"DROP", "DEPRECATED"}

AnticipatedColumn == [name : Columns, type : Types \cup {AnyType}]

DriftGroup == [policy : Policies,
               columns : SUBSET AnticipatedColumn,
               uniques : SUBSET Unique,
               foreignKeys : SUBSET ForeignKey,
               indexes : SUBSET NamedIndex]

\* What the loader hands to the planner: the desired model, the column lists
\* of the "-- DROP TABLE" blocks, and the merged drift groups.
IsFiles(f) ==
    /\ f \in [schemas : SUBSET Namespaces, tables : {f.tables}, indexes : {f.indexes},
              allowDropTables : {f.allowDropTables}, groups : SUBSET DriftGroup]
    /\ IsFiniteSet(f.groups)
    /\ AreTables(f.tables)
    /\ AreTables(f.allowDropTables)
    /\ IsMapTo(f.indexes, Indexes, Index)

(***************************************************************************)
(* The namespaces the files ask for: declared ones and those of every      *)
(* table, referenced table and index.                                      *)
(***************************************************************************)
CollectDesiredNamespaces(files) ==
    files.schemas
        \cup {NamespaceOf[t] : t \in DOMAIN files.tables}
        \cup {NamespaceOf[fk.references] :
                 fk \in UNION {files.tables[t].foreignKeys : t \in DOMAIN files.tables}}
        \cup {NamespaceOf[files.indexes[i].table] : i \in DOMAIN files.indexes}
=============================================================================
