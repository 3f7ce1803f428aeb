--------------------------- MODULE MigrationOrder ---------------------------
(***************************************************************************)
(* The order in which the migrations of one plan are executed: by kind,    *)
(* then by the name of the table, then (for some kinds) by the name of the *)
(* index, and the create_table migrations so that a table follows the ones *)
(* it refers to.  What the sort leaves open (two columns of one table, two *)
(* indexes the hash map yields in any order) is left open here.            *)
(***************************************************************************)
EXTENDS Diff

\* Mutant: foreign keys are added before the unique keys they need.
RustForeignKeysEarly ==
    << "create_schema", "create_table", "add_column", "alter_column",
       "add_foreign_key", "add_primary_key", "add_unique_key",
       "create_index", "drop_column", "drop_table",
       "drop_unique_key", "drop_foreign_key", "drop_index" >>

RustRank == << "create_schema", "create_table", "add_column", "alter_column",
               "add_primary_key", "add_unique_key", "add_foreign_key",
               "create_index", "drop_column", "drop_table",
               "drop_unique_key", "drop_foreign_key", "drop_index" >>

\* Mutant: the same for the other implementation.
GoForeignKeysEarly ==
    << "create_schema", "create_table", "add_column", "alter_column",
       "add_foreign_key", "add_primary_key", "add_unique_key",
       "create_index", "drop_unique_key", "drop_foreign_key",
       "drop_index", "drop_column", "drop_table" >>

GoRank == << "create_schema", "create_table", "add_column", "alter_column",
             "add_primary_key", "add_unique_key", "add_foreign_key",
             "create_index", "drop_unique_key", "drop_foreign_key",
             "drop_index", "drop_column", "drop_table" >>

Rank(kind) ==
    LET rank == IF Go THEN GoRank ELSE RustRank
    IN  CHOOSE i \in DOMAIN rank : rank[i] = kind

NamedInTies == IF Go THEN {"create_index", "drop_index"} ELSE {"create_index"}

-----------------------------------------------------------------------------
(* create_table: the promise of the topological sort (see TopoSort).       *)

\* Mutant: tables are created in the order of their names.
NoReferences(files, t) == {}

References(files, t) ==
    {fk.references : fk \in files.tables[t].foreignKeys} \ {t}

\* The tables to create that sit on a cycle of references, or behind one.
CycleBound(files, created) ==
    UNION {S \in SUBSET created : \A t \in S : References(files, t) \cap S # {}}

CreatedBefore(files, created, s, t) ==
    LET bound == CycleBound(files, created)
    IN  \/ s \notin bound /\ t \in bound
        \/ s \notin bound /\ t \notin bound /\ s \in References(files, t)
        \/ s \in bound /\ t \in bound /\ Position[s] < Position[t]

-----------------------------------------------------------------------------
CreatedTables(plan) == {m.on : m \in {n \in plan : n.kind = "create_table"}}

Before(files, plan, m, n) ==
    \/ Rank(m.kind) < Rank(n.kind)
    \/ /\ m.kind = n.kind
       /\ IF m.kind = "create_table"
          THEN CreatedBefore(files, CreatedTables(plan), m.on, n.on)
          ELSE \/ Position[m.on] < Position[n.on]
               \/ /\ m.on = n.on /\ m.kind \in NamedInTies
                  /\ Position[m.name] < Position[n.name]

\* CREATE/DROP INDEX CONCURRENTLY cannot run inside a transaction.
OutOfTransaction(m) == m.kind \in {"create_index", "drop_index"}

InTransaction(plan) == {m \in plan : ~OutOfTransaction(m)}
AfterTransaction(plan) == {m \in plan : OutOfTransaction(m)}

\* The migrations of "pending", a part of the plan, that may come next.
NextOf(files, plan, pending) ==
    {m \in pending : \A n \in pending \ {m} : ~Before(files, plan, n, m)}
=============================================================================
