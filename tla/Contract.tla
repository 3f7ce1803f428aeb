------------------------------ MODULE Contract ------------------------------
(***************************************************************************)
(* What a set of files means for a database, said without following the    *)
(* planner's steps: when a schema is what the files ask for, what the      *)
(* files give away, and what a plan may therefore contain.                 *)
(***************************************************************************)
EXTENDS Diff

-----------------------------------------------------------------------------
(* Reference definition of "the schema is what the files ask for".         *)

\* Surplus that the files tolerate.
Tolerates(f, Covers(_)) ==
    \E g \in f.groups : g.policy = "DEPRECATED" /\ Covers(g)

ColumnsMeet(f, t, have) ==
    LET want == f.tables[t]
    IN  /\ \A c \in DOMAIN want.columns :
              c \in DOMAIN have.columns /\ have.columns[c] = want.columns[c]
        /\ \A c \in DOMAIN have.columns \ DOMAIN want.columns :
              /\ ~RemovedAllows(want, c, have.columns[c].type)
              /\ Tolerates(f, LAMBDA g : CoversColumn(g, c, have.columns[c].type))

KeysMeet(f, t, have) ==
    LET want == f.tables[t]
    IN  /\ have.primaryKey = want.primaryKey
        /\ want.uniques \subseteq have.uniques
        /\ want.foreignKeys \subseteq have.foreignKeys
        /\ \A u \in have.uniques \ want.uniques :
              Tolerates(f, LAMBDA g : CoversUnique(g, u))
        /\ \A fk \in have.foreignKeys \ want.foreignKeys :
              Tolerates(f, LAMBDA g : CoversForeignKey(g, fk))

TablesMeet(f, c) ==
    /\ c.namespaces \ {Public} \subseteq CollectDesiredNamespaces(f)
    /\ CollectDesiredNamespaces(f) \subseteq c.namespaces
    /\ DOMAIN c.tables = DOMAIN f.tables
    /\ \A t \in DOMAIN f.tables :
          ColumnsMeet(f, t, c.tables[t]) /\ KeysMeet(f, t, c.tables[t])

SameIndex(built, wanted) ==
    /\ built.table = wanted.table
    /\ built.unique = wanted.unique
    /\ built.method = wanted.method
    /\ built.columns = wanted.columns

IndexesMeet(f, c) ==
    /\ \A i \in DOMAIN f.indexes :
          i \in DOMAIN c.indexes /\ SameIndex(c.indexes[i], f.indexes[i])
    /\ \A i \in DOMAIN c.indexes \ DOMAIN f.indexes :
          Tolerates(f, LAMBDA g : CoversIndex(g, i, c.indexes[i]))

Meets(f, c) == TablesMeet(f, c) /\ IndexesMeet(f, c)

-----------------------------------------------------------------------------
(* What files allow to be lost.                                            *)

Drops(f, Covers(_)) == \E g \in f.groups : g.policy = "DROP" /\ Covers(g)

LostColumns(before, after, t) ==
    DOMAIN before.tables[t].columns \ DOMAIN after.tables[t].columns

ColumnTypes(table) == [c \in DOMAIN table.columns |-> table.columns[c].type]

MayLoseTable(f, before, t) ==
    /\ t \in DOMAIN f.allowDropTables \ DOMAIN f.tables
    /\ ColumnTypes(before.tables[t]) = ColumnTypes(f.allowDropTables[t])

MayLoseColumn(f, before, t, c) ==
    LET type == before.tables[t].columns[c].type
    IN  /\ t \in DOMAIN f.tables
        /\ c \notin DOMAIN f.tables[t].columns
        /\ \/ RemovedAllows(f.tables[t], c, type)
           \/ Drops(f, LAMBDA g : CoversColumn(g, c, type))

\* A constraint or an index goes with one of its columns, or by itself.
MayLoseKey(columns, lost, f, Covers(_)) ==
    (\E c \in lost : c \in Elements(columns)) \/ Drops(f, Covers)

KeepsTable(f, before, after, t) ==
    LET old == before.tables[t]
        new == after.tables[t]
        lost == LostColumns(before, after, t)
    IN  /\ \A c \in lost : MayLoseColumn(f, before, t, c)
        /\ old.primaryKey # new.primaryKey =>
              \/ old.primaryKey = NoPrimaryKey
              \/ \E c \in lost : c \in Elements(old.primaryKey)
        /\ \A u \in old.uniques \ new.uniques :
              MayLoseKey(u.columns, lost, f, LAMBDA g : CoversUnique(g, u))
        /\ \A fk \in old.foreignKeys \ new.foreignKeys :
              MayLoseKey(fk.columns, lost, f, LAMBDA g : CoversForeignKey(g, fk))

KeepsIndex(f, before, after, i) ==
    LET index == before.indexes[i]
    IN  \/ index.table \notin DOMAIN after.tables
        \/ MayLoseKey(index.columns, LostColumns(before, after, index.table), f,
                      LAMBDA g : CoversIndex(g, i, index))

OnlyApprovedLoss(f, before, after) ==
    /\ before.namespaces \subseteq after.namespaces
    /\ \A t \in DOMAIN before.tables :
          IF t \in DOMAIN after.tables THEN KeepsTable(f, before, after, t)
          ELSE MayLoseTable(f, before, t)
    /\ \A i \in DOMAIN before.indexes \ DOMAIN after.indexes :
          KeepsIndex(f, before, after, i)

-----------------------------------------------------------------------------
(* What a plan may ask for, given the files and the schema it was made     *)
(* from: nothing is dropped that no directive gives away, and no column    *)
(* becomes NOT NULL, or is added NOT NULL, without a value for its rows.   *)

JustifiedInTable(f, read, m) ==
    LET want == f.tables[m.on]
        had == read.tables[m.on]
    IN  CASE m.kind = "add_column" ->
                /\ m.name \in DOMAIN want.columns \ DOMAIN had.columns
                /\ want.columns[m.name].nullable \/ want.columns[m.name].default # NoDefault
          [] m.kind = "alter_column" ->
                /\ m.name \in DOMAIN want.columns \cap DOMAIN had.columns
                /\ want.columns[m.name].nullable \/ ~had.columns[m.name].nullable
          [] m.kind = "drop_column" ->
                /\ m.name \in DOMAIN had.columns
                /\ MayLoseColumn(f, read, m.on, m.name)
          [] m.kind = "add_primary_key" -> had.primaryKey = NoPrimaryKey
          [] m.kind = "add_unique_key" -> \E u \in want.uniques : u.name = m.name
          [] m.kind = "drop_unique_key" ->
                \E u \in had.uniques \ want.uniques :
                    u.name = m.name /\ Drops(f, LAMBDA g : CoversUnique(g, u))
          [] m.kind = "add_foreign_key" -> \E fk \in want.foreignKeys : fk.name = m.name
          [] m.kind = "drop_foreign_key" ->
                \E fk \in had.foreignKeys \ want.foreignKeys :
                    fk.name = m.name /\ Drops(f, LAMBDA g : CoversForeignKey(g, fk))

Justified(f, read, m) ==
    CASE m.kind = "create_schema" ->
            m.on \in CollectDesiredNamespaces(f) \ read.namespaces
      [] m.kind = "create_table" -> m.on \in DOMAIN f.tables \ DOMAIN read.tables
      [] m.kind = "drop_table" -> m.on \in DOMAIN read.tables /\ MayLoseTable(f, read, m.on)
      [] m.kind = "create_index" ->
            m.name \in DOMAIN f.indexes /\ m.on = f.indexes[m.name].table
      [] m.kind = "drop_index" ->
            /\ m.name \in DOMAIN read.indexes \ DOMAIN f.indexes
            /\ Drops(f, LAMBDA g : CoversIndex(g, m.name, read.indexes[m.name]))
      [] OTHER -> /\ m.on \in DOMAIN f.tables \cap DOMAIN read.tables
                  /\ JustifiedInTable(f, read, m)
=============================================================================
