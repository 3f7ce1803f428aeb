------------------------------ MODULE MCRunner ------------------------------
(* Small instances of Runner: the universe of names shared by every run,   *)
(* and the databases and files each run starts from.                       *)
EXTENDS Runner, TLC

MCNamespaces == {"public"}
MCTables == {"t", "u"}
MCNamespaceOf == [t \in MCTables |-> "public"]
MCColumns == {"id", "a"}
MCTypes == {"int", "text"}
MCConstraints == {"uk", "fk"}
MCIndexes == {"i", "j"}
MCPosition == [public |-> 0, t |-> 1, u |-> 2, i |-> 1, j |-> 2]

-----------------------------------------------------------------------------
Col(type, nullable, default) ==
    [type |-> type, nullable |-> nullable, default |-> default]

Id == Col("int", FALSE, NoDefault)

TableOf(columns) == [columns |-> columns, primaryKey |-> << >>, uniques |-> {},
                     foreignKeys |-> {}, removed |-> << >>]

CatalogOf(tables, indexes) ==
    [namespaces |-> {"public"}, tables |-> tables, indexes |-> indexes]

FilesOf(tables, indexes, allow, groups) ==
    [schemas |-> {}, tables |-> tables, indexes |-> indexes,
     allowDropTables |-> allow, groups |-> groups]

NoFunction == << >>

Group(policy, columns) ==
    [policy |-> policy, columns |-> columns, uniques |-> {},
     foreignKeys |-> {}, indexes |-> {}]

\* Every runner ships the same files.
SameFiles(catalogs, F) ==
    {[catalog |-> c, files |-> [r \in Runners |-> f]] : c \in catalogs, f \in F}

-----------------------------------------------------------------------------
(* Columns: one table, a column "a" that is added, altered, dropped,       *)
(* tolerated or refused.                                                   *)

AColumns == {Col("int", nullable, default) :
                nullable \in BOOLEAN, default \in {NoDefault, "0"}}
              \cup {Col("text", TRUE, NoDefault)}

ColumnSets == {"id" :> Id} \cup {("id" :> Id) @@ ("a" :> c) : c \in AColumns}

ADropped == [name |-> "a", type |-> "int"]
ColumnGroups == {{}, {Group("DROP", {ADropped})}, {Group("DEPRECATED", {ADropped})}}

ColumnFiles ==
    {FilesOf("t" :> [TableOf(cs) EXCEPT !.removed = removed], NoFunction, NoFunction, groups) :
        cs \in ColumnSets,
        removed \in {NoFunction, "a" :> "int", "a" :> AnyType},
        groups \in ColumnGroups}

ColumnCatalogs == {CatalogOf("t" :> TableOf(cs), NoFunction) : cs \in ColumnSets}
                    \cup {CatalogOf(NoFunction, NoFunction)}

ColumnScenarios == SameFiles(ColumnCatalogs, ColumnFiles)

-----------------------------------------------------------------------------
(* Keys and indexes: two tables, "u" may refer to "t".                     *)

Uk == [name |-> "uk", columns |-> <<"id">>]
Fk == [name |-> "fk", columns |-> <<"a">>, references |-> "t", referenced |-> <<"id">>]

IndexOn(t, columns, unique) ==
    [table |-> t, unique |-> unique, method |-> "btree", columns |-> columns]

ABoth == ("id" :> Id) @@ ("a" :> Col("int", TRUE, NoDefault))
TColumns == {"id" :> Id, ABoth}
TShapes == {[TableOf(cs) EXCEPT !.primaryKey = pk, !.uniques = uks] :
              cs \in TColumns, pk \in {<< >>, <<"id">>}, uks \in {{}, {Uk}}}
UShapes == {[TableOf(ABoth) EXCEPT !.foreignKeys = fks] : fks \in {{}, {Fk}}}

TableSets == {"t" :> x : x \in TShapes} \cup {"u" :> y : y \in UShapes}
               \cup {("t" :> x) @@ ("u" :> y) : x \in TShapes, y \in UShapes}
               \cup {NoFunction}

IndexSets == {NoFunction, "i" :> IndexOn("t", <<"a">>, FALSE),
              "i" :> IndexOn("t", <<"id">>, TRUE), "i" :> IndexOn("u", <<"a">>, FALSE)}

\* What PostgreSQL accepts as a whole: keys and indexes over existing columns,
\* foreign keys to unique ones, names of constraints and indexes apart.
WellFormed(c) ==
    /\ \A t \in DOMAIN c.tables :
          \A key \in {c.tables[t].primaryKey}
                      \cup {u.columns : u \in c.tables[t].uniques}
                      \cup {fk.columns : fk \in c.tables[t].foreignKeys} :
              Elements(key) \subseteq DOMAIN c.tables[t].columns
    /\ \A pair \in ForeignKeysOf(c) : Resolvable(c, pair[2])
    /\ \A i \in DOMAIN c.indexes :
          /\ c.indexes[i].table \in DOMAIN c.tables
          /\ Elements(c.indexes[i].columns)
                \subseteq DOMAIN c.tables[c.indexes[i].table].columns

Built(index) == [table |-> index.table, unique |-> index.unique,
                 method |-> index.method, columns |-> index.columns, valid |-> TRUE]

KeyCatalogs ==
    {c \in {CatalogOf(ts, [i \in DOMAIN is |-> Built(is[i])]) :
               ts \in TableSets, is \in IndexSets} : WellFormed(c)}

Everything(policy) ==
    [policy |-> policy, columns |-> {ADropped}, uniques |-> {Uk}, foreignKeys |-> {Fk},
     indexes |-> {[name |-> "i"] @@ is["i"] : is \in IndexSets \ {NoFunction}}]

Plain(index) == [table |-> index.table, unique |-> index.unique,
                 method |-> index.method, columns |-> index.columns]

Undecorated == {CatalogOf(c.tables, [i \in DOMAIN c.indexes |-> Plain(c.indexes[i])]) :
                  c \in KeyCatalogs}

KeyFiles ==
    {FilesOf(c.tables, c.indexes, allow, groups) :
        c \in Undecorated,
        allow \in {NoFunction, ("t" :> TableOf(ABoth)) @@ ("u" :> TableOf(ABoth))},
        groups \in {{}, {Everything("DROP")}, {Everything("DEPRECATED")}}}

NothingRedefined(s) ==
    \A r \in Runners : \A i \in DOMAIN s.catalog.indexes \cap DOMAIN s.files[r].indexes :
        s.files[r].indexes[i] = Plain(s.catalog.indexes[i])

\* Foreign keys refer to constraints, never to unique indexes, which a run
\* creates after the commit and whose foreign keys it does not find.
KeysAreConstraints(s) ==
    \A c \in {s.catalog} \cup {s.files[r] : r \in Runners} :
        \A pair \in ForeignKeysOf(c) :
            /\ RestsOnConstraint(c, pair[2])
            /\ \A i \in DOMAIN c.indexes :
                  c.indexes[i].unique =>
                      ~(/\ c.indexes[i].table = pair[2].references
                        /\ Elements(c.indexes[i].columns) = Elements(pair[2].referenced))

\* The key a new table refers to is in the database already, or is created
\* with its table: keys are added to existing tables after CREATE TABLE.
NewTablesCanRefer(s) ==
    \A r \in Runners : LET f == s.files[r] IN
        \A pair \in ForeignKeysOf(f) :
            \/ pair[1] \in DOMAIN s.catalog.tables
            \/ pair[2].references \notin DOMAIN s.catalog.tables
            \/ UniqueOn(s.catalog, pair[2].references, pair[2].referenced)

\* What a foreign key of the database rests on is not dropped by a plan, even
\* one that also drops the foreign key: DROP CONSTRAINT of foreign keys is last.
ReferencedKeysStay(s) ==
    \A r \in Runners : LET f == s.files[r] IN
        \A pair \in ForeignKeysOf(s.catalog) :
            LET t == pair[2].references
            IN  /\ t \in DOMAIN f.tables
                /\ Elements(pair[2].referenced) \subseteq DOMAIN f.tables[t].columns
                /\ s.catalog.tables[t].uniques \subseteq f.tables[t].uniques

KeyScenarios == {s \in SameFiles(KeyCatalogs, KeyFiles) :
                    NothingRedefined(s) /\ KeysAreConstraints(s) /\ NewTablesCanRefer(s)
                    /\ ReferencedKeysStay(s)}

AllScenarios == ColumnScenarios \cup KeyScenarios

-----------------------------------------------------------------------------
(* Overlap: few databases and files, for several runners.                  *)

TKeyed == [TableOf(ABoth) EXCEPT !.primaryKey = <<"id">>]
TSmall == [TableOf("id" :> Id) EXCEPT !.primaryKey = <<"id">>, !.removed = "a" :> AnyType]
UReferring == [TableOf(ABoth) EXCEPT !.foreignKeys = {Fk}]

Both == ("t" :> TKeyed) @@ ("u" :> UReferring)
OnU == "i" :> IndexOn("u", <<"a">>, FALSE)
OnT == "j" :> IndexOn("t", <<"a">>, FALSE)

OverlapCatalogs ==
    {CatalogOf(NoFunction, NoFunction),
     CatalogOf("t" :> TKeyed, "j" :> Built(OnT["j"])),
     CatalogOf(Both, "i" :> Built(OnU["i"]))}

DropIndexes == [policy |-> "DROP", columns |-> {}, uniques |-> {}, foreignKeys |-> {},
                indexes |-> {[name |-> "j"] @@ OnT["j"], [name |-> "i"] @@ OnU["i"]}]

OverlapFiles ==
    {FilesOf(Both, OnU, NoFunction, {DropIndexes}),
     FilesOf("t" :> TSmall, NoFunction, "u" :> TableOf(ABoth), {DropIndexes}),
     FilesOf("t" :> TKeyed, OnT, "u" :> TableOf(ABoth), {})}

OverlapScenarios == SameFiles(OverlapCatalogs, OverlapFiles)

-----------------------------------------------------------------------------
(* Namespaces: "t" is in public and refers to "u", which is in "s", so     *)
(* that the order of names is not the order of creation.                   *)

TwoNamespaces == {"public", "s"}
SplitNamespaceOf == ("t" :> "public") @@ ("u" :> "s")
SplitPosition == MCPosition @@ ("s" :> 1)

TReferring == [TableOf(ABoth) EXCEPT !.foreignKeys = {[Fk EXCEPT !.references = "u"]}]
UKeyed == [TableOf("id" :> Id) EXCEPT !.uniques = {Uk}]

SplitTableSets == {NoFunction, "u" :> UKeyed, "t" :> TableOf(ABoth),
                   ("t" :> TableOf(ABoth)) @@ ("u" :> UKeyed),
                   ("t" :> TReferring) @@ ("u" :> UKeyed)}

SplitCatalogs ==
    {c \in {[namespaces |-> ns, tables |-> ts, indexes |-> NoFunction] :
               ns \in SUBSET TwoNamespaces, ts \in SplitTableSets} :
        \A t \in DOMAIN c.tables : SplitNamespaceOf[t] \in c.namespaces}

SplitFiles ==
    {[FilesOf(ts, is, "u" :> TableOf("id" :> Id), {Everything("DEPRECATED")}) EXCEPT !.schemas = ns] :
        ts \in SplitTableSets \ {"u" :> UKeyed},
        is \in {NoFunction, "i" :> IndexOn("u", <<"id">>, FALSE)},
        ns \in {{}, {"s"}}}

SplitScenarios ==
    {s \in SameFiles(SplitCatalogs, {f \in SplitFiles : \A i \in DOMAIN f.indexes :
                                         f.indexes[i].table \in DOMAIN f.tables}) :
        ReferencedKeysStay(s)}
=============================================================================
