------------------------------- MODULE SqlText -------------------------------
(***************************************************************************)
(* The text of a .sql file, line by line, and what the parser makes of it. *)
(* A line is SQL or a comment; what a comment would be as SQL is known too,*)
(* because drift blocks and drop directives are SQL behind "--".           *)
(*                                                                         *)
(* kind of line       written                                              *)
(* "create"           CREATE TABLE table (                                 *)
(* "column"           name type [NOT NULL] [DEFAULT d] [constraints]       *)
(* "constraint"       [CONSTRAINT name] UNIQUE / PRIMARY KEY / FOREIGN KEY *)
(* "end"              );                                                   *)
(* "index"            CREATE INDEX [CONCURRENTLY] name ON table (...);     *)
(* "schema"           CREATE SCHEMA namespace;                             *)
(* "open"             DRIFT id policy (          as a comment only         *)
(* "drop"             DROP TABLE table (         as a comment only         *)
(* "removed"          removed: name type         as a comment only         *)
(* "prose"            anything else, with its net parentheses              *)
(***************************************************************************)
EXTENDS Diff, TypeNames, Integers

CONSTANTS
    Lines,               \* the lines that files are made of
    Ids,                 \* ids of drift groups
    Uppercase,           \* an id in upper case, for each id
    Probe,               \* the table a block inside CREATE TABLE is tried in
    Unnamed,             \* the name of a constraint that was given none
    Predicted(_, _, _)   \* name of an unnamed constraint: table, columns, suffix

ASSUME SqlTextAssumption ==
    /\ Probe \notin Tables /\ Unnamed \notin ConstraintNames
    /\ DOMAIN Uppercase = Ids

IsSql(line) == ~line.comment
Uncommented(line) == [line EXCEPT !.comment = FALSE]

\* "-- )" or "-- );"
IsClosing(line) == line.comment /\ line.kind = "end"
IsOpening(line) == line.comment /\ line.kind = "open"

\* Parentheses outside of quotes, opened minus closed.
NetParenDepth(line) ==
    CASE line.kind \in {"create", "open", "drop"} -> 1
      [] line.kind = "end" -> -1
      [] line.kind = "prose" -> line.net
      [] OTHER -> 0

-----------------------------------------------------------------------------
(* The grammar: which texts parse, and where their statements end.         *)

\* Line i is between "CREATE TABLE t (" and ");".
InTable(text, i) ==
    \E j \in 1..(i - 1) :
        /\ IsSql(text[j]) /\ text[j].kind = "create"
        /\ \A k \in (j + 1)..(i - 1) : IsSql(text[k]) => text[k].kind # "end"

IsGrammatical(text) ==
    /\ \A i \in DOMAIN text : IsSql(text[i]) =>
          IF InTable(text, i) THEN text[i].kind \in {"column", "constraint", "end"}
                              ELSE text[i].kind \in {"create", "index", "schema"}
    /\ ~InTable(text, Len(text) + 1)

\* CREATE INDEX without CONCURRENTLY is refused like a syntax error.
Parses(text) ==
    /\ IsGrammatical(text)
    /\ \A i \in DOMAIN text :
          IsSql(text[i]) /\ text[i].kind = "index" => text[i].concurrently

StatementEnds(text) ==
    {i \in DOMAIN text : IsSql(text[i]) /\ text[i].kind \in {"end", "index", "schema"}}

TableEnds(text) == {i \in StatementEnds(text) : text[i].kind = "end"}
FirstTableEnd(text) == CHOOSE e \in TableEnds(text) : \A f \in TableEnds(text) : e <= f

\* A statement starts right after the one before it: comments that precede
\* it are part of its text.
StatementStart(text, end) ==
    CHOOSE i \in 1..end :
        /\ i = 1 \/ i - 1 \in StatementEnds(text)
        /\ \A j \in i..(end - 1) : j \notin StatementEnds(text)

StatementLines(text, end) == {text[i] : i \in StatementStart(text, end)..end}

-----------------------------------------------------------------------------
(* CREATE TABLE and CREATE INDEX as structured definitions.                *)

Sql(lines, kind) == {l \in lines : IsSql(l) /\ l.kind = kind}

TableName(text, end) ==
    (CHOOSE l \in Sql(StatementLines(text, end), "create") : TRUE).table

\* The constraints of a table; one inside a column is on that column.
ConstraintsIn(lines) ==
    {l.constraint : l \in Sql(lines, "constraint")}
        \cup UNION {{[c EXCEPT !.columns = <<l.name>>] : c \in l.constraints} :
                       l \in Sql(lines, "column")}

\* NOT NULL or PRIMARY KEY within the column; a PRIMARY KEY apart from it
\* does not count.
IsNullable(line) ==
    ~line.notNull /\ \A c \in line.constraints : c.sort # "primary"

ConstraintName(table, c, suffix) ==
    IF c.name = Unnamed THEN Predicted(table, c.columns, suffix) ELSE c.name

RemovedType(name) == IF name = AnyType THEN AnyType ELSE NormalizeType[name]

-----------------------------------------------------------------------------
(* The forms of lines.                                                     *)

TableConstraint ==
    LET Names == ConstraintNames \cup {Unnamed}
    IN  [sort : {"primary", "unique"}, name : Names, columns : ColumnList]
            \cup [sort : {"foreign"}, name : Names, columns : ColumnList,
                  references : Tables, referenced : ColumnList]

LineForm ==
    [comment : BOOLEAN, kind : {"create", "drop"}, table : Tables]
        \cup [comment : BOOLEAN, kind : {"column"}, name : Columns, type : TypeName,
              notNull : BOOLEAN, default : Defaults \cup {NoDefault},
              constraints : SUBSET TableConstraint]
        \cup [comment : BOOLEAN, kind : {"constraint"}, constraint : TableConstraint]
        \cup [comment : BOOLEAN, kind : {"end"}]
        \cup [comment : BOOLEAN, kind : {"index"}, name : Indexes, concurrently : BOOLEAN,
              index : Index]
        \cup [comment : BOOLEAN, kind : {"schema"}, namespace : Namespaces]
        \cup [comment : BOOLEAN, kind : {"open"}, id : Ids, policy : Policies, plain : BOOLEAN]
        \cup [comment : BOOLEAN, kind : {"removed"}, name : Columns, type : TypeName \cup {AnyType}]
        \cup [comment : BOOLEAN, kind : {"prose"}, net : Int]

\* Types are what the loader makes of their names, and the names of unnamed
\* constraints are names too.
ASSUME LinesAssumption ==
    /\ Lines \subseteq LineForm
    /\ \A l \in Lines :
          /\ l.kind = "column" => ColumnType[l.type] \in Types
          /\ l.kind = "removed" => RemovedType(l.type) \in Types \cup {AnyType}
          /\ \A c \in ConstraintsIn({Uncommented(l)}), t \in Tables \cup {Probe},
                suffix \in {"key", "fkey"} : Predicted(t, c.columns, suffix) \in ConstraintNames

Definition(table, lines) ==
    LET columns == Sql(lines, "column")
        constraints == ConstraintsIn(lines)
        primary == {c \in constraints : c.sort = "primary"}
        legacy == {l \in lines : l.comment /\ l.kind = "removed"}
    IN  [columns |-> [n \in {l.name : l \in columns} |->
                        LET l == CHOOSE l \in columns : l.name = n
                        IN  [type |-> ColumnType[l.type], nullable |-> IsNullable(l), default |-> l.default]],
         primaryKey |-> IF primary = {} THEN NoPrimaryKey
                        ELSE (CHOOSE c \in primary : TRUE).columns,
         uniques |-> {[name |-> ConstraintName(table, c, "key"), columns |-> c.columns] :
                         c \in {d \in constraints : d.sort = "unique"}},
         foreignKeys |-> {[name |-> ConstraintName(table, c, "fkey"), columns |-> c.columns,
                           references |-> c.references, referenced |-> c.referenced] :
                             c \in {d \in constraints : d.sort = "foreign"}},
         removed |-> [n \in {l.name : l \in legacy} |->
                        RemovedType((CHOOSE l \in legacy : l.name = n).type)]]

DefinitionAt(text, end) == Definition(TableName(text, end), StatementLines(text, end))

\* The last definition of a name wins.
Latest(S) == CHOOSE i \in S : \A j \in S : j <= i

ParsedTables(text) ==
    [t \in {TableName(text, e) : e \in TableEnds(text)} |->
        DefinitionAt(text, Latest({e \in TableEnds(text) : TableName(text, e) = t}))]

IndexEnds(text) == {i \in StatementEnds(text) : text[i].kind = "index"}

ParsedIndexes(text) ==
    [n \in {text[i].name : i \in IndexEnds(text)} |->
        text[Latest({i \in IndexEnds(text) : text[i].name = n})].index]

NamedIndexOf(line) ==
    [name |-> line.name, table |-> line.index.table, unique |-> line.index.unique,
     method |-> line.index.method, columns |-> line.index.columns]

\* CREATE SCHEMA is found by a search through the text, comments included.
ExtractCreateSchemas(text) ==
    {text[i].namespace : i \in {j \in DOMAIN text : text[j].kind = "schema"}}
=============================================================================
