-------------------------------- MODULE MCLoad --------------------------------
(* Small directories to load: files put together from a few pieces, and     *)
(* files of arbitrary comment lines.                                        *)
EXTENDS LoadContract, SequencesExt

MCTables == {"t", "u"}
MCNamespaceOf == [t \in MCTables |-> "public"]
MCPosition == [public |-> 0, s |-> 1, t |-> 1, u |-> 2, i |-> 1]
MCPredicted(table, columns, suffix) == <<table, columns, suffix>>
MCUppercase == [id \in {"x", "X", "y"} |-> IF id = "y" THEN "Y" ELSE "X"]
MCConstraints ==
    {<<t, c, s>> : t \in MCTables \cup {"probe"}, c \in {<<"a">>, <<"b">>}, s \in {"key", "fkey"}}

-----------------------------------------------------------------------------
(* Names of types.  The first are those that introspection shows as the    *)
(* loader writes them.                                                     *)

Name(base, mods) == [base |-> base, mods |-> mods, array |-> FALSE]
IntName == Name("int", << >>)
TextName == Name("text", << >>)

SettlingNames ==
    {Name(b, << >>) : b \in {"int", "integer", "int4", "bigint", "int8", "smallint", "int2",
                            "varchar", "character varying", "text", "numeric", "decimal",
                            "timestamp", "timestamptz", "timestamp with time zone"}}
        \cup {Name("varchar", <<20>>), Name("character varying", <<20>>)}

\* A "removed:" directive is not parsed, so fewer names will do.
SettlingRemoved ==
    {Name("int", << >>), Name("varchar", <<20>>), Name("char", <<5>>), Name("boolean", << >>),
     Name("timestamptz", << >>), Name("text", << >>)}

MCTypes == {ColumnType[n] : n \in SettlingNames} \cup {NormalizeType[n] : n \in SettlingRemoved}

-----------------------------------------------------------------------------
Sqls(kind) == [comment |-> FALSE, kind |-> kind]
Comment(line) == [line EXCEPT !.comment = TRUE]

CreateOf(t) == [table |-> t] @@ Sqls("create")
ColumnOf(c, type, constraints) ==
    [name |-> c, type |-> type, notNull |-> FALSE, default |-> NoDefault,
     constraints |-> constraints] @@ Sqls("column")
End == Sqls("end")
IndexOf(n, concurrently) ==
    [name |-> n, concurrently |-> concurrently,
     index |-> [table |-> "t", unique |-> FALSE, method |-> "btree", columns |-> <<"a">>]]
        @@ Sqls("index")
SchemaOf(ns) == [namespace |-> ns] @@ Sqls("schema")
OpenOf(id, policy, plain) ==
    [id |-> id, policy |-> policy, plain |-> plain] @@ Comment(Sqls("open"))
DropOf(t) == [table |-> t] @@ Comment(Sqls("drop"))
RemovedOf(c, type) == [name |-> c, type |-> type] @@ Comment(Sqls("removed"))
Prose(net) == [net |-> net] @@ Comment(Sqls("prose"))

Closing == Comment(End)
UniqueInline == [sort |-> "unique", name |-> Unnamed, columns |-> << >>]
PlainColumn(c) == ColumnOf(c, IntName, {})
NoteB == Comment(ColumnOf("b", TextName, {}))
NoteIndex == Comment(IndexOf("i", TRUE))

InTableBlock(id, policy, plain) == <<OpenOf(id, policy, plain), NoteB, Closing>>

-----------------------------------------------------------------------------
(* Pieces of files.                                                        *)

Pieces ==
    {<<CreateOf("t"), PlainColumn("a"), End>>,
     <<CreateOf("t"), RemovedOf("b", AnyType), ColumnOf("b", IntName, {UniqueInline}), End>>,
     <<CreateOf("t")>> \o InTableBlock("x", "DROP", TRUE) \o <<End>>,
     <<CreateOf("u"), PlainColumn("a")>> \o InTableBlock("x", "DEPRECATED", TRUE) \o <<End>>,
     <<CreateOf("u")>> \o InTableBlock("y", "DROP", FALSE) \o <<End>>,
     <<OpenOf("x", "DROP", TRUE), NoteIndex, Closing>>,
     <<OpenOf("X", "DROP", TRUE), NoteIndex, Closing>>,
     <<OpenOf("y", "DROP", TRUE), Comment(CreateOf("u")), NoteB, Closing, NoteIndex, Closing>>,
     <<OpenOf("y", "DEPRECATED", TRUE), NoteIndex>>,
     <<OpenOf("x", "DROP", TRUE), DropOf("u"), NoteB, Closing, Closing>>,
     <<DropOf("u"), NoteB, Closing>>,
     <<DropOf("t")>>,
     <<IndexOf("i", TRUE)>>,
     <<IndexOf("i", FALSE)>>,
     <<Comment(SchemaOf("s"))>>,
     <<Prose(-2)>>}

TextsOf(n) == {FlattenSeq(ps) : ps \in UNION {[1..k -> Pieces] : k \in 0..n}}

PieceDirectories ==
    {<<f>> : f \in TextsOf(2)} \cup {<<f, g>> : f \in TextsOf(1), g \in TextsOf(1)}

\* Any few lines, most of them comments.
LineKinds == {OpenOf("x", "DROP", TRUE), OpenOf("x", "DEPRECATED", TRUE), Closing,
              DropOf("t"), Prose(0), Prose(-2)}

LineDirectories == {<<f>> : f \in UNION {[1..k -> LineKinds] : k \in 0..4}}

\* A block of the file, passed over for one of a table, around another table
\* with a block.
SwallowingFile ==
    <<CreateOf("t")>> \o InTableBlock("x", "DROP", TRUE) \o <<End>>
        \o <<OpenOf("x", "DROP", TRUE), IndexOf("i", TRUE), CreateOf("u"), PlainColumn("a")>>
        \o InTableBlock("y", "DROP", TRUE) \o <<End, Closing>>

\* A block of the file passed over for one of a table whose id differs in case,
\* and files with the other policy for one of the two ids.
CaseDirectories ==
    {<<<<CreateOf("t")>> \o InTableBlock("x", "DROP", TRUE) \o <<End>>
         \o <<OpenOf("X", "DROP", TRUE), NoteIndex, Closing>>,
       <<OpenOf(id, "DEPRECATED", TRUE), NoteIndex, Closing>> >> : id \in {"x", "X"}}

\* A column of every type: wanted, given up, and in a table to be dropped.
TypedTexts(type) ==
    {<<CreateOf("t"), ColumnOf("a", type, {}), End>>,
     <<OpenOf("x", "DROP", TRUE), Comment(CreateOf("u")), Comment(ColumnOf("b", type, {})),
       Closing, Closing>>,
     <<DropOf("u"), Comment(ColumnOf("a", type, {})), Closing>>}

RemovedText(type) == <<CreateOf("t"), RemovedOf("b", type), PlainColumn("a"), End>>

TypeDirectories ==
    {<<f>> : f \in UNION {TypedTexts(n) : n \in SettlingNames}
                        \cup {RemovedText(n) : n \in SettlingRemoved}}

AllDirectories ==
    PieceDirectories \cup LineDirectories \cup TypeDirectories \cup CaseDirectories
        \cup {<<SwallowingFile>>}

LinesOf(dirs) == UNION {Elements(f) : f \in UNION {Elements(d) : d \in dirs}}
MCLines == LinesOf(AllDirectories)
=============================================================================
