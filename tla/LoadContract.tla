----------------------------- MODULE LoadContract -----------------------------
(***************************************************************************)
(* What a directory of files means, said without following the loader:     *)
(* which lines are drift blocks, which files are in order, and what must   *)
(* come out of loading them.                                               *)
(***************************************************************************)
EXTENDS Load

-----------------------------------------------------------------------------
(* Drift blocks as balanced pairs of lines.                                *)

RunningTotal(lines) ==
    LET Total[k \in 0..Len(lines)] ==
            IF k = 0 THEN 0 ELSE Total[k - 1] + NetParenDepth(lines[k])
    IN  Total

\* The net parentheses of lines i to k.
Balance(lines, i, k) == RunningTotal(lines)[k] - RunningTotal(lines)[i - 1]

\* Lines i and k open and close a block.
IsBlock(lines, i, k) ==
    /\ IsOpening(lines[i]) /\ IsClosing(lines[k])
    /\ Balance(lines, i, k) = 0
    /\ \A j \in i..(k - 1) : Balance(lines, i, j) > 0

\* The blocks among the lines of part, those within others included.
Pairs(lines, part) == {p \in part \X part : p[1] < p[2] /\ IsBlock(lines, p[1], p[2])}

\* Blocks that are not part of the body of another one.
Outermost(pairs) == {p \in pairs : \A q \in pairs : ~(q[1] < p[1] /\ p[2] < q[2])}

IsWellNested(lines, part) ==
    \A i \in part : IsOpening(lines[i]) =>
        \E p \in Pairs(lines, part) : i \in p[1]..p[2]

\* The texts that drift blocks are looked for in: a file and, on its own, each
\* of its CREATE TABLE statements, which may lie in a block of the file.
Parts(lines) ==
    {DOMAIN lines} \cup {StatementStart(lines, e)..e : e \in TableEnds(lines)}

BlocksOf(lines) == UNION {Outermost(Pairs(lines, part)) : part \in Parts(lines)}

\* Every block of the directory, by file and lines.
AllBlocks(dir) ==
    UNION {{[file |-> n, from |-> p[1], to |-> p[2],
             id |-> dir[n][p[1]].id, policy |-> dir[n][p[1]].policy] :
               p \in BlocksOf(dir[n])} : n \in DOMAIN dir}

TwoPolicies(bs) == \E b, c \in bs : b.id = c.id /\ b.policy # c.policy

InStatement(lines, i) == \E e \in TableEnds(lines) : i \in StatementStart(lines, e)..e

Inner(b) == (b.from + 1)..(b.to - 1)

-----------------------------------------------------------------------------
(* Files that are in order.                                                *)

\* A block between the parentheses of a CREATE TABLE lists columns and
\* constraints; one that is apart from every CREATE TABLE is SQL.
BlockInOrder(lines, b) ==
    /\ lines[b.from].plain
    /\ IF InTable(lines, b.from)
       THEN \A j \in Inner(b) : lines[j].comment /\ lines[j].kind \in {"column", "constraint"}
       ELSE /\ ~InStatement(lines, b.from)
            /\ Parses([j \in 1..(b.to - b.from - 1) |-> Uncommented(lines[b.from + j])])

\* A directive is a list of columns up to its closing line.
DirectiveInOrder(lines, i) ==
    \E k \in DOMAIN lines :
        /\ k > i /\ IsClosing(lines[k])
        /\ \A j \in (i + 1)..(k - 1) : lines[j].comment /\ lines[j].kind = "column"

InOrder(dir) ==
    /\ \A n \in DOMAIN dir :
          /\ Parses(dir[n])
          /\ IsWellNested(dir[n], DOMAIN dir[n])
          /\ \A i \in DOMAIN dir[n] :
                dir[n][i].comment /\ dir[n][i].kind = "drop" => DirectiveInOrder(dir[n], i)
    /\ \A b \in AllBlocks(dir) : BlockInOrder(dir[b.file], b)
    /\ ~TwoPolicies(AllBlocks(dir))

-----------------------------------------------------------------------------
(* Blocks that are passed over.  A block outside of CREATE TABLE is, when  *)
(* a CREATE TABLE of the file has a block with the same policy and an id   *)
(* that is the same in upper case.                                         *)

\* Line i of a CREATE TABLE is what block b is taken for.
TakenFor(lines, b, i) ==
    /\ InStatement(lines, i)
    /\ lines[i].kind = "open" /\ lines[i].plain
    /\ Uppercase[lines[i].id] = Uppercase[b.id] /\ lines[i].policy = b.policy

PassedOver(lines, b) ==
    ~InStatement(lines, b.from) /\ \E i \in DOMAIN lines : TakenFor(lines, b, i)

\* Passed over for blocks of other ids only, which differ from its own in case.
Mistaken(lines, b) ==
    /\ PassedOver(lines, b)
    /\ \A i \in DOMAIN lines : TakenFor(lines, b, i) => lines[i].id # b.id

-----------------------------------------------------------------------------
(* What a block lists.                                                     *)

\* Only the first table of a block counts.
ListedColumns(lines, b) ==
    {[name |-> lines[j].name, type |-> ColumnType[lines[j].type]] :
        j \in {i \in Inner(b) :
                  /\ lines[i].kind = "column"
                  /\ \A k \in Inner(b) : k < i => lines[k].kind # "end"}}

ListedIndexes(lines, b) ==
    {NamedIndexOf(lines[j]) : j \in {i \in Inner(b) : lines[i].kind = "index"}}

-----------------------------------------------------------------------------
(* Invariants.                                                             *)

\* What is handed to the planner is of the form the planner expects, and a
\* scan stays within its text (load_decorated_from_dir, extract_drift_blocks).
TypeOK ==
    /\ phase \in {"files", "tables", "file", "directives", "done", "failed"}
    /\ scan \in {"idle", "running", "ok", "error"}
    /\ unread \subseteq DOMAIN directory /\ current \in DOMAIN directory \cup {0}
    /\ opened \in 0..last /\ cursor \in 1..(last + 1) /\ depth \in Nat
    /\ last \in 0..Len(text)
    /\ phase = "done" => IsFiles(Loaded)

\* The single pass over the lines, which only counts parentheses, finds the
\* outermost balanced pairs and nothing else, and it gives up only on a text
\* that is not well nested or gives one id two policies.
ScanIsRight ==
    LET part == (IF inTable THEN StatementStart(text, last) ELSE 1)..last
        pairs == Outermost(Pairs(text, part))
        proper == {[id |-> text[p[1]].id, policy |-> text[p[1]].policy] : p \in pairs}
    IN  /\ scan = "ok" =>
              /\ IsWellNested(text, part)
              /\ {<<b.first, b.last>> : b \in Elements(found)} = pairs
        /\ scan = "error" => ~IsWellNested(text, part) \/ TwoPolicies(proper)

\* Files that are in order load: the second look at the same lines, with
\* another scope, never takes a block for what it is not.
FilesInOrderLoad == phase = "failed" => ~InOrder(directory)

\* One id with two policies stops the load, wherever the two blocks are: in
\* one table, in one file, or in two files (the conflict is looked for in
\* each scan and again in the merge). A block that was passed over counts too,
\* unless it was taken for one whose id differs from its own in case.
ConflictsStopTheLoad ==
    phase = "done" =>
        ~TwoPolicies({b \in AllBlocks(directory) : ~Mistaken(directory[b.file], b)})

\* The group of an id lists no column or index but those of blocks with that
\* id, from all tables and files, and all of each block unless the block is
\* passed over, the one reason for which a block may be missing. Nothing is
\* said of what a group has of a block that is passed over: that all of it is
\* there is a claim of the repository (BlocksAreMergedAcrossScopes).
GroupsListTheirBlocks ==
    phase = "done" =>
        LET all == AllBlocks(directory)
            taken == {b \in all : ~PassedOver(directory[b.file], b)}
            ColumnsOf(b) == ListedColumns(directory[b.file], b)
            IndexesOf(b) == ListedIndexes(directory[b.file], b)
        IN  /\ \A b \in taken :
                  /\ b.id \in DOMAIN groups
                  /\ ColumnsOf(b) \subseteq groups[b.id].columns
                  /\ IndexesOf(b) \subseteq groups[b.id].indexes
            /\ \A id \in DOMAIN groups :
                  LET own == {b \in all : b.id = id}
                  IN  /\ own # {}
                      /\ groups[id].columns \subseteq UNION {ColumnsOf(b) : b \in own}
                      /\ groups[id].indexes \subseteq UNION {IndexesOf(b) : b \in own}

\* The two readings of a directory never take one line for two things: after
\* a load no directive that allows a drop shares a line with a drift block,
\* unless that block was passed over and nothing was read from it.
ReadingsDoNotOverlap ==
    phase = "done" =>
        \A b \in {c \in AllBlocks(directory) : ~PassedOver(directory[c.file], c)} :
            \A i \in Directives(directory[b.file]) :
                (i..DirectiveEnd(directory[b.file], i)) \cap (b.from..b.to) = {}

-----------------------------------------------------------------------------
(* Types: "Lines" holds names as they are written in files.                *)

ColumnsIn(ts) == UNION {{ts[t].columns[c].type : c \in DOMAIN ts[t].columns} : t \in DOMAIN ts}

\* The types that are compared with those of the database.
Compared ==
    ColumnsIn(tables) \cup ColumnsIn(allowDrop)
        \cup (UNION {{c.type : c \in groups[id].columns} : id \in DOMAIN groups})
        \cup (UNION {{tables[t].removed[c] : c \in DOMAIN tables[t].removed} : t \in DOMAIN tables})

\* A type that the planner was given is what introspection shows of a column
\* that has it: no run alters it for ever, and declared drops find it
\* (format_type_name, normalize_type, normalize_info_schema_type).
TypesSettle ==
    phase = "done" => \A type \in Compared \ {AnyType} : ReadBack[type] = type

\* A column gets the type that its CREATE TABLE would give it, length and
\* precision included, although its name takes two conversions on the way.
TypesAreAsked ==
    phase = "done" =>
        \A t \in DOMAIN tables : \E p \in Defining(t) :
            /\ \A q \in Defining(t) : After(p, q)
            /\ \A l \in StatementLines(directory[p[1]], p[2]) :
                  IsSql(l) /\ l.kind = "column" =>
                      Grammar[l.type] = Grammar[tables[t].columns[l.name].type]

\* A load comes to an end.
LoadEnds == <>(phase \in {"done", "failed"})
=============================================================================
