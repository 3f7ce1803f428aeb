--------------------------------- MODULE Load ---------------------------------
(***************************************************************************)
(* The loader: the .sql files of a directory become what the planner works *)
(* from.  The files are read twice, in the order of their names: first for *)
(* the tables, indexes, namespaces and drift blocks, then for the          *)
(* "-- DROP TABLE" directives.  Rust stops at the first error; Go skips    *)
(* what it cannot parse and goes on.                                       *)
(*                                                                         *)
(* The directory does not change while it is read.                         *)
(***************************************************************************)
EXTENDS DriftBlocks

CONSTANT Directories   \* the directories to load: sequences of texts, by name

ASSUME LoadAssumption == Directories \subseteq Seq(Seq(Lines))

VARIABLES
    directory,
    phase,        \* "files", "tables", "file", "directives", "done" or "failed"
    unread,       \* the files left to read in this pass
    current,      \* the file that was read last
    statements,   \* ends of its CREATE TABLE statements that wait for a scan
    namespaces, tables, indexes,
    blocks,       \* drift blocks of all files, with what they anticipate
    groups,       \* drift groups by id
    allowDrop     \* definitions in the "-- DROP TABLE" directives

loadVars == <<directory, phase, unread, current, statements, namespaces, tables,
              indexes, blocks, groups, allowDrop>>
vars == <<scanVars, loadVars>>

Init ==
    /\ ScanIdle
    /\ directory \in Directories
    /\ phase = "files" /\ unread = DOMAIN directory /\ current = 0
    /\ statements = {} /\ namespaces = {} /\ tables = << >> /\ indexes = << >>
    /\ blocks = {} /\ groups = << >> /\ allowDrop = << >>

-----------------------------------------------------------------------------
\* Files are read in the order of their names.
NextFile(n) == n \in unread /\ \A m \in unread : n <= m

\* Later definitions replace earlier ones.
Replacing(old, new) ==
    [x \in DOMAIN old \cup DOMAIN new |-> IF x \in DOMAIN new THEN new[x] ELSE old[x]]

\* The statements whose text is scanned: Go keeps the blocks of a file by
\* table, those of the last statement for it.
ScannedStatements(lines) ==
    IF Go THEN {Latest({e \in TableEnds(lines) : TableName(lines, e) = t}) :
                   t \in DOMAIN ParsedTables(lines)}
          ELSE TableEnds(lines)

ReadFile(n) ==
    /\ phase = "files" /\ NextFile(n)
    /\ Parses(directory[n])
    /\ namespaces' = namespaces \cup ExtractCreateSchemas(directory[n])
    /\ tables' = Replacing(tables, ParsedTables(directory[n]))
    /\ indexes' = Replacing(indexes, ParsedIndexes(directory[n]))
    /\ unread' = unread \ {n}
    /\ current' = n
    /\ statements' = ScannedStatements(directory[n])
    /\ phase' = "tables"
    /\ UNCHANGED <<scanVars, directory, blocks, groups, allowDrop>>

Fail == phase' = "failed"

\* Mutant: Rust skips the file like Go.
SkipFile(n) ==
    /\ phase = "files" /\ NextFile(n)
    /\ ~Parses(directory[n])
    /\ unread' = unread \ {n}
    /\ UNCHANGED <<phase, scanVars, directory, current, statements, namespaces, tables,
                   indexes, blocks, groups, allowDrop>>

UnparsedFile(n) ==
    /\ phase = "files" /\ NextFile(n)
    /\ ~Parses(directory[n])
    /\ IF Go THEN unread' = unread \ {n} /\ UNCHANGED phase
             ELSE Fail /\ UNCHANGED unread
    /\ UNCHANGED <<scanVars, directory, current, statements, namespaces, tables,
                   indexes, blocks, groups, allowDrop>>

-----------------------------------------------------------------------------
(* The scans: one of every CREATE TABLE statement, then one of the file.   *)

ScanTable(end) ==
    /\ phase = "tables" /\ scan = "idle"
    /\ end \in statements /\ \A e \in statements : end <= e
    /\ StartScan(directory[current], StatementStart(directory[current], end), end, TRUE)
    /\ statements' = statements \ {end}
    /\ UNCHANGED <<directory, phase, unread, current, namespaces, tables, indexes,
                   blocks, groups, allowDrop>>

ScanFile ==
    /\ phase = "tables" /\ scan = "idle" /\ statements = {}
    /\ StartScan(directory[current], 1, Len(directory[current]), FALSE)
    /\ phase' = "file"
    /\ UNCHANGED <<directory, unread, current, statements, namespaces, tables, indexes,
                   blocks, groups, allowDrop>>

Scan == ScanStep /\ UNCHANGED loadVars

\* Mutant: blocks in a CREATE TABLE are taken again with the file.
TakenTwice(b) == FALSE

\* "DRIFT id policy (" occurs in the text of a CREATE TABLE of the file, with
\* single spaces and in whatever case, which is what is searched for.
OpenedInTable(b) ==
    \E e \in TableEnds(text) : \E l \in StatementLines(text, e) :
        l.kind = "open" /\ l.plain /\ Uppercase[l.id] = Uppercase[b.id] /\ l.policy = b.policy

\* What the scan found, except what an earlier scan has.
Fresh ==
    {b \in Elements(found) : inTable \/ ~OpenedInTable(b)}

Nothing == [columns |-> {}, uniques |-> {}, foreignKeys |-> {}, indexes |-> {}]

Built(b) ==
    [id |-> b.id, policy |-> b.policy, inTable |-> inTable, file |-> current,
     first |-> b.first, holds |-> IF BodyParses(b) THEN Anticipated(b) ELSE Nothing]

\* Mutant: a block that is not SQL is kept, with nothing in it.
ScanIsOk == scan = "ok"

\* The scan is over: Go goes on after an error, without the blocks of the
\* scan or without the content of a block.
ScanIsUsable == scan = "ok" /\ \A b \in Fresh : BodyParses(b)

\* Mutant: the file is scanned again and again.
BackToTheFile == "tables"

AfterScan == IF inTable THEN "tables" ELSE "files"

TakeBlocks ==
    /\ scan \in {"ok", "error"} /\ (Go \/ ScanIsUsable)
    /\ blocks' = blocks \cup (IF scan = "ok" THEN {Built(b) : b \in Fresh} ELSE {})
    /\ scan' = "idle"
    /\ phase' = AfterScan
    /\ UNCHANGED <<text, cursor, last, inTable, opened, depth, seen, found, directory,
                   unread, current, statements, namespaces, tables, indexes, groups, allowDrop>>

BadBlocks ==
    /\ scan \in {"ok", "error"} /\ ~Go /\ ~ScanIsUsable
    /\ Fail
    /\ scan' = "idle"
    /\ UNCHANGED <<text, cursor, last, inTable, opened, depth, seen, found, directory,
                   unread, current, statements, namespaces, tables, indexes, blocks,
                   groups, allowDrop>>

\* Mutant: the first policy of an id stands.
MergeAnyway ==
    /\ phase = "files" /\ unread = {}
    /\ groups' = Merged(blocks)
    /\ phase' = "directives"
    /\ unread' = DOMAIN directory
    /\ UNCHANGED <<scanVars, directory, current, statements, namespaces, tables,
                   indexes, blocks, allowDrop>>

Merge ==
    /\ phase = "files" /\ unread = {}
    /\ ~HaveConflict(blocks)
    /\ groups' = Merged(blocks)
    /\ phase' = "directives"
    /\ unread' = DOMAIN directory
    /\ UNCHANGED <<scanVars, directory, current, statements, namespaces, tables,
                   indexes, blocks, allowDrop>>

RefuseMerge ==
    /\ phase = "files" /\ unread = {}
    /\ HaveConflict(blocks)
    /\ Fail
    /\ UNCHANGED <<scanVars, directory, unread, current, statements, namespaces, tables,
                   indexes, blocks, groups, allowDrop>>

-----------------------------------------------------------------------------
(* The second reading: "-- DROP TABLE t (" up to the next closing line,    *)
(* read as CREATE TABLE.  A directive without a closing line is no more    *)
(* than a comment.                                                         *)

Closings(lines, i) == {j \in DOMAIN lines : j > i /\ IsClosing(lines[j])}
DirectiveEnd(lines, i) ==
    CHOOSE j \in Closings(lines, i) : \A k \in Closings(lines, i) : j <= k

DirectiveSql(lines, i) ==
    <<[comment |-> FALSE, kind |-> "create", table |-> lines[i].table]>>
        \o [k \in 1..(DirectiveEnd(lines, i) - i) |-> Uncommented(lines[i + k])]

IsDirective(lines, i) ==
    lines[i].comment /\ lines[i].kind = "drop" /\ Closings(lines, i) # {}

\* The directives from line i on; in Go the search resumes right after one
\* that does not parse.
Directives(lines) ==
    LET From[i \in 1..(Len(lines) + 1)] ==
            IF i > Len(lines) THEN {}
            ELSE IF ~IsDirective(lines, i) THEN From[i + 1]
            ELSE IF Go /\ ~Parses(DirectiveSql(lines, i)) THEN From[i + 1]
            ELSE {i} \cup From[DirectiveEnd(lines, i) + 1]
    IN  From[1]

AllowedDrops(lines) ==
    LET starts == Directives(lines)
    IN  [t \in {lines[i].table : i \in starts} |->
            LET sql == DirectiveSql(lines, Latest({j \in starts : lines[j].table = t}))
            IN  DefinitionAt(sql, FirstTableEnd(sql))]

DirectivesParse(lines) == \A i \in Directives(lines) : Parses(DirectiveSql(lines, i))

ReadDirectives(n) ==
    /\ phase = "directives" /\ NextFile(n)
    /\ unread' = unread \ {n}
    /\ IF DirectivesParse(directory[n])
       THEN allowDrop' = Replacing(allowDrop, AllowedDrops(directory[n])) /\ UNCHANGED phase
       ELSE Fail /\ UNCHANGED allowDrop
    /\ UNCHANGED <<scanVars, directory, current, statements, namespaces, tables,
                   indexes, blocks, groups>>

Finish ==
    /\ phase = "directives" /\ unread = {}
    /\ phase' = "done"
    /\ UNCHANGED <<scanVars, directory, unread, current, statements, namespaces, tables,
                   indexes, blocks, groups, allowDrop>>

Read == \E n \in unread : ReadFile(n) \/ UnparsedFile(n) \/ ReadDirectives(n)
FindBlocks ==
    \/ \E end \in statements : ScanTable(end)
    \/ ScanFile \/ Scan \/ TakeBlocks \/ BadBlocks
Next == Read \/ FindBlocks \/ Merge \/ RefuseMerge \/ Finish

\* The loader is sequential and nothing it does waits for anybody.
Spec == Init /\ [][Next]_vars /\ WF_vars(Next)

\* What the planner is given.
Loaded ==
    [schemas |-> namespaces, tables |-> tables, indexes |-> indexes,
     allowDropTables |-> allowDrop, groups |-> {groups[id] : id \in DOMAIN groups}]

-----------------------------------------------------------------------------
(* Invariants about what was gathered; LoadContract has the others.        *)

\* The CREATE TABLE statements for table t, by file and last line.
Defining(t) ==
    {p \in UNION {{n} \X TableEnds(directory[n]) : n \in DOMAIN directory} :
        TableName(directory[p[1]], p[2]) = t}

After(p, q) == q[1] < p[1] \/ (q[1] = p[1] /\ q[2] <= p[2])

\* Every table of every file is handed over, with its last definition in the
\* order of file names: in Rust a file that does not parse stops the load
\* instead of making its tables look as if they were to be dropped.
LastDefinitionWins ==
    phase = "done" /\ ~Go =>
        /\ \A t \in DOMAIN tables : Defining(t) # {}
        /\ \A n \in DOMAIN directory : Parses(directory[n])
        /\ \A t \in Tables : \A p \in Defining(t) :
              (\A q \in Defining(t) : After(p, q)) =>
                  t \in DOMAIN tables /\ tables[t] = DefinitionAt(directory[p[1]], p[2])

Written(n, i, id, policy) ==
    LET line == directory[n][i]
    IN  IsOpening(line) /\ line.id = id /\ line.policy = policy

\* Nothing may be dropped or tolerated that nobody declared: the policy of a
\* group is that of an opening line with its id, and no block that was taken
\* has another policy than its group, whichever scans and files it came from.
GroupsAreWritten ==
    phase \in {"directives", "done"} =>
        /\ \A id \in DOMAIN groups :
              \E n \in DOMAIN directory : \E i \in DOMAIN directory[n] :
                  Written(n, i, id, groups[id].policy)
        /\ \A b \in blocks : b.id \in DOMAIN groups /\ groups[b.id].policy = b.policy
=============================================================================
