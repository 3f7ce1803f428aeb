----------------------------- MODULE DriftBlocks -----------------------------
(***************************************************************************)
(* extract_drift_blocks: one pass over the lines of a text, of a whole     *)
(* file or of one CREATE TABLE statement, that collects the DRIFT blocks;  *)
(* then what a block anticipates, and what the blocks of one id amount to. *)
(***************************************************************************)
EXTENDS SqlText

VARIABLES
    text,     \* the lines of the file
    cursor,   \* the line that is next
    last,     \* the last line of the part that is scanned
    inTable,  \* the scope of the blocks: one CREATE TABLE, or the file
    scan,     \* "idle", "running", "ok" or "error"
    opened,   \* the opening line of the block the scan is in, or 0
    depth,    \* its open parentheses
    seen,     \* the ids met so far, each with its policy
    found     \* the blocks, in the order of the text

scanVars == <<text, cursor, last, inTable, scan, opened, depth, seen, found>>

NoBlock == 0

ScanIdle ==
    /\ text = << >> /\ cursor = 1 /\ last = 0 /\ inTable = FALSE
    /\ scan = "idle" /\ opened = NoBlock /\ depth = 0 /\ seen = {} /\ found = << >>

StartScan(lines, from, to, scope) ==
    /\ text' = lines /\ cursor' = from /\ last' = to /\ inTable' = scope
    /\ scan' = "running"
    /\ opened' = NoBlock /\ depth' = 0 /\ seen' = {} /\ found' = << >>

-----------------------------------------------------------------------------
AtLine == scan = "running" /\ cursor <= last
Line == text[cursor]

\* The same id was seen with the other policy.
Conflicts(line) == \E s \in seen : s[1] = line.id /\ s[2] # line.policy

NextLine == cursor' = cursor + 1 /\ UNCHANGED <<text, last, inTable>>

\* Outside of a block everything but an opening line is passed over.
SkipLine ==
    /\ AtLine /\ opened = NoBlock /\ ~IsOpening(Line)
    /\ NextLine
    /\ UNCHANGED <<scan, opened, depth, seen, found>>

OpenBlock ==
    /\ AtLine /\ opened = NoBlock /\ IsOpening(Line) /\ ~Conflicts(Line)
    /\ opened' = cursor
    /\ depth' = 1
    /\ seen' = seen \cup {<<Line.id, Line.policy>>}
    /\ NextLine
    /\ UNCHANGED <<scan, found>>

NewDepth == depth + NetParenDepth(Line)

\* Mutant: too many closing parentheses go unnoticed.
BodyLineUnbounded ==
    /\ AtLine /\ opened # NoBlock /\ NewDepth # 0
    /\ depth' = NewDepth
    /\ NextLine
    /\ UNCHANGED <<scan, opened, seen, found>>

\* Within a block every line is body, an opening line too.
BodyLine ==
    /\ AtLine /\ opened # NoBlock /\ NewDepth > 0
    /\ depth' = NewDepth
    /\ NextLine
    /\ UNCHANGED <<scan, opened, seen, found>>

Block == [id |-> text[opened].id, policy |-> text[opened].policy,
          first |-> opened, last |-> cursor]

\* Mutant: the first closing line ends the block, whatever is open in it.
CloseBlockEarly ==
    /\ AtLine /\ opened # NoBlock /\ IsClosing(Line)
    /\ found' = Append(found, Block)
    /\ opened' = NoBlock
    /\ NextLine
    /\ UNCHANGED <<scan, depth, seen>>

CloseBlock ==
    /\ AtLine /\ opened # NoBlock /\ NewDepth = 0 /\ IsClosing(Line)
    /\ found' = Append(found, Block)
    /\ opened' = NoBlock
    /\ NextLine
    /\ UNCHANGED <<scan, depth, seen>>

\* One id with two policies, unbalanced parentheses, or no closing line.
ScanFails ==
    \/ AtLine /\ opened = NoBlock /\ IsOpening(Line) /\ Conflicts(Line)
    \/ AtLine /\ opened # NoBlock /\ NewDepth = 0 /\ ~IsClosing(Line)
    \/ AtLine /\ opened # NoBlock /\ NewDepth < 0
    \/ scan = "running" /\ cursor > last /\ opened # NoBlock

FailScan ==
    /\ ScanFails
    /\ scan' = "error"
    /\ UNCHANGED <<text, cursor, last, inTable, opened, depth, seen, found>>

FinishScan ==
    /\ scan = "running" /\ cursor > last /\ opened = NoBlock
    /\ scan' = "ok"
    /\ UNCHANGED <<text, cursor, last, inTable, opened, depth, seen, found>>

\* One iteration of the loop.
ScanStep == SkipLine \/ OpenBlock \/ BodyLine \/ CloseBlock \/ FailScan \/ FinishScan

-----------------------------------------------------------------------------
(* build_anticipated_drift: the body of a block as SQL.                    *)

Body(b) == [i \in 1..(b.last - b.first - 1) |-> Uncommented(text[b.first + i])]

CreateProbe == [comment |-> FALSE, kind |-> "create", table |-> Probe]
EndOfTable == [comment |-> FALSE, kind |-> "end"]

\* In a table the body is a list of columns and constraints, in a file it is
\* a list of statements.
Tried(b) ==
    IF inTable THEN <<CreateProbe>> \o Body(b) \o <<EndOfTable>> ELSE Body(b)

BodyParses(b) == Parses(Tried(b))

\* The first table counts and, in a file, all the indexes.
Anticipated(b) ==
    LET sql == Tried(b)
        ends == TableEnds(sql)
        table == DefinitionAt(sql, FirstTableEnd(sql))
    IN  [columns |-> IF ends = {} THEN {}
                     ELSE {[name |-> c, type |-> table.columns[c].type] : c \in DOMAIN table.columns},
         uniques |-> IF ends = {} THEN {} ELSE table.uniques,
         foreignKeys |-> IF ends = {} THEN {} ELSE table.foreignKeys,
         indexes |-> IF inTable THEN {}
                     ELSE {NamedIndexOf(sql[i]) : i \in IndexEnds(sql)}]

-----------------------------------------------------------------------------
(* merge_drift_groups: one group for each id, with all its blocks list.    *)

HaveConflict(blocks) ==
    \E b, c \in blocks : b.id = c.id /\ b.policy # c.policy

\* Mutant: a later block takes the place of an earlier one.
GroupOfOne(id, blocks) ==
    LET b == CHOOSE c \in blocks : c.id = id
    IN  [policy |-> b.policy, columns |-> b.holds.columns, uniques |-> b.holds.uniques,
         foreignKeys |-> b.holds.foreignKeys, indexes |-> b.holds.indexes]

GroupOf(id, blocks) ==
    LET own == {b \in blocks : b.id = id}
    IN  [policy |-> (CHOOSE b \in own : TRUE).policy,
         columns |-> UNION {b.holds.columns : b \in own},
         uniques |-> UNION {b.holds.uniques : b \in own},
         foreignKeys |-> UNION {b.holds.foreignKeys : b \in own},
         indexes |-> UNION {b.holds.indexes : b \in own}]

Merged(blocks) == [id \in {b.id : b \in blocks} |-> GroupOf(id, blocks)]
=============================================================================
