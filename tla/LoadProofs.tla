------------------------------ MODULE LoadProofs ------------------------------
(***************************************************************************)
(* What holds of every directory, whatever its files say.                  *)
(*                                                                         *)
(* The scan and the reading around it have an invariant each, ScanInv and  *)
(* LoadInv; the second needs the first because the blocks it keeps are     *)
(* those the scan found.  What the scan found is compared with the pairs   *)
(* of balanced lines in PairsInv; that no block of a file is overlooked is *)
(* HeardInv, that none is made up BlocksAreListed; that a file in order is *)
(* scanned in its parts is ScansPlaced; that all that is handed to the     *)
(* planner is well formed is TypedInv, and that it has no type that would  *)
(* change its name on the way to the database and back is SettledInv.      *)
(***************************************************************************)
EXTENDS LoadContract, TypeNamesProofs, FiniteSetTheorems, WellFoundedInduction, TLAPS

FoundBlock == [id : Ids, policy : Policies, first : Nat, last : Nat]

ScanTyped ==
    /\ text \in Seq(Lines)
    /\ cursor \in Nat \ {0} /\ last \in Nat /\ last <= Len(text)
    /\ inTable \in BOOLEAN
    /\ scan \in {"idle", "running", "ok", "error"}
    /\ opened \in Nat /\ opened < cursor
    /\ depth \in Int
    /\ seen \in SUBSET (Ids \X Policies)
    /\ found \in Seq(FoundBlock)

Delimited(b) ==
    /\ b.first \in DOMAIN text /\ IsOpening(text[b.first])
    /\ b.id = text[b.first].id /\ b.policy = text[b.first].policy
    /\ b.last \in DOMAIN text /\ IsClosing(text[b.last])
    /\ b.first < b.last

\* Blocks are lines between an opening and a closing one, and no line is in
\* two of them (extract_drift_blocks).
BlocksApart ==
    /\ \A j \in DOMAIN found : Delimited(found[j])
    /\ \A j, k \in DOMAIN found : j < k => found[j].last < found[k].first

\* The blocks of one scan have one policy for each id.
OnePolicyInScan ==
    \A j, k \in DOMAIN found : found[j].id = found[k].id => found[j].policy = found[k].policy

OpenedIsSeen ==
    opened # NoBlock =>
        /\ opened \in DOMAIN text /\ IsOpening(text[opened])
        /\ <<text[opened].id, text[opened].policy>> \in seen

FoundIsSeen ==
    \A j \in DOMAIN found :
        /\ found[j].last < cursor
        /\ opened # NoBlock => found[j].last < opened
        /\ <<found[j].id, found[j].policy>> \in seen

SeenHasOnePolicy == \A s, r \in seen : s[1] = r[1] => s[2] = r[2]

Progress == OpenedIsSeen /\ FoundIsSeen /\ SeenHasOnePolicy

ScanInv == ScanTyped /\ BlocksApart /\ Progress

LEMMA ScanInvPolicies ==
    ScanInv => OnePolicyInScan
<1> SUFFICES ASSUME ScanInv, NEW j \in DOMAIN found, NEW k \in DOMAIN found,
                    found[j].id = found[k].id
             PROVE  found[j].policy = found[k].policy
    BY DEF OnePolicyInScan
<1>1. /\ <<found[j].id, found[j].policy>> \in seen
      /\ <<found[k].id, found[k].policy>> \in seen
    BY DEF ScanInv, Progress, FoundIsSeen
<1> QED
    BY <1>1 DEF ScanInv, Progress, SeenHasOnePolicy

-----------------------------------------------------------------------------
(* Facts about lines.                                                      *)

LEMMA LineShape ==
    ASSUME NEW l \in Lines
    PROVE  /\ "comment" \in DOMAIN l /\ "kind" \in DOMAIN l
           /\ l.comment \in BOOLEAN
           /\ l.kind = "prose" => l.net \in Int
           /\ l.kind = "open" => l.id \in Ids /\ l.policy \in Policies
<1>1. l \in LineForm
    BY LinesAssumption
<1> QED
    BY <1>1 DEF LineForm

LEMMA LineFacts ==
    ASSUME NEW l \in Lines
    PROVE  /\ NetParenDepth(l) \in Int
           /\ IsOpening(l) => l.id \in Ids /\ l.policy \in Policies
    BY LineShape DEF NetParenDepth, IsOpening

LEMMA CurrentLine ==
    ASSUME ScanTyped, AtLine
    PROVE  cursor \in DOMAIN text /\ Line \in Lines /\ Line = text[cursor]
    BY DEF ScanTyped, AtLine, Line

LEMMA FoundFacts ==
    ASSUME ScanTyped
    PROVE  /\ Len(found) \in Nat /\ DOMAIN found = 1..Len(found)
           /\ \A j \in DOMAIN found : found[j].first \in Nat /\ found[j].last \in Nat
<1>1. Len(found) \in Nat /\ DOMAIN found = 1..Len(found)
    BY DEF ScanTyped
<1>2. ASSUME NEW j \in DOMAIN found
      PROVE  found[j].first \in Nat /\ found[j].last \in Nat
  <2>1. found[j] \in FoundBlock
      BY <1>1 DEF ScanTyped
  <2> QED
      BY <2>1 DEF FoundBlock
<1> QED
    BY <1>1, <1>2

-----------------------------------------------------------------------------
(* The scan.                                                               *)

LEMMA StartScanInv ==
    ASSUME NEW lines \in Seq(Lines), NEW from \in Nat \ {0}, NEW to \in Nat,
           to <= Len(lines), NEW scope \in BOOLEAN,
           StartScan(lines, from, to, scope)
    PROVE  ScanInv'
<1>1. ScanTyped'
    BY DEF StartScan, ScanTyped, NoBlock
<1>2. BlocksApart'
    BY DEF StartScan, BlocksApart
<1>3. Progress'
    BY DEF StartScan, Progress, OpenedIsSeen, FoundIsSeen, SeenHasOnePolicy, NoBlock
<1> QED
    BY <1>1, <1>2, <1>3 DEF ScanInv

LEMMA SkipLineInv ==
    ASSUME ScanInv, SkipLine
    PROVE  ScanInv'
<1>1. /\ cursor' = cursor + 1
      /\ UNCHANGED <<text, last, inTable, scan, opened, depth, seen, found>>
    BY DEF SkipLine, NextLine
<1>2. ScanTyped'
    BY <1>1 DEF ScanInv, ScanTyped
<1>3. BlocksApart'
    BY <1>1 DEF ScanInv, BlocksApart, Delimited
<1>4. FoundIsSeen'
    BY <1>1, FoundFacts DEF ScanInv, Progress, FoundIsSeen, ScanTyped
<1>5. OpenedIsSeen' /\ SeenHasOnePolicy'
    BY <1>1 DEF ScanInv, Progress, OpenedIsSeen, SeenHasOnePolicy
<1> QED
    BY <1>2, <1>3, <1>4, <1>5 DEF ScanInv, Progress

LEMMA OpenBlockInv ==
    ASSUME ScanInv, OpenBlock
    PROVE  ScanInv'
<1> DEFINE key == <<Line.id, Line.policy>>
<1>0. /\ cursor \in DOMAIN text /\ Line = text[cursor]
      /\ key \in Ids \X Policies
    BY CurrentLine, LineFacts DEF ScanInv, OpenBlock
<1>1. /\ opened' = cursor /\ cursor' = cursor + 1 /\ depth' = 1
      /\ seen' = seen \cup {key}
      /\ UNCHANGED <<text, last, inTable, scan, found>>
      /\ IsOpening(Line) /\ ~Conflicts(Line)
    BY DEF OpenBlock, NextLine
<1>2. ScanTyped'
    BY <1>0, <1>1 DEF ScanInv, ScanTyped
<1>3. BlocksApart'
    BY <1>1 DEF ScanInv, BlocksApart, Delimited
<1>4. \A s \in seen : s[1] = key[1] => s[2] = key[2]
    BY <1>1 DEF Conflicts
<1>5. SeenHasOnePolicy'
    BY <1>1, <1>4 DEF ScanInv, Progress, SeenHasOnePolicy
<1>6. FoundIsSeen'
    BY <1>1, FoundFacts DEF ScanInv, Progress, FoundIsSeen, ScanTyped
<1>7. OpenedIsSeen'
    BY <1>0, <1>1 DEF OpenedIsSeen
<1> QED
    BY <1>2, <1>3, <1>5, <1>6, <1>7 DEF ScanInv, Progress

LEMMA BodyLineInv ==
    ASSUME ScanInv, BodyLine
    PROVE  ScanInv'
<1>0. NetParenDepth(Line) \in Int
    BY CurrentLine, LineFacts DEF ScanInv, BodyLine
<1>1. /\ cursor' = cursor + 1 /\ depth' = depth + NetParenDepth(Line)
      /\ UNCHANGED <<text, last, inTable, scan, opened, seen, found>>
    BY DEF BodyLine, NextLine, NewDepth
<1>2. ScanTyped'
    BY <1>0, <1>1 DEF ScanInv, ScanTyped
<1>3. BlocksApart'
    BY <1>1 DEF ScanInv, BlocksApart, Delimited
<1>4. FoundIsSeen'
    BY <1>1, FoundFacts DEF ScanInv, Progress, FoundIsSeen, ScanTyped
<1>5. OpenedIsSeen' /\ SeenHasOnePolicy'
    BY <1>1 DEF ScanInv, Progress, OpenedIsSeen, SeenHasOnePolicy
<1> QED
    BY <1>2, <1>3, <1>4, <1>5 DEF ScanInv, Progress

LEMMA CloseBlockInv ==
    ASSUME ScanInv, CloseBlock
    PROVE  ScanInv'
<1>0. cursor \in DOMAIN text /\ Line = text[cursor] /\ IsClosing(text[cursor])
    BY CurrentLine DEF ScanInv, CloseBlock
<1>1. /\ cursor' = cursor + 1 /\ opened' = NoBlock /\ opened # NoBlock
      /\ found' = Append(found, Block)
      /\ UNCHANGED <<text, last, inTable, scan, depth, seen>>
    BY DEF CloseBlock, NextLine
<1>2. opened \in DOMAIN text /\ IsOpening(text[opened]) /\ text[opened] \in Lines
    BY <1>1 DEF ScanInv, ScanTyped, Progress, OpenedIsSeen
<1>3. Block \in FoundBlock
    BY <1>2, LineFacts DEF ScanInv, ScanTyped, Block, FoundBlock
<1>4. ScanTyped'
    BY <1>1, <1>3 DEF ScanInv, ScanTyped, NoBlock
<1>5. /\ DOMAIN found = 1..Len(found) /\ DOMAIN found' = 1..(Len(found) + 1)
      /\ \A j \in DOMAIN found : found'[j] = found[j]
      /\ found'[Len(found) + 1] = Block
      /\ Len(found) \in Nat
    BY <1>1, <1>3 DEF ScanInv, ScanTyped
<1>6. /\ Delimited(Block) /\ Block.last = cursor /\ Block.first = opened
      /\ Block.id = text[opened].id /\ Block.policy = text[opened].policy
    BY <1>0, <1>2 DEF Delimited, Block, ScanInv, ScanTyped
<1>7. BlocksApart'
  <2>1. ASSUME NEW j \in DOMAIN found' PROVE Delimited(found[j])'
    <3>1. CASE j \in DOMAIN found
        BY <3>1, <1>1, <1>5 DEF ScanInv, BlocksApart, Delimited
    <3>2. CASE j = Len(found) + 1
        BY <3>2, <1>1, <1>5, <1>6 DEF Delimited
    <3> QED
        BY <3>1, <3>2, <1>5
  <2>2. ASSUME NEW j \in DOMAIN found', NEW k \in DOMAIN found', j < k
        PROVE  found'[j].last < found'[k].first
    <3>1. CASE k \in DOMAIN found
        BY <3>1, <2>2, <1>5 DEF ScanInv, BlocksApart
    <3>2. CASE k = Len(found) + 1
      <4>1. j \in DOMAIN found /\ found'[j] = found[j] /\ found'[k] = Block
          BY <3>2, <2>2, <1>5
      <4>2. found[j].last < opened
          BY <4>1, <1>1 DEF ScanInv, Progress, FoundIsSeen
      <4> QED
          BY <4>1, <4>2, <1>6
    <3> QED
        BY <3>1, <3>2, <1>5
  <2> QED
      BY <2>1, <2>2 DEF BlocksApart
<1>8. ASSUME NEW j \in DOMAIN found'
      PROVE  found'[j].last < cursor' /\ <<found'[j].id, found'[j].policy>> \in seen'
  <2>1. CASE j \in DOMAIN found
    <3>1. found[j].last \in Nat /\ found[j].last < cursor
        BY <2>1, FoundFacts DEF ScanInv, Progress, FoundIsSeen
    <3> QED
        BY <3>1, <2>1, <1>1, <1>5 DEF ScanInv, ScanTyped, Progress, FoundIsSeen
  <2>2. CASE j = Len(found) + 1
      BY <2>2, <1>1, <1>5, <1>6 DEF ScanInv, ScanTyped, Progress, OpenedIsSeen
  <2> QED
      BY <2>1, <2>2, <1>5
<1>9. FoundIsSeen'
    BY <1>1, <1>8 DEF FoundIsSeen
<1>10. OpenedIsSeen' /\ SeenHasOnePolicy'
    BY <1>1 DEF ScanInv, Progress, OpenedIsSeen, SeenHasOnePolicy
<1> QED
    BY <1>4, <1>7, <1>9, <1>10 DEF ScanInv, Progress

LEMMA EndScanInv ==
    ASSUME ScanInv, FailScan \/ FinishScan
    PROVE  ScanInv'
<1>1. scan' \in {"ok", "error"} /\ UNCHANGED <<text, cursor, last, inTable, opened, depth, seen, found>>
    BY DEF FailScan, FinishScan
<1>2. ScanTyped'
    BY <1>1 DEF ScanInv, ScanTyped
<1>3. BlocksApart' /\ Progress'
    BY <1>1 DEF ScanInv, BlocksApart, Delimited, Progress, OpenedIsSeen, FoundIsSeen,
                SeenHasOnePolicy
<1> QED
    BY <1>2, <1>3 DEF ScanInv

LEMMA ScanStepInv ==
    ASSUME ScanInv, ScanStep
    PROVE  ScanInv'
    BY SkipLineInv, OpenBlockInv, BodyLineInv, CloseBlockInv, EndScanInv DEF ScanStep

LEMMA UnscannedInv ==
    ASSUME ScanInv, UNCHANGED scanVars
    PROVE  ScanInv'
<1>1. ScanTyped'
    BY DEF scanVars, ScanInv, ScanTyped
<1>2. BlocksApart' /\ Progress'
    BY DEF scanVars, ScanInv, BlocksApart, Delimited, Progress, OpenedIsSeen, FoundIsSeen,
           SeenHasOnePolicy
<1> QED
    BY <1>1, <1>2 DEF ScanInv

LEMMA ScanEndedInv ==
    ASSUME ScanInv, scan' = "idle",
           UNCHANGED <<text, cursor, last, inTable, opened, depth, seen, found>>
    PROVE  ScanInv'
<1>1. ScanTyped'
    BY DEF ScanInv, ScanTyped
<1>2. BlocksApart' /\ Progress'
    BY DEF ScanInv, BlocksApart, Delimited, Progress, OpenedIsSeen, FoundIsSeen,
           SeenHasOnePolicy
<1> QED
    BY <1>1, <1>2 DEF ScanInv

-----------------------------------------------------------------------------
(* Greatest elements, which Latest and StatementStart choose.              *)

LEMMA LeastElement ==
    ASSUME NEW S \in SUBSET Nat, S # {}
    PROVE  \E i \in S : \A j \in S : i <= j
<1>1. PICK i \in S : \A j \in S : ~(<<j, i>> \in OpToRel(<, Nat))
    BY NatLessThanWellFounded, WFMin
<1>2. \A j \in S : ~(j < i)
    BY <1>1 DEF OpToRel
<1> QED
    BY <1>2

LEMMA GreatestElement ==
    ASSUME NEW n \in Nat, NEW S \in SUBSET (1..n), S # {}
    PROVE  \E i \in S : \A j \in S : j <= i
<1> DEFINE T == {n - i : i \in S}
<1>1. T \in SUBSET Nat /\ T # {}
  <2>1. \A i \in S : n - i \in Nat
      OBVIOUS
  <2>2. PICK i \in S : TRUE
      OBVIOUS
  <2>3. n - i \in T
      OBVIOUS
  <2> QED
      BY <2>1, <2>3
<1>2. PICK k \in T : \A j \in T : k <= j
    BY <1>1, LeastElement
<1>3. PICK i \in S : k = n - i
    BY <1>2
<1>4. \A j \in S : j <= i
    BY <1>2, <1>3
<1> QED
    BY <1>4

LEMMA LatestIsGreatest ==
    ASSUME NEW n \in Nat, NEW S \in SUBSET (1..n), S # {}
    PROVE  Latest(S) \in S /\ \A j \in S : j <= Latest(S)
    BY GreatestElement DEF Latest

LEMMA TableEndFacts ==
    ASSUME NEW lines \in Seq(Lines)
    PROVE  /\ Len(lines) \in Nat /\ DOMAIN lines = 1..Len(lines)
           /\ TableEnds(lines) \subseteq 1..Len(lines)
    BY DEF TableEnds, StatementEnds

LEMMA StatementStartFacts ==
    ASSUME NEW lines \in Seq(Lines), NEW end \in DOMAIN lines
    PROVE  /\ StatementStart(lines, end) \in 1..end
           /\ \/ StatementStart(lines, end) = 1
              \/ StatementStart(lines, end) - 1 \in StatementEnds(lines)
<1> DEFINE S == {i \in 1..end : i = 1 \/ i - 1 \in StatementEnds(lines)}
<1>0. end \in Nat /\ end >= 1
    OBVIOUS
<1>1. S \in SUBSET (1..end) /\ 1 \in S
    BY <1>0
<1>2. PICK i \in S : \A j \in S : j <= i
    BY <1>0, <1>1, GreatestElement
<1>3. ASSUME NEW j \in i..(end - 1), j \in StatementEnds(lines)
      PROVE  FALSE
  <2>1. j + 1 \in S
      BY <1>3, <1>0
  <2> QED
      BY <2>1, <1>2, <1>0
<1>4. \E k \in 1..end : /\ k = 1 \/ k - 1 \in StatementEnds(lines)
                        /\ \A j \in k..(end - 1) : j \notin StatementEnds(lines)
    BY <1>2, <1>3
<1> QED
    BY <1>4 DEF StatementStart

LEMMA ScannedStatementsFacts ==
    ASSUME NEW lines \in Seq(Lines)
    PROVE  ScannedStatements(lines) \subseteq DOMAIN lines
<1>1. ASSUME NEW t \in DOMAIN ParsedTables(lines)
      PROVE  Latest({e \in TableEnds(lines) : TableName(lines, e) = t}) \in DOMAIN lines
  <2> DEFINE S == {e \in TableEnds(lines) : TableName(lines, e) = t}
  <2>1. S \in SUBSET (1..Len(lines)) /\ S # {}
      BY TableEndFacts DEF ParsedTables
  <2> HIDE DEF S
  <2>2. Latest(S) \in 1..Len(lines)
      BY <2>1, TableEndFacts, LatestIsGreatest
  <2> QED
      BY <2>2, TableEndFacts DEF S
<1> QED
    BY <1>1, TableEndFacts DEF ScannedStatements

-----------------------------------------------------------------------------
(* The reading around the scans.                                           *)

FirstPass == {"files", "tables", "file"}
SecondPass == {"directives", "done"}

Reading ==
    /\ directory \in Seq(Seq(Lines))
    /\ phase \in FirstPass \cup SecondPass \cup {"failed"}
    /\ unread \subseteq DOMAIN directory
    /\ phase \in {"tables", "file"} => current \in DOMAIN directory
    /\ phase \in {"tables", "file"} => statements \subseteq DOMAIN directory[current]
    /\ scan # "idle" => phase \in {"tables", "file"} /\ text = directory[current]

\* The files that were read lie before those that were not.
FilesInOrder ==
    phase \in FirstPass =>
        \A m \in DOMAIN directory \ unread, n \in unread : m < n

Processed == IF phase \in FirstPass THEN DOMAIN directory \ unread ELSE DOMAIN directory

LastOf(files, n, t) ==
    /\ n \in files /\ t \in DOMAIN ParsedTables(directory[n])
    /\ \A m \in files : m > n => t \notin DOMAIN ParsedTables(directory[m])

LastFileWins ==
    phase # "failed" /\ ~Go =>
        /\ \A n \in Processed : Parses(directory[n])
        /\ \A t \in DOMAIN tables :
              \E n \in Processed : t \in DOMAIN ParsedTables(directory[n])
        /\ \A n \in Processed : \A t : LastOf(Processed, n, t) =>
              t \in DOMAIN tables /\ tables[t] = ParsedTables(directory[n])[t]

WrittenInFile(b) ==
    b.file \in DOMAIN directory
    /\ \E i \in DOMAIN directory[b.file] : Written(b.file, i, b.id, b.policy)

BlocksWritten == \A b \in blocks : WrittenInFile(b)

GroupsMerged ==
    phase \in SecondPass => groups = Merged(blocks) /\ ~HaveConflict(blocks)

LoadInv == Reading /\ FilesInOrder /\ LastFileWins /\ BlocksWritten /\ GroupsMerged

IInv == ScanInv /\ LoadInv

LEMMA InitInv ==
    Init => IInv
<1> SUFFICES ASSUME Init PROVE IInv
    OBVIOUS
<1>0. ScanIdle
    BY DEF Init
<1>1. ScanInv
  <2>0. inTable \in BOOLEAN
      BY <1>0 DEF ScanIdle
  <2>1. ScanTyped
      BY <1>0, <2>0 DEF ScanIdle, ScanTyped, NoBlock
  <2>2. BlocksApart /\ Progress
      BY <1>0 DEF ScanIdle, BlocksApart, Progress, OpenedIsSeen, FoundIsSeen,
                  SeenHasOnePolicy, NoBlock
  <2> QED
      BY <2>1, <2>2 DEF ScanInv
<1> USE DEF Init
<1>2. Reading
    BY <1>0, LoadAssumption DEF ScanIdle, Reading, FirstPass, SecondPass
<1>3. FilesInOrder /\ BlocksWritten /\ GroupsMerged
    BY DEF FilesInOrder, BlocksWritten, GroupsMerged, SecondPass
<1>4. LastFileWins
    BY DEF LastFileWins, Processed, FirstPass, LastOf
<1> QED
    BY <1>1, <1>2, <1>3, <1>4 DEF IInv, LoadInv

\* What the scans do not touch.
LEMMA UnchangedTables ==
    ASSUME LoadInv, phase \in FirstPass, phase' \in FirstPass,
           UNCHANGED <<directory, unread, tables>>
    PROVE  FilesInOrder' /\ LastFileWins'
<1>1. Processed' = Processed
    BY DEF Processed
<1>2. FilesInOrder'
    BY DEF LoadInv, FilesInOrder
<1>3. LastFileWins'
  <2>1. \A n, t : LastOf(Processed, n, t)' <=> LastOf(Processed, n, t)
      BY <1>1 DEF LastOf
  <2> QED
      BY <1>1, <2>1 DEF LoadInv, LastFileWins, FirstPass
<1> QED
    BY <1>2, <1>3

LEMMA UnchangedBlocks ==
    ASSUME BlocksWritten, UNCHANGED <<directory, blocks>>
    PROVE  BlocksWritten'
    BY DEF BlocksWritten, WrittenInFile, Written

LEMMA FailInv ==
    ASSUME LoadInv, ScanInv', phase' = "failed", scan' = "idle",
           unread' \subseteq unread, UNCHANGED <<directory, blocks>>
    PROVE  IInv'
<1>1. Reading'
    BY DEF LoadInv, Reading
<1>2. FilesInOrder' /\ LastFileWins' /\ GroupsMerged'
    BY DEF FilesInOrder, FirstPass, LastFileWins, GroupsMerged, SecondPass
<1>3. BlocksWritten'
    BY UnchangedBlocks DEF LoadInv
<1> QED
    BY <1>1, <1>2, <1>3 DEF IInv, LoadInv

-----------------------------------------------------------------------------
(* The actions that scan.                                                  *)

LEMMA ScanTableInv ==
    ASSUME IInv, NEW end \in statements, ScanTable(end)
    PROVE  IInv'
<1> USE DEF IInv, LoadInv
<1>1. /\ phase = "tables" /\ phase' = "tables"
      /\ statements' = statements \ {end}
      /\ UNCHANGED <<directory, unread, current, tables, blocks, groups>>
      /\ StartScan(directory[current], StatementStart(directory[current], end), end, TRUE)
    BY DEF ScanTable
<1>2. /\ directory[current] \in Seq(Lines) /\ current \in DOMAIN directory
      /\ end \in DOMAIN directory[current]
    BY <1>1 DEF Reading
<1>3. /\ StatementStart(directory[current], end) \in Nat \ {0}
      /\ end \in Nat /\ end <= Len(directory[current])
    BY <1>2, StatementStartFacts
<1>4. ScanInv'
    BY <1>1, <1>2, <1>3, StartScanInv
<1>5. Reading'
    BY <1>1, <1>2 DEF Reading, StartScan
<1>6. FilesInOrder' /\ LastFileWins'
    BY <1>1, UnchangedTables DEF FirstPass
<1>7. BlocksWritten' /\ GroupsMerged'
    BY <1>1, UnchangedBlocks DEF GroupsMerged, SecondPass
<1> QED
    BY <1>4, <1>5, <1>6, <1>7

LEMMA ScanFileInv ==
    ASSUME IInv, ScanFile
    PROVE  IInv'
<1> USE DEF IInv, LoadInv
<1>1. /\ phase = "tables" /\ phase' = "file" /\ statements' = statements
      /\ UNCHANGED <<directory, unread, current, tables, blocks, groups>>
      /\ StartScan(directory[current], 1, Len(directory[current]), FALSE)
    BY DEF ScanFile
<1>2. directory[current] \in Seq(Lines) /\ current \in DOMAIN directory
    BY <1>1 DEF Reading
<1>3. /\ Len(directory[current]) \in Nat /\ 1 \in Nat \ {0}
      /\ Len(directory[current]) <= Len(directory[current]) /\ FALSE \in BOOLEAN
    BY <1>2
<1>4. ScanInv'
    BY <1>1, <1>2, <1>3, StartScanInv
<1>5. Reading'
    BY <1>1, <1>2 DEF Reading, StartScan, FirstPass
<1>6. FilesInOrder' /\ LastFileWins'
    BY <1>1, UnchangedTables DEF FirstPass
<1>7. BlocksWritten' /\ GroupsMerged'
    BY <1>1, UnchangedBlocks DEF GroupsMerged, SecondPass
<1> QED
    BY <1>4, <1>5, <1>6, <1>7

LEMMA ScanInvLoad ==
    ASSUME IInv, Scan
    PROVE  IInv'
<1> USE DEF IInv, LoadInv
<1>1. ScanStep /\ UNCHANGED loadVars
    BY DEF Scan
<1>2. ScanInv'
    BY <1>1, ScanStepInv
<1>3. scan = "running" /\ text' = text
    BY <1>1 DEF ScanStep, SkipLine, OpenBlock, BodyLine, CloseBlock, FailScan, FinishScan,
                ScanFails, AtLine, NextLine
<1>4. /\ phase \in FirstPass /\ phase' \in FirstPass
      /\ UNCHANGED <<directory, phase, unread, current, statements, tables, blocks, groups>>
    BY <1>1, <1>3 DEF Reading, FirstPass, loadVars
<1>5. Reading'
    BY <1>3, <1>4 DEF Reading
<1>6. FilesInOrder' /\ LastFileWins'
    BY <1>4, UnchangedTables
<1>7. BlocksWritten' /\ GroupsMerged'
    BY <1>4, UnchangedBlocks DEF GroupsMerged
<1> QED
    BY <1>2, <1>5, <1>6, <1>7

LEMMA TakeBlocksInv ==
    ASSUME IInv, TakeBlocks
    PROVE  IInv'
<1> USE DEF IInv, LoadInv
<1>1. /\ scan # "idle" /\ scan' = "idle" /\ phase' \in {"tables", "files"}
      /\ phase' = AfterScan
      /\ blocks' = blocks \cup (IF scan = "ok" THEN {Built(b) : b \in Fresh} ELSE {})
      /\ UNCHANGED <<text, cursor, last, inTable, opened, depth, seen, found>>
      /\ UNCHANGED <<directory, unread, current, statements, tables, groups>>
    BY DEF TakeBlocks, AfterScan
<1>2. ScanInv'
    BY <1>1, ScanEndedInv
<1>3. phase \in {"tables", "file"} /\ text = directory[current] /\ current \in DOMAIN directory
    BY <1>1 DEF Reading
<1>4. Reading'
    BY <1>1, <1>3 DEF Reading, FirstPass
<1>5. FilesInOrder' /\ LastFileWins'
    BY <1>1, <1>3, UnchangedTables DEF FirstPass
<1>6. ASSUME NEW b \in Fresh
      PROVE  WrittenInFile(Built(b))
  <2>1. PICK j \in DOMAIN found : b = found[j]
      BY DEF Fresh, Elements
  <2>2. Delimited(b)
      BY <2>1 DEF ScanInv, BlocksApart
  <2>3. Built(b).file = current /\ Built(b).id = b.id /\ Built(b).policy = b.policy
      BY DEF Built
  <2>4. Written(current, b.first, b.id, b.policy) /\ b.first \in DOMAIN directory[current]
      BY <2>2, <1>3 DEF Delimited, Written
  <2> QED
      BY <2>3, <2>4, <1>3 DEF WrittenInFile
<1>7. BlocksWritten'
    BY <1>1, <1>6 DEF BlocksWritten, WrittenInFile, Written
<1>8. GroupsMerged'
    BY <1>1 DEF GroupsMerged, SecondPass
<1> QED
    BY <1>2, <1>4, <1>5, <1>7, <1>8

LEMMA BadBlocksInv ==
    ASSUME IInv, BadBlocks
    PROVE  IInv'
<1>1. /\ scan' = "idle" /\ phase' = "failed"
      /\ UNCHANGED <<text, cursor, last, inTable, opened, depth, seen, found>>
      /\ UNCHANGED <<directory, unread, blocks>>
    BY DEF BadBlocks, Fail
<1>2. ScanInv'
    BY <1>1, ScanEndedInv DEF IInv
<1>3. LoadInv /\ unread' \subseteq unread
    BY <1>1 DEF IInv
<1> QED
    BY <1>1, <1>2, <1>3, FailInv

-----------------------------------------------------------------------------
(* The actions that read.                                                  *)

LEMMA ReadFileInv ==
    ASSUME IInv, NEW n \in unread, ReadFile(n)
    PROVE  IInv'
<1> USE DEF IInv, LoadInv
<1> DEFINE parsed == ParsedTables(directory[n])
           before == DOMAIN directory \ unread
<1>1. /\ phase = "files" /\ phase' = "tables"
      /\ \A m \in unread : n <= m
      /\ Parses(directory[n])
      /\ tables' = Replacing(tables, parsed)
      /\ unread' = unread \ {n} /\ current' = n
      /\ statements' = ScannedStatements(directory[n])
      /\ UNCHANGED <<scanVars, directory, blocks, groups>>
    BY DEF ReadFile, NextFile
<1>2. n \in DOMAIN directory /\ directory[n] \in Seq(Lines) /\ DOMAIN directory \subseteq Nat
    BY DEF Reading
<1>3. scan = "idle" /\ scan' = scan
    BY <1>1 DEF Reading, scanVars
<1>4. ScanInv'
    BY <1>1, UnscannedInv
<1>5. Reading'
    BY <1>1, <1>2, <1>3, ScannedStatementsFacts DEF Reading, FirstPass
<1>6. \A m \in before : m < n
    BY <1>1 DEF FilesInOrder, FirstPass
<1>7. FilesInOrder'
  <2>1. \A m \in unread : m # n => n < m
      BY <1>1, <1>2 DEF Reading
  <2>2. \A m \in before, k \in unread : m < k
      BY <1>1 DEF FilesInOrder, FirstPass
  <2> QED
      BY <1>1, <2>1, <2>2 DEF FilesInOrder
<1>8. Processed = before /\ Processed' = before \cup {n}
    BY <1>1, <1>2 DEF Processed, FirstPass
<1>9. /\ DOMAIN tables' = DOMAIN tables \cup DOMAIN parsed
      /\ \A t \in DOMAIN parsed : tables'[t] = parsed[t]
      /\ \A t \in DOMAIN tables \ DOMAIN parsed : tables'[t] = tables[t]
    BY <1>1 DEF Replacing
<1>10. LastFileWins'
  <2> SUFFICES ASSUME ~Go PROVE LastFileWins'
      BY DEF LastFileWins
  <2>1. \A m \in Processed' : Parses(directory'[m])
      BY <1>1, <1>8 DEF LastFileWins
  <2>2. ASSUME NEW t \in DOMAIN tables'
        PROVE  \E m \in Processed' : t \in DOMAIN ParsedTables(directory'[m])
    <3>1. CASE t \in DOMAIN parsed
        BY <3>1, <1>1, <1>8
    <3>2. CASE t \in DOMAIN tables
        BY <3>2, <1>1, <1>8 DEF LastFileWins
    <3> QED
        BY <3>1, <3>2, <1>9
  <2>3. ASSUME NEW m \in Processed', NEW t, LastOf(Processed, m, t)'
        PROVE  t \in DOMAIN tables' /\ tables'[t] = ParsedTables(directory'[m])[t]
    <3>0. /\ t \in DOMAIN ParsedTables(directory[m])
          /\ \A k \in before \cup {n} : k > m => t \notin DOMAIN ParsedTables(directory[k])
        BY <2>3, <1>1, <1>8 DEF LastOf
    <3>1. CASE m = n
        BY <3>0, <3>1, <1>1, <1>9
    <3>2. CASE m \in before
      <4>1. t \notin DOMAIN parsed
          BY <3>0, <3>2, <1>2, <1>6
      <4>2. LastOf(Processed, m, t)
          BY <3>0, <3>2, <1>8 DEF LastOf
      <4>3. t \in DOMAIN tables /\ tables[t] = ParsedTables(directory[m])[t]
          BY <4>2, <3>2, <1>1, <1>8 DEF LastFileWins
      <4> QED
          BY <4>1, <4>3, <1>1, <1>9
    <3> QED
        BY <3>1, <3>2, <1>8
  <2> QED
      BY <2>1, <2>2, <2>3 DEF LastFileWins
<1>11. BlocksWritten' /\ GroupsMerged'
    BY <1>1, UnchangedBlocks DEF GroupsMerged, SecondPass
<1> QED
    BY <1>4, <1>5, <1>7, <1>10, <1>11

LEMMA UnparsedFileInv ==
    ASSUME IInv, NEW n \in unread, UnparsedFile(n)
    PROVE  IInv'
<1>1. /\ phase = "files" /\ \A m \in unread : n <= m
      /\ UNCHANGED <<scanVars, directory, current, statements, tables, blocks, groups>>
      /\ Go => unread' = unread \ {n} /\ phase' = phase
      /\ ~Go => phase' = "failed" /\ unread' = unread
    BY DEF UnparsedFile, NextFile, Fail
<1>2. ScanInv'
    BY <1>1, UnscannedInv DEF IInv
<1>3. scan' = "idle"
    BY <1>1 DEF scanVars, IInv, LoadInv, Reading
<1>4. LoadInv
    BY DEF IInv
<1>5. CASE ~Go
    BY <1>1, <1>2, <1>3, <1>4, <1>5, FailInv
<1>6. CASE Go
  <2>1. n \in DOMAIN directory /\ DOMAIN directory \subseteq Nat
      BY <1>4 DEF LoadInv, Reading
  <2>2. Reading'
      BY <1>1, <1>3, <1>4, <1>6 DEF LoadInv, Reading
  <2>3. FilesInOrder'
    <3>1. \A m \in unread : m # n => n < m
        BY <1>1, <2>1, <1>4 DEF LoadInv, Reading
    <3>2. \A m \in DOMAIN directory \ unread, k \in unread : m < k
        BY <1>1, <1>4 DEF LoadInv, FilesInOrder, FirstPass
    <3> QED
        BY <1>1, <1>6, <2>1, <3>1, <3>2 DEF FilesInOrder
  <2>4. LastFileWins' /\ GroupsMerged'
      BY <1>1, <1>6 DEF LastFileWins, GroupsMerged, SecondPass
  <2>5. BlocksWritten'
      BY <1>1, <1>4, UnchangedBlocks DEF LoadInv
  <2> QED
      BY <1>2, <2>2, <2>3, <2>4, <2>5 DEF IInv, LoadInv
<1> QED
    BY <1>5, <1>6

LEMMA MergeInv ==
    ASSUME IInv, Merge
    PROVE  IInv'
<1> USE DEF IInv, LoadInv
<1>1. /\ phase = "files" /\ unread = {} /\ ~HaveConflict(blocks)
      /\ groups' = Merged(blocks) /\ phase' = "directives" /\ unread' = DOMAIN directory
      /\ UNCHANGED <<scanVars, directory, current, statements, tables, blocks>>
    BY DEF Merge
<1>2. ScanInv'
    BY <1>1, UnscannedInv
<1>3. Reading'
    BY <1>1 DEF Reading, SecondPass, scanVars
<1>4. FilesInOrder'
    BY <1>1 DEF FilesInOrder, FirstPass
<1>5. Processed = DOMAIN directory /\ Processed' = DOMAIN directory
    BY <1>1 DEF Processed, FirstPass
<1>6. LastFileWins'
  <2>1. \A m, t : LastOf(Processed, m, t)' <=> LastOf(Processed, m, t)
      BY <1>1, <1>5 DEF LastOf
  <2> QED
      BY <1>1, <1>5, <2>1 DEF LastFileWins
<1>7. BlocksWritten'
    BY <1>1, UnchangedBlocks
<1>8. GroupsMerged'
    BY <1>1 DEF GroupsMerged
<1> QED
    BY <1>2, <1>3, <1>4, <1>6, <1>7, <1>8

LEMMA RefuseMergeInv ==
    ASSUME IInv, RefuseMerge
    PROVE  IInv'
<1>1. /\ phase = "files" /\ phase' = "failed"
      /\ UNCHANGED <<scanVars, directory, unread, blocks>>
    BY DEF RefuseMerge, Fail
<1>2. ScanInv' /\ LoadInv
    BY <1>1, UnscannedInv DEF IInv
<1>3. scan' = "idle" /\ unread' \subseteq unread
    BY <1>1, <1>2 DEF scanVars, LoadInv, Reading
<1> QED
    BY <1>1, <1>2, <1>3, FailInv

LEMMA SecondPassInv ==
    ASSUME IInv, phase = "directives", phase' \in SecondPass, unread' \subseteq unread,
           UNCHANGED <<scanVars, directory, current, statements, tables, blocks, groups>>
    PROVE  IInv'
<1> USE DEF IInv, LoadInv
<1>1. ScanInv'
    BY UnscannedInv
<1>2. Reading'
    BY DEF Reading, SecondPass, scanVars
<1>3. FilesInOrder'
    BY DEF FilesInOrder, FirstPass, SecondPass
<1>4. Processed = DOMAIN directory /\ Processed' = DOMAIN directory
    BY DEF Processed, FirstPass, SecondPass
<1>5. LastFileWins'
  <2>1. \A m, t : LastOf(Processed, m, t)' <=> LastOf(Processed, m, t)
      BY <1>4 DEF LastOf
  <2> QED
      BY <1>4, <2>1 DEF LastFileWins
<1>6. BlocksWritten'
    BY UnchangedBlocks
<1>7. GroupsMerged'
    BY DEF GroupsMerged, SecondPass
<1> QED
    BY <1>1, <1>2, <1>3, <1>5, <1>6, <1>7

LEMMA ReadDirectivesInv ==
    ASSUME IInv, NEW n \in unread, ReadDirectives(n)
    PROVE  IInv'
<1>1. /\ phase = "directives" /\ unread' = unread \ {n}
      /\ phase' = "failed" \/ phase' = "directives"
      /\ UNCHANGED <<scanVars, directory, current, statements, tables, blocks, groups>>
    BY DEF ReadDirectives, Fail
<1>2. CASE phase' = "directives"
    BY <1>1, <1>2, SecondPassInv DEF SecondPass
<1>3. CASE phase' = "failed"
  <2>1. ScanInv' /\ LoadInv
      BY <1>1, UnscannedInv DEF IInv
  <2>2. scan' = "idle" /\ unread' \subseteq unread
      BY <1>1, <2>1 DEF scanVars, LoadInv, Reading
  <2> QED
      BY <1>1, <1>3, <2>1, <2>2, FailInv
<1> QED
    BY <1>1, <1>2, <1>3

LEMMA FinishInv ==
    ASSUME IInv, Finish
    PROVE  IInv'
<1>1. /\ phase = "directives" /\ phase' \in SecondPass /\ unread' \subseteq unread
      /\ UNCHANGED <<scanVars, directory, current, statements, tables, blocks, groups>>
    BY DEF Finish, SecondPass
<1> QED
    BY <1>1, SecondPassInv

LEMMA StutterInv ==
    ASSUME IInv, UNCHANGED vars
    PROVE  IInv'
<1> USE DEF IInv, LoadInv
<1>1. /\ UNCHANGED scanVars
      /\ UNCHANGED <<directory, phase, unread, current, statements, tables, blocks, groups>>
    BY DEF vars, loadVars
<1>2. ScanInv'
    BY <1>1, UnscannedInv
<1>3. Reading' /\ FilesInOrder' /\ GroupsMerged'
    BY <1>1 DEF Reading, FilesInOrder, GroupsMerged, scanVars
<1>4. LastFileWins'
    BY <1>1 DEF LastFileWins, Processed, LastOf
<1>5. BlocksWritten'
    BY <1>1, UnchangedBlocks
<1> QED
    BY <1>2, <1>3, <1>4, <1>5

LEMMA Inductive ==
    IInv /\ [Next]_vars => IInv'
    BY ReadFileInv, UnparsedFileInv, ReadDirectivesInv, ScanTableInv, ScanFileInv, ScanInvLoad,
       TakeBlocksInv, BadBlocksInv, MergeInv, RefuseMergeInv, FinishInv, StutterInv
    DEF Next, Read, FindBlocks

LEMMA Invariant ==
    Spec => []IInv
    BY InitInv, Inductive, PTL DEF Spec
-----------------------------------------------------------------------------
(* The theorems.                                                           *)

\* Whatever the lines of a text are, the blocks that a scan of it collects
\* are delimited, do not share a line, and have one policy for each id
\* (extract_drift_blocks).
THEOREM BlocksStayApart ==
    Spec => [](BlocksApart /\ OnePolicyInScan)
<1>1. IInv => BlocksApart /\ OnePolicyInScan
    BY ScanInvPolicies DEF IInv, ScanInv
<1> QED
    BY <1>1, Invariant, PTL

\* For every directory, the policy of a group was written in one of its files
\* next to the id of the group, and all blocks with that id have this policy
\* (load_decorated_from_dir, merge_drift_groups).
THEOREM GroupsCameFromText ==
    Spec => []GroupsAreWritten
<1>1. ASSUME IInv, phase \in {"directives", "done"}
      PROVE  GroupsAreWritten
  <2> USE DEF IInv, LoadInv
  <2>1. groups = Merged(blocks) /\ ~HaveConflict(blocks)
      BY <1>1 DEF GroupsMerged, SecondPass
  <2>2. DOMAIN groups = {b.id : b \in blocks}
      BY <2>1 DEF Merged
  <2>3. ASSUME NEW id \in DOMAIN groups
        PROVE  \E b \in blocks : b.id = id /\ groups[id].policy = b.policy
    <3> DEFINE own == {b \in blocks : b.id = id}
    <3>1. \E b \in own : TRUE
        BY <2>2
    <3>2. groups[id].policy = (CHOOSE b \in own : TRUE).policy
        BY <2>1, <2>2 DEF Merged, GroupOf
    <3> DEFINE c == CHOOSE b \in own : TRUE
    <3>3. c \in own
        BY <3>1
    <3> QED
        BY <3>2, <3>3
  <2>4. ASSUME NEW id \in DOMAIN groups
        PROVE  \E n \in DOMAIN directory : \E i \in DOMAIN directory[n] :
                   Written(n, i, id, groups[id].policy)
    <3>1. PICK b \in blocks : b.id = id /\ groups[id].policy = b.policy
        BY <2>3
    <3>2. WrittenInFile(b)
        BY <1>1 DEF BlocksWritten
    <3> QED
        BY <3>1, <3>2 DEF WrittenInFile
  <2>5. ASSUME NEW b \in blocks
        PROVE  b.id \in DOMAIN groups /\ groups[b.id].policy = b.policy
    <3>1. b.id \in DOMAIN groups
        BY <2>2
    <3>2. PICK c \in blocks : c.id = b.id /\ groups[b.id].policy = c.policy
        BY <2>3, <3>1
    <3> QED
        BY <2>1, <3>1, <3>2 DEF HaveConflict
  <2> QED
      BY <2>4, <2>5 DEF GroupsAreWritten
<1>2. IInv => GroupsAreWritten
    BY <1>1 DEF GroupsAreWritten
<1> QED
    BY <1>2, Invariant, PTL

\* The last CREATE TABLE of a name in a file is what its parse holds.
LEMMA ParsedIsLast ==
    ASSUME NEW lines \in Seq(Lines), NEW end \in TableEnds(lines),
           \A e \in TableEnds(lines) : TableName(lines, e) = TableName(lines, end) => e <= end
    PROVE  /\ TableName(lines, end) \in DOMAIN ParsedTables(lines)
           /\ ParsedTables(lines)[TableName(lines, end)] = DefinitionAt(lines, end)
<1> DEFINE t == TableName(lines, end)
           S == {e \in TableEnds(lines) : TableName(lines, e) = t}
<1>1. t \in DOMAIN ParsedTables(lines)
    BY DEF ParsedTables
<1>2. ParsedTables(lines)[t] = DefinitionAt(lines, Latest(S))
    BY <1>1 DEF ParsedTables
<1>3. S \in SUBSET (1..Len(lines)) /\ S # {} /\ end \in S /\ S \subseteq Int
  <2>1. Len(lines) \in Nat /\ TableEnds(lines) \subseteq 1..Len(lines)
      BY TableEndFacts
  <2>2. 1..Len(lines) \subseteq Int
      BY <2>1
  <2> QED
      BY <2>1, <2>2
<1>4. \A e \in S : e <= end
    OBVIOUS
<1> HIDE DEF S
<1>5. Latest(S) \in S /\ \A e \in S : e <= Latest(S)
    BY <1>3, TableEndFacts, LatestIsGreatest
<1>6. Latest(S) = end
  <2>1. Latest(S) <= end /\ end <= Latest(S)
      BY <1>3, <1>4, <1>5
  <2>2. Latest(S) \in Int /\ end \in Int
      BY <1>3, <1>5
  <2> HIDE DEF t
  <2> QED
      BY ONLY <2>1, <2>2, SMT
<1> QED
    BY <1>1, <1>2, <1>6

LEMMA LoadedFacts ==
    ASSUME IInv, phase = "done", ~Go
    PROVE  /\ Processed = DOMAIN directory
           /\ \A n \in DOMAIN directory : Parses(directory[n]) /\ directory[n] \in Seq(Lines)
           /\ DOMAIN directory = 1..Len(directory) /\ Len(directory) \in Nat
           /\ \A t \in DOMAIN tables :
                 \E n \in DOMAIN directory : t \in DOMAIN ParsedTables(directory[n])
<1>1. Processed = DOMAIN directory
    BY DEF Processed, FirstPass
<1>2. directory \in Seq(Seq(Lines))
    BY DEF IInv, LoadInv, Reading
<1> QED
    BY <1>1, <1>2 DEF IInv, LoadInv, LastFileWins

LEMMA TableIsLast ==
    ASSUME IInv, phase = "done", ~Go, NEW t, NEW p \in Defining(t),
           \A q \in Defining(t) : After(p, q)
    PROVE  t \in DOMAIN tables /\ tables[t] = DefinitionAt(directory[p[1]], p[2])
<1>0. PICK n \in DOMAIN directory : \E e \in TableEnds(directory[n]) :
          p = <<n, e>> /\ TableName(directory[n], e) = t
    BY DEF Defining
<1>1. PICK e \in TableEnds(directory[n]) :
          p = <<n, e>> /\ TableName(directory[n], e) = t
    BY <1>0
<1>2. ASSUME NEW m \in DOMAIN directory, NEW f \in TableEnds(directory[m]),
             TableName(directory[m], f) = t
      PROVE  m < n \/ (m = n /\ f <= e)
  <2>1. <<m, f>> \in Defining(t)
      BY <1>2 DEF Defining
  <2> QED
      BY <1>1, <2>1 DEF After
<1>3. /\ t \in DOMAIN ParsedTables(directory[n])
      /\ ParsedTables(directory[n])[t] = DefinitionAt(directory[n], e)
  <2>1. directory[n] \in Seq(Lines) /\ n \in Nat
      BY <1>1, LoadedFacts
  <2>2. \A f \in TableEnds(directory[n]) : TableName(directory[n], f) = t => f <= e
      BY <1>1, <1>2, <2>1
  <2> QED
      BY <1>1, <2>1, <2>2, ParsedIsLast
<1>4. \A m \in DOMAIN directory : m > n => t \notin DOMAIN ParsedTables(directory[m])
  <2> SUFFICES ASSUME NEW m \in DOMAIN directory, m > n,
                      t \in DOMAIN ParsedTables(directory[m])
               PROVE  FALSE
      OBVIOUS
  <2>1. PICK f \in TableEnds(directory[m]) : TableName(directory[m], f) = t
      BY DEF ParsedTables
  <2>2. m < n \/ m = n
      BY <1>2, <2>1
  <2>3. m \in Nat /\ n \in Nat
      BY LoadedFacts
  <2> QED
      BY <2>2, <2>3
<1>5. LastOf(Processed, n, t)
    BY <1>1, <1>3, <1>4, LoadedFacts DEF LastOf
<1>6. t \in DOMAIN tables /\ tables[t] = ParsedTables(directory[n])[t]
    BY <1>1, <1>5, LoadedFacts DEF IInv, LoadInv, LastFileWins
<1> QED
    BY <1>1, <1>3, <1>6

\* For every directory that the Rust tool loads, each file was parsed, and
\* every table is as the last CREATE TABLE for it says, in the order of file
\* names and within a file (load_decorated_from_dir).
THEOREM LastDefinitionIsTaken ==
    Spec => []LastDefinitionWins
<1>1. ASSUME IInv, phase = "done", ~Go
      PROVE  LastDefinitionWins
  <2>1. ASSUME NEW t \in DOMAIN tables
        PROVE  Defining(t) # {}
    <3>1. PICK n \in DOMAIN directory : t \in DOMAIN ParsedTables(directory[n])
        BY <1>1, LoadedFacts
    <3>2. PICK e \in TableEnds(directory[n]) : TableName(directory[n], e) = t
        BY <3>1 DEF ParsedTables
    <3>3. <<n, e>> \in Defining(t)
        BY <3>2 DEF Defining
    <3> QED
        BY <3>3
  <2>2. ASSUME NEW t \in Tables, NEW p \in Defining(t), \A q \in Defining(t) : After(p, q)
        PROVE  t \in DOMAIN tables /\ tables[t] = DefinitionAt(directory[p[1]], p[2])
      BY <1>1, <2>2, TableIsLast
  <2> QED
      BY <1>1, <2>1, <2>2, LoadedFacts DEF LastDefinitionWins
<1>2. IInv => LastDefinitionWins
    BY <1>1 DEF LastDefinitionWins
<1> QED
    BY <1>2, Invariant, PTL

-----------------------------------------------------------------------------
(* Running totals.  The library's induction takes an operator; that there  *)
(* is a function with the totals is shown by the least length that has     *)
(* none.                                                                   *)

LEMMA RunningTotalExists ==
    ASSUME NEW lines \in Seq(Lines)
    PROVE  \E h \in [0..Len(lines) -> Int] :
              h[0] = 0 /\ \A k \in 1..Len(lines) : h[k] = h[k - 1] + NetParenDepth(lines[k])
<1> DEFINE Totals(m, h) ==
               /\ h \in [0..m -> Int] /\ h[0] = 0
               /\ \A k \in 1..m : h[k] = h[k - 1] + NetParenDepth(lines[k])
           S == {m \in 0..Len(lines) : ~ \E h : Totals(m, h)}
<1>0. Len(lines) \in Nat /\ \A k \in 1..Len(lines) : NetParenDepth(lines[k]) \in Int
    BY LineFacts
<1>1. SUFFICES ASSUME S # {} PROVE FALSE
    <2>1. Len(lines) \notin S => \E h : Totals(Len(lines), h)
        BY <1>0
    <2> QED
        BY <1>0, <2>1
<1>2. S \in SUBSET Nat /\ S \subseteq 0..Len(lines)
    BY <1>0
<1>3. \A j \in 0..Len(lines) : j \in S <=> ~ \E h : Totals(j, h)
    OBVIOUS
<1>4. Totals(0, [k \in 0..0 |-> 0])
    OBVIOUS
<1> HIDE DEF S
<1>5. PICK m \in S : \A j \in S : m <= j
    BY <1>1, <1>2, LeastElement
<1>6. m \in 0..Len(lines) /\ ~ \E h : Totals(m, h)
    BY <1>5, <1>3, <1>2
<1>7. m # 0
    BY <1>6, <1>4
<1>8. m \in 1..Len(lines) /\ m - 1 \in 0..Len(lines)
    BY <1>0, <1>6, <1>7
<1>9. m - 1 \notin S
    BY <1>5, <1>8
<1>10. PICK h : Totals(m - 1, h)
    BY <1>8, <1>3, <1>9
<1> DEFINE longer == [k \in 0..m |-> IF k = m THEN h[m - 1] + NetParenDepth(lines[m]) ELSE h[k]]
<1>11. Totals(m, longer)
    <2>1. h[m - 1] \in Int /\ NetParenDepth(lines[m]) \in Int
        BY <1>0, <1>8, <1>10
    <2>2. \A k \in 0..m : k # m => h[k] \in Int
        BY <1>0, <1>8, <1>10
    <2>3. longer \in [0..m -> Int]
        BY <2>1, <2>2
    <2>4. longer[0] = 0
        BY <1>8, <1>10
    <2>5. ASSUME NEW k \in 1..m
          PROVE  longer[k] = longer[k - 1] + NetParenDepth(lines[k])
        <3>1. CASE k = m
            BY <1>8, <3>1
        <3>2. CASE k # m
            <4>1. longer[k] = h[k] /\ longer[k - 1] = h[k - 1] /\ k \in 1..(m - 1)
                BY <1>8, <3>2
            <4> QED
                BY <4>1, <1>10
        <3> QED
            BY <3>1, <3>2
    <2> HIDE DEF longer
    <2> QED
        BY <2>3, <2>4, <2>5
<1> QED
    BY <1>6, <1>11

LEMMA RunningTotalFacts ==
    ASSUME NEW lines \in Seq(Lines)
    PROVE  /\ RunningTotal(lines) \in [0..Len(lines) -> Int]
           /\ RunningTotal(lines)[0] = 0
           /\ \A k \in 1..Len(lines) :
                 RunningTotal(lines)[k] = RunningTotal(lines)[k - 1] + NetParenDepth(lines[k])
<1> DEFINE Fixed(h) == h = [k \in 0..Len(lines) |->
                               IF k = 0 THEN 0 ELSE h[k - 1] + NetParenDepth(lines[k])]
           total == RunningTotal(lines)
<1>1. PICK g \in [0..Len(lines) -> Int] :
          g[0] = 0 /\ \A k \in 1..Len(lines) : g[k] = g[k - 1] + NetParenDepth(lines[k])
    BY RunningTotalExists
<1>2. Fixed(g)
    BY <1>1
<1>3. total = CHOOSE h : Fixed(h)
    BY Zenon DEF RunningTotal
<1> HIDE DEF Fixed
<1>4. Fixed(total)
    BY <1>2, <1>3, Zenon
<1> HIDE DEF total
<1>5. /\ DOMAIN total = 0..Len(lines)
      /\ \A k \in 0..Len(lines) :
            total[k] = IF k = 0 THEN 0 ELSE total[k - 1] + NetParenDepth(lines[k])
    <2>1. total = [k \in 0..Len(lines) |->
                      IF k = 0 THEN 0 ELSE total[k - 1] + NetParenDepth(lines[k])]
        BY <1>4 DEF Fixed
    <2> QED
        BY <2>1, Zenon
<1>6. Len(lines) \in Nat
    OBVIOUS
<1>7. total[0] = 0 /\ \A k \in 1..Len(lines) : total[k] = total[k - 1] + NetParenDepth(lines[k])
    BY <1>5, <1>6
<1>8. \A k \in 0..Len(lines) : total[k] \in Int
    <2> DEFINE S == {k \in 0..Len(lines) : total[k] \notin Int}
    <2>1. SUFFICES ASSUME S # {} PROVE FALSE
        OBVIOUS
    <2>2. S \in SUBSET Nat /\ \A k \in 0..Len(lines) : k \in S <=> total[k] \notin Int
        BY <1>6
    <2>3. \A k \in S : k \in 0..Len(lines)
        OBVIOUS
    <2> HIDE DEF S
    <2>4. PICK m \in S : \A j \in S : m <= j
        BY <2>1, <2>2, LeastElement
    <2>5. m \in 0..Len(lines) /\ total[m] \notin Int
        BY <2>4, <2>2, <2>3
    <2>6. m # 0
        BY <1>7, <2>5
    <2>7. m \in 1..Len(lines) /\ m - 1 \in 0..Len(lines)
        BY <1>6, <2>5, <2>6
    <2>8. m \in 1..Len(lines) /\ m - 1 \in 0..Len(lines) /\ m - 1 \notin S
        BY <2>4, <2>7
    <2>9. total[m - 1] \in Int /\ NetParenDepth(lines[m]) \in Int
        BY <2>8, <2>2, LineFacts
    <2> QED
        BY <1>7, <2>8, <2>9, <2>5
<1>9. total \in [0..Len(lines) -> Int]
    <2>1. total = [k \in 0..Len(lines) |-> total[k]]
        BY <1>4, <1>5 DEF Fixed
    <2> QED
        BY <1>8, <2>1
<1> QED
    BY <1>7, <1>9 DEF total

\* Sums over a range of lines split where one likes.
LEMMA BalanceFacts ==
    ASSUME NEW lines \in Seq(Lines)
    PROVE  /\ \A i \in 1..Len(lines), k \in 0..Len(lines) : Balance(lines, i, k) \in Int
           /\ \A i \in 1..Len(lines) : Balance(lines, i, i) = NetParenDepth(lines[i])
           /\ \A i \in 1..Len(lines), k \in 1..Len(lines) :
                 Balance(lines, i, k) = Balance(lines, i, k - 1) + NetParenDepth(lines[k])
           /\ \A i \in 1..Len(lines), j \in 1..Len(lines), k \in 0..Len(lines) :
                 Balance(lines, i, k) = Balance(lines, i, j - 1) + Balance(lines, j, k)
<1> DEFINE total == RunningTotal(lines)
<1>1. /\ Len(lines) \in Nat /\ \A k \in 0..Len(lines) : total[k] \in Int
      /\ \A k \in 1..Len(lines) :
            total[k] = total[k - 1] + NetParenDepth(lines[k]) /\ NetParenDepth(lines[k]) \in Int
    BY RunningTotalFacts, LineFacts
<1> HIDE DEF total
<1>2. \A i, k : Balance(lines, i, k) = total[k] - total[i - 1]
    BY DEF Balance, total
<1>3. \A i \in 1..Len(lines) :
          /\ i \in 0..Len(lines) /\ i - 1 \in 0..Len(lines)
          /\ total[i] \in Int /\ total[i - 1] \in Int
    BY <1>1
<1>4. ASSUME NEW i \in 1..Len(lines), NEW k \in 0..Len(lines)
      PROVE  Balance(lines, i, k) \in Int
    BY <1>1, <1>2, <1>3
<1>5. ASSUME NEW i \in 1..Len(lines)
      PROVE  Balance(lines, i, i) = NetParenDepth(lines[i])
    BY <1>1, <1>2, <1>3
<1>6. ASSUME NEW i \in 1..Len(lines), NEW k \in 1..Len(lines)
      PROVE  Balance(lines, i, k) = Balance(lines, i, k - 1) + NetParenDepth(lines[k])
    <2>1. /\ Balance(lines, i, k) = total[k] - total[i - 1]
          /\ Balance(lines, i, k - 1) = total[k - 1] - total[i - 1]
        BY <1>2
    <2> QED
        BY <1>1, <1>3, <2>1
<1>7. ASSUME NEW i \in 1..Len(lines), NEW j \in 1..Len(lines), NEW k \in 0..Len(lines)
      PROVE  Balance(lines, i, k) = Balance(lines, i, j - 1) + Balance(lines, j, k)
    <2>1. /\ Balance(lines, i, k) = total[k] - total[i - 1]
          /\ Balance(lines, i, j - 1) = total[j - 1] - total[i - 1]
          /\ Balance(lines, j, k) = total[k] - total[j - 1]
        BY <1>2
    <2>2. total[k] \in Int /\ total[i - 1] \in Int /\ total[j - 1] \in Int
        BY <1>1, <1>3
    <2> QED
        BY <2>1, <2>2
<1> QED
    BY <1>4, <1>5, <1>6, <1>7


-----------------------------------------------------------------------------
(* Balanced pairs of lines.                                                *)

LEMMA OpeningDoesNotClose ==
    ASSUME NEW l, IsOpening(l)
    PROVE  ~IsClosing(l) /\ NetParenDepth(l) = 1
<1>1. l.kind = "open"
    BY DEF IsOpening
<1>2. NetParenDepth(l) = 1
    BY <1>1, Zenon DEF NetParenDepth
<1> QED
    BY <1>1, <1>2 DEF IsClosing

\* An opening line has one closing line.
LEMMA OneClosing ==
    ASSUME NEW lines \in Seq(Lines), NEW i \in DOMAIN lines, NEW k \in DOMAIN lines,
           NEW m \in DOMAIN lines, i < k, i < m, IsBlock(lines, i, k), IsBlock(lines, i, m)
    PROVE  k = m
<1>1. Balance(lines, i, k) = 0 /\ Balance(lines, i, m) = 0
    BY DEF IsBlock
<1>2. ~(k < m) /\ ~(m < k)
    BY <1>1 DEF IsBlock
<1> QED
    BY <1>2

\* A block that begins in another one ends in it.
LEMMA BlocksNest ==
    ASSUME NEW lines \in Seq(Lines), NEW i \in DOMAIN lines, NEW k \in DOMAIN lines,
           NEW j \in DOMAIN lines, NEW m \in DOMAIN lines, i < j, j <= k, j < m,
           IsBlock(lines, i, k), IsBlock(lines, j, m)
    PROVE  m < k
<1>1. j # k
    BY OpeningDoesNotClose DEF IsBlock
<1>2. /\ Balance(lines, i, k) = Balance(lines, i, j - 1) + Balance(lines, j, k)
      /\ Balance(lines, i, j - 1) \in Int /\ Balance(lines, j, k) \in Int
    <2>1. /\ i \in 1..Len(lines) /\ j \in 1..Len(lines)
          /\ k \in 0..Len(lines) /\ j - 1 \in 0..Len(lines)
        OBVIOUS
    <2> QED
        BY <2>1, BalanceFacts
<1>3. Balance(lines, i, k) = 0 /\ Balance(lines, i, j - 1) > 0
    BY <1>1 DEF IsBlock
<1>4. Balance(lines, j, k) < 0
    BY <1>2, <1>3
<1>5. Balance(lines, j, m) = 0 /\ \A l \in j..(m - 1) : Balance(lines, j, l) > 0
    BY DEF IsBlock
<1>6. m # k
    BY <1>2, <1>4, <1>5
<1>7. ~(m > k)
    <2>1. m > k => k \in j..(m - 1)
        OBVIOUS
    <2> QED
        BY <1>2, <1>4, <1>5, <2>1
<1> QED
    BY <1>6, <1>7

-----------------------------------------------------------------------------
(* What the scan has found so far are the outermost pairs among the lines  *)
(* it has read.                                                            *)

PartStart == IF inTable THEN StatementStart(text, last) ELSE 1
Part == PartStart..last

CursorInPart == PartStart \in Nat \ {0} /\ cursor \in PartStart..(last + 1)

FoundArePairs ==
    \A j \in DOMAIN found :
        PartStart <= found[j].first /\ IsBlock(text, found[j].first, found[j].last)

OpenIsUnbalanced ==
    opened # NoBlock =>
        /\ PartStart <= opened
        /\ depth = Balance(text, opened, cursor - 1)
        /\ \A j \in opened..(cursor - 1) : Balance(text, opened, j) > 0

\* No opening line is passed over.
OpeningsAreCovered ==
    \A i \in PartStart..(cursor - 1) : IsOpening(text[i]) =>
        \/ \E j \in DOMAIN found : found[j].first <= i /\ i <= found[j].last
        \/ opened # NoBlock /\ opened <= i

SeenIsFound ==
    \A s \in seen :
        \/ \E j \in DOMAIN found : s = <<found[j].id, found[j].policy>>
        \/ opened # NoBlock /\ s = <<text[opened].id, text[opened].policy>>

\* Why the scan stopped.
StoppedRightly ==
    /\ scan = "ok" => cursor > last /\ opened = NoBlock
    /\ scan = "error" =>
          \/ cursor <= last /\ opened = NoBlock /\ IsOpening(Line) /\ Conflicts(Line)
          \/ cursor <= last /\ opened # NoBlock /\ NewDepth = 0 /\ ~IsClosing(Line)
          \/ cursor <= last /\ opened # NoBlock /\ NewDepth < 0
          \/ cursor > last /\ opened # NoBlock

PairsInv ==
    /\ CursorInPart /\ FoundArePairs /\ OpenIsUnbalanced
    /\ OpeningsAreCovered /\ SeenIsFound /\ StoppedRightly

LEMMA PartFacts ==
    ASSUME ScanInv, PairsInv
    PROVE  /\ PartStart \in Nat \ {0} /\ last \in Nat /\ cursor \in Nat /\ cursor <= last + 1
           /\ text \in Seq(Lines) /\ Part \subseteq DOMAIN text
           /\ PartStart..(cursor - 1) \subseteq Part
    BY DEF ScanInv, ScanTyped, PairsInv, CursorInPart, Part

LEMMA FoundInPart ==
    ASSUME ScanInv, PairsInv, NEW j \in DOMAIN found
    PROVE  /\ found[j].first \in Part /\ found[j].last \in Part
           /\ found[j].first < found[j].last /\ found[j].last < cursor
           /\ IsBlock(text, found[j].first, found[j].last)
           /\ opened # NoBlock => found[j].last < opened
<1>1. /\ found[j].last < cursor /\ found[j].first < found[j].last
      /\ found[j].first \in Nat /\ found[j].last \in Nat
      /\ opened # NoBlock => found[j].last < opened
    BY FoundFacts DEF ScanInv, Progress, FoundIsSeen, BlocksApart, Delimited
<1>2. PartStart <= found[j].first /\ IsBlock(text, found[j].first, found[j].last)
    BY DEF PairsInv, FoundArePairs
<1> QED
    BY <1>1, <1>2, PartFacts DEF Part

\* A pair that begins before the block that is open is one that was found or
\* lies within one.
LEMMA PairIsFoundOrWithin ==
    ASSUME ScanInv, PairsInv, NEW i \in Part, NEW k \in Part, i < k, IsBlock(text, i, k),
           i < cursor, opened # NoBlock => i < opened
    PROVE  \E j \in DOMAIN found :
              \/ found[j].first = i /\ found[j].last = k
              \/ found[j].first < i /\ k < found[j].last
<1>1. i \in PartStart..(cursor - 1) /\ IsOpening(text[i]) /\ i \in Nat /\ k \in Nat
    BY PartFacts DEF Part, IsBlock
<1>2. ~(opened # NoBlock /\ opened <= i)
    BY <1>1 DEF ScanInv, ScanTyped
<1>3. PICK j \in DOMAIN found : found[j].first <= i /\ i <= found[j].last
    BY <1>1, <1>2 DEF PairsInv, OpeningsAreCovered
<1>4. /\ found[j].first \in Part /\ found[j].last \in Part
      /\ found[j].first < found[j].last
      /\ IsBlock(text, found[j].first, found[j].last)
    BY FoundInPart
<1>5. /\ text \in Seq(Lines) /\ i \in DOMAIN text /\ k \in DOMAIN text
      /\ found[j].first \in DOMAIN text /\ found[j].last \in DOMAIN text
    BY <1>4, PartFacts
<1>6. CASE found[j].first = i
    <2>1. found[j].last = k
        BY <1>4, <1>5, <1>6, OneClosing
    <2> QED
        BY <1>6, <2>1
<1>7. CASE found[j].first < i
    <2>1. k < found[j].last
        BY <1>3, <1>4, <1>5, <1>7, BlocksNest
    <2> QED
        BY <1>7, <2>1
<1> QED
    BY <1>1, <1>3, <1>4, <1>6, <1>7, PartFacts DEF Part

LEMMA FoundIsOutermost ==
    ASSUME ScanInv, PairsInv, NEW j \in DOMAIN found
    PROVE  <<found[j].first, found[j].last>> \in Outermost(Pairs(text, Part))
<1> DEFINE p == <<found[j].first, found[j].last>>
<1>1. /\ found[j].first \in Part /\ found[j].last \in Part
      /\ found[j].first < found[j].last /\ found[j].last < cursor
      /\ IsBlock(text, found[j].first, found[j].last)
      /\ opened # NoBlock => found[j].last < opened
    BY FoundInPart
<1>2. p \in Pairs(text, Part)
    BY <1>1 DEF Pairs
<1>3. ASSUME NEW q \in Pairs(text, Part), q[1] < found[j].first, found[j].last < q[2]
      PROVE  FALSE
    <2>1. q[1] \in Part /\ q[2] \in Part /\ q[1] < q[2] /\ IsBlock(text, q[1], q[2])
        BY DEF Pairs
    <2>a. /\ q[1] \in Nat /\ found[j].first \in Nat /\ found[j].last \in Nat
          /\ cursor \in Nat /\ opened \in Nat
      <3>1. ScanTyped /\ Part \subseteq Nat /\ cursor \in Nat
          BY PartFacts DEF ScanInv, Part
      <3>2. opened \in Nat
          BY <3>1 DEF ScanTyped
      <3> QED
          BY <1>1, <2>1, <3>1, <3>2
    <2>2. q[1] < cursor /\ (opened # NoBlock => q[1] < opened)
        BY <1>1, <1>3, <2>a
    <2>3. PICK l \in DOMAIN found :
              \/ found[l].first = q[1] /\ found[l].last = q[2]
              \/ found[l].first < q[1] /\ q[2] < found[l].last
        BY <2>1, <2>2, PairIsFoundOrWithin
    <2>4. /\ found[l].first \in Int /\ found[l].last \in Int
          /\ found[j].first \in Int /\ found[j].last \in Int
          /\ q[1] \in Int /\ q[2] \in Int /\ j \in Int /\ l \in Int
      <3>1. ScanTyped /\ Part \subseteq Int
          BY PartFacts DEF ScanInv, Part
      <3>2. found[l].first \in Int /\ found[l].last \in Int /\ l \in Int /\ j \in Int
          BY <3>1, FoundFacts
      <3> QED
          BY <1>1, <2>1, <3>1, <3>2
    <2>5. found[l].first < found[j].first /\ found[j].last < found[l].last
        BY <1>3, <2>3, <2>4
    <2>6. /\ l < j => found[l].last < found[j].first
          /\ j < l => found[j].last < found[l].first
        BY DEF ScanInv, BlocksApart
    <2>7. l # j
        BY <2>4, <2>5
    <2> QED
        BY <1>1, <2>4, <2>5, <2>6, <2>7
<1> QED
    BY <1>2, <1>3 DEF Outermost


LEMMA FoundIsPair ==
    ASSUME ScanInv, PairsInv, NEW j \in DOMAIN found
    PROVE  <<found[j].first, found[j].last>> \in Pairs(text, Part)
    BY FoundInPart DEF Pairs

LEMMA ScanThatEnds ==
    ASSUME ScanInv, PairsInv, scan = "ok"
    PROVE  /\ IsWellNested(text, Part)
           /\ {<<b.first, b.last>> : b \in Elements(found)} = Outermost(Pairs(text, Part))
<1>1. cursor = last + 1 /\ opened = NoBlock
    BY PartFacts DEF PairsInv, StoppedRightly
<1>2. \A i \in Part : i \in PartStart..(cursor - 1) /\ i < cursor /\ i \in Nat
    BY <1>1, PartFacts DEF Part
<1>3. IsWellNested(text, Part)
    <2> SUFFICES ASSUME NEW i \in Part, IsOpening(text[i])
                 PROVE  \E p \in Pairs(text, Part) : i \in p[1]..p[2]
        BY DEF IsWellNested
    <2>1. PICK j \in DOMAIN found : found[j].first <= i /\ i <= found[j].last
        BY <1>1, <1>2 DEF PairsInv, OpeningsAreCovered
    <2>2. i \in found[j].first..found[j].last
        BY <1>2, <2>1, FoundFacts DEF ScanInv
    <2> QED
        BY <2>2, FoundIsPair
<1>4. ASSUME NEW b \in Elements(found)
      PROVE  <<b.first, b.last>> \in Outermost(Pairs(text, Part))
    BY FoundIsOutermost DEF Elements
<1>5. ASSUME NEW p \in Outermost(Pairs(text, Part))
      PROVE  \E b \in Elements(found) : p = <<b.first, b.last>>
    <2>1. /\ p[1] \in Part /\ p[2] \in Part /\ p[1] < p[2] /\ IsBlock(text, p[1], p[2])
          /\ p = <<p[1], p[2]>>
        BY DEF Outermost, Pairs
    <2>2. PICK j \in DOMAIN found :
              \/ found[j].first = p[1] /\ found[j].last = p[2]
              \/ found[j].first < p[1] /\ p[2] < found[j].last
        BY <1>1, <1>2, <2>1, PairIsFoundOrWithin
    <2>3. ~(found[j].first < p[1] /\ p[2] < found[j].last)
        BY FoundIsPair DEF Outermost
    <2>4. p = <<found[j].first, found[j].last>> /\ found[j] \in Elements(found)
        BY <2>1, <2>2, <2>3 DEF Elements
    <2> QED
        BY <2>4
<1>6. {<<b.first, b.last>> : b \in Elements(found)} \subseteq Outermost(Pairs(text, Part))
    BY <1>4
<1>7. Outermost(Pairs(text, Part)) \subseteq {<<b.first, b.last>> : b \in Elements(found)}
    BY <1>5
<1> QED
    BY <1>3, <1>6, <1>7

\* A well-nested text has a closing line for the line at the cursor, and none
\* but that pair and the blocks in it begin there or later.
LEMMA PairAtCursor ==
    ASSUME ScanInv, PairsInv, IsWellNested(text, Part), NEW i \in Part,
           \/ opened = NoBlock /\ i = cursor
           \/ opened # NoBlock /\ i = opened,
           IsOpening(text[i])
    PROVE  \E k \in Part : /\ i < k /\ IsBlock(text, i, k)
                           /\ <<i, k>> \in Outermost(Pairs(text, Part))
<1>0. /\ i \in Nat /\ i <= cursor /\ (opened # NoBlock => opened < cursor)
      /\ opened \in Nat /\ cursor \in Nat
    BY PartFacts DEF ScanInv, ScanTyped, Part
<1>1. ASSUME NEW p \in Pairs(text, Part), p[1] < i
      PROVE  p[2] < i
    <2>1. /\ p[1] \in Part /\ p[2] \in Part /\ p[1] < p[2] /\ IsBlock(text, p[1], p[2])
          /\ p[1] \in Nat /\ p[2] \in Nat
        BY PartFacts DEF Pairs, Part
    <2>2. p[1] < cursor /\ (opened # NoBlock => p[1] < opened)
        BY <1>0, <1>1, <2>1
    <2>3. PICK j \in DOMAIN found :
              \/ found[j].first = p[1] /\ found[j].last = p[2]
              \/ found[j].first < p[1] /\ p[2] < found[j].last
        BY <2>1, <2>2, PairIsFoundOrWithin
    <2>4. /\ found[j].last < cursor /\ found[j].last \in Nat
          /\ opened # NoBlock => found[j].last < opened
        BY FoundInPart, FoundFacts DEF ScanInv
    <2> QED
        BY <1>0, <2>1, <2>3, <2>4
<1>2. PICK p \in Pairs(text, Part) : i \in p[1]..p[2]
    BY DEF IsWellNested
<1>3. /\ p[1] \in Part /\ p[2] \in Part /\ p[1] < p[2] /\ IsBlock(text, p[1], p[2])
      /\ p[1] \in Nat /\ p[2] \in Nat /\ p = <<p[1], p[2]>>
    BY PartFacts DEF Pairs, Part
<1>4. p[1] = i
    BY <1>0, <1>1, <1>2, <1>3
<1>5. p \in Outermost(Pairs(text, Part))
    <2> SUFFICES ASSUME NEW q \in Pairs(text, Part), q[1] < i, p[2] < q[2] PROVE FALSE
        BY <1>4 DEF Outermost
    <2>1. q[2] < i
        BY <1>1
    <2>2. q[2] \in Nat
      <3>1. q[2] \in Part
          BY DEF Pairs
      <3> QED
          BY <3>1, PartFacts DEF Part
    <2> QED
        BY <1>0, <1>3, <1>4, <2>1, <2>2
<1> QED
    BY <1>3, <1>4, <1>5

LEMMA ScanThatFails ==
    ASSUME ScanInv, PairsInv, scan = "error", IsWellNested(text, Part)
    PROVE  TwoPolicies({[id |-> text[p[1]].id, policy |-> text[p[1]].policy] :
                            p \in Outermost(Pairs(text, Part))})
<1> DEFINE Proper == {[id |-> text[p[1]].id, policy |-> text[p[1]].policy] :
                         p \in Outermost(Pairs(text, Part))}
<1>0. /\ cursor \in Nat /\ last \in Nat /\ PartStart \in Nat \ {0} /\ opened \in Nat
      /\ opened < cursor /\ PartStart <= cursor /\ cursor <= last + 1
      /\ text \in Seq(Lines)
    BY PartFacts DEF ScanInv, ScanTyped, PairsInv, CursorInPart
<1>1. CASE cursor <= last /\ opened = NoBlock /\ IsOpening(Line) /\ Conflicts(Line)
    <2>1. cursor \in Part /\ Line = text[cursor]
        BY <1>0, <1>1 DEF Part, Line
    <2>2. PICK k \in Part : <<cursor, k>> \in Outermost(Pairs(text, Part))
        BY <1>1, <2>1, PairAtCursor
    <2>3. PICK s \in seen : s[1] = Line.id /\ s[2] # Line.policy
        BY <1>1 DEF Conflicts
    <2>4. PICK j \in DOMAIN found : s = <<found[j].id, found[j].policy>>
        BY <1>1 DEF PairsInv, SeenIsFound
    <2>5. <<found[j].first, found[j].last>> \in Outermost(Pairs(text, Part))
        BY FoundIsOutermost
    <2>6. found[j].id = text[found[j].first].id /\ found[j].policy = text[found[j].first].policy
        BY DEF ScanInv, BlocksApart, Delimited
    <2> DEFINE b == [id |-> text[found[j].first].id, policy |-> text[found[j].first].policy]
               c == [id |-> text[cursor].id, policy |-> text[cursor].policy]
    <2>7. b \in Proper
        BY <2>5
    <2>8. c \in Proper
        BY <2>2
    <2>9. b.id = c.id /\ b.policy # c.policy
        BY <2>1, <2>3, <2>4, <2>6
    <2> HIDE DEF Proper, b, c
    <2>10. TwoPolicies(Proper)
        BY <2>7, <2>8, <2>9 DEF TwoPolicies
    <2> QED
        BY <2>10 DEF Proper
<1>2. CASE opened # NoBlock /\ (cursor > last \/ NewDepth < 0 \/ (NewDepth = 0 /\ ~IsClosing(Line)))
    <2>1. /\ PartStart <= opened /\ depth = Balance(text, opened, cursor - 1)
          /\ \A j \in opened..(cursor - 1) : Balance(text, opened, j) > 0
        BY <1>2 DEF PairsInv, OpenIsUnbalanced
    <2>2. opened \in Part /\ IsOpening(text[opened])
        BY <1>0, <1>2, <2>1 DEF Part, ScanInv, Progress, OpenedIsSeen
    <2>3. PICK k \in Part : opened < k /\ IsBlock(text, opened, k)
        BY <1>2, <2>2, PairAtCursor
    <2>4. /\ IsClosing(text[k]) /\ Balance(text, opened, k) = 0
          /\ \A j \in opened..(k - 1) : Balance(text, opened, j) > 0
          /\ k \in Nat /\ k <= last /\ k <= Len(text)
        BY <1>0, <2>3, PartFacts DEF IsBlock, Part
    <2>5. k \notin opened..(cursor - 1)
        BY <2>1, <2>4
    <2>6. cursor <= k
        BY <1>0, <2>3, <2>4, <2>5
    <2>7. NewDepth = Balance(text, opened, cursor)
        <3>1. opened \in 1..Len(text) /\ cursor \in 1..Len(text)
            BY <1>0, <2>1, <2>4, <2>6
        <3>2. Balance(text, opened, cursor) =
                  Balance(text, opened, cursor - 1) + NetParenDepth(text[cursor])
            BY <1>0, <3>1, BalanceFacts
        <3> QED
            BY <2>1, <3>2 DEF NewDepth, Line
    <2>8. CASE cursor = k
        BY <1>0, <1>2, <2>4, <2>7, <2>8 DEF Line
    <2>9. CASE cursor < k
        <3>1. cursor \in opened..(k - 1)
            BY <1>0, <2>4, <2>9
        <3>2. Balance(text, opened, cursor) > 0 /\ Balance(text, opened, cursor) \in Int
            <4>1. opened \in 1..Len(text) /\ cursor \in 0..Len(text)
                BY <1>0, <2>1, <2>4, <2>6
            <4> QED
                BY <1>0, <2>4, <3>1, <4>1, BalanceFacts
        <3> QED
            BY <1>0, <1>2, <2>4, <2>7, <2>9, <3>2
    <2> QED
        BY <1>0, <2>4, <2>6, <2>8, <2>9
<1> QED
    BY <1>1, <1>2 DEF PairsInv, StoppedRightly


-----------------------------------------------------------------------------
(* PairsInv is kept.                                                       *)

LEMMA StartScanPairs ==
    ASSUME NEW lines \in Seq(Lines), NEW from \in Nat \ {0}, NEW to \in Nat, NEW scope,
           from = IF scope THEN StatementStart(lines, to) ELSE 1, from <= to + 1,
           StartScan(lines, from, to, scope)
    PROVE  PairsInv'
<1>1. PartStart' = from
    BY DEF StartScan, PartStart
<1>2. CursorInPart'
    BY <1>1 DEF StartScan, CursorInPart
<1>3. FoundArePairs' /\ OpenIsUnbalanced' /\ SeenIsFound' /\ StoppedRightly'
    BY DEF StartScan, FoundArePairs, OpenIsUnbalanced, SeenIsFound, StoppedRightly
<1>4. OpeningsAreCovered'
    BY <1>1 DEF StartScan, OpeningsAreCovered
<1> QED
    BY <1>2, <1>3, <1>4 DEF PairsInv

\* While it runs, the scan has a line before it or is about to end.
LEMMA NextLinePairs ==
    ASSUME ScanInv, PairsInv, AtLine, NextLine
    PROVE  /\ PartStart' = PartStart /\ CursorInPart' /\ cursor' - 1 = cursor
           /\ cursor \in Part /\ cursor \in 1..Len(text) /\ Line = text[cursor]
           /\ text' = text /\ last' = last /\ cursor \in Nat /\ PartStart \in Nat \ {0}
           /\ text \in Seq(Lines)
<1>1. cursor' = cursor + 1 /\ UNCHANGED <<text, last, inTable>> /\ cursor <= last
    BY DEF NextLine, AtLine
<1>2. PartStart' = PartStart
    BY <1>1 DEF PartStart
<1>3. /\ cursor \in Nat /\ last \in Nat /\ PartStart \in Nat \ {0} /\ PartStart <= cursor
      /\ last <= Len(text) /\ text \in Seq(Lines)
    BY DEF PairsInv, CursorInPart, ScanInv, ScanTyped
<1>4. CursorInPart'
    BY <1>1, <1>2, <1>3 DEF CursorInPart
<1> QED
    BY <1>1, <1>2, <1>3, <1>4 DEF Part, Line

\* A line that opens nothing is covered by whatever covered the others.
LEMMA CoveredSoFar ==
    ASSUME PairsInv, cursor \in Nat, PartStart' = PartStart, PartStart \in Nat,
           cursor' - 1 = cursor, text' = text, DOMAIN found \subseteq DOMAIN found',
           \A j \in DOMAIN found : found'[j] = found[j],
           opened # NoBlock => opened' = opened,
           \/ ~IsOpening(text[cursor])
           \/ opened' # NoBlock /\ opened' <= cursor
    PROVE  OpeningsAreCovered'
<1>1. ASSUME NEW i \in PartStart..cursor, IsOpening(text[i])
      PROVE  \/ \E j \in DOMAIN found' : found'[j].first <= i /\ i <= found'[j].last
             \/ opened' # NoBlock /\ opened' <= i
    <2>1. CASE i = cursor
        BY <1>1, <2>1
    <2>2. CASE i # cursor
        <3>1. i \in PartStart..(cursor - 1)
            BY <2>2
        <3> QED
            BY <1>1, <3>1 DEF PairsInv, OpeningsAreCovered
    <2> QED
        BY <2>1, <2>2
<1> QED
    BY <1>1 DEF OpeningsAreCovered

LEMMA SkipLinePairs ==
    ASSUME ScanInv, PairsInv, SkipLine
    PROVE  PairsInv'
<1>0. AtLine /\ NextLine
    BY DEF SkipLine
<1>1. /\ opened = NoBlock /\ ~IsOpening(text[cursor])
      /\ UNCHANGED <<scan, opened, depth, seen, found>>
      /\ scan = "running"
    BY <1>0, NextLinePairs DEF SkipLine, AtLine
<1>2. FoundArePairs'
    BY <1>0, <1>1, NextLinePairs DEF PairsInv, FoundArePairs
<1>3. OpenIsUnbalanced' /\ StoppedRightly'
    BY <1>1 DEF OpenIsUnbalanced, StoppedRightly
<1>4. SeenIsFound'
    BY <1>1 DEF PairsInv, SeenIsFound
<1>5. OpeningsAreCovered'
    BY <1>0, <1>1, NextLinePairs, CoveredSoFar
<1> QED
    BY <1>0, <1>2, <1>3, <1>4, <1>5, NextLinePairs DEF PairsInv

LEMMA OpenBlockPairs ==
    ASSUME ScanInv, PairsInv, OpenBlock
    PROVE  PairsInv'
<1>0. AtLine /\ NextLine
    BY DEF OpenBlock
<1>1. /\ opened = NoBlock /\ IsOpening(text[cursor]) /\ opened' = cursor /\ depth' = 1
      /\ seen' = seen \cup {<<text[cursor].id, text[cursor].policy>>}
      /\ UNCHANGED <<scan, found>> /\ scan = "running"
    BY <1>0, NextLinePairs DEF OpenBlock, AtLine
<1>2. /\ cursor \in 1..Len(text) /\ text' = text /\ text \in Seq(Lines)
      /\ cursor' - 1 = cursor /\ cursor \in Nat /\ PartStart' = PartStart
      /\ PartStart <= cursor /\ cursor # NoBlock
    BY <1>0, NextLinePairs DEF PairsInv, CursorInPart, NoBlock
<1>3. FoundArePairs'
    BY <1>1, <1>2 DEF PairsInv, FoundArePairs
<1>4. Balance(text, cursor, cursor) = 1
    BY <1>1, <1>2, BalanceFacts, OpeningDoesNotClose
<1>5. OpenIsUnbalanced'
    BY <1>1, <1>2, <1>4 DEF OpenIsUnbalanced
<1>6. SeenIsFound'
    BY <1>1, <1>2 DEF PairsInv, SeenIsFound
<1>7. OpeningsAreCovered'
    BY <1>0, <1>1, <1>2, NextLinePairs, CoveredSoFar
<1>8. StoppedRightly'
    BY <1>1 DEF StoppedRightly
<1> QED
    BY <1>0, <1>3, <1>5, <1>6, <1>7, <1>8, NextLinePairs DEF PairsInv

\* The depth that the scan counts is the balance from the opening line on.
LEMMA DepthIsBalance ==
    ASSUME ScanInv, PairsInv, AtLine, opened # NoBlock
    PROVE  /\ NewDepth = Balance(text, opened, cursor)
           /\ opened \in 1..Len(text) /\ opened < cursor /\ PartStart <= opened
           /\ \A j \in opened..(cursor - 1) : Balance(text, opened, j) > 0
<1>1. /\ cursor \in 1..Len(text) /\ text \in Seq(Lines) /\ PartStart \in Nat \ {0}
      /\ opened \in Nat /\ opened < cursor
    BY PartFacts DEF AtLine, ScanInv, ScanTyped, PairsInv, CursorInPart
<1>2. /\ PartStart <= opened /\ depth = Balance(text, opened, cursor - 1)
      /\ \A j \in opened..(cursor - 1) : Balance(text, opened, j) > 0
    BY DEF PairsInv, OpenIsUnbalanced
<1>3. opened \in 1..Len(text)
    BY <1>1, <1>2
<1>4. Balance(text, opened, cursor) = depth + NetParenDepth(text[cursor])
    BY <1>1, <1>2, <1>3, BalanceFacts
<1> QED
    BY <1>1, <1>2, <1>3, <1>4 DEF NewDepth, Line

LEMMA BodyLinePairs ==
    ASSUME ScanInv, PairsInv, BodyLine
    PROVE  PairsInv'
<1>0. AtLine /\ NextLine /\ opened # NoBlock
    BY DEF BodyLine
<1>1. /\ NewDepth > 0 /\ depth' = NewDepth
      /\ UNCHANGED <<scan, opened, seen, found>> /\ scan = "running"
    BY DEF BodyLine, AtLine
<1>2. /\ text' = text /\ cursor' - 1 = cursor /\ cursor \in Nat /\ PartStart' = PartStart
    BY <1>0, NextLinePairs
<1>3. FoundArePairs'
    BY <1>1, <1>2 DEF PairsInv, FoundArePairs
<1>4. OpenIsUnbalanced'
    <2>1. ASSUME NEW j \in opened..cursor
          PROVE  Balance(text, opened, j) > 0
        <3>1. j = cursor \/ j \in opened..(cursor - 1)
            BY <1>0, <1>2, DepthIsBalance
        <3> QED
            BY <1>0, <1>1, <3>1, DepthIsBalance
    <2> QED
        BY <1>0, <1>1, <1>2, <2>1, DepthIsBalance DEF OpenIsUnbalanced
<1>5. SeenIsFound' /\ StoppedRightly'
    BY <1>1, <1>2 DEF PairsInv, SeenIsFound, StoppedRightly
<1>6. OpeningsAreCovered'
    <2>1. opened' # NoBlock /\ opened' <= cursor
        BY <1>0, <1>1, <1>2, DepthIsBalance
    <2> QED
        BY <1>0, <1>1, <1>2, <2>1, NextLinePairs, CoveredSoFar
<1> QED
    BY <1>0, <1>3, <1>4, <1>5, <1>6, NextLinePairs DEF PairsInv

LEMMA CloseBlockPairs ==
    ASSUME ScanInv, PairsInv, CloseBlock
    PROVE  PairsInv'
<1>0. AtLine /\ NextLine /\ opened # NoBlock
    BY DEF CloseBlock
<1>1. /\ NewDepth = 0 /\ IsClosing(Line) /\ opened' = NoBlock
      /\ found' = Append(found, Block)
      /\ UNCHANGED <<scan, depth, seen>> /\ scan = "running"
    BY DEF CloseBlock, AtLine
<1>2. /\ text' = text /\ cursor' - 1 = cursor /\ cursor \in Nat /\ PartStart' = PartStart
      /\ Line = text[cursor] /\ PartStart \in Nat \ {0}
    BY <1>0, NextLinePairs
<1>3. /\ DOMAIN found = 1..Len(found) /\ DOMAIN found' = 1..(Len(found) + 1)
      /\ \A j \in DOMAIN found : found'[j] = found[j]
      /\ found'[Len(found) + 1] = Block
      /\ Len(found) \in Nat
    <2>1. found \in Seq(FoundBlock)
        BY DEF ScanInv, ScanTyped
    <2> QED
        BY <1>1, <2>1
<1>4. /\ Block.first = opened /\ Block.last = cursor
      /\ Block.id = text[opened].id /\ Block.policy = text[opened].policy
    BY DEF Block
<1>5. IsBlock(text, opened, cursor)
    <2>1. IsOpening(text[opened])
        BY <1>0 DEF ScanInv, Progress, OpenedIsSeen
    <2> QED
        BY <1>0, <1>1, <1>2, <2>1, DepthIsBalance DEF IsBlock
<1>6. FoundArePairs'
    <2>1. ASSUME NEW j \in DOMAIN found'
          PROVE  PartStart <= found'[j].first /\ IsBlock(text, found'[j].first, found'[j].last)
        <3>1. CASE j \in DOMAIN found
            BY <3>1, <1>3 DEF PairsInv, FoundArePairs
        <3>2. CASE j = Len(found) + 1
            BY <3>2, <1>0, <1>3, <1>4, <1>5, DepthIsBalance
        <3> QED
            BY <3>1, <3>2, <1>3
    <2> QED
        BY <1>2, <2>1 DEF FoundArePairs
<1>7. OpenIsUnbalanced' /\ StoppedRightly'
    BY <1>1 DEF OpenIsUnbalanced, StoppedRightly
<1>8. SeenIsFound'
    <2>1. ASSUME NEW s \in seen
          PROVE  \E j \in DOMAIN found' : s = <<found'[j].id, found'[j].policy>>
        <3>1. CASE \E j \in DOMAIN found : s = <<found[j].id, found[j].policy>>
            BY <3>1, <1>3
        <3>2. CASE s = <<text[opened].id, text[opened].policy>>
            <4>1. Len(found) + 1 \in DOMAIN found'
                BY <1>3
            <4> QED
                BY <3>2, <4>1, <1>3, <1>4
        <3> QED
            BY <3>1, <3>2 DEF PairsInv, SeenIsFound
    <2> QED
        BY <1>1, <2>1 DEF SeenIsFound
<1>9. OpeningsAreCovered'
    <2>1. ASSUME NEW i \in PartStart..cursor, IsOpening(text[i])
          PROVE  \E j \in DOMAIN found' : found'[j].first <= i /\ i <= found'[j].last
        <3>1. CASE opened <= i
            <4>1. Len(found) + 1 \in DOMAIN found' /\ i <= cursor
                BY <1>2, <1>3
            <4> QED
                BY <3>1, <4>1, <1>3, <1>4
        <3>2. CASE ~(opened <= i)
            <4>1. i \in PartStart..(cursor - 1)
                BY <3>2, <1>0, <1>2, DepthIsBalance
            <4>2. PICK j \in DOMAIN found : found[j].first <= i /\ i <= found[j].last
                BY <2>1, <3>2, <4>1 DEF PairsInv, OpeningsAreCovered
            <4>3. j \in DOMAIN found' /\ found'[j] = found[j]
                BY <1>3
            <4> QED
                BY <4>2, <4>3
        <3> QED
            BY <3>1, <3>2
    <2> QED
        BY <1>2, <2>1 DEF OpeningsAreCovered
<1> QED
    BY <1>0, <1>6, <1>7, <1>8, <1>9, NextLinePairs DEF PairsInv

LEMMA EndScanPairs ==
    ASSUME ScanInv, PairsInv, FailScan \/ FinishScan
    PROVE  PairsInv'
<1>1. /\ UNCHANGED <<text, cursor, last, inTable, opened, depth, seen, found>>
      /\ PartStart' = PartStart /\ cursor \in Nat /\ last \in Nat
    BY DEF FailScan, FinishScan, PartStart, ScanInv, ScanTyped
<1>2. /\ CursorInPart' /\ FoundArePairs' /\ OpenIsUnbalanced'
      /\ OpeningsAreCovered' /\ SeenIsFound'
    BY <1>1 DEF PairsInv, CursorInPart, FoundArePairs, OpenIsUnbalanced, OpeningsAreCovered,
                SeenIsFound
<1>3. StoppedRightly'
    <2>1. CASE FinishScan
        BY <1>1, <2>1 DEF FinishScan, StoppedRightly
    <2>2. CASE FailScan
        <3>1. ScanFails /\ scan' = "error"
            BY <2>2 DEF FailScan
        <3>2. Line' = Line /\ NewDepth' = NewDepth /\ Conflicts(Line)' = Conflicts(Line)
            BY <1>1 DEF Line, NewDepth, Conflicts
        <3>3. \/ cursor <= last /\ opened = NoBlock /\ IsOpening(Line) /\ Conflicts(Line)
              \/ cursor <= last /\ opened # NoBlock /\ NewDepth = 0 /\ ~IsClosing(Line)
              \/ cursor <= last /\ opened # NoBlock /\ NewDepth < 0
              \/ cursor > last /\ opened # NoBlock
            BY <3>1 DEF ScanFails, AtLine
        <3>4. \/ cursor' <= last' /\ opened' = NoBlock /\ IsOpening(Line') /\ Conflicts(Line)'
              \/ cursor' <= last' /\ opened' # NoBlock /\ NewDepth' = 0 /\ ~IsClosing(Line')
              \/ cursor' <= last' /\ opened' # NoBlock /\ NewDepth' < 0
              \/ cursor' > last' /\ opened' # NoBlock
            BY <1>1, <3>2, <3>3
        <3> QED
            BY <3>1, <3>4 DEF StoppedRightly
    <2> QED
        BY <2>1, <2>2
<1> QED
    BY <1>2, <1>3 DEF PairsInv

LEMMA ScanStepPairs ==
    ASSUME ScanInv, PairsInv, ScanStep
    PROVE  PairsInv'
    BY SkipLinePairs, OpenBlockPairs, BodyLinePairs, CloseBlockPairs, EndScanPairs DEF ScanStep

LEMMA UnscannedPairs ==
    ASSUME PairsInv, UNCHANGED <<text, cursor, last, inTable, opened, depth, seen, found>>,
           scan' = scan \/ scan' = "idle"
    PROVE  PairsInv'
<1>1. PartStart' = PartStart
    BY DEF PartStart
<1>2. /\ CursorInPart' /\ FoundArePairs' /\ OpenIsUnbalanced'
      /\ OpeningsAreCovered' /\ SeenIsFound'
    BY <1>1 DEF PairsInv, CursorInPart, FoundArePairs, OpenIsUnbalanced, OpeningsAreCovered,
                SeenIsFound
<1>3. StoppedRightly'
    <2>1. Line' = Line /\ NewDepth' = NewDepth /\ Conflicts(Line)' = Conflicts(Line)
        BY DEF Line, NewDepth, Conflicts
    <2>2. CASE scan' = "idle"
        BY <2>2 DEF StoppedRightly
    <2>3. CASE scan' = scan
        BY <2>1, <2>3 DEF PairsInv, StoppedRightly
    <2> QED
        BY <2>2, <2>3
<1> QED
    BY <1>2, <1>3 DEF PairsInv


LEMMA InitPairs ==
    Init => PairsInv
<1> SUFFICES ASSUME Init PROVE PairsInv
    OBVIOUS
<1>1. ScanIdle
    BY DEF Init
<1>2. PartStart = 1
    BY <1>1 DEF ScanIdle, PartStart
<1> QED
    BY <1>1, <1>2 DEF ScanIdle, PairsInv, CursorInPart, FoundArePairs, OpenIsUnbalanced,
                      OpeningsAreCovered, SeenIsFound, StoppedRightly, NoBlock

LEMMA PairsInductive ==
    IInv /\ PairsInv /\ [Next]_vars => PairsInv'
<1>1. ASSUME IInv, PairsInv, NEW end \in statements, ScanTable(end)
      PROVE  PairsInv'
    <2> DEFINE lines == directory[current]
               from == StatementStart(lines, end)
    <2>1. StartScan(lines, from, end, TRUE) /\ phase = "tables"
        BY <1>1 DEF ScanTable
    <2>2. lines \in Seq(Lines) /\ end \in DOMAIN lines
        BY <1>1, <2>1 DEF IInv, LoadInv, Reading
    <2>3. from \in Nat \ {0} /\ end \in Nat /\ from <= end + 1
        BY <2>2, StatementStartFacts
    <2>4. from = IF TRUE THEN StatementStart(lines, end) ELSE 1
        OBVIOUS
    <2> HIDE DEF lines, from
    <2> QED
        BY <2>1, <2>2, <2>3, <2>4, StartScanPairs
<1>2. ASSUME IInv, PairsInv, ScanFile
      PROVE  PairsInv'
    <2> DEFINE lines == directory[current]
    <2>1. StartScan(lines, 1, Len(lines), FALSE) /\ phase = "tables"
        BY <1>2 DEF ScanFile
    <2>2. lines \in Seq(Lines)
        BY <1>2, <2>1 DEF IInv, LoadInv, Reading
    <2>3. /\ 1 \in Nat \ {0} /\ Len(lines) \in Nat /\ 1 <= Len(lines) + 1
          /\ 1 = IF FALSE THEN StatementStart(lines, Len(lines)) ELSE 1
        BY <2>2
    <2> HIDE DEF lines
    <2> QED
        BY <2>1, <2>2, <2>3, StartScanPairs
<1>3. ASSUME IInv, PairsInv, Scan
      PROVE  PairsInv'
    BY <1>3, ScanStepPairs DEF IInv, Scan
<1>4. ASSUME PairsInv, TakeBlocks \/ BadBlocks
      PROVE  PairsInv'
    BY <1>4, UnscannedPairs DEF TakeBlocks, BadBlocks
<1>5. ASSUME PairsInv, Read \/ Merge \/ RefuseMerge \/ Finish \/ UNCHANGED vars
      PROVE  PairsInv'
    <2>1. UNCHANGED scanVars
        BY <1>5 DEF Read, ReadFile, UnparsedFile, ReadDirectives, Merge, RefuseMerge, Finish, vars
    <2> QED
        BY <1>5, <2>1, UnscannedPairs DEF scanVars
<1> QED
    BY <1>1, <1>2, <1>3, <1>4, <1>5 DEF Next, FindBlocks

LEMMA PairsInvariant ==
    Spec => [](IInv /\ PairsInv)
<1>1. Init => PairsInv
    BY InitPairs
<1>2. IInv /\ PairsInv /\ [Next]_vars => PairsInv'
    BY PairsInductive
<1> QED
    BY <1>1, <1>2, Invariant, PTL DEF Spec

\* Whatever the lines of a text are, the single pass that only counts
\* parentheses finds the outermost balanced pairs of lines and nothing else,
\* and it gives up only on a text that is not well nested or gives one id two
\* policies (extract_drift_blocks).
THEOREM ScanFindsPairs ==
    Spec => []ScanIsRight
<1>1. IInv /\ PairsInv => ScanIsRight
    BY ScanThatEnds, ScanThatFails DEF IInv, ScanIsRight, Part, PartStart
<1> QED
    BY <1>1, PairsInvariant, PTL


-----------------------------------------------------------------------------
(* What the lines of a text hold.  A text is a file, or what is tried as   *)
(* SQL of one.                                                             *)

CreateLine(t) == [comment |-> FALSE, kind |-> "create", table |-> t]

TextLines ==
    Lines \cup {Uncommented(l) : l \in Lines} \cup {CreateProbe, EndOfTable}
        \cup {CreateLine(t) : t \in Tables}

Names == Tables \cup {Probe}

\* A constraint that a line has, under the name it has in a table.
ConstraintTyped(c) ==
    /\ c \in TableConstraint
    /\ \A t \in Names, suffix \in {"key", "fkey"} : ConstraintName(t, c, suffix) \in ConstraintNames

ColumnTyped(l) ==
    /\ l.name \in Columns /\ ColumnType[l.type] \in Types
    /\ l.notNull \in BOOLEAN /\ l.default \in Defaults \cup {NoDefault}

LineTyped(l) ==
    /\ l.kind = "create" => l.table \in Names
    /\ l.kind = "drop" => l.table \in Tables
    /\ l.kind = "column" => ColumnTyped(l)
    /\ l.kind = "index" => l.name \in Indexes /\ l.index \in Index
    /\ l.kind = "schema" => l.namespace \in Namespaces
    /\ l.kind = "removed" => l.name \in Columns /\ RemovedType(l.type) \in Types \cup {AnyType}

LEMMA LineFormTyped ==
    ASSUME NEW l \in Lines
    PROVE  /\ LineTyped(l)
           /\ l.kind = "create" => l.table \in Tables
           /\ l.kind = "column" => l.constraints \subseteq TableConstraint
           /\ l.kind = "constraint" => l.constraint \in TableConstraint
<1>1. l \in LineForm /\ (l.kind = "column" => ColumnType[l.type] \in Types)
      /\ (l.kind = "removed" => RemovedType(l.type) \in Types \cup {AnyType})
    BY LinesAssumption
<1>2. l.kind = "column" => l.name \in Columns /\ l.notNull \in BOOLEAN
          /\ l.default \in Defaults \cup {NoDefault} /\ l.constraints \subseteq TableConstraint
    BY <1>1 DEF LineForm
<1>3. l.kind = "constraint" => l.constraint \in TableConstraint
    BY <1>1 DEF LineForm
<1>4. /\ l.kind \in {"create", "drop"} => l.table \in Tables
      /\ l.kind = "index" => l.name \in Indexes /\ l.index \in Index
      /\ l.kind = "schema" => l.namespace \in Namespaces
      /\ l.kind = "removed" => l.name \in Columns
    BY <1>1 DEF LineForm
<1> QED
    BY <1>1, <1>2, <1>3, <1>4 DEF LineTyped, ColumnTyped, Names

LEMMA UncommentedFacts ==
    ASSUME NEW l \in Lines
    PROVE  IsSql(Uncommented(l)) /\ Uncommented(l).kind = l.kind
<1>1. "comment" \in DOMAIN l /\ "kind" \in DOMAIN l
    BY LineShape
<1> QED
    BY <1>1 DEF Uncommented, IsSql

LEMMA UncommentedSame ==
    ASSUME NEW l \in Lines
    PROVE  /\ DOMAIN Uncommented(l) = DOMAIN l
           /\ \A x \in DOMAIN l : x # "comment" => Uncommented(l)[x] = l[x]
    BY DEF Uncommented

LEMMA FieldsOfKinds ==
    ASSUME NEW l \in Lines
    PROVE  /\ l.kind \in {"create", "drop"} => "table" \in DOMAIN l
           /\ l.kind \in {"column", "index", "removed"} => "name" \in DOMAIN l
           /\ l.kind \in {"column", "removed"} => "type" \in DOMAIN l
           /\ l.kind = "column" => {"notNull", "default", "constraints"} \subseteq DOMAIN l
           /\ l.kind = "constraint" => "constraint" \in DOMAIN l
           /\ l.kind = "index" => "index" \in DOMAIN l
           /\ l.kind = "schema" => "namespace" \in DOMAIN l
<1>1. l \in LineForm
    BY LinesAssumption
<1> QED
    BY <1>1 DEF LineForm
LEMMA TextLineTyped ==
    ASSUME NEW l \in TextLines
    PROVE  LineTyped(l) /\ l.comment \in BOOLEAN
<1>1. CASE l \in Lines
    BY <1>1, LineFormTyped, LineShape
<1>2. ASSUME NEW m \in Lines, l = Uncommented(m)
      PROVE  LineTyped(l) /\ l.comment \in BOOLEAN
  <2>1. LineTyped(m)
      BY LineFormTyped
  <2>2. l.kind = m.kind /\ l.comment = FALSE
      BY <1>2, LineShape DEF Uncommented
  <2>3. /\ m.kind \in {"create", "drop"} => l.table = m.table
        /\ m.kind \in {"column", "index", "removed"} => l.name = m.name
        /\ m.kind \in {"column", "removed"} => l.type = m.type
        /\ m.kind = "column" => l.notNull = m.notNull /\ l.default = m.default
        /\ m.kind = "index" => l.index = m.index
        /\ m.kind = "schema" => l.namespace = m.namespace
      BY <1>2, UncommentedSame, FieldsOfKinds
  <2> QED
      BY <2>1, <2>2, <2>3 DEF LineTyped, ColumnTyped
<1>3. CASE l \in {CreateProbe, EndOfTable}
  <2>1. CASE l = CreateProbe
    <3>1. l.comment = FALSE /\ l.kind = "create" /\ l.table = Probe
        BY <2>1 DEF CreateProbe
    <3> QED
        BY <3>1 DEF LineTyped, Names
  <2>2. CASE l = EndOfTable
    <3>1. l.comment = FALSE /\ l.kind = "end"
        BY <2>2 DEF EndOfTable
    <3> QED
        BY <3>1 DEF LineTyped
  <2> QED
      BY <1>3, <2>1, <2>2
<1>4. ASSUME NEW t \in Tables, l = CreateLine(t)
      PROVE  LineTyped(l) /\ l.comment \in BOOLEAN
    BY <1>4 DEF CreateLine, LineTyped, Names
<1> QED
    BY <1>1, <1>2, <1>3, <1>4 DEF TextLines

LEMMA OnColumnTyped ==
    ASSUME NEW c \in TableConstraint, NEW x \in Columns
    PROVE  [c EXCEPT !.columns = <<x>>] \in TableConstraint
<1> DEFINE d == [c EXCEPT !.columns = <<x>>]
           N == ConstraintNames \cup {Unnamed}
<1>1. <<x>> \in ColumnList
    BY DEF ColumnList
<1>2. CASE c \in [sort : {"primary", "unique"}, name : N, columns : ColumnList]
  <2>1. d \in [sort : {"primary", "unique"}, name : N, columns : ColumnList]
      BY <1>1, <1>2
  <2> QED
      BY <2>1 DEF TableConstraint
<1>3. CASE c \in [sort : {"foreign"}, name : N, columns : ColumnList,
                  references : Tables, referenced : ColumnList]
  <2>1. d \in [sort : {"foreign"}, name : N, columns : ColumnList,
                  references : Tables, referenced : ColumnList]
      BY <1>1, <1>3
  <2> QED
      BY <2>1 DEF TableConstraint
<1> QED
    BY <1>2, <1>3 DEF TableConstraint

\* A line that is SQL in a text has the constraints of one in a file.
LEMMA TextLineIsLine ==
    ASSUME NEW l \in TextLines, IsSql(l), l.kind \in {"column", "constraint"}
    PROVE  \E m \in Lines : /\ m.kind = l.kind
                            /\ l.kind = "column" => l.name = m.name /\ l.constraints = m.constraints
                            /\ l.kind = "constraint" => l.constraint = m.constraint
                            /\ ConstraintsIn({l}) = ConstraintsIn({Uncommented(m)})
<1>1. CASE l \in Lines
  <2>1. l.comment = FALSE
      BY TextLineTyped DEF IsSql
  <2>2. Uncommented(l) = l
    <3>1. l \in LineForm
        BY <1>1, LinesAssumption
    <3> QED
        BY <2>1, <3>1 DEF LineForm, Uncommented
  <2> QED
      BY <1>1, <2>2
<1>2. ASSUME NEW m \in Lines, l = Uncommented(m)
      PROVE  \E k \in Lines : /\ k.kind = l.kind
                              /\ l.kind = "column" => l.name = k.name /\ l.constraints = k.constraints
                              /\ l.kind = "constraint" => l.constraint = k.constraint
                              /\ ConstraintsIn({l}) = ConstraintsIn({Uncommented(k)})
  <2>1. l.kind = m.kind
      BY <1>2, LineShape DEF Uncommented
  <2>2. /\ m.kind = "column" => l.name = m.name /\ l.constraints = m.constraints
        /\ m.kind = "constraint" => l.constraint = m.constraint
      BY <1>2, UncommentedSame, FieldsOfKinds
  <2> QED
      BY <1>2, <2>1, <2>2
<1>3. l \notin {CreateProbe, EndOfTable} /\ \A t \in Tables : l # CreateLine(t)
    BY DEF CreateProbe, EndOfTable, CreateLine
<1> QED
    BY <1>1, <1>2, <1>3 DEF TextLines

LEMMA ConstraintOfLineTyped ==
    ASSUME NEW l \in TextLines, NEW c \in ConstraintsIn({l})
    PROVE  ConstraintTyped(c)
<1>1. IsSql(l) /\ l.kind \in {"column", "constraint"}
    BY DEF ConstraintsIn, Sql
<1>2. PICK m \in Lines : /\ m.kind = l.kind
                         /\ l.kind = "column" => l.name = m.name /\ l.constraints = m.constraints
                         /\ l.kind = "constraint" => l.constraint = m.constraint
                         /\ ConstraintsIn({l}) = ConstraintsIn({Uncommented(m)})
    BY <1>1, TextLineIsLine
<1>3. c \in TableConstraint
  <2>1. CASE l.kind = "constraint"
    <3>1. c = l.constraint
        BY <2>1 DEF ConstraintsIn, Sql
    <3> QED
        BY <1>2, <2>1, <3>1, LineFormTyped
  <2>2. CASE l.kind = "column"
    <3>1. PICK d \in l.constraints : c = [d EXCEPT !.columns = <<l.name>>]
        BY <2>2 DEF ConstraintsIn, Sql
    <3>2. l.name \in Columns /\ d \in TableConstraint
        BY <1>2, <2>2, LineFormTyped DEF LineTyped, ColumnTyped
    <3> QED
        BY <3>1, <3>2, OnColumnTyped
  <2> QED
      BY <1>1, <2>1, <2>2
<1>4. \A t \in Names, suffix \in {"key", "fkey"} : Predicted(t, c.columns, suffix) \in ConstraintNames
  <2>1. c \in ConstraintsIn({Uncommented(m)})
      BY <1>2
  <2> QED
      BY <2>1, LinesAssumption DEF Names
<1>5. c.name \in ConstraintNames \cup {Unnamed}
    BY <1>3 DEF TableConstraint
<1> QED
    BY <1>3, <1>4, <1>5 DEF ConstraintTyped, ConstraintName

LEMMA ConstraintsTyped ==
    ASSUME NEW lines \in SUBSET TextLines, NEW c \in ConstraintsIn(lines)
    PROVE  ConstraintTyped(c)
<1>1. \E l \in lines : c \in ConstraintsIn({l})
  <2>1. CASE c \in {l.constraint : l \in Sql(lines, "constraint")}
    <3>1. PICK l \in Sql(lines, "constraint") : c = l.constraint
        BY <2>1
    <3>2. l \in lines /\ l \in Sql({l}, "constraint")
        BY DEF Sql
    <3> QED
        BY <3>1, <3>2 DEF ConstraintsIn
  <2>2. CASE c \in UNION {{[d EXCEPT !.columns = <<l.name>>] : d \in l.constraints} :
                             l \in Sql(lines, "column")}
    <3>1. PICK l \in Sql(lines, "column") : c \in {[d EXCEPT !.columns = <<l.name>>] : d \in l.constraints}
        BY <2>2
    <3>2. l \in lines /\ l \in Sql({l}, "column")
        BY DEF Sql
    <3>3. c \in UNION {{[d EXCEPT !.columns = <<k.name>>] : d \in k.constraints} :
                           k \in Sql({l}, "column")}
        BY <3>1, <3>2
    <3> QED
        BY <3>2, <3>3 DEF ConstraintsIn
  <2> QED
      BY <2>1, <2>2 DEF ConstraintsIn
<1> QED
    BY <1>1, ConstraintOfLineTyped
LEMMA ConstraintForms ==
    ASSUME NEW c \in TableConstraint
    PROVE  /\ c.columns \in ColumnList
           /\ c.sort = "foreign" => c.references \in Tables /\ c.referenced \in ColumnList
    BY DEF TableConstraint

\* Whatever the lines of a statement are, its definition is one that the
\* planner can be given.
LEMMA DefinitionTyped ==
    ASSUME NEW t \in Names, NEW lines \in SUBSET TextLines
    PROVE  IsTable(Definition(t, lines))
<1> DEFINE columns == Sql(lines, "column")
           constraints == ConstraintsIn(lines)
           primary == {c \in constraints : c.sort = "primary"}
           legacy == {l \in lines : l.comment /\ l.kind = "removed"}
           C == [n \in {l.name : l \in columns} |->
                    LET l == CHOOSE l \in columns : l.name = n
                    IN  [type |-> ColumnType[l.type], nullable |-> IsNullable(l), default |-> l.default]]
           P == IF primary = {} THEN NoPrimaryKey ELSE (CHOOSE c \in primary : TRUE).columns
           U == {[name |-> ConstraintName(t, c, "key"), columns |-> c.columns] :
                    c \in {d \in constraints : d.sort = "unique"}}
           F == {[name |-> ConstraintName(t, c, "fkey"), columns |-> c.columns,
                  references |-> c.references, referenced |-> c.referenced] :
                    c \in {d \in constraints : d.sort = "foreign"}}
           R == [n \in {l.name : l \in legacy} |->
                    RemovedType((CHOOSE l \in legacy : l.name = n).type)]
<1>1. Definition(t, lines) = [columns |-> C, primaryKey |-> P, uniques |-> U,
                              foreignKeys |-> F, removed |-> R]
    BY DEF Definition
<1>2. IsMapTo(C, Columns, Column)
  <2>1. ASSUME NEW l \in columns
        PROVE  l.name \in Columns
               /\ [type |-> ColumnType[l.type], nullable |-> IsNullable(l), default |-> l.default] \in Column
    <3>1. ColumnTyped(l)
        BY TextLineTyped DEF Sql, LineTyped
    <3>2. IsNullable(l) \in BOOLEAN
        BY DEF IsNullable
    <3> QED
        BY <3>1, <3>2 DEF ColumnTyped, Column
  <2>2. ASSUME NEW n \in DOMAIN C
        PROVE  n \in Columns /\ C[n] \in Column
    <3>1. PICK l \in columns : l.name = n
        OBVIOUS
    <3> DEFINE k == CHOOSE m \in columns : m.name = n
    <3>2. k \in columns
        BY <3>1
    <3>3. C[n] = [type |-> ColumnType[k.type], nullable |-> IsNullable(k), default |-> k.default]
        OBVIOUS
    <3> HIDE DEF k, columns, C
    <3> QED
        BY <2>1, <3>1, <3>2, <3>3
  <2>3. C = [n \in DOMAIN C |-> C[n]]
      OBVIOUS
  <2> HIDE DEF C
  <2> QED
      BY <2>2, <2>3 DEF IsMapTo
<1>3. P \in ColumnList
  <2>1. CASE primary = {}
      BY <2>1 DEF NoPrimaryKey, ColumnList
  <2>2. CASE primary # {}
    <3>1. (CHOOSE c \in primary : TRUE) \in constraints
        BY <2>2
    <3> QED
        BY <2>2, <3>1, ConstraintsTyped, ConstraintForms DEF ConstraintTyped
  <2> QED
      BY <2>1, <2>2
<1>4. U \in SUBSET Unique
  <2>1. ASSUME NEW c \in constraints
        PROVE  [name |-> ConstraintName(t, c, "key"), columns |-> c.columns] \in Unique
      BY ConstraintsTyped, ConstraintForms DEF ConstraintTyped, Unique
  <2> QED
      BY <2>1
<1>5. F \in SUBSET ForeignKey
  <2>1. ASSUME NEW c \in constraints, c.sort = "foreign"
        PROVE  [name |-> ConstraintName(t, c, "fkey"), columns |-> c.columns,
                references |-> c.references, referenced |-> c.referenced] \in ForeignKey
      BY <2>1, ConstraintsTyped, ConstraintForms DEF ConstraintTyped, ForeignKey
  <2> QED
      BY <2>1
<1>6. IsMapTo(R, Columns, Types \cup {AnyType})
  <2>1. ASSUME NEW l \in legacy
        PROVE  l.name \in Columns /\ RemovedType(l.type) \in Types \cup {AnyType}
      BY TextLineTyped DEF LineTyped
  <2>2. ASSUME NEW n \in DOMAIN R
        PROVE  n \in Columns /\ R[n] \in Types \cup {AnyType}
    <3>1. PICK l \in legacy : l.name = n
        OBVIOUS
    <3> DEFINE k == CHOOSE m \in legacy : m.name = n
    <3>2. k \in legacy
        BY <3>1
    <3>3. R[n] = RemovedType(k.type)
        OBVIOUS
    <3> HIDE DEF k, legacy, R
    <3> QED
        BY <2>1, <3>1, <3>2, <3>3
  <2>3. R = [n \in DOMAIN R |-> R[n]]
      OBVIOUS
  <2> HIDE DEF R
  <2> QED
      BY <2>2, <2>3 DEF IsMapTo
<1> HIDE DEF C, P, U, F, R
<1> QED
    BY <1>1, <1>2, <1>3, <1>4, <1>5, <1>6 DEF IsTable
-----------------------------------------------------------------------------
(* The definitions in a text.                                              *)

LEMMA StatementBegins ==
    ASSUME NEW sql \in Seq(TextLines), NEW end \in DOMAIN sql
    PROVE  /\ StatementStart(sql, end) \in 1..end
           /\ \/ StatementStart(sql, end) = 1
              \/ StatementStart(sql, end) - 1 \in StatementEnds(sql)
           /\ \A j \in StatementStart(sql, end)..(end - 1) : j \notin StatementEnds(sql)
<1> DEFINE S == {i \in 1..end : i = 1 \/ i - 1 \in StatementEnds(sql)}
<1>0. end \in Nat /\ end >= 1
    OBVIOUS
<1>1. S \in SUBSET (1..end) /\ 1 \in S
    BY <1>0
<1>2. PICK i \in S : \A j \in S : j <= i
    BY <1>0, <1>1, GreatestElement
<1>3. ASSUME NEW j \in i..(end - 1), j \in StatementEnds(sql)
      PROVE  FALSE
  <2>1. j + 1 \in S
      BY <1>3, <1>0
  <2> QED
      BY <2>1, <1>2, <1>0
<1>4. \E k \in 1..end : /\ k = 1 \/ k - 1 \in StatementEnds(sql)
                        /\ \A j \in k..(end - 1) : j \notin StatementEnds(sql)
    BY <1>2, <1>3
<1> QED
    BY <1>4 DEF StatementStart

\* A ");" in a text that parses has its "CREATE TABLE t (" in the statement.
LEMMA TableHasName ==
    ASSUME NEW sql \in Seq(TextLines), Parses(sql), NEW end \in TableEnds(sql)
    PROVE  \E i \in DOMAIN sql : /\ sql[i] \in Sql(StatementLines(sql, end), "create")
                                 /\ TableName(sql, end) \in
                                        {sql[k].table : k \in {m \in DOMAIN sql : sql[m].kind = "create"}}
<1>0. /\ Len(sql) \in Nat /\ DOMAIN sql = 1..Len(sql) /\ end \in DOMAIN sql /\ end \in Nat
      /\ IsSql(sql[end]) /\ sql[end].kind = "end"
    BY DEF TableEnds, StatementEnds
<1>1. InTable(sql, end)
    BY <1>0 DEF Parses, IsGrammatical
<1>2. PICK j \in 1..(end - 1) :
          /\ IsSql(sql[j]) /\ sql[j].kind = "create"
          /\ \A k \in (j + 1)..(end - 1) : IsSql(sql[k]) => sql[k].kind # "end"
    BY <1>1 DEF InTable
<1> DEFINE start == StatementStart(sql, end)
<1>3. start \in 1..end /\ (start = 1 \/ start - 1 \in StatementEnds(sql))
    BY <1>0, StatementBegins
<1> HIDE DEF start
<1>4. start <= j
  <2> SUFFICES ASSUME j < start PROVE FALSE
      BY <1>0, <1>3
  <2> DEFINE m == start - 1
  <2>1. m \in StatementEnds(sql) /\ j <= m /\ m < end /\ m \in Nat
      BY <1>0, <1>3
  <2>2. IsSql(sql[m]) /\ sql[m].kind \in {"end", "index", "schema"} /\ m \in DOMAIN sql
      BY <2>1 DEF StatementEnds
  <2> HIDE DEF m
  <2>3. m # j
      BY <1>2, <2>2
  <2>4. InTable(sql, m)
    <3>1. j \in 1..(m - 1)
        BY <1>0, <2>1, <2>3
    <3>2. \A k \in (j + 1)..(m - 1) : k \in (j + 1)..(end - 1)
        BY <1>0, <2>1
    <3> QED
        BY <1>2, <3>1, <3>2 DEF InTable
  <2>5. sql[m].kind = "end"
      BY <2>2, <2>4 DEF Parses, IsGrammatical
  <2>6. m \in (j + 1)..(end - 1)
      BY <1>0, <2>1, <2>3
  <2> QED
      BY <1>2, <2>2, <2>5, <2>6
<1>5. j \in start..end /\ j \in DOMAIN sql
    BY <1>0, <1>3, <1>4
<1>6. sql[j] \in Sql(StatementLines(sql, end), "create")
    BY <1>2, <1>5 DEF Sql, StatementLines, start
<1> DEFINE l == CHOOSE x \in Sql(StatementLines(sql, end), "create") : TRUE
<1>7. l \in Sql(StatementLines(sql, end), "create")
    BY <1>6
<1> HIDE DEF l
<1>8. PICK i \in start..end : l = sql[i]
    BY <1>7 DEF Sql, StatementLines, start
<1>9. i \in DOMAIN sql /\ sql[i].kind = "create" /\ TableName(sql, end) = sql[i].table
  <2>1. i \in DOMAIN sql
      BY <1>0, <1>3
  <2>2. l.kind = "create"
      BY <1>7 DEF Sql
  <2>3. TableName(sql, end) = l.table
      BY DEF TableName, l
  <2> QED
      BY <1>8, <2>1, <2>2, <2>3
<1> QED
    BY <1>5, <1>6, <1>9

LEMMA StatementLinesTyped ==
    ASSUME NEW sql \in Seq(TextLines), NEW end \in TableEnds(sql)
    PROVE  StatementLines(sql, end) \in SUBSET TextLines
<1>1. end \in DOMAIN sql /\ DOMAIN sql = 1..Len(sql) /\ Len(sql) \in Nat
    BY DEF TableEnds, StatementEnds
<1>2. StatementStart(sql, end) \in 1..end
    BY <1>1, StatementBegins
<1>3. \A i \in StatementStart(sql, end)..end : i \in DOMAIN sql
    BY <1>1, <1>2
<1> QED
    BY <1>3 DEF StatementLines

LEMMA DefinitionAtTyped ==
    ASSUME NEW sql \in Seq(TextLines), Parses(sql), NEW end \in TableEnds(sql)
    PROVE  IsTable(DefinitionAt(sql, end))
<1>1. PICK k \in DOMAIN sql : sql[k].kind = "create" /\ TableName(sql, end) = sql[k].table
    BY TableHasName
<1>2. TableName(sql, end) \in Names
    BY <1>1, TextLineTyped DEF LineTyped
<1> QED
    BY <1>2, StatementLinesTyped, DefinitionTyped DEF DefinitionAt
-----------------------------------------------------------------------------
(* What a block lists and what is made of it.                              *)

\* The text that is tried: the body of a block, within a table of its own when
\* the scan is that of a statement.
Shift == IF inTable THEN 1 ELSE 0
Inside(b) == b.last - b.first - 1

LEMMA TriedLines ==
    ASSUME ScanInv, NEW j \in DOMAIN found
    PROVE  LET b == found[j]
               n == Inside(b)
           IN  /\ n \in Nat /\ b.first \in Nat /\ b.last = b.first + n + 1
               /\ \A i \in 1..n : b.first + i \in DOMAIN text
               /\ Tried(b) \in Seq(TextLines) /\ Len(Tried(b)) = n + Shift + Shift
               /\ \A i \in 1..n : Tried(b)[i + Shift] = Uncommented(text[b.first + i])
               /\ inTable => Tried(b)[1] = CreateProbe /\ Tried(b)[n + 2] = EndOfTable
<1> DEFINE b == found[j]
           n == Inside(b)
           off == Shift
           body == Body(b)
<1>1. /\ b.first \in DOMAIN text /\ b.last \in DOMAIN text /\ b.first < b.last
      /\ text \in Seq(Lines)
    BY DEF ScanInv, ScanTyped, BlocksApart, Delimited
<1>2. /\ n \in Nat /\ b.first \in Nat /\ b.last = b.first + n + 1
      /\ \A i \in 1..n : b.first + i \in DOMAIN text
  <2>1. n = b.last - b.first - 1
      BY DEF Inside
  <2>2. DOMAIN text = 1..Len(text) /\ Len(text) \in Nat
      BY <1>1
  <2> HIDE DEF n, b
  <2>3. b.first \in 1..Len(text) /\ b.last \in 1..Len(text) /\ b.first < b.last
      BY <1>1, <2>2
  <2>4. n \in Nat /\ b.first \in Nat /\ b.last = b.first + n + 1
      BY <2>1, <2>2, <2>3
  <2> QED
      BY <2>2, <2>3, <2>4
<1>3. \A i \in 1..n : Uncommented(text[b.first + i]) \in TextLines
  <2>0. \A i \in DOMAIN text : text[i] \in Lines
      BY <1>1
  <2>1. \A i \in 1..n : text[b.first + i] \in Lines
      BY <1>2, <2>0
  <2> QED
      BY <2>1 DEF TextLines
<1>4. body = [i \in 1..n |-> Uncommented(text[b.first + i])]
    BY DEF Body, Inside
<1>5. CreateProbe \in TextLines /\ EndOfTable \in TextLines
    BY DEF TextLines
<1>9. (inTable => off = 1) /\ (~inTable => off = 0)
    BY DEF Shift
<1> HIDE DEF body, n, off, b
<1>6. body \in Seq(TextLines) /\ Len(body) = n
      /\ \A i \in 1..n : body[i] = Uncommented(text[b.first + i])
  <2> DEFINE h == [i \in 1..n |-> Uncommented(text[b.first + i])]
  <2>1. n \in Nat /\ h \in [1..n -> TextLines]
      BY <1>2, <1>3
  <2>2. \A i \in 1..n : h[i] = Uncommented(text[b.first + i])
      OBVIOUS
  <2>3. body = h
      BY <1>4
  <2> HIDE DEF h
  <2>4. h \in Seq(TextLines) /\ Len(h) = n
      BY <2>1
  <2> QED
      BY <2>2, <2>3, <2>4
<1>7. CASE inTable
  <2> DEFINE head == <<CreateProbe>> \o body
  <2>1. /\ head \in Seq(TextLines) /\ Len(head) = n + 1 /\ head[1] = CreateProbe
        /\ \A i \in 1..n : head[i + 1] = body[i]
    <3>1. <<CreateProbe>> \in Seq(TextLines) /\ Len(<<CreateProbe>>) = 1
        BY <1>5
    <3> QED
        BY <1>2, <1>6, <3>1
  <2> HIDE DEF head
  <2> DEFINE all == head \o <<EndOfTable>>
  <2>2. /\ all \in Seq(TextLines) /\ Len(all) = n + 2 /\ all[n + 2] = EndOfTable
        /\ \A i \in 1..(n + 1) : all[i] = head[i]
    <3>1. <<EndOfTable>> \in Seq(TextLines) /\ Len(<<EndOfTable>>) = 1
        BY <1>5
    <3> QED
        BY <1>2, <2>1, <3>1
  <2>3. Tried(b) = all
      BY <1>7 DEF Tried, all, head, body
  <2> HIDE DEF all
  <2>4. \A i \in 1..n : i + 1 \in 1..(n + 1) /\ i + off = i + 1
      BY <1>2, <1>7, <1>9
  <2>5. \A i \in 1..n : Tried(b)[i + off] = Uncommented(text[b.first + i])
      BY <1>6, <2>1, <2>2, <2>3, <2>4
  <2>6. Len(Tried(b)) = n + off + off /\ 1 \in 1..(n + 1)
      BY <1>2, <1>7, <1>9, <2>2, <2>3
  <2> QED
      BY <1>2, <2>1, <2>2, <2>3, <2>5, <2>6 DEF b, n, off
<1>8. CASE ~inTable
  <2>1. Tried(b) = body /\ off = 0
      BY <1>8, <1>9 DEF Tried, body
  <2> QED
      BY <1>2, <1>6, <1>8, <2>1 DEF b, n, off
<1> QED
    BY <1>7, <1>8 DEF b, n, off

LEMMA TriedIsSql ==
    ASSUME ScanInv, NEW j \in DOMAIN found, NEW m \in DOMAIN Tried(found[j])
    PROVE  IsSql(Tried(found[j])[m])
<1> DEFINE b == found[j]
           n == Inside(b)
           off == Shift
<1>1. /\ n \in Nat /\ b.first \in Nat
      /\ \A i \in 1..n : b.first + i \in DOMAIN text
      /\ Tried(b) \in Seq(TextLines) /\ Len(Tried(b)) = n + off + off
      /\ \A i \in 1..n : Tried(b)[i + off] = Uncommented(text[b.first + i])
      /\ inTable => Tried(b)[1] = CreateProbe /\ Tried(b)[n + 2] = EndOfTable
    BY TriedLines
<1>2. IsSql(CreateProbe) /\ IsSql(EndOfTable)
    BY DEF CreateProbe, EndOfTable, IsSql
<1>3. \A i \in DOMAIN text : IsSql(Uncommented(text[i]))
    BY UncommentedFacts DEF ScanInv, ScanTyped
<1>4. m \in 1..(n + off + off) /\ off = IF inTable THEN 1 ELSE 0
    BY <1>1 DEF Shift
<1> HIDE DEF n, off, b
<1>5. \/ m - off \in 1..n /\ (m - off) + off = m
      \/ inTable /\ (m = 1 \/ m = n + 2)
    BY <1>1, <1>4
<1>6. IsSql(Tried(b)[m])
    BY <1>1, <1>2, <1>3, <1>5
<1> QED
    BY <1>6 DEF b

IsAllSql(sql) == sql \in Seq(TextLines) /\ Parses(sql) /\ \A i \in DOMAIN sql : IsSql(sql[i])

LEMMA ColumnsBeforeEnd ==
    ASSUME NEW sql, IsAllSql(sql), TableEnds(sql) # {}
    PROVE  Sql(StatementLines(sql, FirstTableEnd(sql)), "column") =
               {sql[i] : i \in {k \in 1..(FirstTableEnd(sql) - 1) : sql[k].kind = "column"}}
<1> DEFINE e == FirstTableEnd(sql)
           start == StatementStart(sql, e)
<1>0. /\ sql \in Seq(TextLines) /\ Len(sql) \in Nat /\ DOMAIN sql = 1..Len(sql)
      /\ \A i \in DOMAIN sql : IsSql(sql[i])
    BY DEF IsAllSql
<1>1. e \in TableEnds(sql) /\ \A f \in TableEnds(sql) : e <= f
  <2>1. TableEnds(sql) \in SUBSET Nat
      BY <1>0 DEF TableEnds, StatementEnds
  <2> QED
      BY <2>1, LeastElement DEF FirstTableEnd
<1> HIDE DEF e
<1>2. e \in DOMAIN sql /\ sql[e].kind = "end" /\ e \in Nat
    BY <1>0, <1>1 DEF TableEnds, StatementEnds
<1>3. \A i \in 1..(e - 1) : i \in DOMAIN sql /\ sql[i].kind # "end"
  <2> SUFFICES ASSUME NEW i \in 1..(e - 1), sql[i].kind = "end" PROVE FALSE
      BY <1>0, <1>2
  <2>1. i \in TableEnds(sql)
      BY <1>0, <1>2 DEF TableEnds, StatementEnds
  <2> QED
      BY <1>1, <1>2, <2>1
<1>4. start \in 1..e /\ (start = 1 \/ start - 1 \in StatementEnds(sql))
    BY <1>0, <1>2, StatementBegins
<1> HIDE DEF start
<1>5. ASSUME NEW i \in 1..(e - 1), sql[i].kind = "column"
      PROVE  start <= i
  <2> SUFFICES ASSUME i < start PROVE FALSE
      BY <1>2, <1>4
  <2> DEFINE m == start - 1
  <2>1. m \in StatementEnds(sql) /\ i <= m /\ m \in 1..(e - 1) /\ m \in Nat
      BY <1>2, <1>4
  <2> HIDE DEF m
  <2>2. InTable(sql, i)
      BY <1>0, <1>3, <1>5 DEF IsAllSql, Parses, IsGrammatical
  <2>3. PICK c \in 1..(i - 1) : IsSql(sql[c]) /\ sql[c].kind = "create"
      BY <2>2 DEF InTable
  <2>4. \A k \in (c + 1)..(m - 1) : k \in 1..(e - 1)
      BY <1>2, <2>1
  <2>5. c \in 1..(m - 1)
      BY <1>2, <2>1
  <2>6. InTable(sql, m)
      BY <1>3, <2>3, <2>4, <2>5 DEF InTable
  <2>7. sql[m].kind \in {"column", "constraint", "end"}
      BY <1>0, <1>3, <2>1, <2>6 DEF IsAllSql, Parses, IsGrammatical
  <2> QED
      BY <1>3, <2>1, <2>7 DEF StatementEnds
<1>6. ASSUME NEW l \in Sql(StatementLines(sql, e), "column")
      PROVE  l \in {sql[i] : i \in {k \in 1..(e - 1) : sql[k].kind = "column"}}
  <2>1. PICK i \in start..e : l = sql[i] /\ l.kind = "column"
      BY DEF Sql, StatementLines, start
  <2>2. i \in 1..(e - 1)
      BY <1>2, <1>4, <2>1
  <2> QED
      BY <2>1, <2>2
<1>7. ASSUME NEW i \in 1..(e - 1), sql[i].kind = "column"
      PROVE  sql[i] \in Sql(StatementLines(sql, e), "column")
  <2>1. i \in start..e
      BY <1>2, <1>4, <1>5, <1>7
  <2> QED
      BY <1>0, <1>3, <1>7, <2>1 DEF Sql, StatementLines, start
<1>8. Sql(StatementLines(sql, e), "column") =
          {sql[i] : i \in {k \in 1..(e - 1) : sql[k].kind = "column"}}
    BY <1>6, <1>7
<1> QED
    BY <1>8 DEF e

\* Without a table there are no columns.
LEMMA ColumnsNeedTable ==
    ASSUME NEW sql, IsAllSql(sql), TableEnds(sql) = {}, NEW i \in DOMAIN sql
    PROVE  sql[i].kind # "column"
<1> SUFFICES ASSUME sql[i].kind = "column" PROVE FALSE
    OBVIOUS
<1>0. /\ Len(sql) \in Nat /\ DOMAIN sql = 1..Len(sql) /\ \A k \in DOMAIN sql : IsSql(sql[k])
    BY DEF IsAllSql
<1>1. InTable(sql, i)
    BY <1>0 DEF IsAllSql, Parses, IsGrammatical
<1>2. PICK c \in 1..(i - 1) : IsSql(sql[c]) /\ sql[c].kind = "create"
    BY <1>1 DEF InTable
<1>3. \A k \in DOMAIN sql : sql[k].kind # "end"
    BY <1>0 DEF TableEnds, StatementEnds
<1>4. InTable(sql, Len(sql) + 1)
  <2>1. c \in 1..((Len(sql) + 1) - 1) /\ \A k \in (c + 1)..((Len(sql) + 1) - 1) : k \in DOMAIN sql
      BY <1>0
  <2> QED
      BY <1>2, <1>3, <2>1 DEF InTable
<1> QED
    BY <1>4 DEF IsAllSql, Parses, IsGrammatical
PairBlock(p) == [from |-> p[1], to |-> p[2]]

\* No column is listed with two types.
OneTypeIn(lines, p) ==
    \A c, d \in ListedColumns(lines, PairBlock(p)) : c.name = d.name => c.type = d.type

ColumnEntry(l) == [name |-> l.name, type |-> ColumnType[l.type]]

\* The columns of a definition are those of its lines.
LEMMA DefinedColumns ==
    ASSUME NEW t, NEW lines,
           \A l, m \in Sql(lines, "column") :
               l.name = m.name => ColumnType[l.type] = ColumnType[m.type]
    PROVE  LET table == Definition(t, lines)
           IN  {[name |-> c, type |-> table.columns[c].type] : c \in DOMAIN table.columns}
                   = {ColumnEntry(l) : l \in Sql(lines, "column")}
<1> DEFINE cols == Sql(lines, "column")
           table == Definition(t, lines)
           f == table.columns
           F == [n \in {l.name : l \in cols} |->
                    LET l == CHOOSE l \in cols : l.name = n
                    IN  [type |-> ColumnType[l.type], nullable |-> IsNullable(l), default |-> l.default]]
<1>1. f = F
    BY DEF Definition
<1>2. DOMAIN f = {l.name : l \in cols}
    BY <1>1
<1>3. ASSUME NEW l \in cols
      PROVE  f[l.name].type = ColumnType[l.type]
  <2> DEFINE k == CHOOSE m \in cols : m.name = l.name
  <2>1. k \in cols /\ k.name = l.name
      OBVIOUS
  <2>2. F[l.name] = [type |-> ColumnType[k.type], nullable |-> IsNullable(k), default |-> k.default]
      OBVIOUS
  <2> HIDE DEF k, cols, f, F
  <2>3. f[l.name].type = ColumnType[k.type]
      BY <1>1, <2>2
  <2> QED
      BY <2>1, <2>3 DEF cols
<1> HIDE DEF f, F, table, cols
<1>4. ASSUME NEW c \in DOMAIN f
      PROVE  [name |-> c, type |-> f[c].type] \in {ColumnEntry(l) : l \in cols}
  <2>1. PICK l \in cols : l.name = c
      BY <1>2
  <2>2. [name |-> c, type |-> f[c].type] = ColumnEntry(l)
      BY <1>3, <2>1 DEF ColumnEntry
  <2> QED
      BY <2>2
<1>5. ASSUME NEW l \in cols
      PROVE  ColumnEntry(l) \in {[name |-> c, type |-> f[c].type] : c \in DOMAIN f}
  <2>1. l.name \in DOMAIN f /\ ColumnEntry(l) = [name |-> l.name, type |-> f[l.name].type]
      BY <1>2, <1>3 DEF ColumnEntry
  <2> QED
      BY <2>1
<1>6. {[name |-> c, type |-> f[c].type] : c \in DOMAIN f} = {ColumnEntry(l) : l \in cols}
    BY <1>4, <1>5
<1> QED
    BY <1>6 DEF f, table, cols

\* Where the lines of a block are in what is tried.
InBody(b, k) == b.first < k /\ k < b.last

LEMMA TriedPlaces ==
    ASSUME ScanInv, NEW j \in DOMAIN found, BodyParses(found[j])
    PROVE  LET b == found[j]
               sql == Tried(b)
           IN  /\ IsAllSql(sql) /\ Shift \in Nat /\ b.first \in Nat /\ b.last \in Nat
               /\ inTable => TableEnds(sql) # {}
               /\ \A k \in DOMAIN text : InBody(b, k) =>
                      /\ k - b.first + Shift \in DOMAIN sql
                      /\ sql[k - b.first + Shift] = Uncommented(text[k])
                      /\ sql[k - b.first + Shift].kind = text[k].kind
               /\ \A m \in DOMAIN sql :
                      \/ m - Shift + b.first \in DOMAIN text /\ InBody(b, m - Shift + b.first)
                      \/ m = 1 /\ sql[m].kind = "create"
                      \/ m = Len(sql) /\ sql[m].kind = "end"
<1> DEFINE b == found[j]
           sql == Tried(b)
           n == Inside(b)
           off == Shift
<1>1. /\ n \in Nat /\ b.first \in Nat /\ b.last = b.first + n + 1
      /\ \A i \in 1..n : b.first + i \in DOMAIN text
      /\ sql \in Seq(TextLines) /\ Len(sql) = n + off + off
      /\ \A i \in 1..n : sql[i + off] = Uncommented(text[b.first + i])
      /\ inTable => sql[1] = CreateProbe /\ sql[n + 2] = EndOfTable
    BY TriedLines
<1>2. off \in {0, 1} /\ (inTable => off = 1) /\ (~inTable => off = 0)
    BY DEF Shift
<1>3. IsAllSql(sql)
  <2>1. \A m \in DOMAIN sql : IsSql(sql[m])
      BY TriedIsSql
  <2> QED
      BY <1>1, <2>1 DEF IsAllSql, BodyParses
<1>4. /\ CreateProbe.kind = "create" /\ EndOfTable.kind = "end"
      /\ IsSql(EndOfTable)
    BY DEF CreateProbe, EndOfTable, IsSql
<1>5. \A k \in DOMAIN text : Uncommented(text[k]).kind = text[k].kind
    BY UncommentedFacts DEF ScanInv, ScanTyped
<1>a. DOMAIN text \subseteq Nat
    BY DEF ScanInv, ScanTyped
<1> HIDE DEF n, sql, b, off
<1>6. DOMAIN sql = 1..(n + off + off)
    BY <1>1
<1>10. off \in Nat /\ b.last \in Nat
    BY <1>1, <1>2
<1>7. ASSUME inTable PROVE TableEnds(sql) # {}
  <2>1. n + 2 \in DOMAIN sql /\ sql[n + 2] = EndOfTable
      BY <1>1, <1>2, <1>6, <1>7
  <2> QED
      BY <1>4, <2>1 DEF TableEnds, StatementEnds
<1>8. ASSUME NEW k \in DOMAIN text, InBody(b, k)
      PROVE  /\ k - b.first + off \in DOMAIN sql
             /\ sql[k - b.first + off] = Uncommented(text[k])
             /\ sql[k - b.first + off].kind = text[k].kind
  <2> DEFINE i == k - b.first
  <2>0. \A f, l, w, x \in Nat :
            l = f + w + 1 /\ f < x /\ x < l => x - f \in 1..w /\ f + (x - f) = x
      OBVIOUS
  <2>1. i \in 1..n /\ b.first + i = k
      BY <1>1, <1>8, <1>a, <1>10, <2>0 DEF InBody
  <2> HIDE DEF i
  <2>2. sql[i + off] = Uncommented(text[k]) /\ i + off \in DOMAIN sql
      BY <1>1, <1>2, <1>6, <2>1
  <2>3. sql[i + off].kind = text[k].kind
      BY <1>5, <2>2
  <2> QED
      BY <2>2, <2>3 DEF i
<1>9. ASSUME NEW m \in DOMAIN sql
      PROVE  \/ m - off + b.first \in DOMAIN text /\ InBody(b, m - off + b.first)
             \/ m = 1 /\ sql[m].kind = "create"
             \/ m = Len(sql) /\ sql[m].kind = "end"
  <2>1. m \in 1..(n + off + off)
      BY <1>6
  <2>2. \/ m - off \in 1..n
        \/ inTable /\ m = 1
        \/ inTable /\ m = n + 2 /\ m = Len(sql)
      BY <1>1, <1>2, <2>1
  <2>3. CASE m - off \in 1..n
    <3> DEFINE i == m - off
    <3>1. i \in 1..n
        BY <2>3
    <3> HIDE DEF i
    <3>2. i + b.first \in DOMAIN text /\ InBody(b, i + b.first)
      <4>1. i + b.first = b.first + i /\ b.first < i + b.first /\ i + b.first < b.last
          BY <1>1, <3>1
      <4> QED
          BY <1>1, <3>1, <4>1 DEF InBody
    <3> QED
        BY <3>2 DEF i
  <2> QED
      BY <1>1, <1>4, <2>2, <2>3
<1> QED
    BY <1>1, <1>3, <1>7, <1>8, <1>9, <1>10 DEF b, sql, off
LEMMA InnerIsBody ==
    ASSUME ScanInv, NEW j \in DOMAIN found, NEW k
    PROVE  LET b == found[j]
           IN  k \in Inner(PairBlock(<<b.first, b.last>>)) <=> k \in DOMAIN text /\ InBody(b, k)
<1> DEFINE b == found[j]
<1>1. /\ b.first \in DOMAIN text /\ b.last \in DOMAIN text
      /\ text \in Seq(Lines)
    BY DEF ScanInv, ScanTyped, BlocksApart, Delimited
<1>2. DOMAIN text = 1..Len(text) /\ Len(text) \in Nat
    BY <1>1
<1>3. Inner(PairBlock(<<b.first, b.last>>)) = (b.first + 1)..(b.last - 1)
    BY DEF Inner, PairBlock
<1> HIDE DEF b
<1>4. k \in (b.first + 1)..(b.last - 1) <=> k \in DOMAIN text /\ b.first < k /\ k < b.last
    BY <1>1, <1>2
<1> QED
    BY <1>3, <1>4 DEF b, InBody

LEMMA EntryKept ==
    ASSUME NEW l \in Lines
    PROVE  /\ l.kind = "column" => ColumnEntry(Uncommented(l)) = ColumnEntry(l)
           /\ l.kind = "index" => NamedIndexOf(Uncommented(l)) = NamedIndexOf(l)
<1>1. CASE l.kind = "column"
  <2>1. Uncommented(l).name = l.name /\ Uncommented(l).type = l.type
      BY <1>1, UncommentedSame, FieldsOfKinds
  <2> QED
      BY <1>1, <2>1 DEF ColumnEntry
<1>2. CASE l.kind = "index"
  <2>1. Uncommented(l).name = l.name /\ Uncommented(l).index = l.index
      BY <1>2, UncommentedSame, FieldsOfKinds
  <2> QED
      BY <1>2, <2>1 DEF NamedIndexOf
<1> QED
    BY <1>1, <1>2

\* The columns that a block lists are those that lie before the end of the
\* first table in what is tried.
LEMMA ListedAreTried ==
    ASSUME ScanInv, NEW j \in DOMAIN found, BodyParses(found[j])
    PROVE  LET b == found[j]
               sql == Tried(b)
               p == <<b.first, b.last>>
           IN  ListedColumns(text, PairBlock(p)) =
                   IF TableEnds(sql) = {} THEN {}
                   ELSE {ColumnEntry(l) : l \in Sql(StatementLines(sql, FirstTableEnd(sql)), "column")}
<1> DEFINE b == found[j]
           sql == Tried(b)
           pb == PairBlock(<<b.first, b.last>>)
           At(k) == k - b.first + Shift
           L == ListedColumns(text, pb)
<1>1. /\ IsAllSql(sql) /\ Shift \in Nat /\ b.first \in Nat /\ b.last \in Nat
      /\ \A k \in DOMAIN text : InBody(b, k) =>
             /\ At(k) \in DOMAIN sql
             /\ sql[At(k)] = Uncommented(text[k])
             /\ sql[At(k)].kind = text[k].kind
      /\ \A m \in DOMAIN sql :
             \/ m - Shift + b.first \in DOMAIN text /\ InBody(b, m - Shift + b.first)
             \/ m = 1 /\ sql[m].kind = "create"
             \/ m = Len(sql) /\ sql[m].kind = "end"
    BY TriedPlaces
<1>2. \A k : k \in Inner(pb) <=> k \in DOMAIN text /\ InBody(b, k)
    BY InnerIsBody
<1>3. text \in Seq(Lines) /\ DOMAIN text \subseteq Nat /\ \A k \in DOMAIN text : text[k] \in Lines
    BY DEF ScanInv, ScanTyped
<1> DEFINE Listed(k) == /\ k \in Inner(pb) /\ text[k].kind = "column"
                        /\ \A i \in Inner(pb) : i < k => text[i].kind # "end"
<1>4. L = {ColumnEntry(text[k]) : k \in {i \in Inner(pb) : Listed(i)}}
    BY DEF ListedColumns, ColumnEntry
<1>5. /\ Len(sql) \in Nat /\ DOMAIN sql = 1..Len(sql)
      /\ \A i \in DOMAIN sql : IsSql(sql[i])
    BY <1>1 DEF IsAllSql
<1> HIDE DEF b, sql, pb, L
<1>6. CASE TableEnds(sql) = {}
  <2>1. ASSUME NEW k, Listed(k) PROVE FALSE
    <3>1. sql[At(k)].kind = "column" /\ At(k) \in DOMAIN sql
        BY <1>1, <1>2, <2>1
    <3> QED
        BY <1>1, <1>6, <3>1, ColumnsNeedTable
  <2>2. L = {}
      BY <1>4, <2>1
  <2> QED
      BY <1>6, <2>2 DEF b, sql, pb, L
<1>7. CASE TableEnds(sql) # {}
  <2> DEFINE e == FirstTableEnd(sql)
             Early == {k \in 1..(e - 1) : sql[k].kind = "column"}
  <2>1. e \in TableEnds(sql) /\ \A f \in TableEnds(sql) : e <= f
    <3>1. TableEnds(sql) \in SUBSET Nat
        BY <1>5 DEF TableEnds, StatementEnds
    <3> QED
        BY <1>7, <3>1, LeastElement DEF FirstTableEnd
  <2>2. Sql(StatementLines(sql, e), "column") = {sql[i] : i \in Early}
      BY <1>1, <1>7, ColumnsBeforeEnd
  <2>3. e \in DOMAIN sql /\ sql[e].kind = "end" /\ e \in Nat
      BY <1>5, <2>1 DEF TableEnds, StatementEnds
  <2>4. \A i \in DOMAIN sql : sql[i].kind = "end" => e <= i
      BY <1>5, <2>1 DEF TableEnds, StatementEnds
  <2> HIDE DEF e
  <2>5. ASSUME NEW k, Listed(k)
        PROVE  At(k) \in Early /\ ColumnEntry(sql[At(k)]) = ColumnEntry(text[k])
    <3>1. /\ At(k) \in DOMAIN sql /\ sql[At(k)] = Uncommented(text[k])
          /\ sql[At(k)].kind = "column" /\ k \in DOMAIN text /\ InBody(b, k) /\ k \in Nat
        BY <1>1, <1>2, <1>3, <2>5
    <3>2. ColumnEntry(sql[At(k)]) = ColumnEntry(text[k])
        BY <1>3, <2>5, <3>1, EntryKept
    <3>3. ~(e < At(k))
      <4> SUFFICES ASSUME e < At(k) PROVE FALSE
          OBVIOUS
      <4> DEFINE i == e - Shift + b.first
      <4>1. i \in Inner(pb)
        <5>1. e # Len(sql)
            BY <1>5, <2>3, <3>1
        <5> QED
            BY <1>1, <1>2, <2>3, <5>1
      <4>2. i < k
          BY <1>1, <2>3, <3>1
      <4>3. At(i) = e
          BY <1>1, <2>3
      <4>4. text[i].kind = "end"
          BY <1>1, <1>2, <2>3, <4>1, <4>3
      <4> QED
          BY <2>5, <4>1, <4>2, <4>4
    <3>4. At(k) # e
        BY <2>3, <3>1
    <3>5. At(k) \in 1..(e - 1)
        BY <1>5, <2>3, <3>1, <3>3, <3>4
    <3> QED
        BY <3>1, <3>2, <3>5
  <2>6. ASSUME NEW m \in Early
        PROVE  \E k : Listed(k) /\ ColumnEntry(sql[m]) = ColumnEntry(text[k])
    <3> DEFINE k == m - Shift + b.first
    <3>1. m \in DOMAIN sql /\ sql[m].kind = "column" /\ m < e /\ m \in Nat
        BY <1>5, <2>3
    <3>2. k \in DOMAIN text /\ InBody(b, k) /\ k \in Inner(pb)
        BY <1>1, <1>2, <3>1
    <3>3. At(k) = m
        BY <1>1, <3>1
    <3> HIDE DEF k
    <3>4. sql[m] = Uncommented(text[k]) /\ text[k].kind = "column"
        BY <1>1, <3>1, <3>2, <3>3
    <3>5. ASSUME NEW i \in Inner(pb), i < k, text[i].kind = "end"
          PROVE  FALSE
      <4>1. At(i) \in DOMAIN sql /\ sql[At(i)].kind = "end" /\ i \in Nat /\ k \in Nat
          BY <1>1, <1>2, <1>3, <3>2, <3>5
      <4>2. At(i) < m
          BY <1>1, <3>3, <3>5, <4>1
      <4>3. e <= At(i)
          BY <2>4, <4>1
      <4> QED
          BY <1>1, <2>3, <3>1, <4>1, <4>2, <4>3
    <3>6. ColumnEntry(sql[m]) = ColumnEntry(text[k])
        BY <1>3, <3>2, <3>4, EntryKept
    <3> QED
        BY <3>2, <3>4, <3>5, <3>6
  <2>7. L = {ColumnEntry(l) : l \in {sql[i] : i \in Early}}
    <3>1. ASSUME NEW c \in L PROVE c \in {ColumnEntry(l) : l \in {sql[i] : i \in Early}}
      <4>1. PICK k : Listed(k) /\ c = ColumnEntry(text[k])
          BY <1>4
      <4> QED
          BY <2>5, <4>1
    <3>2. ASSUME NEW c \in {ColumnEntry(l) : l \in {sql[i] : i \in Early}} PROVE c \in L
      <4>1. PICK m \in Early : c = ColumnEntry(sql[m])
          OBVIOUS
      <4>2. PICK k : Listed(k) /\ ColumnEntry(sql[m]) = ColumnEntry(text[k])
          BY <2>6
      <4> QED
          BY <1>4, <4>1, <4>2
    <3> QED
        BY <3>1, <3>2
  <2> QED
      BY <1>7, <2>2, <2>7 DEF b, sql, pb, L, e
<1> QED
    BY <1>6, <1>7
LEMMA NetOfKinds ==
    ASSUME NEW l
    PROVE  /\ l.kind \in {"column", "constraint"} => NetParenDepth(l) = 0
           /\ l.kind = "end" => NetParenDepth(l) = -1
    BY Zenon DEF NetParenDepth

\* In a table a block holds columns and constraints only: a ");" among them
\* would have closed it.
LEMMA TableBodyKinds ==
    ASSUME ScanInv, PairsInv, inTable, NEW j \in DOMAIN found, BodyParses(found[j]),
           NEW k \in DOMAIN text, InBody(found[j], k)
    PROVE  text[k].kind \in {"column", "constraint"}
<1> DEFINE b == found[j]
           sql == Tried(b)
           At(i) == i - b.first + Shift
           Bad == {i \in DOMAIN text : InBody(b, i) /\ text[i].kind \notin {"column", "constraint"}}
<1> SUFFICES ASSUME Bad # {} PROVE FALSE
    OBVIOUS
<1>1. /\ IsAllSql(sql) /\ b.first \in Nat /\ b.last \in Nat
      /\ \A i \in DOMAIN text : InBody(b, i) =>
             /\ At(i) \in DOMAIN sql
             /\ sql[At(i)].kind = text[i].kind
      /\ \A m \in DOMAIN sql :
             \/ m - Shift + b.first \in DOMAIN text /\ InBody(b, m - Shift + b.first)
             \/ m = 1 /\ sql[m].kind = "create"
             \/ m = Len(sql) /\ sql[m].kind = "end"
    BY TriedPlaces
<1>2. sql[1].kind = "create" /\ Shift = 1 /\ 1 \in DOMAIN sql
  <2>1. sql[1] = CreateProbe /\ Shift = 1 /\ Inside(b) \in Nat
        /\ Len(sql) = Inside(b) + Shift + Shift /\ sql \in Seq(TextLines)
      BY TriedLines DEF Shift
  <2> HIDE DEF sql, b
  <2>2. 1 \in DOMAIN sql
      BY <2>1
  <2> QED
      BY <2>1, <2>2 DEF CreateProbe
<1>3. text \in Seq(Lines) /\ Len(text) \in Nat /\ DOMAIN text = 1..Len(text)
    BY DEF ScanInv, ScanTyped
<1>4. /\ b.first \in DOMAIN text /\ b.last \in DOMAIN text
      /\ IsOpening(text[b.first]) /\ IsBlock(text, b.first, b.last)
    BY FoundInPart, PartFacts DEF ScanInv, BlocksApart, Delimited
<1>5. Len(sql) \in Nat /\ DOMAIN sql = 1..Len(sql) /\ \A i \in DOMAIN sql : IsSql(sql[i])
    BY <1>1 DEF IsAllSql
<1>a. Bad \in SUBSET Nat /\ \A i : i \in Bad <=> i \in DOMAIN text /\ InBody(b, i)
                                                 /\ text[i].kind \notin {"column", "constraint"}
    BY <1>3
<1> HIDE DEF b, sql, Bad
<1>6. PICK i \in Bad : \A m \in Bad : i <= m
    BY <1>a, LeastElement
<1>7. i \in DOMAIN text /\ b.first < i /\ i < b.last /\ i \in Nat /\ InBody(b, i)
    BY <1>3, <1>6, <1>a DEF InBody
<1>8. \A m \in (b.first + 1)..(i - 1) : text[m].kind \in {"column", "constraint"}
  <2> SUFFICES ASSUME NEW m \in (b.first + 1)..(i - 1)
               PROVE  text[m].kind \in {"column", "constraint"}
      OBVIOUS
  <2>1. m \in DOMAIN text /\ InBody(b, m) /\ ~(i <= m)
      BY <1>1, <1>3, <1>4, <1>7 DEF InBody
  <2> QED
      BY <1>6, <1>a, <2>1
<1>9. text[i].kind = "end"
  <2>1. At(i) \in DOMAIN sql /\ sql[At(i)].kind = text[i].kind /\ At(i) = i - b.first + 1
      BY <1>1, <1>2, <1>7
  <2>2. InTable(sql, At(i))
    <3>1. 1 \in 1..(At(i) - 1)
        BY <1>1, <1>7, <2>1
    <3>2. ASSUME NEW m \in (1 + 1)..(At(i) - 1)
          PROVE  sql[m].kind # "end"
      <4> DEFINE k0 == m - 1 + b.first
      <4>a. b.first \in Nat /\ i \in Nat
          BY <1>1, <1>7
      <4>b. m \in (1 + 1)..(i - b.first)
          BY <2>1, <3>2, <4>a
      <4>1. k0 \in (b.first + 1)..(i - 1) /\ k0 - b.first + 1 = m
          BY <4>a, <4>b
      <4> HIDE DEF k0
      <4>2. k0 \in DOMAIN text /\ InBody(b, k0)
          BY <1>1, <1>3, <1>4, <1>7, <4>1 DEF InBody
      <4>3. sql[At(k0)].kind = text[k0].kind /\ At(k0) = m
          BY <1>1, <1>2, <4>1, <4>2
      <4> QED
          BY <1>8, <4>1, <4>3
    <3> QED
        BY <1>2, <1>5, <3>1, <3>2 DEF InTable
  <2>3. sql[At(i)].kind \in {"column", "constraint", "end"}
      BY <1>1, <1>5, <2>1, <2>2 DEF IsAllSql, Parses, IsGrammatical
  <2> QED
      BY <1>6, <1>a, <2>1, <2>3
<1> DEFINE Off == {m \in b.first..(i - 1) : Balance(text, b.first, m) # 1}
<1>10. Off = {}
  <2> SUFFICES ASSUME Off # {} PROVE FALSE
      OBVIOUS
  <2>1. Off \in SUBSET Nat
      BY <1>1
  <2>2. PICK m \in Off : \A o \in Off : m <= o
      BY <2>1, LeastElement
  <2>3. Balance(text, b.first, b.first) = 1
      BY <1>3, <1>4, BalanceFacts, OpeningDoesNotClose
  <2>4. m \in (b.first + 1)..(i - 1) /\ m - 1 \in b.first..(i - 1) /\ ~(m <= m - 1)
      BY <1>1, <1>7, <2>2, <2>3
  <2>5. Balance(text, b.first, m - 1) = 1
      BY <2>2, <2>4
  <2>6. NetParenDepth(text[m]) = 0
      BY <1>8, <2>4, NetOfKinds
  <2>7. m \in 1..Len(text) /\ b.first \in 1..Len(text)
      BY <1>3, <1>4, <1>7, <2>4
  <2>8. Balance(text, b.first, m) = Balance(text, b.first, m - 1) + NetParenDepth(text[m])
      BY <1>3, <2>7, BalanceFacts
  <2> QED
      BY <2>2, <2>5, <2>6, <2>8
<1>11. Balance(text, b.first, i - 1) = 1
  <2>1. i - 1 \in b.first..(i - 1)
      BY <1>1, <1>7
  <2> QED
      BY <1>10, <2>1
<1>12. Balance(text, b.first, i) = 0
  <2>1. Balance(text, b.first, i) = Balance(text, b.first, i - 1) + NetParenDepth(text[i])
      BY <1>3, <1>4, <1>7, BalanceFacts
  <2>2. NetParenDepth(text[i]) = -1
      BY <1>9, NetOfKinds
  <2> QED
      BY <1>11, <2>1, <2>2
<1>13. i \in b.first..(b.last - 1)
    BY <1>1, <1>7
<1> QED
    BY <1>4, <1>12, <1>13 DEF IsBlock

IsListedAs(holds, lines, p) ==
    /\ OneTypeIn(lines, p) => holds.columns = ListedColumns(lines, PairBlock(p))
    /\ holds.indexes = ListedIndexes(lines, PairBlock(p))

\* What is made of a block is what it lists.
LEMMA AnticipatedIsListed ==
    ASSUME ScanInv, PairsInv, NEW j \in DOMAIN found, BodyParses(found[j])
    PROVE  IsListedAs(Anticipated(found[j]), text, <<found[j].first, found[j].last>>)
<1> DEFINE b == found[j]
           p == <<b.first, b.last>>
           sql == Tried(b)
           ends == TableEnds(sql)
           first == FirstTableEnd(sql)
           lines == StatementLines(sql, first)
           table == DefinitionAt(sql, first)
           C == IF ends = {} THEN {}
                ELSE {[name |-> c, type |-> table.columns[c].type] : c \in DOMAIN table.columns}
           X == IF inTable THEN {} ELSE {NamedIndexOf(sql[i]) : i \in IndexEnds(sql)}
<1>1. Anticipated(b).columns = C /\ Anticipated(b).indexes = X
    BY DEF Anticipated
<1>2. ListedColumns(text, PairBlock(p)) =
          IF ends = {} THEN {} ELSE {ColumnEntry(l) : l \in Sql(lines, "column")}
    BY ListedAreTried
<1>3. ASSUME OneTypeIn(text, p)
      PROVE  C = ListedColumns(text, PairBlock(p))
  <2>1. CASE ends = {}
      BY <1>2, <2>1
  <2>2. CASE ends # {}
    <3>1. ASSUME NEW l \in Sql(lines, "column"), NEW m \in Sql(lines, "column"), l.name = m.name
          PROVE  ColumnType[l.type] = ColumnType[m.type]
      <4>1. /\ ColumnEntry(l) \in ListedColumns(text, PairBlock(p))
            /\ ColumnEntry(m) \in ListedColumns(text, PairBlock(p))
          BY <1>2, <2>2
      <4>2. /\ ColumnEntry(l).name = l.name /\ ColumnEntry(m).name = m.name
            /\ ColumnEntry(l).type = ColumnType[l.type] /\ ColumnEntry(m).type = ColumnType[m.type]
          BY DEF ColumnEntry
      <4> HIDE DEF lines, p
      <4> QED
          BY <1>3, <3>1, <4>1, <4>2 DEF OneTypeIn
    <3>2. table = Definition(TableName(sql, first), lines)
        BY DEF DefinitionAt
    <3> HIDE DEF table, lines
    <3>3. {[name |-> c, type |-> table.columns[c].type] : c \in DOMAIN table.columns}
              = {ColumnEntry(l) : l \in Sql(lines, "column")}
        BY <3>1, <3>2, DefinedColumns
    <3> QED
        BY <1>2, <2>2, <3>3
  <2> QED
      BY <2>1, <2>2
<1>4. X = ListedIndexes(text, PairBlock(p))
  <2>1. /\ IsAllSql(sql) /\ Shift \in Nat /\ b.first \in Nat
        /\ \A k \in DOMAIN text : InBody(b, k) =>
               /\ k - b.first + Shift \in DOMAIN sql
               /\ sql[k - b.first + Shift] = Uncommented(text[k])
               /\ sql[k - b.first + Shift].kind = text[k].kind
        /\ \A m \in DOMAIN sql :
               \/ m - Shift + b.first \in DOMAIN text /\ InBody(b, m - Shift + b.first)
               \/ m = 1 /\ sql[m].kind = "create"
               \/ m = Len(sql) /\ sql[m].kind = "end"
      BY TriedPlaces
  <2>2. \A k : k \in Inner(PairBlock(p)) <=> k \in DOMAIN text /\ InBody(b, k)
      BY InnerIsBody
  <2>3. ListedIndexes(text, PairBlock(p)) =
            {NamedIndexOf(text[k]) : k \in {i \in Inner(PairBlock(p)) : text[i].kind = "index"}}
      BY DEF ListedIndexes
  <2>4. CASE inTable
    <3>1. \A i \in Inner(PairBlock(p)) : text[i].kind # "index"
        BY <2>2, <2>4, TableBodyKinds
    <3> QED
        BY <2>3, <2>4, <3>1
  <2>5. CASE ~inTable
    <3>0. Shift = 0 /\ \A k \in DOMAIN text : text[k] \in Lines /\ k \in Nat
        BY <2>5 DEF Shift, ScanInv, ScanTyped
    <3>1. /\ DOMAIN sql \subseteq Nat
          /\ \A i : i \in IndexEnds(sql) <=> i \in DOMAIN sql /\ sql[i].kind = "index"
        BY <2>1 DEF IsAllSql, IndexEnds, StatementEnds
    <3> HIDE DEF sql, p, b
    <3>2. ASSUME NEW k \in Inner(PairBlock(p)), text[k].kind = "index"
          PROVE  NamedIndexOf(text[k]) \in {NamedIndexOf(sql[i]) : i \in IndexEnds(sql)}
      <4>1. k - b.first + Shift \in IndexEnds(sql) /\ sql[k - b.first + Shift] = Uncommented(text[k])
          BY <2>1, <2>2, <3>1, <3>2
      <4>2. NamedIndexOf(Uncommented(text[k])) = NamedIndexOf(text[k])
          BY <2>2, <3>0, <3>2, EntryKept
      <4> QED
          BY <4>1, <4>2
    <3>3. ASSUME NEW i \in IndexEnds(sql)
          PROVE  NamedIndexOf(sql[i]) \in {NamedIndexOf(text[k]) : k \in
                     {m \in Inner(PairBlock(p)) : text[m].kind = "index"}}
      <4> DEFINE k == i - Shift + b.first
      <4>1. i \in DOMAIN sql /\ sql[i].kind = "index" /\ i \in Nat
          BY <3>1
      <4>2. k \in DOMAIN text /\ InBody(b, k) /\ k - b.first + Shift = i
          BY <2>1, <4>1
      <4> HIDE DEF k
      <4>3. sql[i] = Uncommented(text[k]) /\ text[k].kind = "index" /\ k \in Inner(PairBlock(p))
          BY <2>1, <2>2, <4>1, <4>2
      <4>4. NamedIndexOf(Uncommented(text[k])) = NamedIndexOf(text[k])
          BY <3>0, <4>2, <4>3, EntryKept
      <4> QED
          BY <4>3, <4>4
    <3>4. {NamedIndexOf(sql[i]) : i \in IndexEnds(sql)} =
              {NamedIndexOf(text[k]) : k \in {m \in Inner(PairBlock(p)) : text[m].kind = "index"}}
        BY <3>2, <3>3
    <3> QED
        BY <2>3, <2>5, <3>4
  <2> QED
      BY <2>4, <2>5
<1> QED
    BY <1>1, <1>3, <1>4 DEF IsListedAs

-----------------------------------------------------------------------------
(* Every block of every file is heard in Rust, if need be by another one   *)
(* with its id and policy.                                                 *)

Heard(line) == \E b \in blocks : b.id = line.id /\ b.policy = line.policy

\* What the lines of SQL that parses are.
SqlKinds == {"create", "column", "constraint", "end", "index", "schema"}

HasSqlBody(lines, p) == \A i \in (p[1] + 1)..(p[2] - 1) : lines[i].kind \in SqlKinds

BlockFrom(lines, p) ==
    [from |-> p[1], id |-> lines[p[1]].id, policy |-> lines[p[1]].policy]

IsPassedOver(lines, p) == PassedOver(lines, BlockFrom(lines, p))
IsMistaken(lines, p) == Mistaken(lines, BlockFrom(lines, p))

LEMMA PassedOverIff ==
    ASSUME NEW lines, NEW p, NEW b, b.from = p[1], b.id = lines[p[1]].id,
           b.policy = lines[p[1]].policy
    PROVE  /\ PassedOver(lines, b) <=> IsPassedOver(lines, p)
           /\ Mistaken(lines, b) <=> IsMistaken(lines, p)
<1> DEFINE c == BlockFrom(lines, p)
<1>1. c.from = b.from /\ c.id = b.id /\ c.policy = b.policy
    BY DEF BlockFrom
<1> HIDE DEF c
<1>2. \A i : TakenFor(lines, b, i) <=> TakenFor(lines, c, i)
    BY <1>1 DEF TakenFor
<1>3. PassedOver(lines, b) <=> PassedOver(lines, c)
    BY <1>1, <1>2 DEF PassedOver
<1>4. Mistaken(lines, b) <=> Mistaken(lines, c)
    BY <1>1, <1>2, <1>3 DEF Mistaken
<1> QED
    BY <1>3, <1>4 DEF c, IsPassedOver, IsMistaken

\* The pair was taken with all that it lists.
IsListed(lines, p) ==
    \E b \in blocks : /\ b.id = lines[p[1]].id /\ b.policy = lines[p[1]].policy
                      /\ IsListedAs(b.holds, lines, p)

IsRead(lines, p) == HasSqlBody(lines, p) /\ IsListed(lines, p)

StatementHeard(lines, end) ==
    /\ \A i \in StatementStart(lines, end)..end : lines[i].kind = "open" => Heard(lines[i])
    /\ IsWellNested(lines, StatementStart(lines, end)..end)
    /\ \A p \in Outermost(Pairs(lines, StatementStart(lines, end)..end)) : IsRead(lines, p)

FileHeard(n) ==
    \A p \in BlocksOf(directory[n]) :
        /\ Heard(directory[n][p[1]]) \/ IsMistaken(directory[n], p)
        /\ IsRead(directory[n], p) \/ IsPassedOver(directory[n], p)

\* Where a scan belongs: of one statement after the other, then of the file.
ScansInOrder ==
    /\ phase \in {"tables", "file"} => current \notin unread
    /\ phase = "tables" /\ scan # "idle" => inTable /\ last \in DOMAIN directory[current]
    /\ phase = "file" =>
          scan # "idle" /\ ~inTable /\ last = Len(directory[current]) /\ statements = {}

StatementsHeard ==
    phase \in {"tables", "file"} =>
        \A e \in TableEnds(directory[current]) \ statements :
            \/ phase = "tables" /\ scan # "idle" /\ e = last
            \/ StatementHeard(directory[current], e)

FilesHeard ==
    /\ phase \in FirstPass => \A n \in DOMAIN directory \ unread :
          (phase \in {"tables", "file"} /\ n = current) \/ FileHeard(n)
    /\ phase \in SecondPass => \A n \in DOMAIN directory : FileHeard(n)

HeardInv == ScansInOrder /\ StatementsHeard /\ FilesHeard

LEMMA Enclosed ==
    ASSUME NEW S, NEW a \in S, NEW z \in S, NEW s \in Seq(S), NEW k \in 1..Len(s)
    PROVE  k + 1 \in DOMAIN (<<a>> \o s \o <<z>>) /\ (<<a>> \o s \o <<z>>)[k + 1] = s[k]
<1>1. <<a>> \o s \in Seq(S) /\ Len(<<a>> \o s) = Len(s) + 1 /\ Len(s) \in Nat
    OBVIOUS
<1>2. (<<a>> \o s)[k + 1] = s[k]
    OBVIOUS
<1> DEFINE t == <<a>> \o s
<1> HIDE DEF t
<1>3. t \in Seq(S) /\ Len(t) = Len(s) + 1 /\ t[k + 1] = s[k]
    BY <1>1, <1>2 DEF t
<1>4. Len(t \o <<z>>) = Len(t) + 1 /\ \A i \in 1..Len(t) : (t \o <<z>>)[i] = t[i]
    BY <1>3
<1>5. t \o <<z>> \in Seq(S)
    BY <1>3
<1> QED
    BY <1>1, <1>3, <1>4, <1>5 DEF t

LEMMA ParsedKinds ==
    ASSUME NEW sql, Parses(sql), NEW i \in DOMAIN sql, IsSql(sql[i])
    PROVE  sql[i].kind \in SqlKinds
    BY DEF Parses, IsGrammatical, SqlKinds

\* A body that parses has neither an opening line nor a directive in it.
LEMMA BodyIsSql ==
    ASSUME ScanInv, NEW j \in DOMAIN found, BodyParses(found[j]), NEW i \in DOMAIN text,
           found[j].first < i, i < found[j].last
    PROVE  text[i].kind \in SqlKinds
<1> DEFINE b == found[j]
           body == Body(b)
           k == i - b.first
<1>1. /\ b.first \in Nat /\ b.last \in Nat /\ i \in Nat /\ text \in Seq(Lines)
      /\ b.first \in DOMAIN text /\ b.last \in DOMAIN text
  <2>1. b.first \in Nat /\ b.last \in Nat
      BY FoundFacts DEF ScanInv
  <2>2. text \in Seq(Lines) /\ b.first \in DOMAIN text /\ b.last \in DOMAIN text
      BY DEF ScanInv, ScanTyped, BlocksApart, Delimited
  <2> QED
      BY <2>1, <2>2
<1>2. k \in 1..(b.last - b.first - 1)
    BY <1>1
<1>3. \A x \in 1..(b.last - b.first - 1) : b.first + x \in DOMAIN text
    BY <1>1
<1> DEFINE S == {CreateProbe, EndOfTable} \cup
                    {Uncommented(text[b.first + x]) : x \in 1..(b.last - b.first - 1)}
<1>4. /\ body \in Seq(S) /\ k \in 1..Len(body) /\ k \in DOMAIN body
      /\ body[k] = Uncommented(text[i])
    <2>1. body = [x \in 1..(b.last - b.first - 1) |-> Uncommented(text[b.first + x])]
        BY DEF Body
    <2>2. b.first + k = i /\ b.last - b.first - 1 \in Nat
        BY <1>1, <1>2
    <2> HIDE DEF body, k
    <2> QED
        BY <1>2, <2>1, <2>2
<1>5. \E m \in DOMAIN Tried(b) : Tried(b)[m] = Uncommented(text[i])
    <2>1. CASE inTable
      <3>1. Tried(b) = <<CreateProbe>> \o body \o <<EndOfTable>>
          BY <2>1 DEF Tried
      <3>2. CreateProbe \in S /\ EndOfTable \in S
          OBVIOUS
      <3> HIDE DEF S, body, k, b
      <3>3. k + 1 \in DOMAIN Tried(b) /\ Tried(b)[k + 1] = body[k]
          BY <1>4, <3>1, <3>2, Enclosed
      <3> QED
          BY <1>4, <3>3
    <2>2. CASE ~inTable
      <3>1. Tried(b) = body
          BY <2>2 DEF Tried
      <3> HIDE DEF body, k, b
      <3> QED
          BY <1>4, <3>1
    <2> QED
        BY <2>1, <2>2
<1> HIDE DEF b, k
<1>6. PICK m \in DOMAIN Tried(b) : Tried(b)[m] = Uncommented(text[i])
    BY <1>5
<1>7. IsSql(Tried(b)[m]) /\ Tried(b)[m].kind = text[i].kind
    BY <1>1, <1>6, UncommentedFacts
<1>8. Parses(Tried(b))
    BY DEF BodyParses, b
<1> QED
    BY <1>7, <1>8, ParsedKinds

\* So do the bodies of the blocks that a scan took.
LEMMA FoundHasSqlBody ==
    ASSUME ScanInv, NEW j \in DOMAIN found, BodyParses(found[j])
    PROVE  HasSqlBody(text, <<found[j].first, found[j].last>>)
<1>1. /\ found[j].first \in Nat /\ found[j].last \in Nat /\ text \in Seq(Lines)
      /\ found[j].first \in DOMAIN text /\ found[j].last \in DOMAIN text
    BY FoundFacts DEF ScanInv, ScanTyped, BlocksApart, Delimited
<1>2. ASSUME NEW i \in (found[j].first + 1)..(found[j].last - 1)
      PROVE  text[i].kind \in SqlKinds
  <2>1. i \in DOMAIN text /\ found[j].first < i /\ i < found[j].last
      BY <1>1
  <2> QED
      BY <2>1, BodyIsSql
<1> QED
    BY <1>2 DEF HasSqlBody

\* In a text that parses an opening line is a comment.
LEMMA OpeningIsComment ==
    ASSUME NEW lines \in Seq(Lines), Parses(lines), NEW i \in DOMAIN lines,
           lines[i].kind = "open"
    PROVE  IsOpening(lines[i])
<1>1. lines[i].comment \in BOOLEAN
    BY LineShape
<1>2. ~IsSql(lines[i])
    BY DEF Parses, IsGrammatical
<1> QED
    BY <1>1, <1>2 DEF IsSql, IsOpening

\* What was heard stays heard.
LEMMA HeardKept ==
    ASSUME blocks \subseteq blocks', directory' = directory
    PROVE  /\ \A line : Heard(line) => Heard(line)'
           /\ \A lines, p : IsRead(lines, p) => IsRead(lines, p)'
           /\ \A lines, end : StatementHeard(lines, end) => StatementHeard(lines, end)'
           /\ \A n : FileHeard(n) => FileHeard(n)'
<1>1. \A line : Heard(line) => Heard(line)'
    BY DEF Heard
<1>2. \A lines, p : IsRead(lines, p) => IsRead(lines, p)'
    BY DEF IsRead, IsListed
<1>3. ASSUME NEW lines, NEW end, StatementHeard(lines, end)
      PROVE  StatementHeard(lines, end)'
    BY <1>1, <1>2, <1>3 DEF StatementHeard
<1>4. ASSUME NEW n, FileHeard(n)
      PROVE  FileHeard(n)'
  <2>1. ASSUME NEW p \in BlocksOf(directory[n])
        PROVE  /\ (Heard(directory[n][p[1]]) \/ IsMistaken(directory[n], p))'
               /\ (IsRead(directory[n], p) \/ IsPassedOver(directory[n], p))'
    <3>1. /\ Heard(directory[n][p[1]]) \/ IsMistaken(directory[n], p)
          /\ IsRead(directory[n], p) \/ IsPassedOver(directory[n], p)
        BY <1>4 DEF FileHeard
    <3>2. Heard(directory[n][p[1]]) => Heard(directory[n][p[1]])'
        BY DEF Heard
    <3>3. IsRead(directory[n], p) => IsRead(directory[n], p)'
        BY <1>2 DEF IsRead, IsListed
    <3>4. /\ IsPassedOver(directory[n], p) => IsPassedOver(directory[n], p)'
          /\ IsMistaken(directory[n], p) => IsMistaken(directory[n], p)'
        BY DEF IsPassedOver, IsMistaken, PassedOver, Mistaken, TakenFor, BlockFrom, InStatement
    <3> QED
        BY <3>1, <3>2, <3>3, <3>4
  <2> QED
      BY <2>1 DEF FileHeard
<1> QED
    BY <1>1, <1>2, <1>3, <1>4

\* Why the blocks of a scan are those of its text.
Taken ==
    /\ IInv /\ PairsInv /\ scan = "ok"
    /\ \A b \in Fresh : BodyParses(b) /\ Built(b) \in blocks'

LEMMA FreshIsHeard ==
    ASSUME Taken, NEW j \in DOMAIN found, found[j] \in Fresh,
           NEW line, line = text[found[j].first]
    PROVE  Heard(line)'
<1>1. Built(found[j]) \in blocks'
    BY DEF Taken
<1>2. Built(found[j]).id = found[j].id /\ Built(found[j]).policy = found[j].policy
    BY DEF Built
<1>3. found[j].id = line.id /\ found[j].policy = line.policy
    BY DEF Taken, IInv, ScanInv, BlocksApart, Delimited
<1>4. \E b \in blocks' : b.id = line.id /\ b.policy = line.policy
    BY <1>1, <1>2, <1>3
<1> QED
    BY <1>4 DEF Heard

LEMMA FreshIsRead ==
    ASSUME Taken, NEW j \in DOMAIN found, found[j] \in Fresh, NEW lines, lines = text,
           NEW p, p = <<found[j].first, found[j].last>>
    PROVE  IsRead(lines, p)'
<1> DEFINE b == found[j]
<1>1. BodyParses(b) /\ ScanInv /\ PairsInv
    BY DEF Taken, IInv
<1>2. Built(b) \in blocks'
    BY DEF Taken
<1>3. /\ Built(b).id = b.id /\ Built(b).policy = b.policy
      /\ Built(b).holds = Anticipated(b)
    BY <1>1 DEF Built
<1>4. b.id = text[b.first].id /\ b.policy = text[b.first].policy
    BY <1>1 DEF ScanInv, BlocksApart, Delimited
<1>5. IsListedAs(Anticipated(b), lines, p)
    BY <1>1, AnticipatedIsListed
<1>6. HasSqlBody(lines, p)
    BY <1>1, FoundHasSqlBody
<1> HIDE DEF b
<1>7. p[1] = b.first
    BY DEF b
<1>8. \E c \in blocks' : /\ c.id = lines[p[1]].id /\ c.policy = lines[p[1]].policy
                         /\ IsListedAs(c.holds, lines, p)
    BY <1>2, <1>3, <1>4, <1>5, <1>7
<1>9. HasSqlBody(lines, p)'
    BY <1>6 DEF HasSqlBody
<1> QED
    BY <1>8, <1>9 DEF IsRead, IsListed

\* Every opening line of a statement is that of a block that is taken: one
\* within a block would not parse there.
LEMMA StatementIsHeard ==
    ASSUME Taken, inTable, Parses(text), NEW i \in StatementStart(text, last)..last,
           NEW line, line = text[i], line.kind = "open"
    PROVE  Heard(line)'
<1>1. /\ ScanInv /\ PairsInv /\ opened = NoBlock /\ cursor = last + 1
      /\ PartStart = StatementStart(text, last)
    BY PartFacts DEF Taken, IInv, PairsInv, StoppedRightly, PartStart
<1>2. /\ i \in Part /\ i \in DOMAIN text /\ i \in PartStart..(cursor - 1) /\ i \in Nat
      /\ text \in Seq(Lines)
    BY <1>1, PartFacts DEF Part
<1>3. IsOpening(text[i])
    BY <1>2, OpeningIsComment
<1>4. PICK j \in DOMAIN found : found[j].first <= i /\ i <= found[j].last
    BY <1>1, <1>2, <1>3 DEF PairsInv, OpeningsAreCovered
<1>5. found[j] \in Fresh
    BY DEF Fresh, Elements
<1>6. i # found[j].last
  <2>1. IsClosing(text[found[j].last])
      BY <1>1 DEF ScanInv, BlocksApart, Delimited
  <2> QED
      BY <1>3, <2>1, OpeningDoesNotClose
<1>7. /\ found[j].first \in Nat /\ found[j].last \in Nat
    BY <1>1, FoundFacts DEF ScanInv
<1>8. ~(found[j].first < i)
  <2>1. BodyParses(found[j])
      BY <1>5 DEF Taken
  <2>2. found[j].first < i => i < found[j].last
      BY <1>2, <1>4, <1>6, <1>7
  <2> QED
      BY <1>1, <1>2, <2>1, <2>2, BodyIsSql DEF SqlKinds
<1>9. found[j].first = i
    BY <1>2, <1>4, <1>7, <1>8
<1> QED
    BY <1>5, <1>9, FreshIsHeard

\* Every line lies in an outermost pair if it lies in a pair.
LEMMA OutermostAround ==
    ASSUME NEW lines \in Seq(Lines), NEW part \in SUBSET DOMAIN lines,
           NEW p \in Pairs(lines, part), NEW i \in p[1]..p[2]
    PROVE  \E q \in Outermost(Pairs(lines, part)) : i \in q[1]..q[2]
<1> DEFINE Around(q) == q \in Pairs(lines, part) /\ i \in q[1]..q[2]
           S == {k \in DOMAIN lines : \E q : Around(q) /\ q[1] = k}
<1>1. \A q \in Pairs(lines, part) : q[1] \in DOMAIN lines /\ q[2] \in DOMAIN lines
    BY DEF Pairs
<1>2. DOMAIN lines \subseteq Nat
    OBVIOUS
<1>3. S \in SUBSET Nat /\ S # {}
  <2>1. Around(p) /\ p[1] \in DOMAIN lines
      BY <1>1
  <2>2. p[1] \in S
      BY <2>1
  <2> QED
      BY <1>2, <2>2
<1>4. \A q : Around(q) => q[1] \in S
    BY <1>1
<1>5. \A k \in S : \E q : Around(q) /\ q[1] = k
    OBVIOUS
<1> HIDE DEF S
<1>6. PICK k \in S : \A j \in S : k <= j
    BY <1>3, LeastElement
<1>7. PICK q : Around(q) /\ q[1] = k
    BY <1>5
<1>8. ASSUME NEW r \in Pairs(lines, part), r[1] < q[1], q[2] < r[2]
      PROVE  FALSE
  <2>1. /\ r[1] \in Nat /\ r[2] \in Nat /\ q[1] \in Nat /\ q[2] \in Nat /\ i \in q[1]..q[2]
      BY <1>1, <1>2, <1>7
  <2>2. Around(r)
      BY <1>8, <2>1
  <2>3. q[1] <= r[1]
      BY <1>4, <1>6, <1>7, <2>2
  <2> QED
      BY <1>8, <2>1, <2>3
<1> QED
    BY <1>7, <1>8 DEF Outermost

LEMMA StatementIsRead ==
    ASSUME Taken, inTable, NEW lines, lines = text
    PROVE  /\ IsWellNested(text, StatementStart(text, last)..last)
           /\ \A p \in Outermost(Pairs(text, StatementStart(text, last)..last)) : IsRead(lines, p)'
<1>1. ScanInv /\ PairsInv /\ scan = "ok"
    BY DEF Taken, IInv
<1>2. Part = StatementStart(text, last)..last
    BY DEF Part, PartStart
<1>3. ASSUME NEW p \in Outermost(Pairs(text, Part))
      PROVE  IsRead(lines, p)'
  <2>1. p \in {<<b.first, b.last>> : b \in Elements(found)}
      BY <1>1, ScanThatEnds
  <2>2. PICK j \in DOMAIN found : p = <<found[j].first, found[j].last>>
      BY <2>1 DEF Elements
  <2>3. found[j] \in Fresh
      BY DEF Fresh, Elements
  <2> QED
      BY <2>2, <2>3, FreshIsRead
<1> QED
    BY <1>1, <1>2, <1>3, ScanThatEnds

\* A block of the file that begins in a statement that was scanned is one of
\* the statement: the lines of a body are SQL, so that no block begins there.
LEMMA BlockOfStatement ==
    ASSUME NEW lines \in Seq(Lines), NEW p \in Pairs(lines, DOMAIN lines),
           NEW e \in TableEnds(lines), StatementHeard(lines, e),
           p[1] \in StatementStart(lines, e)..e
    PROVE  p \in Outermost(Pairs(lines, StatementStart(lines, e)..e))
<1> DEFINE part == StatementStart(lines, e)..e
<1>0. /\ DOMAIN lines \subseteq Nat /\ p = <<p[1], p[2]>> /\ p[1] < p[2]
      /\ p[1] \in DOMAIN lines /\ p[2] \in DOMAIN lines /\ IsBlock(lines, p[1], p[2])
    BY DEF Pairs
<1>1. part \in SUBSET DOMAIN lines
  <2>1. e \in DOMAIN lines /\ Len(lines) \in Nat /\ DOMAIN lines = 1..Len(lines)
      BY DEF TableEnds, StatementEnds
  <2>2. StatementStart(lines, e) \in 1..e
      BY <2>1, StatementStartFacts
  <2> QED
      BY <2>1, <2>2
<1>2. IsWellNested(lines, part) /\ \A q \in Outermost(Pairs(lines, part)) : HasSqlBody(lines, q)
    BY DEF StatementHeard, IsRead
<1>3. p[1] \in part
    OBVIOUS
<1> HIDE DEF part
<1>4. IsOpening(lines[p[1]])
    BY <1>0 DEF IsBlock
<1>5. PICK r \in Pairs(lines, part) : p[1] \in r[1]..r[2]
    BY <1>2, <1>3, <1>4 DEF IsWellNested
<1>6. PICK q \in Outermost(Pairs(lines, part)) : p[1] \in q[1]..q[2]
    BY <1>1, <1>5, OutermostAround
<1>7. /\ q = <<q[1], q[2]>> /\ q[1] \in DOMAIN lines /\ q[2] \in DOMAIN lines
      /\ q[1] < q[2] /\ IsBlock(lines, q[1], q[2])
    BY <1>1 DEF Outermost, Pairs
<1>8. p[1] # q[2]
    BY <1>4, <1>7, OpeningDoesNotClose DEF IsBlock
<1>9. p[1] \notin (q[1] + 1)..(q[2] - 1)
    BY <1>2, <1>4 DEF HasSqlBody, SqlKinds, IsOpening
<1>10. p[1] = q[1]
    BY <1>0, <1>6, <1>7, <1>8, <1>9
<1>11. p[2] = q[2]
    BY <1>0, <1>7, <1>10, OneClosing
<1> QED
    BY <1>0, <1>6, <1>7, <1>10, <1>11 DEF part

\* Every block of a file is taken or passed over for one of a statement, which
\* has its id and policy unless the two ids differ in case.
LEMMA FileIsHeard ==
    ASSUME Taken, ~inTable, last = Len(text), text = directory[current],
           directory' = directory, current' = current, text' = text,
           blocks \subseteq blocks',
           \A e \in TableEnds(text) : StatementHeard(text, e),
           NEW lines, lines = text
    PROVE  FileHeard(current)'
<1>1. ScanInv /\ PairsInv /\ text \in Seq(Lines)
    BY PartFacts DEF Taken, IInv
<1>2. Part = DOMAIN text
    BY <1>1 DEF Part, PartStart
<1>3. ASSUME NEW p \in Outermost(Pairs(text, DOMAIN text)), NEW line, line = text[p[1]]
      PROVE  /\ Heard(line)' \/ IsMistaken(text, p)
             /\ IsRead(lines, p)' \/ IsPassedOver(text, p)
  <2>1. p \in {<<b.first, b.last>> : b \in Elements(found)}
      BY <1>1, <1>2, ScanThatEnds DEF Taken
  <2>2. PICK j \in DOMAIN found : p = <<found[j].first, found[j].last>>
      BY <2>1 DEF Elements
  <2>3. CASE found[j] \in Fresh
    <3>1. Heard(line)'
        BY <1>3, <2>2, <2>3, FreshIsHeard
    <3>2. IsRead(lines, p)'
        BY <2>2, <2>3, FreshIsRead
    <3> QED
        BY <3>1, <3>2
  <2>4. CASE found[j] \notin Fresh
    <3>1. OpenedInTable(found[j])
        BY <2>4 DEF Fresh, Elements
    <3>2. PICK e \in TableEnds(text) : \E l \in StatementLines(text, e) :
              /\ l.kind = "open" /\ l.plain
              /\ Uppercase[l.id] = Uppercase[found[j].id] /\ l.policy = found[j].policy
        BY <3>1 DEF OpenedInTable
    <3>3. PICK i \in StatementStart(text, e)..e :
              /\ text[i].kind = "open" /\ text[i].plain
              /\ Uppercase[text[i].id] = Uppercase[found[j].id]
              /\ text[i].policy = found[j].policy
        BY <3>2 DEF StatementLines
    <3>4. line.id = found[j].id /\ line.policy = found[j].policy /\ line.kind = "open"
        BY <1>1, <1>3, <2>2 DEF ScanInv, BlocksApart, Delimited, IsOpening
    <3>5. ASSUME NEW k, NEW g \in TableEnds(text), k \in StatementStart(text, g)..g,
                 text[k].kind = "open", text[k].id = line.id, text[k].policy = line.policy
          PROVE  Heard(line)'
      <4>1. Heard(text[k])
          BY <3>5 DEF StatementHeard
      <4>2. \E b \in blocks' : b.id = line.id /\ b.policy = line.policy
          BY <3>5, <4>1 DEF Heard
      <4> QED
          BY <4>2 DEF Heard
    <3>6. CASE InStatement(text, p[1])
      <4>1. PICK f \in TableEnds(text) : p[1] \in StatementStart(text, f)..f
          BY <3>6 DEF InStatement
      <4>2. p \in Pairs(text, DOMAIN text)
          BY DEF Outermost
      <4>3. IsRead(lines, p)
          BY <1>1, <4>1, <4>2, BlockOfStatement DEF StatementHeard
      <4>4. IsRead(lines, p)'
          BY <4>3, HeardKept
      <4>5. Heard(line)'
          BY <1>3, <3>4, <3>5, <4>1
      <4> QED
          BY <4>4, <4>5
    <3>7. CASE ~InStatement(text, p[1])
      <4> DEFINE c == BlockFrom(text, p)
      <4>1. i \in DOMAIN text
        <5>1. e \in DOMAIN text /\ Len(text) \in Nat /\ DOMAIN text = 1..Len(text)
            BY <1>1 DEF TableEnds, StatementEnds
        <5>2. StatementStart(text, e) \in 1..e
            BY <1>1, <5>1, StatementStartFacts
        <5> QED
            BY <3>3, <5>1, <5>2
      <4>2. c.from = p[1] /\ c.id = line.id /\ c.policy = line.policy
          BY <1>3 DEF BlockFrom
      <4> HIDE DEF c
      <4>3. TakenFor(text, c, i)
          BY <3>3, <3>4, <4>2 DEF TakenFor, InStatement
      <4>4. PassedOver(text, c)
          BY <3>7, <4>1, <4>2, <4>3 DEF PassedOver
      <4>5. IsPassedOver(text, p)
          BY <4>4 DEF IsPassedOver, c
      <4>6. CASE Mistaken(text, c)
          BY <4>5, <4>6 DEF IsMistaken, c
      <4>7. CASE ~Mistaken(text, c)
        <5>1. PICK k \in DOMAIN text : TakenFor(text, c, k) /\ text[k].id = c.id
            BY <4>4, <4>7 DEF Mistaken
        <5>2. PICK g \in TableEnds(text) : k \in StatementStart(text, g)..g
            BY <5>1 DEF TakenFor, InStatement
        <5>3. /\ text[k].kind = "open" /\ text[k].id = line.id
              /\ text[k].policy = line.policy
            BY <4>2, <5>1 DEF TakenFor
        <5> QED
            BY <3>5, <4>5, <5>2, <5>3
      <4> QED
          BY <4>6, <4>7
    <3> QED
        BY <3>6, <3>7
  <2> QED
      BY <2>3, <2>4
<1>4. ASSUME NEW e \in TableEnds(text),
             NEW p \in Outermost(Pairs(text, StatementStart(text, e)..e)),
             NEW line, line = text[p[1]]
      PROVE  Heard(line)' /\ IsRead(lines, p)'
  <2>1. p[1] \in StatementStart(text, e)..e /\ line.kind = "open"
      BY <1>4 DEF Outermost, Pairs, IsBlock, IsOpening
  <2>2. Heard(line)
      BY <1>4, <2>1 DEF StatementHeard
  <2>3. IsRead(lines, p)
      BY <1>4 DEF StatementHeard
  <2> QED
      BY <2>2, <2>3, HeardKept
<1>5. BlocksOf(directory[current])' = BlocksOf(text)
    BY DEF BlocksOf, Parts, Outermost, Pairs, IsBlock, Balance, RunningTotal
<1>6. \A p \in BlocksOf(text) : \A line : line = text[p[1]] =>
          /\ Heard(line)' \/ IsMistaken(text, p)
          /\ IsRead(lines, p)' \/ IsPassedOver(text, p)
    BY <1>3, <1>4 DEF BlocksOf, Parts
<1>7. \A p \in BlocksOf(text) : Heard(directory[current][p[1]])' \/ IsMistaken(text, p)
    BY <1>6 DEF Heard
<1>8. directory[current]' = text
    OBVIOUS
<1>9. ASSUME NEW p
      PROVE  /\ IsRead(lines, p)' => IsRead(directory[current], p)'
             /\ IsPassedOver(text, p) => IsPassedOver(directory[current], p)'
             /\ IsMistaken(text, p) => IsMistaken(directory[current], p)'
  <2>1. IsRead(lines, p)' => IsRead(directory[current], p)'
      BY <1>8 DEF IsRead, IsListed, HasSqlBody
  <2>2. ASSUME NEW i
        PROVE  InStatement(directory[current], i)' <=> InStatement(text, i)
      BY <1>8 DEF InStatement, TableEnds, StatementEnds, StatementStart
  <2>3. /\ IsPassedOver(text, p) => IsPassedOver(directory[current], p)'
        /\ IsMistaken(text, p) => IsMistaken(directory[current], p)'
      BY <1>8, <2>2 DEF IsPassedOver, IsMistaken, PassedOver, Mistaken, TakenFor, BlockFrom
  <2> QED
      BY <2>1, <2>3
<1>10. ASSUME NEW p \in BlocksOf(directory[current])'
       PROVE  /\ Heard(directory[current][p[1]])' \/ IsMistaken(directory[current], p)'
              /\ IsRead(directory[current], p)' \/ IsPassedOver(directory[current], p)'
  <2>1. p \in BlocksOf(text)
      BY <1>5, <1>10
  <2>2. Heard(directory[current][p[1]])' \/ IsMistaken(directory[current], p)'
      BY <1>7, <1>9, <2>1
  <2>3. IsRead(lines, p)' \/ IsPassedOver(text, p)
      BY <1>6, <2>1
  <2>4. IsRead(directory[current], p)' \/ IsPassedOver(directory[current], p)'
      BY <1>9, <2>3
  <2> QED
      BY <2>2, <2>4
<1> QED
    BY <1>10 DEF FileHeard

LEMMA InitHeard ==
    Init => HeardInv
    BY DEF Init, ScanIdle, HeardInv, ScansInOrder, StatementsHeard, FilesHeard, FirstPass, SecondPass

LEMMA ReadFileHeard ==
    ASSUME ~Go, IInv, HeardInv, NEW n \in unread, ReadFile(n)
    PROVE  HeardInv'
<1>1. /\ phase = "files" /\ phase' = "tables" /\ unread' = unread \ {n} /\ current' = n
      /\ statements' = TableEnds(directory[n])
      /\ UNCHANGED <<scanVars, directory, blocks>>
    BY DEF ReadFile, ScannedStatements
<1>2. scan = "idle" /\ scan' = "idle" /\ n \in DOMAIN directory
    BY <1>1 DEF IInv, LoadInv, Reading, scanVars
<1>3. ScansInOrder'
    BY <1>1, <1>2 DEF ScansInOrder
<1>4. StatementsHeard'
  <2>1. \A e : e \in TableEnds(directory[n]) => e \in statements'
      BY <1>1
  <2>2. TableEnds(directory[current])' = TableEnds(directory[n])
      BY <1>1 DEF TableEnds, StatementEnds
  <2> QED
      BY <2>1, <2>2 DEF StatementsHeard
<1>5. FilesHeard'
  <2>1. \A m \in DOMAIN directory \ unread : FileHeard(m)'
      BY <1>1, HeardKept DEF HeardInv, FilesHeard, FirstPass
  <2> QED
      BY <1>1, <2>1 DEF FilesHeard, FirstPass, SecondPass
<1> QED
    BY <1>3, <1>4, <1>5 DEF HeardInv

LEMMA FailHeard ==
    ASSUME phase' = "failed"
    PROVE  HeardInv'
    BY DEF HeardInv, ScansInOrder, StatementsHeard, FilesHeard, FirstPass, SecondPass

\* A scan begins or goes on.
LEMMA ScanningHeard ==
    ASSUME IInv, HeardInv, \/ \E end \in statements : ScanTable(end)
                           \/ ScanFile \/ Scan
    PROVE  HeardInv'
<1>1. /\ phase \in {"tables", "file"} /\ phase' \in {"tables", "file"} /\ scan' # "idle"
      /\ UNCHANGED <<directory, unread, current, blocks>>
    BY DEF ScanTable, ScanFile, Scan, loadVars, StartScan, ScanStep, SkipLine, OpenBlock,
           BodyLine, CloseBlock, FailScan, FinishScan, ScanFails, AtLine, IInv, LoadInv, Reading
<1>2. /\ \A lines, end : StatementHeard(lines, end) => StatementHeard(lines, end)'
      /\ \A n : FileHeard(n) => FileHeard(n)'
    BY <1>1, HeardKept
<1>3. FilesHeard'
    BY <1>1, <1>2 DEF HeardInv, FilesHeard, FirstPass, SecondPass
<1>4. ASSUME NEW end \in statements, ScanTable(end)
      PROVE  ScansInOrder' /\ StatementsHeard'
  <2>1. /\ phase = "tables" /\ phase' = "tables" /\ scan = "idle"
        /\ statements' = statements \ {end} /\ last' = end /\ inTable' = TRUE
      BY <1>4 DEF ScanTable, StartScan
  <2>2. end \in DOMAIN directory[current]
      BY <2>1 DEF IInv, LoadInv, Reading
  <2>3. ScansInOrder'
      BY <1>1, <2>1, <2>2 DEF HeardInv, ScansInOrder
  <2>4. ASSUME NEW e \in TableEnds(directory[current]) \ statements'
        PROVE  e = last' \/ StatementHeard(directory[current], e)
      BY <2>1 DEF HeardInv, StatementsHeard
  <2>5. StatementsHeard'
      BY <1>1, <1>2, <2>1, <2>4 DEF StatementsHeard
  <2> QED
      BY <2>3, <2>5
<1>5. ASSUME ScanFile
      PROVE  ScansInOrder' /\ StatementsHeard'
  <2>1. /\ phase = "tables" /\ phase' = "file" /\ scan = "idle" /\ statements = {}
        /\ statements' = {} /\ last' = Len(directory[current]) /\ inTable' = FALSE
      BY <1>5 DEF ScanFile, StartScan
  <2>2. ScansInOrder'
      BY <1>1, <2>1 DEF HeardInv, ScansInOrder
  <2>3. \A e \in TableEnds(directory[current]) : StatementHeard(directory[current], e)
      BY <2>1 DEF HeardInv, StatementsHeard
  <2>4. StatementsHeard'
      BY <1>1, <1>2, <2>1, <2>3 DEF StatementsHeard
  <2> QED
      BY <2>2, <2>4
<1>6. ASSUME Scan
      PROVE  ScansInOrder' /\ StatementsHeard'
  <2>1. /\ UNCHANGED <<phase, statements, last, inTable>> /\ scan # "idle"
      BY <1>6 DEF Scan, loadVars, ScanStep, SkipLine, OpenBlock, BodyLine, CloseBlock,
                  FailScan, FinishScan, ScanFails, AtLine, NextLine
  <2>2. ScansInOrder'
      BY <1>1, <2>1 DEF HeardInv, ScansInOrder
  <2>3. StatementsHeard'
      BY <1>1, <1>2, <2>1 DEF HeardInv, StatementsHeard
  <2> QED
      BY <2>2, <2>3
<1> QED
    BY <1>3, <1>4, <1>5, <1>6 DEF HeardInv

LEMMA TakeBlocksHeard ==
    ASSUME ~Go, IInv, PairsInv, HeardInv, TakeBlocks
    PROVE  HeardInv'
<1>1. /\ scan = "ok" /\ scan' = "idle" /\ phase' = AfterScan
      /\ \A b \in Fresh : BodyParses(b)
      /\ blocks' = blocks \cup {Built(b) : b \in Fresh}
      /\ UNCHANGED <<text, last, inTable, directory, unread, current, statements>>
    BY DEF TakeBlocks, ScanIsUsable
<1>2. Taken /\ blocks \subseteq blocks'
    BY <1>1 DEF Taken
<1>3. /\ phase \in {"tables", "file"} /\ text = directory[current]
      /\ current \in DOMAIN directory /\ current \notin unread
    BY <1>1 DEF IInv, LoadInv, Reading, HeardInv, ScansInOrder
<1>4. Parses(text)
    BY <1>3 DEF IInv, LoadInv, LastFileWins, Processed, FirstPass
<1>5. /\ \A lines, end : StatementHeard(lines, end) => StatementHeard(lines, end)'
      /\ \A n : FileHeard(n) => FileHeard(n)'
    BY <1>1, <1>2, HeardKept
<1>6. CASE phase = "tables"
  <2>1. inTable /\ phase' = "tables"
      BY <1>1, <1>6 DEF HeardInv, ScansInOrder, AfterScan
  <2>2. \A line : \A i \in StatementStart(text, last)..last :
            line = text[i] /\ line.kind = "open" => Heard(line)'
      BY <1>2, <1>4, <2>1, StatementIsHeard
  <2>3. StatementHeard(directory[current], last)'
    <3> DEFINE part == StatementStart(text, last)..last
    <3>1. /\ IsWellNested(text, part)
          /\ \A lines, p : lines = text /\ p \in Outermost(Pairs(text, part)) => IsRead(lines, p)'
        BY <1>2, <2>1, StatementIsRead
    <3>2. (\A i \in StatementStart(directory[current], last)..last :
               directory[current][i].kind = "open" => Heard(directory[current][i]))'
        BY <1>1, <1>3, <2>2 DEF Heard
    <3>3. (IsWellNested(directory[current], StatementStart(directory[current], last)..last))'
        BY <1>1, <1>3, <3>1
    <3>4. (\A p \in Outermost(Pairs(directory[current], StatementStart(directory[current], last)..last)) :
               IsRead(directory[current], p))'
      <4>1. \A p : (\A lines : lines = text => IsRead(lines, p)') => IsRead(directory[current], p)'
          BY <1>1, <1>3 DEF IsRead, IsListed, HasSqlBody
      <4> QED
          BY <1>1, <1>3, <3>1, <4>1
    <3> QED
        BY <3>2, <3>3, <3>4 DEF StatementHeard
  <2>4. StatementsHeard'
    <3>1. ASSUME NEW e \in TableEnds(directory[current]) \ statements
          PROVE  e = last \/ StatementHeard(directory[current], e)
        BY <1>6 DEF HeardInv, StatementsHeard
    <3> QED
        BY <1>1, <1>5, <2>1, <2>3, <3>1 DEF StatementsHeard
  <2>5. ScansInOrder'
      BY <1>1, <1>3, <2>1 DEF ScansInOrder
  <2>6. FilesHeard'
      BY <1>1, <1>5, <1>6, <2>1 DEF HeardInv, FilesHeard, FirstPass, SecondPass
  <2> QED
      BY <2>4, <2>5, <2>6 DEF HeardInv
<1>7. CASE phase = "file"
  <2>1. /\ ~inTable /\ phase' = "files" /\ last = Len(text) /\ statements = {}
      BY <1>1, <1>3, <1>7 DEF HeardInv, ScansInOrder, AfterScan
  <2>2. \A e \in TableEnds(text) : StatementHeard(text, e)
      BY <1>3, <1>7, <2>1 DEF HeardInv, StatementsHeard
  <2>3. FileHeard(current)'
      BY <1>1, <1>2, <1>3, <2>1, <2>2, FileIsHeard
  <2>4. FilesHeard'
    <3>1. \A n \in DOMAIN directory \ unread : n = current \/ FileHeard(n)
        BY <1>7 DEF HeardInv, FilesHeard, FirstPass
    <3> QED
        BY <1>1, <1>5, <2>1, <2>3, <3>1 DEF FilesHeard, FirstPass, SecondPass
  <2>5. ScansInOrder' /\ StatementsHeard'
      BY <2>1 DEF ScansInOrder, StatementsHeard
  <2> QED
      BY <2>4, <2>5 DEF HeardInv
<1> QED
    BY <1>3, <1>6, <1>7

\* The files are all read, or are read again.
LEMMA LaterHeard ==
    ASSUME HeardInv, Merge \/ Finish \/ \E n \in unread : ReadDirectives(n)
    PROVE  HeardInv'
<1>1. /\ phase' \in SecondPass \cup {"failed"} /\ UNCHANGED <<directory, blocks>>
      /\ phase \in SecondPass \/ (phase = "files" /\ unread = {})
    BY DEF Merge, Finish, ReadDirectives, Fail, SecondPass
<1>2. \A n \in DOMAIN directory : FileHeard(n)
    BY <1>1 DEF HeardInv, FilesHeard, FirstPass
<1>3. \A n \in DOMAIN directory : FileHeard(n)'
    BY <1>1, <1>2, HeardKept
<1>4. FilesHeard'
    BY <1>1, <1>3 DEF FilesHeard, FirstPass, SecondPass
<1>5. ScansInOrder' /\ StatementsHeard'
    BY <1>1 DEF ScansInOrder, StatementsHeard, SecondPass
<1> QED
    BY <1>4, <1>5 DEF HeardInv

LEMMA StutterHeard ==
    ASSUME HeardInv, UNCHANGED vars
    PROVE  HeardInv'
<1>1. UNCHANGED <<scan, last, inTable, directory, phase, unread, current, statements, blocks>>
    BY DEF vars, scanVars, loadVars
<1>2. /\ \A lines, end : StatementHeard(lines, end) => StatementHeard(lines, end)'
      /\ \A n : FileHeard(n) => FileHeard(n)'
    BY <1>1, HeardKept
<1>3. StatementsHeard' /\ FilesHeard'
    BY <1>1, <1>2 DEF HeardInv, StatementsHeard, FilesHeard
<1>4. ScansInOrder'
    BY <1>1 DEF HeardInv, ScansInOrder
<1> QED
    BY <1>3, <1>4 DEF HeardInv

LEMMA HeardInductive ==
    ASSUME ~Go
    PROVE  IInv /\ PairsInv /\ HeardInv /\ [Next]_vars => HeardInv'
<1> SUFFICES ASSUME IInv, PairsInv, HeardInv, [Next]_vars
             PROVE  HeardInv'
    OBVIOUS
<1>1. ASSUME NEW n \in unread, ReadFile(n) PROVE HeardInv'
    BY <1>1, ReadFileHeard
<1>2. ASSUME (\E n \in unread : UnparsedFile(n)) \/ BadBlocks \/ RefuseMerge
      PROVE  HeardInv'
    BY <1>2, FailHeard DEF UnparsedFile, BadBlocks, RefuseMerge, Fail
<1>3. ASSUME (\E end \in statements : ScanTable(end)) \/ ScanFile \/ Scan
      PROVE  HeardInv'
    BY <1>3, ScanningHeard
<1>4. CASE TakeBlocks
    BY <1>4, TakeBlocksHeard
<1>5. ASSUME Merge \/ Finish \/ \E n \in unread : ReadDirectives(n)
      PROVE  HeardInv'
    BY <1>5, LaterHeard
<1>6. CASE UNCHANGED vars
    BY <1>6, StutterHeard
<1> QED
    BY <1>1, <1>2, <1>3, <1>4, <1>5, <1>6 DEF Next, Read, FindBlocks

\* For every directory, if two blocks in it have one id and two policies, Rust
\* does not load it: no scan overlooks a block, a block of the file that is
\* passed over has its id and policy in a statement, and the statement's
\* blocks are taken (load_decorated_from_dir, merge_drift_groups). The blocks
\* that were taken for blocks of another id, which differs from theirs in
\* case, are excepted: the search for opening lines does not see the case.
THEOREM ConflictsAreNotLoaded ==
    ASSUME ~Go
    PROVE  Spec => []ConflictsStopTheLoad
<1>1. Init => HeardInv
    BY InitHeard
<1>2. IInv /\ PairsInv /\ HeardInv /\ [Next]_vars => HeardInv'
    BY HeardInductive
<1>3. ASSUME IInv, HeardInv, phase = "done",
             TwoPolicies({b \in AllBlocks(directory) : ~Mistaken(directory[b.file], b)})
      PROVE  FALSE
  <2>1. PICK b, c \in {d \in AllBlocks(directory) : ~Mistaken(directory[d.file], d)} :
            b.id = c.id /\ b.policy # c.policy
      BY <1>3 DEF TwoPolicies
  <2>2. ASSUME NEW d \in AllBlocks(directory), ~Mistaken(directory[d.file], d)
        PROVE  Heard(d)
    <3>1. PICK n \in DOMAIN directory : \E p \in BlocksOf(directory[n]) :
              d = [file |-> n, from |-> p[1], to |-> p[2],
                   id |-> directory[n][p[1]].id, policy |-> directory[n][p[1]].policy]
        BY <2>2 DEF AllBlocks
    <3>2. PICK p \in BlocksOf(directory[n]) :
              /\ d.file = n /\ d.from = p[1]
              /\ d.id = directory[n][p[1]].id /\ d.policy = directory[n][p[1]].policy
        BY <3>1
    <3>3. FileHeard(n)
        BY <1>3 DEF HeardInv, FilesHeard, SecondPass
    <3>4. ~IsMistaken(directory[n], p)
        BY <2>2, <3>2, PassedOverIff
    <3> QED
        BY <3>2, <3>3, <3>4 DEF FileHeard, Heard
  <2>3. HaveConflict(blocks)
      BY <2>1, <2>2 DEF Heard, HaveConflict
  <2> QED
      BY <1>3, <2>3 DEF IInv, LoadInv, GroupsMerged, SecondPass
<1>4. IInv /\ HeardInv => ConflictsStopTheLoad
    BY <1>3 DEF ConflictsStopTheLoad
<1> QED
    BY <1>1, <1>2, <1>4, PairsInvariant, PTL DEF Spec

-----------------------------------------------------------------------------
(* Statements and the lines between their parentheses.                     *)

\* A line between the parentheses of a CREATE TABLE is in its statement.
LEMMA InTableInStatement ==
    ASSUME NEW lines \in Seq(Lines), Parses(lines), NEW i \in DOMAIN lines, InTable(lines, i)
    PROVE  InStatement(lines, i)
<1>0. Len(lines) \in Nat /\ DOMAIN lines = 1..Len(lines) /\ i \in Nat
    OBVIOUS
<1>1. PICK j \in 1..(i - 1) :
          /\ IsSql(lines[j]) /\ lines[j].kind = "create"
          /\ \A k \in (j + 1)..(i - 1) : IsSql(lines[k]) => lines[k].kind # "end"
    BY DEF InTable
<1> DEFINE Ending(k) == IsSql(lines[k]) /\ lines[k].kind = "end"
           S == {k \in DOMAIN lines : i <= k /\ Ending(k)}
<1>2. \E k \in S : TRUE
  <2>1. ~InTable(lines, Len(lines) + 1)
      BY DEF Parses, IsGrammatical
  <2>2. j \in 1..((Len(lines) + 1) - 1)
      BY <1>0
  <2>3. PICK k \in (j + 1)..((Len(lines) + 1) - 1) : Ending(k)
      BY <1>1, <2>1, <2>2 DEF InTable
  <2>4. k \in DOMAIN lines /\ i <= k
      BY <1>0, <1>1, <2>3
  <2> QED
      BY <2>3, <2>4
<1>3. S \in SUBSET Nat /\ \A k : k \in S <=> k \in DOMAIN lines /\ i <= k /\ Ending(k)
    BY <1>0
<1> HIDE DEF S
<1>4. PICK e \in S : \A k \in S : e <= k
    BY <1>2, <1>3, LeastElement
<1>5. e \in TableEnds(lines) /\ e \in DOMAIN lines /\ i <= e /\ e \in Nat
    BY <1>3, <1>4 DEF TableEnds, StatementEnds
<1> DEFINE start == StatementStart(lines, e)
<1>6. start \in 1..e /\ (start = 1 \/ start - 1 \in StatementEnds(lines))
    BY <1>5, StatementStartFacts
<1> HIDE DEF start
<1>7. start <= i
  <2> SUFFICES ASSUME i < start PROVE FALSE
      BY <1>0, <1>6
  <2> DEFINE m == start - 1
  <2>1. m \in StatementEnds(lines) /\ i <= m /\ m < e /\ m \in Nat
      BY <1>0, <1>5, <1>6
  <2>2. IsSql(lines[m]) /\ lines[m].kind \in {"end", "index", "schema"} /\ m \in DOMAIN lines
      BY <2>1 DEF StatementEnds
  <2> HIDE DEF m
  <2>3. InTable(lines, m)
    <3>1. j \in 1..(m - 1)
        BY <1>0, <2>1
    <3>2. ASSUME NEW k \in (j + 1)..(m - 1), Ending(k) PROVE FALSE
      <4>1. k < i => k \in (j + 1)..(i - 1)
          BY <1>0
      <4>2. i <= k => k \in S
          BY <1>0, <1>3, <2>1, <2>2, <3>2
      <4>3. k \in Nat
          BY <1>0
      <4> QED
          BY <1>0, <1>1, <1>4, <1>5, <2>1, <3>2, <4>1, <4>2, <4>3
    <3> QED
        BY <1>1, <3>1, <3>2 DEF InTable
  <2>4. lines[m].kind = "end"
      BY <2>2, <2>3 DEF Parses, IsGrammatical
  <2>5. m \in S
      BY <1>3, <2>1, <2>2, <2>4
  <2> QED
      BY <1>4, <1>5, <2>1, <2>5
<1>8. i \in start..e
    BY <1>0, <1>5, <1>6, <1>7
<1> QED
    BY <1>5, <1>8 DEF InStatement, start

-----------------------------------------------------------------------------
(* Files that are in order.                                                *)

PairInOrder(lines, p) == BlockInOrder(lines, [from |-> p[1], to |-> p[2]])

OrderlyFile(lines) ==
    /\ lines \in Seq(Lines) /\ Parses(lines) /\ IsWellNested(lines, DOMAIN lines)
    /\ \A p \in BlocksOf(lines) : PairInOrder(lines, p)

LEMMA BlockIsListed ==
    ASSUME NEW dir, NEW n \in DOMAIN dir, NEW p \in BlocksOf(dir[n])
    PROVE  \E b \in AllBlocks(dir) : /\ b.file = n /\ b.from = p[1] /\ b.to = p[2]
                                     /\ b.id = dir[n][p[1]].id
                                     /\ b.policy = dir[n][p[1]].policy
<1> DEFINE b == [file |-> n, from |-> p[1], to |-> p[2],
                 id |-> dir[n][p[1]].id, policy |-> dir[n][p[1]].policy]
<1>1. b \in AllBlocks(dir)
    BY DEF AllBlocks
<1>2. /\ b.file = n /\ b.from = p[1] /\ b.to = p[2]
      /\ b.id = dir[n][p[1]].id /\ b.policy = dir[n][p[1]].policy
    OBVIOUS
<1> HIDE DEF b
<1> QED
    BY <1>1, <1>2

LEMMA InOrderFacts ==
    ASSUME NEW dir \in Seq(Seq(Lines)), InOrder(dir), NEW n \in DOMAIN dir
    PROVE  OrderlyFile(dir[n])
<1>1. dir[n] \in Seq(Lines) /\ Parses(dir[n]) /\ IsWellNested(dir[n], DOMAIN dir[n])
    BY DEF InOrder
<1>2. ASSUME NEW p \in BlocksOf(dir[n])
      PROVE  PairInOrder(dir[n], p)
  <2>1. PICK b \in AllBlocks(dir) : b.file = n /\ b.from = p[1] /\ b.to = p[2]
      BY BlockIsListed
  <2>2. BlockInOrder(dir[n], b)
      BY <2>1 DEF InOrder
  <2> QED
      BY <2>1, <2>2 DEF PairInOrder, BlockInOrder, Inner
<1> QED
    BY <1>1, <1>2 DEF OrderlyFile

\* What is between the two lines of a pair, SQL as a list or on its own.
LEMMA PairInOrderFacts ==
    ASSUME NEW lines, NEW p, PairInOrder(lines, p)
    PROVE  /\ lines[p[1]].plain
           /\ InTable(lines, p[1]) => \A j \in (p[1] + 1)..(p[2] - 1) :
                 lines[j].comment /\ lines[j].kind \in {"column", "constraint"}
           /\ ~InTable(lines, p[1]) =>
                 /\ ~InStatement(lines, p[1])
                 /\ Parses([j \in 1..(p[2] - p[1] - 1) |-> Uncommented(lines[p[1] + j])])
    BY DEF PairInOrder, BlockInOrder, Inner

\* Every opening line begins a block of the file: none is within another one.
LEMMA OpeningBegins ==
    ASSUME NEW lines, OrderlyFile(lines), NEW i \in DOMAIN lines, IsOpening(lines[i])
    PROVE  \E p \in Outermost(Pairs(lines, DOMAIN lines)) : p[1] = i
<1>0. lines \in Seq(Lines) /\ i \in Nat /\ DOMAIN lines \subseteq Nat
    BY DEF OrderlyFile
<1>1. PICK r \in Pairs(lines, DOMAIN lines) : i \in r[1]..r[2]
    BY DEF OrderlyFile, IsWellNested
<1>2. PICK p \in Outermost(Pairs(lines, DOMAIN lines)) : i \in p[1]..p[2]
    BY <1>0, <1>1, OutermostAround
<1>3. /\ p[1] \in DOMAIN lines /\ p[2] \in DOMAIN lines /\ p[1] < p[2]
      /\ IsBlock(lines, p[1], p[2])
    BY DEF Outermost, Pairs
<1>4. p \in BlocksOf(lines)
    BY DEF BlocksOf, Parts
<1>5. PairInOrder(lines, p)
    BY <1>4 DEF OrderlyFile
<1>6. i # p[2]
    BY <1>3, OpeningDoesNotClose DEF IsBlock
<1>7. ASSUME p[1] < i
      PROVE  FALSE
  <2>1. i \in (p[1] + 1)..(p[2] - 1)
      BY <1>0, <1>2, <1>3, <1>6, <1>7
  <2>2. lines[i].kind = "open"
      BY DEF IsOpening
  <2>3. CASE InTable(lines, p[1])
      BY <1>5, <2>1, <2>2, <2>3, PairInOrderFacts
  <2>4. CASE ~InTable(lines, p[1])
    <3> DEFINE k == i - p[1]
               body == [j \in 1..(p[2] - p[1] - 1) |-> Uncommented(lines[p[1] + j])]
    <3>1. k \in DOMAIN body /\ p[1] + k = i
        BY <1>0, <1>3, <2>1
    <3>2. body[k] = Uncommented(lines[i])
        BY <3>1
    <3>3. Parses(body)
        BY <1>5, <2>4, PairInOrderFacts
    <3> HIDE DEF body, k
    <3>4. IsSql(body[k]) /\ body[k].kind = "open"
        BY <1>0, <2>2, <3>2, UncommentedFacts
    <3> QED
        BY <3>1, <3>3, <3>4, ParsedKinds DEF SqlKinds
  <2> QED
      BY <2>3, <2>4
<1>8. p[1] = i
    BY <1>0, <1>2, <1>3, <1>7
<1> QED
    BY <1>8

\* Within a statement of such a file, the pairs end where they should.
LEMMA PairInStatement ==
    ASSUME NEW lines, OrderlyFile(lines), NEW e \in TableEnds(lines),
           NEW p \in Pairs(lines, DOMAIN lines), p \in BlocksOf(lines),
           p[1] \in StatementStart(lines, e)..e
    PROVE  InTable(lines, p[1]) /\ p \in Pairs(lines, StatementStart(lines, e)..e)
<1>0. lines \in Seq(Lines) /\ DOMAIN lines \subseteq Nat
    BY DEF OrderlyFile
<1>1. /\ p[1] \in DOMAIN lines /\ p[2] \in DOMAIN lines /\ p[1] < p[2]
      /\ IsBlock(lines, p[1], p[2]) /\ p = <<p[1], p[2]>>
    BY DEF Pairs
<1>2. PairInOrder(lines, p) /\ InStatement(lines, p[1])
    BY DEF OrderlyFile, InStatement
<1>3. InTable(lines, p[1])
    BY <1>2, PairInOrderFacts
<1>4. e \in Nat /\ e \in DOMAIN lines /\ IsSql(lines[e]) /\ StatementStart(lines, e) \in 1..e
    BY <1>0, StatementStartFacts DEF TableEnds, StatementEnds
<1>5. ASSUME NEW j \in p[1]..p[2]
      PROVE  ~IsSql(lines[j])
  <2>1. CASE j = p[1] \/ j = p[2]
      BY <1>1, <2>1 DEF IsBlock, IsOpening, IsClosing, IsSql
  <2>2. CASE j # p[1] /\ j # p[2]
    <3>1. j \in (p[1] + 1)..(p[2] - 1)
        BY <1>0, <1>1, <2>2
    <3> QED
        BY <1>2, <1>3, <3>1, PairInOrderFacts DEF IsSql
  <2> QED
      BY <2>1, <2>2
<1>6. p[2] < e
    BY <1>0, <1>1, <1>4, <1>5
<1>7. p[1] \in StatementStart(lines, e)..e /\ p[2] \in StatementStart(lines, e)..e
    BY <1>0, <1>1, <1>4, <1>6
<1> QED
    BY <1>1, <1>3, <1>7 DEF Pairs

\* What the scans look at is well nested.
LEMMA PartsAreNested ==
    ASSUME NEW lines, OrderlyFile(lines), NEW part \in Parts(lines)
    PROVE  IsWellNested(lines, part)
<1>1. CASE part = DOMAIN lines
    BY <1>1 DEF OrderlyFile
<1>2. ASSUME NEW e \in TableEnds(lines), part = StatementStart(lines, e)..e
      PROVE  IsWellNested(lines, part)
  <2> SUFFICES ASSUME NEW i \in part, IsOpening(lines[i])
               PROVE  \E p \in Pairs(lines, part) : i \in p[1]..p[2]
      BY DEF IsWellNested
  <2>0. lines \in Seq(Lines)
      BY DEF OrderlyFile
  <2>1. e \in DOMAIN lines /\ StatementStart(lines, e) \in 1..e
      BY <2>0, StatementStartFacts DEF TableEnds, StatementEnds
  <2>2. i \in DOMAIN lines
      BY <1>2, <2>0, <2>1
  <2>3. PICK p \in Outermost(Pairs(lines, DOMAIN lines)) : p[1] = i
      BY <2>2, OpeningBegins
  <2>4. p \in Pairs(lines, DOMAIN lines) /\ p \in BlocksOf(lines)
      BY DEF Outermost, BlocksOf, Parts
  <2>5. p \in Pairs(lines, part)
      BY <1>2, <2>3, <2>4, PairInStatement
  <2>6. p[1] \in Nat /\ p[2] \in Nat /\ p[1] < p[2]
      BY <2>0, <2>4 DEF Pairs
  <2> QED
      BY <2>3, <2>5, <2>6
<1> QED
    BY <1>1, <1>2 DEF Parts

\* CREATE TABLE with columns and constraints and nothing else.
LEMMA ListParses ==
    ASSUME NEW S, NEW sql \in Seq(S), Len(sql) >= 2,
           \A i \in 1..Len(sql) : IsSql(sql[i]),
           sql[1].kind = "create", sql[Len(sql)].kind = "end",
           \A i \in 2..(Len(sql) - 1) : sql[i].kind \in {"column", "constraint"}
    PROVE  Parses(sql)
<1>0. Len(sql) \in Nat /\ DOMAIN sql = 1..Len(sql)
    OBVIOUS
<1>1. ASSUME NEW i \in 2..Len(sql)
      PROVE  InTable(sql, i)
  <2>1. 1 \in 1..(i - 1) /\ IsSql(sql[1]) /\ sql[1].kind = "create"
      BY <1>0
  <2>2. \A k \in (1 + 1)..(i - 1) : sql[k].kind # "end"
    <3> SUFFICES ASSUME NEW k \in (1 + 1)..(i - 1) PROVE sql[k].kind # "end"
        OBVIOUS
    <3>1. k \in 2..(Len(sql) - 1)
        BY <1>0
    <3> QED
        BY <3>1
  <2> QED
      BY <2>1, <2>2 DEF InTable
<1>2. ~InTable(sql, 1)
    BY DEF InTable
<1>3. ~InTable(sql, Len(sql) + 1)
  <2> SUFFICES ASSUME NEW j \in 1..((Len(sql) + 1) - 1), sql[j].kind = "create",
                      \A k \in (j + 1)..((Len(sql) + 1) - 1) : IsSql(sql[k]) => sql[k].kind # "end"
               PROVE  FALSE
      BY DEF InTable
  <2>1. j # Len(sql)
    <3>1. "create" # "end"
        OBVIOUS
    <3>2. sql[j].kind # sql[Len(sql)].kind
        BY <3>1, Zenon
    <3> QED
        BY <3>2, Zenon
  <2>2. j \in Nat /\ j <= Len(sql) /\ (Len(sql) + 1) - 1 = Len(sql)
      BY <1>0
  <2>3. j + 1 <= Len(sql)
    <3>1. \A a, b \in Nat : a <= b /\ a # b => a + 1 <= b
        OBVIOUS
    <3> QED
        BY <1>0, <2>1, <2>2, <3>1
  <2>4. Len(sql) \in (j + 1)..((Len(sql) + 1) - 1) /\ Len(sql) \in 1..Len(sql)
      BY <1>0, <2>2, <2>3
  <2> QED
      BY <2>4
<1>4. ASSUME NEW i \in DOMAIN sql
      PROVE  /\ IF InTable(sql, i) THEN sql[i].kind \in {"column", "constraint", "end"}
                                   ELSE sql[i].kind \in {"create", "index", "schema"}
             /\ sql[i].kind # "index"
  <2>1. CASE i = 1
      BY <1>2, <2>1
  <2>2. CASE i = Len(sql)
      BY <1>0, <1>1, <2>2
  <2>3. CASE i # 1 /\ i # Len(sql)
    <3>1. i \in 2..(Len(sql) - 1) /\ i \in 2..Len(sql)
        BY <1>0, <2>3
    <3> QED
        BY <1>1, <3>1
  <2> QED
      BY <2>1, <2>2, <2>3
<1> QED
    BY <1>3, <1>4 DEF Parses, IsGrammatical

-----------------------------------------------------------------------------
(* The directives of a file, which are read from its end on: there is a    *)
(* function with the directives from each line on, by the least number of  *)
(* lines that has none, like the running totals.                           *)

LEMMA DirectiveEndFacts ==
    ASSUME NEW lines \in Seq(Lines), NEW i \in DOMAIN lines, Closings(lines, i) # {}
    PROVE  /\ DirectiveEnd(lines, i) \in Closings(lines, i)
           /\ \A k \in Closings(lines, i) : DirectiveEnd(lines, i) <= k
           /\ DirectiveEnd(lines, i) \in DOMAIN lines /\ i < DirectiveEnd(lines, i)
<1>1. Closings(lines, i) \in SUBSET Nat
    BY DEF Closings
<1>2. \E j \in Closings(lines, i) : \A k \in Closings(lines, i) : j <= k
    BY <1>1, LeastElement
<1>3. /\ DirectiveEnd(lines, i) \in Closings(lines, i)
      /\ \A k \in Closings(lines, i) : DirectiveEnd(lines, i) <= k
    BY <1>2 DEF DirectiveEnd
<1> QED
    BY <1>3 DEF Closings

IsTaken(lines, i) == IsDirective(lines, i) /\ ~(Go /\ ~Parses(DirectiveSql(lines, i)))

\* The directives from line i on, given those from later lines on.
DirectivesFrom(lines, h, i) ==
    IF i > Len(lines) THEN {}
    ELSE IF ~IsDirective(lines, i) THEN h[i + 1]
    ELSE IF Go /\ ~Parses(DirectiveSql(lines, i)) THEN h[i + 1]
    ELSE {i} \cup h[DirectiveEnd(lines, i) + 1]

LEMMA FromFacts ==
    ASSUME NEW lines \in Seq(Lines), NEW i \in 1..Len(lines), NEW h
    PROVE  \/ DirectivesFrom(lines, h, i) = h[i + 1]
           \/ /\ IsTaken(lines, i) /\ DirectivesFrom(lines, h, i) = {i} \cup h[DirectiveEnd(lines, i) + 1]
              /\ DirectiveEnd(lines, i) + 1 \in (i + 1)..(Len(lines) + 1)
<1>1. Len(lines) \in Nat /\ ~(i > Len(lines)) /\ i \in DOMAIN lines
    OBVIOUS
<1>2. CASE ~IsTaken(lines, i)
    BY <1>1, <1>2 DEF DirectivesFrom, IsTaken
<1>3. CASE IsTaken(lines, i)
  <2>1. DirectivesFrom(lines, h, i) = {i} \cup h[DirectiveEnd(lines, i) + 1]
      BY <1>1, <1>3, Zenon DEF DirectivesFrom, IsTaken
  <2>2. DirectiveEnd(lines, i) \in DOMAIN lines /\ i < DirectiveEnd(lines, i)
      BY <1>1, <1>3, DirectiveEndFacts DEF IsTaken, IsDirective
  <2>3. DirectiveEnd(lines, i) + 1 \in (i + 1)..(Len(lines) + 1)
      BY <1>1, <2>2
  <2> QED
      BY <1>3, <2>1, <2>3
<1> QED
    BY <1>2, <1>3

LEMMA FromDependsOnLater ==
    ASSUME NEW lines \in Seq(Lines), NEW i \in 1..Len(lines), NEW g, NEW h,
           \A k \in (i + 1)..(Len(lines) + 1) : g[k] = h[k]
    PROVE  DirectivesFrom(lines, g, i) = DirectivesFrom(lines, h, i)
<1>1. i + 1 \in (i + 1)..(Len(lines) + 1) /\ i \in DOMAIN lines /\ Len(lines) \in Nat
    OBVIOUS
<1>2. IsDirective(lines, i) => DirectiveEnd(lines, i) + 1 \in (i + 1)..(Len(lines) + 1)
  <2> SUFFICES ASSUME IsDirective(lines, i)
               PROVE  DirectiveEnd(lines, i) + 1 \in (i + 1)..(Len(lines) + 1)
      OBVIOUS
  <2>1. DirectiveEnd(lines, i) \in DOMAIN lines /\ i < DirectiveEnd(lines, i)
      BY <1>1, DirectiveEndFacts DEF IsDirective
  <2> QED
      BY <1>1, <2>1
<1>3. g[i + 1] = h[i + 1]
    BY <1>1
<1>4. IsDirective(lines, i) =>
          g[DirectiveEnd(lines, i) + 1] = h[DirectiveEnd(lines, i) + 1]
    BY <1>2
<1> QED
    BY <1>3, <1>4 DEF DirectivesFrom

LEMMA FromExists ==
    ASSUME NEW lines \in Seq(Lines)
    PROVE  \E h : h = [i \in 1..(Len(lines) + 1) |-> DirectivesFrom(lines, h, i)]
<1> DEFINE n == Len(lines)
           Solves(m, h) == h = [i \in m..(n + 1) |-> DirectivesFrom(lines, h, i)]
           S == {d \in 0..n : ~ \E h : Solves(n + 1 - d, h)}
<1>0. n \in Nat
    OBVIOUS
<1>1. SUFFICES ASSUME S # {} PROVE FALSE
  <2>1. n \in 0..n /\ n + 1 - n = 1
      BY <1>0
  <2>2. n \notin S => \E h : Solves(n + 1 - n, h)
      BY <2>1
  <2>3. n \notin S
      BY <1>1
  <2> QED
      BY <2>1, <2>2, <2>3
<1>2. S \in SUBSET Nat /\ S \subseteq 0..n
    BY <1>0
<1>3. \A d \in 0..n : d \in S <=> ~ \E h : Solves(n + 1 - d, h)
    OBVIOUS
<1>4. Solves(n + 1, [i \in (n + 1)..(n + 1) |-> {}])
  <2>1. \A h : DirectivesFrom(lines, h, n + 1) = {}
      BY <1>0 DEF DirectivesFrom
  <2>2. \A i \in (n + 1)..(n + 1) : i = n + 1
      BY <1>0
  <2> QED
      BY <2>1, <2>2
<1> HIDE DEF S, Solves
<1>5. PICK d \in S : \A c \in S : d <= c
    BY <1>1, <1>2, LeastElement
<1>6. d \in 0..n /\ ~ \E h : Solves(n + 1 - d, h)
    BY <1>2, <1>3, <1>5
<1>7. d # 0
  <2>1. n + 1 - 0 = n + 1
      BY <1>0
  <2> QED
      BY <1>4, <1>6, <2>1
<1> DEFINE m == n + 1 - d
<1>8. m \in 1..n /\ m + 1 = n + 1 - (d - 1) /\ d - 1 \in 0..n /\ d - 1 \notin S
    BY <1>0, <1>5, <1>6, <1>7
<1>9. PICK h : Solves(m + 1, h)
    BY <1>3, <1>8
<1> HIDE DEF m
<1> DEFINE longer == [i \in m..(n + 1) |-> IF i = m THEN DirectivesFrom(lines, h, m) ELSE h[i]]
<1>10. \A i \in (m + 1)..(n + 1) : h[i] = DirectivesFrom(lines, h, i)
    BY <1>9 DEF Solves
<1>11. \A k \in (m + 1)..(n + 1) : longer[k] = h[k]
    BY <1>0, <1>8
<1>12. ASSUME NEW i \in m..(n + 1)
       PROVE  longer[i] = DirectivesFrom(lines, longer, i)
  <2>1. CASE i = n + 1
    <3>1. i \in (m + 1)..(n + 1)
        BY <1>0, <1>8, <2>1
    <3>2. DirectivesFrom(lines, h, i) = {} /\ DirectivesFrom(lines, longer, i) = {}
        BY <1>0, <2>1 DEF DirectivesFrom
    <3> HIDE DEF longer
    <3> QED
        BY <1>10, <1>11, <3>1, <3>2
  <2>2. CASE i # n + 1
    <3>1. i \in 1..n
        BY <1>0, <1>8, <2>2
    <3>2. \A k \in (i + 1)..(n + 1) : longer[k] = h[k]
      <4> HIDE DEF longer
      <4>1. \A k \in (i + 1)..(n + 1) : k \in (m + 1)..(n + 1)
          BY <1>0, <1>8
      <4> QED
          BY <1>11, <4>1
    <3>3. DirectivesFrom(lines, longer, i) = DirectivesFrom(lines, h, i)
      <4> HIDE DEF longer
      <4> QED
          BY <3>1, <3>2, FromDependsOnLater
    <3>4. longer[i] = DirectivesFrom(lines, h, i)
      <4>1. CASE i = m
          BY <1>0, <1>8, <4>1
      <4>2. CASE i # m
        <5>1. i \in (m + 1)..(n + 1)
            BY <1>0, <1>8, <4>2
        <5> HIDE DEF longer
        <5> QED
            BY <1>10, <1>11, <5>1
      <4> QED
          BY <4>1, <4>2
    <3> QED
        BY <3>3, <3>4
  <2> QED
      BY <2>1, <2>2
<1>13. longer = [i \in m..(n + 1) |-> longer[i]]
    OBVIOUS
<1> HIDE DEF longer
<1>14. Solves(m, longer)
    BY <1>12, <1>13 DEF Solves
<1> QED
    BY <1>6, <1>14 DEF m

LEMMA DirectivesAre ==
    ASSUME NEW lines \in Seq(Lines), NEW i \in Directives(lines)
    PROVE  i \in DOMAIN lines /\ IsTaken(lines, i)
<1> DEFINE n == Len(lines)
           Fixed(h) == h = [k \in 1..(n + 1) |-> DirectivesFrom(lines, h, k)]
           all == CHOOSE h : Fixed(h)
           Right == {k \in DOMAIN lines : IsTaken(lines, k)}
           S == {k \in 1..(n + 1) : ~(all[k] \subseteq Right)}
<1>0. n \in Nat /\ DOMAIN lines = 1..n
    OBVIOUS
<1>1. Fixed(all)
    BY FromExists, Zenon
<1>2. Directives(lines) = all[1]
    BY Zenon DEF Directives, DirectivesFrom
<1>3. DOMAIN all = 1..(n + 1) /\ \A k \in 1..(n + 1) : all[k] = DirectivesFrom(lines, all, k)
  <2> HIDE DEF all
  <2>1. all = [k \in 1..(n + 1) |-> DirectivesFrom(lines, all, k)]
      BY <1>1
  <2> QED
      BY <2>1, Zenon
<1> HIDE DEF all, Fixed
<1>4. S = {}
  <2> SUFFICES ASSUME S # {} PROVE FALSE
      OBVIOUS
  <2>1. n + 1 \in Nat /\ S \in SUBSET (1..(n + 1))
      BY <1>0
  <2>2. \A k \in 1..(n + 1) : k \in S <=> ~(all[k] \subseteq Right)
      OBVIOUS
  <2> HIDE DEF S
  <2>3. PICK m \in S : \A k \in S : k <= m
      BY <2>1, GreatestElement
  <2>4. m \in 1..(n + 1) /\ all[m] = DirectivesFrom(lines, all, m)
      BY <1>3, <2>1, <2>3
  <2>5. m # n + 1
    <3>1. DirectivesFrom(lines, all, n + 1) = {}
        BY <1>0 DEF DirectivesFrom
    <3> QED
        BY <2>2, <2>3, <2>4, <3>1
  <2>6. m \in 1..n
      BY <1>0, <2>4, <2>5
  <2>7. \A k \in (m + 1)..(n + 1) : all[k] \subseteq Right
    <3>1. \A k \in (m + 1)..(n + 1) : k \in 1..(n + 1) /\ ~(k <= m)
        BY <1>0, <2>6
    <3> QED
        BY <2>2, <2>3, <3>1
  <2>8. m + 1 \in (m + 1)..(n + 1)
      BY <1>0, <2>6
  <2>9. CASE all[m] = all[m + 1]
      BY <2>2, <2>3, <2>4, <2>7, <2>8, <2>9
  <2>10. CASE /\ IsTaken(lines, m) /\ all[m] = {m} \cup all[DirectiveEnd(lines, m) + 1]
              /\ DirectiveEnd(lines, m) + 1 \in (m + 1)..(n + 1)
    <3>1. m \in Right
        BY <1>0, <2>6, <2>10
    <3>2. all[DirectiveEnd(lines, m) + 1] \subseteq Right
        BY <2>7, <2>10
    <3> HIDE DEF Right
    <3> QED
        BY <2>2, <2>3, <2>4, <2>10, <3>1, <3>2
  <2> QED
      BY <2>4, <2>6, <2>9, <2>10, FromFacts
<1>5. 1 \in 1..(n + 1)
    BY <1>0
<1>6. all[1] \subseteq Right
    BY <1>4, <1>5
<1> QED
    BY <1>2, <1>6

\* A directive that is in order is read as CREATE TABLE.
LEMMA DirectiveParses ==
    ASSUME NEW lines \in Seq(Lines), NEW i \in DOMAIN lines, lines[i].comment,
           lines[i].kind = "drop", DirectiveInOrder(lines, i)
    PROVE  Parses(DirectiveSql(lines, i))
<1>0. i \in Nat /\ DOMAIN lines \subseteq Nat
    OBVIOUS
<1>1. PICK k \in DOMAIN lines :
          /\ k > i /\ IsClosing(lines[k])
          /\ \A j \in (i + 1)..(k - 1) : lines[j].comment /\ lines[j].kind = "column"
    BY DEF DirectiveInOrder
<1>2. k \in Closings(lines, i)
    BY <1>1 DEF Closings
<1> DEFINE end == DirectiveEnd(lines, i)
<1>3. /\ end \in DOMAIN lines /\ i < end /\ end <= k /\ IsClosing(lines[end])
    BY <1>2, DirectiveEndFacts DEF Closings
<1> HIDE DEF end
<1>4. end = k
  <2>1. lines[end].kind = "end"
      BY <1>3 DEF IsClosing
  <2>2. end < k => end \in (i + 1)..(k - 1)
      BY <1>0, <1>1, <1>3
  <2> QED
      BY <1>0, <1>1, <1>3, <2>1, <2>2
<1> DEFINE n == end - i
           create == [comment |-> FALSE, kind |-> "create", table |-> lines[i].table]
           body == [j \in 1..n |-> Uncommented(lines[i + j])]
           S == {create} \cup {Uncommented(lines[i + j]) : j \in 1..n}
           sql == <<create>> \o body
<1>5. DirectiveSql(lines, i) = sql
    BY DEF DirectiveSql, end
<1>6. n \in Nat \ {0} /\ i + n = end
    BY <1>0, <1>3
<1>7. \A j \in 1..n : i + j \in DOMAIN lines
    BY <1>0, <1>3
<1> HIDE DEF n
<1>8. body \in Seq(S) /\ Len(body) = n /\ create \in S
    BY <1>6
<1>9. \A j \in 1..n : /\ IsSql(body[j]) /\ body[j].kind = lines[i + j].kind
    BY <1>7, UncommentedFacts
<1>10. IsSql(create) /\ create.kind = "create"
    BY DEF IsSql
<1> HIDE DEF S, create, body
<1>11. /\ sql \in Seq(S) /\ Len(sql) = n + 1 /\ sql[1] = create
       /\ \A j \in 1..n : sql[j + 1] = body[j]
    BY <1>6, <1>8
<1> HIDE DEF sql
<1>12. \A j \in 2..(n + 1) : j - 1 \in 1..n /\ sql[j] = body[j - 1]
  <2> SUFFICES ASSUME NEW j \in 2..(n + 1)
               PROVE  j - 1 \in 1..n /\ sql[j] = body[j - 1]
      OBVIOUS
  <2>1. j - 1 \in 1..n /\ (j - 1) + 1 = j
      BY <1>6
  <2> QED
      BY <1>11, <2>1
<1>13. ASSUME NEW j \in 1..Len(sql)
       PROVE  IsSql(sql[j])
  <2>1. CASE j = 1
      BY <1>10, <1>11, <2>1
  <2>2. CASE j # 1
    <3>1. j \in 2..(n + 1)
        BY <1>6, <1>11, <2>2
    <3> QED
        BY <1>9, <1>12, <3>1
  <2> QED
      BY <2>1, <2>2
<1>14. sql[Len(sql)].kind = "end"
  <2>1. n \in 1..n /\ Len(sql) = n + 1 /\ i + n = k
      BY <1>4, <1>6, <1>11
  <2> QED
      BY <1>1, <1>9, <1>11, <2>1 DEF IsClosing
<1>15. ASSUME NEW j \in 2..(Len(sql) - 1)
       PROVE  sql[j].kind \in {"column", "constraint"}
  <2>a. n \in Nat /\ i \in Nat /\ k = i + n /\ j \in 2..n
    <3>1. n \in Nat /\ i \in Nat /\ k = i + n
        BY <1>0, <1>4, <1>6
    <3> QED
        BY <1>11, <3>1
  <2>1. j \in 2..(n + 1) /\ j - 1 \in 1..n /\ i + (j - 1) \in (i + 1)..(k - 1)
      BY <2>a
  <2>2. sql[j].kind = lines[i + (j - 1)].kind
      BY <1>9, <1>12, <2>1
  <2> QED
      BY <1>1, <2>1, <2>2
<1>16. Len(sql) >= 2 /\ sql[1].kind = "create"
    BY <1>6, <1>10, <1>11
<1>17. Parses(sql)
    BY <1>11, <1>13, <1>14, <1>15, <1>16, ListParses
<1> QED
    BY <1>5, <1>17

\* A block that is in order is SQL in the scope it is in.
LEMMA ListBodyParses ==
    ASSUME ScanInv, inTable, NEW j \in DOMAIN found,
           \A i \in (found[j].first + 1)..(found[j].last - 1) :
               text[i].kind \in {"column", "constraint"}
    PROVE  BodyParses(found[j])
<1> DEFINE b == found[j]
           body == Body(b)
           n == b.last - b.first - 1
           S == {CreateProbe, EndOfTable} \cup {Uncommented(text[b.first + k]) : k \in 1..n}
           sql == (<<CreateProbe>> \o body) \o <<EndOfTable>>
<1>1. /\ b.first \in Nat /\ b.last \in Nat /\ b.first < b.last /\ text \in Seq(Lines)
      /\ b.first \in DOMAIN text /\ b.last \in DOMAIN text
    BY FoundFacts DEF ScanInv, ScanTyped, BlocksApart, Delimited
<1>2. n \in Nat
    BY <1>1
<1>3. \A k \in 1..n : /\ b.first + k \in DOMAIN text
                      /\ b.first + k \in (b.first + 1)..(b.last - 1)
    BY <1>1
<1>4. body = [k \in 1..n |-> Uncommented(text[b.first + k])]
    BY DEF Body
<1>5. BodyParses(b) = Parses(sql)
    BY DEF BodyParses, Tried
<1> HIDE DEF n, b
<1>6. body \in Seq(S) /\ Len(body) = n
    BY <1>2, <1>4
<1>7. \A k \in 1..n : IsSql(body[k]) /\ body[k].kind \in {"column", "constraint"}
  <2> SUFFICES ASSUME NEW k \in 1..n
               PROVE  IsSql(body[k]) /\ body[k].kind \in {"column", "constraint"}
      OBVIOUS
  <2>1. body[k] = Uncommented(text[b.first + k]) /\ text[b.first + k] \in Lines
      BY <1>1, <1>3, <1>4
  <2>2. text[b.first + k].kind \in {"column", "constraint"}
      BY <1>3 DEF b
  <2> QED
      BY <2>1, <2>2, UncommentedFacts
<1>8. /\ IsSql(CreateProbe) /\ CreateProbe.kind = "create"
      /\ IsSql(EndOfTable) /\ EndOfTable.kind = "end"
      /\ CreateProbe \in S /\ EndOfTable \in S
    BY DEF CreateProbe, EndOfTable, IsSql
<1> HIDE DEF S, body
<1> DEFINE half == <<CreateProbe>> \o body
<1>9. /\ half \in Seq(S) /\ Len(half) = n + 1 /\ half[1] = CreateProbe
      /\ \A k \in 1..n : half[k + 1] = body[k]
    BY <1>2, <1>6, <1>8
<1> HIDE DEF half
<1>10. /\ half \o <<EndOfTable>> \in Seq(S) /\ Len(half \o <<EndOfTable>>) = n + 2
       /\ (half \o <<EndOfTable>>)[n + 2] = EndOfTable
       /\ \A k \in 1..(n + 1) : (half \o <<EndOfTable>>)[k] = half[k]
    BY <1>2, <1>8, <1>9
<1>11. sql = half \o <<EndOfTable>>
    BY DEF half
<1> HIDE DEF sql
<1>12. /\ sql \in Seq(S) /\ Len(sql) = n + 2 /\ sql[1] = CreateProbe
       /\ sql[n + 2] = EndOfTable
       /\ \A k \in 1..(n + 1) : sql[k] = half[k]
  <2>1. 1 \in 1..(n + 1)
      BY <1>2
  <2> QED
      BY <1>9, <1>10, <1>11, <2>1
<1>13. ASSUME NEW k \in 2..(n + 1)
       PROVE  IsSql(sql[k]) /\ sql[k].kind \in {"column", "constraint"}
  <2>1. k - 1 \in 1..n /\ (k - 1) + 1 = k /\ k \in 1..(n + 1)
      BY <1>2
  <2>2. sql[k] = body[k - 1]
      BY <1>9, <1>12, <2>1
  <2> QED
      BY <1>7, <2>1, <2>2
<1>14. \A k \in 1..Len(sql) : k = 1 \/ k = n + 2 \/ k \in 2..(n + 1)
    BY <1>2, <1>12
<1>15. \A k \in 1..Len(sql) : IsSql(sql[k])
    BY <1>8, <1>12, <1>13, <1>14
<1>16. \A k \in 2..(Len(sql) - 1) : sql[k].kind \in {"column", "constraint"}
  <2>1. Len(sql) - 1 = n + 1
      BY <1>2, <1>12
  <2> QED
      BY <1>13, <2>1
<1>17. Len(sql) >= 2 /\ sql[1].kind = "create" /\ sql[Len(sql)].kind = "end"
    BY <1>2, <1>8, <1>12
<1>18. Parses(sql)
    BY <1>12, <1>15, <1>16, <1>17, ListParses
<1> QED
    BY <1>5, <1>18 DEF b

\* The scans are of the statements of the file that was read last, and of that
\* file.
ScansPlaced ==
    /\ phase \in {"tables", "file"} => statements \subseteq TableEnds(directory[current])
    /\ scan # "idle" => IF inTable THEN last \in TableEnds(text) ELSE last = Len(text)

LEMMA ScannedAreEnds ==
    ASSUME NEW lines \in Seq(Lines)
    PROVE  ScannedStatements(lines) \subseteq TableEnds(lines)
<1>1. ASSUME NEW t \in DOMAIN ParsedTables(lines)
      PROVE  Latest({e \in TableEnds(lines) : TableName(lines, e) = t}) \in TableEnds(lines)
  <2> DEFINE S == {e \in TableEnds(lines) : TableName(lines, e) = t}
  <2>1. S \in SUBSET (1..Len(lines)) /\ S # {} /\ S \subseteq TableEnds(lines)
      BY TableEndFacts DEF ParsedTables
  <2> HIDE DEF S
  <2>2. Latest(S) \in S
      BY <2>1, TableEndFacts, LatestIsGreatest
  <2> QED
      BY <2>1, <2>2 DEF S
<1> QED
    BY <1>1 DEF ScannedStatements

LEMMA InitPlaced ==
    Init => ScansPlaced
    BY DEF Init, ScanIdle, ScansPlaced

LEMMA PlacedInductive ==
    IInv /\ ScansPlaced /\ [Next]_vars => ScansPlaced'
<1> SUFFICES ASSUME IInv, ScansPlaced, [Next]_vars
             PROVE  ScansPlaced'
    OBVIOUS
<1>1. ASSUME NEW n \in unread, ReadFile(n)
      PROVE  ScansPlaced'
  <2>1. /\ phase = "files" /\ current' = n
        /\ statements' = ScannedStatements(directory[n])
        /\ UNCHANGED <<scanVars, directory>>
      BY <1>1 DEF ReadFile
  <2>2. scan' = "idle" /\ directory[n] \in Seq(Lines)
      BY <2>1 DEF IInv, LoadInv, Reading, scanVars
  <2>3. statements' \subseteq TableEnds(directory[n])
      BY <2>1, <2>2, ScannedAreEnds
  <2>4. TableEnds(directory[current])' = TableEnds(directory[n])
      BY <2>1 DEF TableEnds, StatementEnds
  <2> QED
      BY <2>2, <2>3, <2>4 DEF ScansPlaced
<1>2. ASSUME NEW end \in statements, ScanTable(end)
      PROVE  ScansPlaced'
  <2>1. /\ phase = "tables" /\ statements' \subseteq statements
        /\ UNCHANGED <<directory, current>>
        /\ inTable' = TRUE /\ last' = end /\ text' = directory[current]
      BY <1>2 DEF ScanTable, StartScan
  <2>2. statements \subseteq TableEnds(directory[current])
      BY <2>1 DEF ScansPlaced
  <2>3. TableEnds(text)' = TableEnds(directory[current])
      BY <2>1 DEF TableEnds, StatementEnds
  <2>4. TableEnds(directory[current])' = TableEnds(directory[current])
      BY <2>1 DEF TableEnds, StatementEnds
  <2> QED
      BY <2>1, <2>2, <2>3, <2>4 DEF ScansPlaced
<1>3. ASSUME ScanFile
      PROVE  ScansPlaced'
  <2>1. /\ statements' = {} /\ inTable' = FALSE
        /\ last' = Len(directory[current]) /\ text' = directory[current]
      BY <1>3 DEF ScanFile, StartScan
  <2> QED
      BY <2>1 DEF ScansPlaced
<1>4. ASSUME Scan \/ TakeBlocks
      PROVE  ScansPlaced'
  <2>1. /\ UNCHANGED <<text, last, inTable, directory, statements, current>>
        /\ scan # "idle"
      BY <1>4 DEF Scan, TakeBlocks, loadVars, ScanStep, SkipLine, OpenBlock, BodyLine,
                  CloseBlock, FailScan, FinishScan, ScanFails, AtLine, NextLine
  <2>2. phase \in {"tables", "file"}
      BY <2>1 DEF IInv, LoadInv, Reading
  <2>3. /\ TableEnds(text)' = TableEnds(text)
        /\ TableEnds(directory[current])' = TableEnds(directory[current])
      BY <2>1 DEF TableEnds, StatementEnds
  <2> QED
      BY <2>1, <2>2, <2>3 DEF ScansPlaced
<1>5. ASSUME \/ \E n \in unread : UnparsedFile(n) \/ ReadDirectives(n)
             \/ BadBlocks \/ Merge \/ RefuseMerge \/ Finish
      PROVE  ScansPlaced'
  <2>1. /\ phase' \in {"files", "directives", "done", "failed"}
        /\ scan' = "idle"
      BY <1>5 DEF UnparsedFile, ReadDirectives, BadBlocks, Merge, RefuseMerge, Finish, Fail,
                  scanVars, IInv, LoadInv, Reading
  <2> QED
      BY <2>1 DEF ScansPlaced
<1>6. CASE UNCHANGED vars
  <2>1. UNCHANGED <<text, last, inTable, scan, directory, statements, current, phase>>
      BY <1>6 DEF vars, scanVars, loadVars
  <2>2. /\ TableEnds(text)' = TableEnds(text)
        /\ TableEnds(directory[current])' = TableEnds(directory[current])
      BY <2>1 DEF TableEnds, StatementEnds
  <2> QED
      BY <2>1, <2>2 DEF ScansPlaced
<1> QED
    BY <1>1, <1>2, <1>3, <1>4, <1>5, <1>6 DEF Next, Read, FindBlocks

LEMMA PartIsScanned ==
    ASSUME IInv, ScansPlaced, scan # "idle"
    PROVE  /\ current \in DOMAIN directory /\ text = directory[current]
           /\ text \in Seq(Lines) /\ directory \in Seq(Seq(Lines))
           /\ Part \in Parts(text)
<1>1. /\ current \in DOMAIN directory /\ text = directory[current]
      /\ text \in Seq(Lines) /\ directory \in Seq(Seq(Lines))
    BY DEF IInv, LoadInv, Reading
<1>2. CASE inTable
  <2>1. last \in TableEnds(text)
      BY <1>2 DEF ScansPlaced
  <2>2. Part = StatementStart(text, last)..last
      BY <1>2 DEF Part, PartStart
  <2>3. \E e \in TableEnds(text) : Part = StatementStart(text, e)..e
      BY <2>1, <2>2
  <2> QED
      BY <1>1, <2>3 DEF Parts
<1>3. CASE ~inTable
  <2>1. Part = 1..Len(text)
      BY <1>3 DEF ScansPlaced, Part, PartStart
  <2>2. Part = DOMAIN text
      BY <1>1, <2>1
  <2> QED
      BY <1>1, <2>2 DEF Parts
<1> QED
    BY <1>1, <1>2, <1>3

\* Blocks with two policies for one id.
LEMMA TwoOfAll ==
    ASSUME NEW dir, NEW n \in DOMAIN dir, NEW m \in DOMAIN dir,
           NEW p \in BlocksOf(dir[n]), NEW q \in BlocksOf(dir[m]),
           dir[n][p[1]].id = dir[m][q[1]].id, dir[n][p[1]].policy # dir[m][q[1]].policy
    PROVE  TwoPolicies(AllBlocks(dir))
<1>1. PICK b \in AllBlocks(dir) : b.id = dir[n][p[1]].id /\ b.policy = dir[n][p[1]].policy
    BY BlockIsListed
<1>2. PICK c \in AllBlocks(dir) : c.id = dir[m][q[1]].id /\ c.policy = dir[m][q[1]].policy
    BY BlockIsListed
<1>3. b.id = c.id /\ b.policy # c.policy
    BY <1>1, <1>2
<1> QED
    BY <1>3 DEF TwoPolicies

LEMMA InOrderScanEnds ==
    ASSUME IInv, PairsInv, ScansPlaced, InOrder(directory), scan # "idle"
    PROVE  scan # "error"
<1> SUFFICES ASSUME scan = "error" PROVE FALSE
    OBVIOUS
<1>1. /\ current \in DOMAIN directory /\ text = directory[current]
      /\ directory \in Seq(Seq(Lines)) /\ Part \in Parts(text)
    BY PartIsScanned
<1>2. IsWellNested(text, Part)
    BY <1>1, InOrderFacts, PartsAreNested
<1> DEFINE Proper == {[id |-> text[p[1]].id, policy |-> text[p[1]].policy] :
                         p \in Outermost(Pairs(text, Part))}
<1>3. TwoPolicies(Proper)
    BY <1>2, ScanThatFails DEF IInv
<1>4. PICK b, c \in Proper : b.id = c.id /\ b.policy # c.policy
    BY <1>3 DEF TwoPolicies
<1>5. PICK p, q \in Outermost(Pairs(text, Part)) :
          /\ text[p[1]].id = text[q[1]].id /\ text[p[1]].policy # text[q[1]].policy
    BY <1>4
<1>6. p \in BlocksOf(directory[current]) /\ q \in BlocksOf(directory[current])
    BY <1>1 DEF BlocksOf
<1>7. TwoPolicies(AllBlocks(directory))
    BY <1>1, <1>5, <1>6, TwoOfAll
<1> QED
    BY <1>7 DEF InOrder

LEMMA InOrderBodiesParse ==
    ASSUME IInv, PairsInv, ScansPlaced, InOrder(directory), scan # "idle",
           NEW b \in Fresh
    PROVE  BodyParses(b)
<1>0. ScanInv
    BY DEF IInv
<1>1. PICK j \in DOMAIN found : b = found[j]
    BY DEF Fresh, Elements
<1>2. /\ text \in Seq(Lines) /\ OrderlyFile(text) /\ Part \in Parts(text)
  <2>1. /\ current \in DOMAIN directory /\ text = directory[current]
        /\ directory \in Seq(Seq(Lines)) /\ Part \in Parts(text) /\ text \in Seq(Lines)
      BY PartIsScanned
  <2> QED
      BY <2>1, InOrderFacts
<1> DEFINE p == <<b.first, b.last>>
<1>3. p \in Outermost(Pairs(text, Part)) /\ p \in BlocksOf(text)
    BY <1>0, <1>1, <1>2, FoundIsOutermost DEF BlocksOf
<1>4. PairInOrder(text, p)
    BY <1>2, <1>3 DEF OrderlyFile
<1>5. b.first \in Part /\ b.first \in DOMAIN text /\ p[1] = b.first /\ p[2] = b.last
    BY <1>0, <1>1, FoundInPart, PartFacts
<1> HIDE DEF p
<1>6. CASE inTable
  <2>1. InStatement(text, b.first)
      BY <1>5, <1>6 DEF ScansPlaced, Part, PartStart, InStatement
  <2>2. \A i \in (b.first + 1)..(b.last - 1) : text[i].kind \in {"column", "constraint"}
      BY <1>4, <1>5, <2>1, PairInOrderFacts
  <2> QED
      BY <1>0, <1>1, <1>6, <2>2, ListBodyParses
<1>7. CASE ~inTable
  <2>1. ~OpenedInTable(b)
      BY <1>7 DEF Fresh
  <2>2. ~InTable(text, b.first)
    <3> SUFFICES ASSUME InTable(text, b.first) PROVE FALSE
        OBVIOUS
    <3>1. InStatement(text, b.first)
        BY <1>2, <1>5, InTableInStatement DEF OrderlyFile
    <3>2. PICK e \in TableEnds(text) : b.first \in StatementStart(text, e)..e
        BY <3>1 DEF InStatement
    <3>3. text[b.first] \in StatementLines(text, e)
        BY <3>2 DEF StatementLines
    <3>4. /\ text[b.first].kind = "open" /\ text[b.first].id = b.id
          /\ text[b.first].policy = b.policy
        BY <1>0, <1>1 DEF ScanInv, BlocksApart, Delimited, IsOpening
    <3>5. text[b.first].plain
        BY <1>4, <1>5, PairInOrderFacts
    <3> QED
        BY <2>1, <3>2, <3>3, <3>4, <3>5 DEF OpenedInTable
  <2>3. Parses([k \in 1..(b.last - b.first - 1) |-> Uncommented(text[b.first + k])])
      BY <1>4, <1>5, <2>2, PairInOrderFacts
  <2> QED
      BY <1>7, <2>3 DEF BodyParses, Tried, Body
<1> QED
    BY <1>6, <1>7

\* What was taken from files in order has one policy for each id.
LEMMA InOrderMerges ==
    ASSUME IInv, InOrder(directory)
    PROVE  ~HaveConflict(blocks)
<1> SUFFICES ASSUME NEW b \in blocks, NEW c \in blocks, b.id = c.id, b.policy # c.policy
             PROVE  FALSE
    BY DEF HaveConflict
<1>0. directory \in Seq(Seq(Lines))
    BY DEF IInv, LoadInv, Reading
<1>1. ASSUME NEW d \in blocks
      PROVE  \E n \in DOMAIN directory : \E p \in BlocksOf(directory[n]) :
                 directory[n][p[1]].id = d.id /\ directory[n][p[1]].policy = d.policy
  <2>1. d.file \in DOMAIN directory
      BY DEF IInv, LoadInv, BlocksWritten, WrittenInFile
  <2>2. PICK i \in DOMAIN directory[d.file] : Written(d.file, i, d.id, d.policy)
      BY DEF IInv, LoadInv, BlocksWritten, WrittenInFile
  <2>3. OrderlyFile(directory[d.file])
      BY <1>0, <2>1, InOrderFacts
  <2>4. PICK p \in Outermost(Pairs(directory[d.file], DOMAIN directory[d.file])) : p[1] = i
      BY <2>2, <2>3, OpeningBegins DEF Written
  <2>5. p \in BlocksOf(directory[d.file])
      BY DEF BlocksOf, Parts
  <2> QED
      BY <2>1, <2>2, <2>4, <2>5 DEF Written
<1>2. PICK n \in DOMAIN directory : \E p \in BlocksOf(directory[n]) :
          directory[n][p[1]].id = b.id /\ directory[n][p[1]].policy = b.policy
    BY <1>1
<1>3. PICK m \in DOMAIN directory : \E q \in BlocksOf(directory[m]) :
          directory[m][q[1]].id = c.id /\ directory[m][q[1]].policy = c.policy
    BY <1>1
<1>4. TwoPolicies(AllBlocks(directory))
    BY <1>2, <1>3, TwoOfAll
<1> QED
    BY <1>4 DEF InOrder

LEMMA InOrderDirectivesParse ==
    ASSUME NEW dir \in Seq(Seq(Lines)), InOrder(dir), NEW n \in DOMAIN dir
    PROVE  DirectivesParse(dir[n])
<1> SUFFICES ASSUME NEW i \in Directives(dir[n])
             PROVE  Parses(DirectiveSql(dir[n], i))
    BY DEF DirectivesParse
<1>1. dir[n] \in Seq(Lines)
    OBVIOUS
<1>2. i \in DOMAIN dir[n] /\ dir[n][i].comment /\ dir[n][i].kind = "drop"
    BY <1>1, DirectivesAre DEF IsTaken, IsDirective
<1>3. DirectiveInOrder(dir[n], i)
    BY <1>2 DEF InOrder
<1> QED
    BY <1>1, <1>2, <1>3, DirectiveParses

\* Both implementations load every directory whose files are in order, without
\* an error: neither the scan of a file, which meets the blocks of its tables
\* once more and in another scope, nor the second reading, which looks for
\* directives in all lines, takes a line for what it is not
\* (load_decorated_from_dir, load_allow_drop_table_defs).
THEOREM OrderlyFilesLoad ==
    Spec => []FilesInOrderLoad
<1>1. Init => FilesInOrderLoad
    BY DEF Init, FilesInOrderLoad
<1>2. ASSUME IInv, PairsInv, ScansPlaced, FilesInOrderLoad, [Next]_vars
      PROVE  FilesInOrderLoad'
  <2> SUFFICES ASSUME phase' = "failed", InOrder(directory') PROVE FALSE
      BY DEF FilesInOrderLoad
  <2>1. directory' = directory
      BY <1>2 DEF Next, Read, FindBlocks, ReadFile, UnparsedFile, ReadDirectives, ScanTable,
                  ScanFile, Scan, TakeBlocks, BadBlocks, Merge, RefuseMerge, Finish, vars,
                  loadVars
  <2>2. InOrder(directory) /\ directory \in Seq(Seq(Lines))
      BY <1>2, <2>1 DEF IInv, LoadInv, Reading
  <2>3. phase # "failed"
      BY <1>2, <2>2 DEF FilesInOrderLoad
  <2>4. ASSUME NEW n \in unread, UnparsedFile(n) PROVE FALSE
    <3>1. n \in DOMAIN directory
        BY <1>2 DEF IInv, LoadInv, Reading
    <3> QED
        BY <2>2, <2>4, <3>1 DEF UnparsedFile, InOrder
  <2>5. ASSUME BadBlocks PROVE FALSE
    <3>1. scan # "idle" /\ scan \in {"ok", "error"} /\ ~ScanIsUsable
        BY <2>5 DEF BadBlocks
    <3>2. scan # "error"
        BY <1>2, <2>2, <3>1, InOrderScanEnds
    <3>3. \A b \in Fresh : BodyParses(b)
        BY <1>2, <2>2, <3>1, InOrderBodiesParse
    <3> QED
        BY <3>1, <3>2, <3>3 DEF ScanIsUsable
  <2>6. ASSUME RefuseMerge PROVE FALSE
      BY <1>2, <2>2, <2>6, InOrderMerges DEF RefuseMerge
  <2>7. ASSUME NEW n \in unread, ReadDirectives(n) PROVE FALSE
    <3>1. n \in DOMAIN directory /\ phase = "directives"
        BY <1>2, <2>7 DEF IInv, LoadInv, Reading, ReadDirectives
    <3>2. DirectivesParse(directory[n])
        BY <2>2, <3>1, InOrderDirectivesParse
    <3> QED
        BY <2>7, <3>1, <3>2 DEF ReadDirectives
  <2>8. ASSUME \/ \E n \in unread : ReadFile(n)
               \/ \E end \in statements : ScanTable(end)
               \/ ScanFile \/ Scan \/ TakeBlocks \/ Merge \/ Finish \/ UNCHANGED vars
        PROVE  FALSE
      BY <2>3, <2>8 DEF ReadFile, ScanTable, ScanFile, Scan, TakeBlocks, AfterScan, Merge,
                        Finish, vars, loadVars
  <2> QED
      BY <1>2, <2>4, <2>5, <2>6, <2>7, <2>8 DEF Next, Read, FindBlocks
<1>3. IInv /\ PairsInv /\ ScansPlaced /\ FilesInOrderLoad /\ [Next]_vars => FilesInOrderLoad'
    BY <1>2
<1> QED
    BY <1>1, <1>3, InitPlaced, PlacedInductive, PairsInvariant, PTL DEF Spec

-----------------------------------------------------------------------------
(* The two readings in Rust: what a directive takes is SQL, as is what a   *)
(* block takes, so that neither has the first line of the other in it.     *)

DirectivesRead ==
    phase \in SecondPass =>
        \A n \in DOMAIN directory :
            (phase = "directives" /\ n \in unread) \/ DirectivesParse(directory[n])

LEMMA DirectiveIsSql ==
    ASSUME NEW lines \in Seq(Lines), NEW i \in DOMAIN lines, IsDirective(lines, i),
           Parses(DirectiveSql(lines, i)), NEW j \in (i + 1)..DirectiveEnd(lines, i)
    PROVE  lines[j].kind \in SqlKinds
<1> DEFINE n == DirectiveEnd(lines, i) - i
           create == [comment |-> FALSE, kind |-> "create", table |-> lines[i].table]
           body == [k \in 1..n |-> Uncommented(lines[i + k])]
           S == {create} \cup {Uncommented(lines[i + k]) : k \in 1..n}
           k == j - i
<1>1. /\ DirectiveEnd(lines, i) \in Nat /\ i \in Nat /\ i < DirectiveEnd(lines, i)
      /\ DirectiveEnd(lines, i) <= Len(lines) /\ Len(lines) \in Nat
      /\ DOMAIN lines = 1..Len(lines)
    BY DirectiveEndFacts DEF IsDirective
<1>2. n \in Nat /\ k \in 1..n /\ i + k = j /\ j \in DOMAIN lines
    BY <1>1
<1>3. DirectiveSql(lines, i) = <<create>> \o body
    BY DEF DirectiveSql
<1> HIDE DEF n, k
<1>4. body \in Seq(S) /\ Len(body) = n /\ create \in S /\ body[k] = Uncommented(lines[j])
    BY <1>2
<1> HIDE DEF S, create, body
<1>5. k + 1 \in DOMAIN (<<create>> \o body) /\ (<<create>> \o body)[k + 1] = body[k]
    BY <1>2, <1>4
<1>6. IsSql(body[k]) /\ body[k].kind = lines[j].kind
    BY <1>2, <1>4, UncommentedFacts
<1>7. IsSql(DirectiveSql(lines, i)[k + 1]) /\ DirectiveSql(lines, i)[k + 1].kind = lines[j].kind
    BY <1>3, <1>5, <1>6
<1>8. k + 1 \in DOMAIN DirectiveSql(lines, i)
    BY <1>3, <1>5
<1> QED
    BY <1>7, <1>8, ParsedKinds

LEMMA BlockAndDirective ==
    ASSUME NEW lines \in Seq(Lines), DirectivesParse(lines), NEW i \in Directives(lines),
           NEW p \in Pairs(lines, DOMAIN lines), HasSqlBody(lines, p)
    PROVE  (i..DirectiveEnd(lines, i)) \cap (p[1]..p[2]) = {}
<1>1. /\ p[1] \in DOMAIN lines /\ p[2] \in DOMAIN lines /\ p[1] < p[2]
      /\ IsOpening(lines[p[1]]) /\ IsClosing(lines[p[2]])
    BY DEF Pairs, IsBlock
<1>2. i \in DOMAIN lines /\ IsDirective(lines, i) /\ Parses(DirectiveSql(lines, i))
    BY DirectivesAre DEF IsTaken, DirectivesParse
<1>3. DOMAIN lines \subseteq Nat
    OBVIOUS
<1>4. /\ DirectiveEnd(lines, i) \in DOMAIN lines /\ i < DirectiveEnd(lines, i)
    BY <1>2, DirectiveEndFacts DEF IsDirective
<1>5. lines[i].kind = "drop" /\ lines[p[1]].kind = "open" /\ lines[p[2]].kind = "end"
    BY <1>1, <1>2 DEF IsDirective, IsOpening, IsClosing
<1>6. i # p[1] /\ i # p[2]
    BY <1>5
<1>7. i \notin (p[1] + 1)..(p[2] - 1)
    BY <1>5 DEF HasSqlBody, SqlKinds
<1>8. p[1] \notin (i + 1)..DirectiveEnd(lines, i)
    BY <1>2, <1>5, DirectiveIsSql DEF SqlKinds
<1>9. \A x, a, b, c, d \in Nat :
          /\ a < b /\ c < d /\ a # c /\ a # d /\ a \notin (c + 1)..(d - 1) /\ c \notin (a + 1)..b
          => ~(x \in a..b /\ x \in c..d)
    OBVIOUS
<1>10. ASSUME NEW x \in i..DirectiveEnd(lines, i), x \in p[1]..p[2]
       PROVE  FALSE
  <2>1. x \in Nat /\ i \in Nat /\ DirectiveEnd(lines, i) \in Nat /\ p[1] \in Nat /\ p[2] \in Nat
      BY <1>1, <1>2, <1>3, <1>4
  <2> QED
      BY <1>1, <1>4, <1>6, <1>7, <1>8, <1>9, <1>10, <2>1
<1> QED
    BY <1>10

LEMMA InitRead ==
    Init => DirectivesRead
    BY DEF Init, DirectivesRead, SecondPass

LEMMA DirectivesReadInductive ==
    IInv /\ DirectivesRead /\ [Next]_vars => DirectivesRead'
<1> SUFFICES ASSUME IInv, DirectivesRead, [Next]_vars
             PROVE  DirectivesRead'
    OBVIOUS
<1>0. ASSUME NEW n, directory' = directory, DirectivesParse(directory[n])
      PROVE  DirectivesParse(directory[n])'
    BY <1>0
<1>1. ASSUME \/ \E n \in unread : ReadFile(n) \/ UnparsedFile(n)
             \/ \E end \in statements : ScanTable(end)
             \/ ScanFile \/ Scan \/ TakeBlocks \/ BadBlocks \/ RefuseMerge
      PROVE  DirectivesRead'
  <2>1. phase' \notin SecondPass
      BY <1>1 DEF ReadFile, UnparsedFile, Fail, ScanTable, ScanFile, Scan, loadVars, ScanStep,
                  SkipLine, OpenBlock, BodyLine, CloseBlock, FailScan, FinishScan, ScanFails,
                  AtLine, TakeBlocks, AfterScan, BadBlocks, RefuseMerge, IInv, LoadInv, Reading,
                  SecondPass
  <2> QED
      BY <2>1 DEF DirectivesRead
<1>2. CASE Merge
  <2>1. phase' = "directives" /\ unread' = DOMAIN directory /\ directory' = directory
      BY <1>2 DEF Merge
  <2> QED
      BY <2>1 DEF DirectivesRead
<1>3. ASSUME NEW n \in unread, ReadDirectives(n)
      PROVE  DirectivesRead'
  <2>1. /\ phase = "directives" /\ unread' = unread \ {n} /\ directory' = directory
        /\ IF DirectivesParse(directory[n]) THEN phase' = phase ELSE phase' = "failed"
      BY <1>3 DEF ReadDirectives, Fail
  <2>2. ASSUME phase' = "directives", NEW m \in DOMAIN directory, m \notin unread'
        PROVE  DirectivesParse(directory[m])'
    <3>1. DirectivesParse(directory[n])
        BY <2>1, <2>2
    <3>2. DirectivesParse(directory[m])
        BY <2>1, <2>2, <3>1 DEF DirectivesRead, SecondPass
    <3> QED
        BY <1>0, <2>1, <3>2
  <2> QED
      BY <2>1, <2>2 DEF DirectivesRead, SecondPass
<1>4. CASE Finish
  <2>1. phase = "directives" /\ unread = {} /\ directory' = directory
      BY <1>4 DEF Finish
  <2>2. \A n \in DOMAIN directory : DirectivesParse(directory[n])
      BY <2>1 DEF DirectivesRead, SecondPass
  <2> QED
      BY <1>0, <2>1, <2>2 DEF DirectivesRead
<1>5. CASE UNCHANGED vars
  <2>1. UNCHANGED <<directory, phase, unread>>
      BY <1>5 DEF vars, loadVars
  <2> QED
      BY <1>0, <2>1 DEF DirectivesRead
<1> QED
    BY <1>1, <1>2, <1>3, <1>4, <1>5 DEF Next, Read, FindBlocks

LEMMA AllBlocksArePairs ==
    ASSUME NEW dir \in Seq(Seq(Lines)), NEW b \in AllBlocks(dir)
    PROVE  /\ b.file \in DOMAIN dir
           /\ \E p \in BlocksOf(dir[b.file]) :
                 /\ p \in Pairs(dir[b.file], DOMAIN dir[b.file])
                 /\ b.from = p[1] /\ b.to = p[2]
                 /\ b.id = dir[b.file][p[1]].id /\ b.policy = dir[b.file][p[1]].policy
<1>1. PICK n \in DOMAIN dir : \E p \in BlocksOf(dir[n]) :
          b = [file |-> n, from |-> p[1], to |-> p[2],
               id |-> dir[n][p[1]].id, policy |-> dir[n][p[1]].policy]
    BY DEF AllBlocks
<1>2. PICK p \in BlocksOf(dir[n]) :
          b = [file |-> n, from |-> p[1], to |-> p[2],
               id |-> dir[n][p[1]].id, policy |-> dir[n][p[1]].policy]
    BY <1>1
<1>3. /\ b.file = n /\ b.from = p[1] /\ b.to = p[2]
      /\ b.id = dir[n][p[1]].id /\ b.policy = dir[n][p[1]].policy
    BY <1>2
<1>4. PICK part \in Parts(dir[n]) : p \in Outermost(Pairs(dir[n], part))
    BY DEF BlocksOf
<1>5. part \subseteq DOMAIN dir[n]
  <2>1. ASSUME NEW e \in TableEnds(dir[n])
        PROVE  StatementStart(dir[n], e)..e \subseteq DOMAIN dir[n]
    <3>1. /\ dir[n] \in Seq(Lines) /\ e \in DOMAIN dir[n] /\ Len(dir[n]) \in Nat
          /\ DOMAIN dir[n] = 1..Len(dir[n])
        BY DEF TableEnds, StatementEnds
    <3>2. StatementStart(dir[n], e) \in 1..e
        BY <3>1, StatementStartFacts
    <3> QED
        BY <3>1, <3>2
  <2> QED
      BY <2>1 DEF Parts
<1>6. p \in Pairs(dir[n], DOMAIN dir[n])
    BY <1>4, <1>5 DEF Outermost, Pairs
<1> QED
    BY <1>3, <1>6

\* For every directory that Rust loads, no directive that allows a drop shares
\* a line with a drift block, although each reading looks at all lines: a block
\* with a directive in its body does not parse as SQL, nor does a directive
\* with an opening line before its end (load_decorated_from_dir,
\* load_allow_drop_table_defs).
THEOREM ReadingsStayApart ==
    ASSUME ~Go
    PROVE  Spec => []ReadingsDoNotOverlap
<1>1. ASSUME IInv, HeardInv, DirectivesRead, phase = "done"
      PROVE  ReadingsDoNotOverlap
  <2> SUFFICES ASSUME NEW b \in AllBlocks(directory), ~PassedOver(directory[b.file], b),
                      NEW i \in Directives(directory[b.file])
               PROVE  (i..DirectiveEnd(directory[b.file], i)) \cap (b.from..b.to) = {}
      BY DEF ReadingsDoNotOverlap
  <2>0. directory \in Seq(Seq(Lines))
      BY <1>1 DEF IInv, LoadInv, Reading
  <2> DEFINE lines == directory[b.file]
  <2>1. PICK p \in BlocksOf(lines) :
            /\ p \in Pairs(lines, DOMAIN lines) /\ b.from = p[1] /\ b.to = p[2]
            /\ b.id = lines[p[1]].id /\ b.policy = lines[p[1]].policy
      BY <2>0, AllBlocksArePairs
  <2>2. b.file \in DOMAIN directory /\ lines \in Seq(Lines)
      BY <2>0, AllBlocksArePairs
  <2>3. DirectivesParse(lines)
      BY <1>1, <2>2 DEF DirectivesRead, SecondPass
  <2>4. FileHeard(b.file)
      BY <1>1, <2>2 DEF HeardInv, FilesHeard, SecondPass
  <2>5. ~IsPassedOver(lines, p)
      BY <2>1, PassedOverIff
  <2>6. HasSqlBody(lines, p)
      BY <2>1, <2>4, <2>5 DEF FileHeard, IsRead
  <2> QED
      BY <2>1, <2>2, <2>3, <2>6, BlockAndDirective
<1>2. IInv /\ HeardInv /\ DirectivesRead => ReadingsDoNotOverlap
    BY <1>1 DEF ReadingsDoNotOverlap
<1>3. IInv /\ PairsInv /\ HeardInv /\ [Next]_vars => HeardInv'
    BY HeardInductive
<1> QED
    BY <1>2, <1>3, InitHeard, InitRead, DirectivesReadInductive, PairsInvariant, PTL DEF Spec

-----------------------------------------------------------------------------
(* The types of columns.                                                   *)

\* No type is that of an array, of which the loader keeps the element only.
NoArrays == \A l \in Lines : l.kind = "column" => l.type \in TypeName /\ ~l.type.array

\* No CREATE TABLE gives a column two types, as the server would refuse.
OneTypeEach ==
    \A dir \in Directories : \A n \in DOMAIN dir : \A e \in TableEnds(dir[n]) :
        \A l, m \in Sql(StatementLines(dir[n], e), "column") :
            l.name = m.name => l.type = m.type

GivenDirectory == directory \in Directories

LEMMA DirectoryStays ==
    Spec => []GivenDirectory
<1>1. Init => GivenDirectory
    BY DEF Init, GivenDirectory
<1>2. GivenDirectory /\ [Next]_vars => GivenDirectory'
    BY DEF Next, Read, FindBlocks, ReadFile, UnparsedFile, ReadDirectives, ScanTable, ScanFile,
           Scan, TakeBlocks, BadBlocks, Merge, RefuseMerge, Finish, vars, loadVars, GivenDirectory
<1> QED
    BY <1>1, <1>2, PTL DEF Spec

\* The last CREATE TABLE for a table.
LEMMA LastExists ==
    ASSUME IInv, phase = "done", ~Go, NEW t \in DOMAIN tables
    PROVE  \E p \in Defining(t) : \A q \in Defining(t) : After(p, q)
<1> DEFINE F == {n \in DOMAIN directory : t \in DOMAIN ParsedTables(directory[n])}
<1>1. F \in SUBSET (1..Len(directory)) /\ F # {} /\ Len(directory) \in Nat
    BY LoadedFacts
<1>2. \A n : n \in F <=> n \in DOMAIN directory /\ t \in DOMAIN ParsedTables(directory[n])
    OBVIOUS
<1> HIDE DEF F
<1>3. PICK n \in F : \A m \in F : m <= n
    BY <1>1, GreatestElement
<1> DEFINE S == {e \in TableEnds(directory[n]) : TableName(directory[n], e) = t}
<1>4. directory[n] \in Seq(Lines) /\ n \in DOMAIN directory
    BY <1>2, LoadedFacts
<1>5. S \in SUBSET (1..Len(directory[n])) /\ S # {} /\ Len(directory[n]) \in Nat
    BY <1>2, <1>4, TableEndFacts DEF ParsedTables
<1>6. \A e : e \in S <=> e \in TableEnds(directory[n]) /\ TableName(directory[n], e) = t
    OBVIOUS
<1> HIDE DEF S
<1>7. PICK e \in S : \A f \in S : f <= e
    BY <1>5, GreatestElement
<1>8. <<n, e>> \in Defining(t)
    BY <1>4, <1>6 DEF Defining
<1>9. ASSUME NEW q \in Defining(t)
      PROVE  After(<<n, e>>, q)
  <2>1. PICK m \in DOMAIN directory : \E f \in TableEnds(directory[m]) :
            q = <<m, f>> /\ TableName(directory[m], f) = t
      BY DEF Defining
  <2>2. PICK f \in TableEnds(directory[m]) : q = <<m, f>> /\ TableName(directory[m], f) = t
      BY <2>1
  <2>3. m \in F
      BY <1>2, <2>2 DEF ParsedTables
  <2>4. m <= n /\ m \in Nat /\ n \in Nat
      BY <1>1, <1>3, <2>3
  <2>5. m = n => f <= e
      BY <1>6, <1>7, <2>2
  <2> QED
      BY <2>2, <2>4, <2>5 DEF After
<1> QED
    BY <1>8, <1>9

\* For every directory without arrays that Rust loads, a column of a table has
\* the type that its own CREATE TABLE would give it, length and precision
\* included, although the name of the type went through two conversions and
\* the statement may be one of several for the table (load_decorated_from_dir,
\* build_table_def, format_type_name, normalize_type).
THEOREM TypesAreTheStatements ==
    ASSUME ~Go, NoArrays, OneTypeEach
    PROVE  Spec => []TypesAreAsked
<1>1. ASSUME IInv, GivenDirectory, phase = "done"
      PROVE  TypesAreAsked
  <2> SUFFICES ASSUME NEW t \in DOMAIN tables
               PROVE  \E p \in Defining(t) :
                   /\ \A q \in Defining(t) : After(p, q)
                   /\ \A l \in StatementLines(directory[p[1]], p[2]) :
                         IsSql(l) /\ l.kind = "column" =>
                             Grammar[l.type] = Grammar[tables[t].columns[l.name].type]
      BY DEF TypesAreAsked
  <2>1. PICK p \in Defining(t) : \A q \in Defining(t) : After(p, q)
      BY <1>1, LastExists
  <2>2. tables[t] = DefinitionAt(directory[p[1]], p[2])
      BY <1>1, <2>1, TableIsLast
  <2>3. p[1] \in DOMAIN directory /\ p[2] \in TableEnds(directory[p[1]])
      BY DEF Defining
  <2> DEFINE lines == StatementLines(directory[p[1]], p[2])
             columns == Sql(lines, "column")
  <2>4. lines \subseteq Lines
    <3>1. directory[p[1]] \in Seq(Lines)
        BY <1>1, <2>3, LoadedFacts
    <3>2. p[2] \in DOMAIN directory[p[1]]
        BY <2>3 DEF TableEnds, StatementEnds
    <3>3. StatementStart(directory[p[1]], p[2]) \in 1..p[2]
        BY <3>1, <3>2, StatementStartFacts
    <3>4. \A i \in StatementStart(directory[p[1]], p[2])..p[2] : i \in DOMAIN directory[p[1]]
        BY <3>1, <3>2, <3>3
    <3> QED
        BY <3>1, <3>4 DEF StatementLines
  <2>5. ASSUME NEW l \in lines, IsSql(l), l.kind = "column"
        PROVE  Grammar[l.type] = Grammar[tables[t].columns[l.name].type]
    <3>1. l \in columns
        BY <2>5 DEF Sql
    <3> DEFINE m == CHOOSE k \in columns : k.name = l.name
    <3>2. m \in columns /\ m.name = l.name
        BY <3>1
    <3>3. m.type = l.type
        BY <1>1, <2>3, <3>1, <3>2 DEF OneTypeEach, GivenDirectory
    <3>4. tables[t].columns[l.name].type = ColumnType[m.type]
      <4>1. tables[t] = Definition(TableName(directory[p[1]], p[2]), lines)
          BY <2>2 DEF DefinitionAt
      <4> HIDE DEF lines
      <4>2. tables[t].columns =
                [n \in {k.name : k \in columns} |->
                    LET k == CHOOSE k \in columns : k.name = n
                    IN  [type |-> ColumnType[k.type], nullable |-> IsNullable(k),
                         default |-> k.default]]
          BY <4>1 DEF Definition
      <4> HIDE DEF columns
      <4>3. tables[t].columns[l.name] =
                [type |-> ColumnType[m.type], nullable |-> IsNullable(m), default |-> m.default]
          BY <3>1, <4>2
      <4> QED
          BY <4>3
    <3>5. l.type \in TypeName /\ ~l.type.array
        BY <2>4, <2>5 DEF NoArrays
    <3> HIDE DEF m
    <3> QED
        BY <3>3, <3>4, <3>5, TypesAreKept
  <2> QED
      BY <2>1, <2>5
<1>2. IInv /\ GivenDirectory => TypesAreAsked
    BY <1>1 DEF TypesAreAsked
<1> QED
    BY <1>2, DirectoryStays, Invariant, PTL

-----------------------------------------------------------------------------
(* The tables and indexes of a file are well formed.                       *)

LEMMA LinesAreTextLines ==
    ASSUME NEW lines \in Seq(Lines)
    PROVE  lines \in Seq(TextLines) /\ DOMAIN lines = 1..Len(lines) /\ Len(lines) \in Nat
<1>1. \A i \in 1..Len(lines) : lines[i] \in TextLines
    BY DEF TextLines
<1> QED
    BY <1>1

\* The tables, indexes and namespaces of a file.
LEMMA ParsedTablesTyped ==
    ASSUME NEW lines \in Seq(Lines), Parses(lines)
    PROVE  AreTables(ParsedTables(lines))
<1> DEFINE f == ParsedTables(lines)
           S(t) == {e \in TableEnds(lines) : TableName(lines, e) = t}
<1>1. lines \in Seq(TextLines)
    BY LinesAreTextLines
<1>2. DOMAIN f = {TableName(lines, e) : e \in TableEnds(lines)} /\ f = [t \in DOMAIN f |-> f[t]]
    BY DEF ParsedTables
<1>3. ASSUME NEW e \in TableEnds(lines)
      PROVE  TableName(lines, e) \in Tables
  <2>1. PICK k \in DOMAIN lines : lines[k].kind = "create" /\ TableName(lines, e) = lines[k].table
      BY <1>1, TableHasName
  <2>2. lines[k] \in Lines
      OBVIOUS
  <2> QED
      BY <2>1, <2>2, LineFormTyped
<1>4. ASSUME NEW t \in DOMAIN f
      PROVE  IsTable(f[t])
  <2>1. f[t] = DefinitionAt(lines, Latest(S(t)))
      BY DEF ParsedTables
  <2>2. S(t) \in SUBSET (1..Len(lines)) /\ S(t) # {}
      BY TableEndFacts DEF ParsedTables
  <2> HIDE DEF f
  <2>3. Latest(S(t)) \in TableEnds(lines)
    <3> DEFINE A == S(t)
    <3>1. A \in SUBSET (1..Len(lines)) /\ A # {} /\ A \subseteq TableEnds(lines)
        BY <2>2
    <3> HIDE DEF A
    <3>2. Latest(A) \in A
        BY <3>1, TableEndFacts, LatestIsGreatest
    <3>3. Latest(A) \in TableEnds(lines)
        BY <3>1, <3>2
    <3> QED
        BY <3>3 DEF A
  <2> QED
      BY <1>1, <2>1, <2>3, DefinitionAtTyped
<1> HIDE DEF f
<1>5. DOMAIN f \subseteq Tables
    BY <1>2, <1>3
<1> QED
    BY <1>2, <1>4, <1>5 DEF AreTables, IsMap, f

LEMMA ParsedIndexesTyped ==
    ASSUME NEW lines \in Seq(Lines)
    PROVE  IsMapTo(ParsedIndexes(lines), Indexes, Index)
<1> DEFINE f == ParsedIndexes(lines)
           S(n) == {i \in IndexEnds(lines) : lines[i].name = n}
<1>1. ASSUME NEW i \in IndexEnds(lines)
      PROVE  lines[i].name \in Indexes /\ lines[i].index \in Index /\ i \in 1..Len(lines)
  <2>1. i \in DOMAIN lines /\ lines[i].kind = "index" /\ lines[i] \in Lines
      BY DEF IndexEnds, StatementEnds
  <2> QED
      BY <2>1, LineFormTyped DEF LineTyped
<1>2. DOMAIN f = {lines[i].name : i \in IndexEnds(lines)} /\ f = [n \in DOMAIN f |-> f[n]]
    BY DEF ParsedIndexes
<1>3. ASSUME NEW n \in DOMAIN f
      PROVE  f[n] \in Index
  <2> DEFINE A == S(n)
  <2>1. f[n] = lines[Latest(A)].index
      BY DEF ParsedIndexes
  <2>2. A \in SUBSET (1..Len(lines)) /\ A # {} /\ A \subseteq IndexEnds(lines)
      BY <1>1, <1>2
  <2> HIDE DEF A, f
  <2>3. Latest(A) \in IndexEnds(lines)
      BY <2>2, TableEndFacts, LatestIsGreatest
  <2> QED
      BY <1>1, <2>1, <2>3
<1> HIDE DEF f
<1>4. DOMAIN f \subseteq Indexes
    BY <1>1, <1>2
<1> QED
    BY <1>2, <1>3, <1>4 DEF IsMapTo, f

LEMMA SchemasTyped ==
    ASSUME NEW lines \in Seq(Lines)
    PROVE  ExtractCreateSchemas(lines) \subseteq Namespaces
<1>1. ASSUME NEW i \in DOMAIN lines, lines[i].kind = "schema"
      PROVE  lines[i].namespace \in Namespaces
    BY <1>1, LineFormTyped DEF LineTyped
<1> QED
    BY <1>1 DEF ExtractCreateSchemas

LEMMA ReplacingTables ==
    ASSUME NEW old, NEW new, AreTables(old), AreTables(new)
    PROVE  AreTables(Replacing(old, new))
<1> DEFINE f == Replacing(old, new)
<1>1. DOMAIN f = DOMAIN old \cup DOMAIN new /\ f = [x \in DOMAIN f |-> f[x]]
    BY DEF Replacing
<1>2. \A x \in DOMAIN f : f[x] = IF x \in DOMAIN new THEN new[x] ELSE old[x]
    BY DEF Replacing
<1> HIDE DEF f
<1> QED
    BY <1>1, <1>2 DEF AreTables, IsMap, f

LEMMA ReplacingIndexes ==
    ASSUME NEW old, NEW new, IsMapTo(old, Indexes, Index), IsMapTo(new, Indexes, Index)
    PROVE  IsMapTo(Replacing(old, new), Indexes, Index)
<1> DEFINE f == Replacing(old, new)
<1>1. DOMAIN f = DOMAIN old \cup DOMAIN new /\ f = [x \in DOMAIN f |-> f[x]]
    BY DEF Replacing
<1>2. \A x \in DOMAIN f : f[x] = IF x \in DOMAIN new THEN new[x] ELSE old[x]
    BY DEF Replacing
<1>3. ASSUME NEW x \in DOMAIN f PROVE x \in Indexes /\ f[x] \in Index
    BY <1>1, <1>2 DEF IsMapTo
<1> HIDE DEF f
<1> QED
    BY <1>1, <1>3 DEF IsMapTo, f
LEMMA FirstTableEndFacts ==
    ASSUME NEW sql \in Seq(TextLines), TableEnds(sql) # {}
    PROVE  FirstTableEnd(sql) \in TableEnds(sql)
<1>1. TableEnds(sql) \in SUBSET Nat
    BY DEF TableEnds, StatementEnds
<1> QED
    BY <1>1, LeastElement DEF FirstTableEnd

LEMMA DirectiveTyped ==
    ASSUME NEW lines \in Seq(Lines), NEW i \in DOMAIN lines, IsDirective(lines, i)
    PROVE  /\ DirectiveSql(lines, i) \in Seq(TextLines)
           /\ TableEnds(DirectiveSql(lines, i)) # {}
           /\ lines[i].table \in Tables
<1> DEFINE n == DirectiveEnd(lines, i) - i
           create == CreateLine(lines[i].table)
           body == [k \in 1..n |-> Uncommented(lines[i + k])]
<1>1. /\ DirectiveEnd(lines, i) \in Nat /\ i \in Nat /\ i < DirectiveEnd(lines, i)
      /\ DirectiveEnd(lines, i) <= Len(lines) /\ Len(lines) \in Nat
      /\ DOMAIN lines = 1..Len(lines) /\ IsClosing(lines[DirectiveEnd(lines, i)])
    BY DirectiveEndFacts DEF IsDirective, Closings
<1>2. n \in Nat /\ n >= 1 /\ i + n = DirectiveEnd(lines, i) /\ \A k \in 1..n : i + k \in DOMAIN lines
    BY <1>1
<1>3. DirectiveSql(lines, i) = <<create>> \o body
    BY DEF DirectiveSql, CreateLine
<1>4. lines[i].table \in Tables
    BY LineFormTyped DEF IsDirective, LineTyped
<1>5. create \in TextLines
    BY <1>4 DEF TextLines
<1>6. \A k \in 1..n : Uncommented(lines[i + k]) \in TextLines
    BY <1>2 DEF TextLines
<1> HIDE DEF n, create
<1>7. body \in Seq(TextLines) /\ Len(body) = n /\ body[n] = Uncommented(lines[i + n])
    BY <1>2, <1>6
<1> HIDE DEF body
<1>8. /\ <<create>> \o body \in Seq(TextLines)
      /\ n + 1 \in DOMAIN (<<create>> \o body) /\ (<<create>> \o body)[n + 1] = body[n]
    BY <1>2, <1>5, <1>7
<1>9. IsSql(body[n]) /\ body[n].kind = "end"
    BY <1>1, <1>2, <1>7, UncommentedFacts DEF IsClosing
<1>10. n + 1 \in TableEnds(DirectiveSql(lines, i))
    BY <1>3, <1>8, <1>9 DEF TableEnds, StatementEnds
<1> QED
    BY <1>3, <1>4, <1>8, <1>10

LEMMA AllowedDropsTyped ==
    ASSUME NEW lines \in Seq(Lines), DirectivesParse(lines)
    PROVE  AreTables(AllowedDrops(lines))
<1> DEFINE f == AllowedDrops(lines)
           starts == Directives(lines)
           S(t) == {j \in starts : lines[j].table = t}
<1>1. ASSUME NEW i \in starts
      PROVE  /\ i \in 1..Len(lines) /\ lines[i].table \in Tables
             /\ DirectiveSql(lines, i) \in Seq(TextLines)
             /\ TableEnds(DirectiveSql(lines, i)) # {}
             /\ Parses(DirectiveSql(lines, i))
  <2>1. i \in DOMAIN lines /\ IsDirective(lines, i)
      BY DirectivesAre DEF IsTaken
  <2> QED
      BY <2>1, DirectiveTyped DEF DirectivesParse
<1>2. DOMAIN f = {lines[i].table : i \in starts} /\ f = [t \in DOMAIN f |-> f[t]]
    BY DEF AllowedDrops
<1>3. ASSUME NEW t \in DOMAIN f
      PROVE  IsTable(f[t])
  <2> DEFINE A == S(t)
             sql == DirectiveSql(lines, Latest(A))
  <2>1. f[t] = DefinitionAt(sql, FirstTableEnd(sql))
      BY DEF AllowedDrops
  <2>2. A \in SUBSET (1..Len(lines)) /\ A # {} /\ A \subseteq starts
      BY <1>1, <1>2
  <2> HIDE DEF A, f, starts
  <2>3. Latest(A) \in starts
      BY <2>2, TableEndFacts, LatestIsGreatest
  <2>4. sql \in Seq(TextLines) /\ TableEnds(sql) # {} /\ Parses(sql)
      BY <1>1, <2>3
  <2> HIDE DEF sql
  <2> QED
      BY <2>1, <2>4, FirstTableEndFacts, DefinitionAtTyped
<1> HIDE DEF f
<1>4. DOMAIN f \subseteq Tables
    BY <1>1, <1>2
<1> QED
    BY <1>2, <1>3, <1>4 DEF AreTables, IsMap, f

-----------------------------------------------------------------------------
(* What blocks anticipate.                                                 *)

BlockHolds == [columns : SUBSET AnticipatedColumn, uniques : SUBSET Unique,
               foreignKeys : SUBSET ForeignKey, indexes : SUBSET NamedIndex]

LEMMA AnticipatedTyped ==
    ASSUME ScanInv, NEW j \in DOMAIN found, BodyParses(found[j])
    PROVE  Anticipated(found[j]) \in BlockHolds
<1> DEFINE b == found[j]
           sql == Tried(b)
           ends == TableEnds(sql)
           table == DefinitionAt(sql, FirstTableEnd(sql))
           C == IF ends = {} THEN {}
                ELSE {[name |-> c, type |-> table.columns[c].type] : c \in DOMAIN table.columns}
           U == IF ends = {} THEN {} ELSE table.uniques
           F == IF ends = {} THEN {} ELSE table.foreignKeys
           X == IF inTable THEN {} ELSE {NamedIndexOf(sql[i]) : i \in IndexEnds(sql)}
<1>1. Anticipated(b) = [columns |-> C, uniques |-> U, foreignKeys |-> F, indexes |-> X]
    BY DEF Anticipated
<1>2. sql \in Seq(TextLines) /\ Parses(sql)
    BY TriedLines DEF BodyParses
<1> HIDE DEF sql
<1>3. ends # {} => IsTable(table)
    BY <1>2, FirstTableEndFacts, DefinitionAtTyped
<1>4. C \in SUBSET AnticipatedColumn
  <2> SUFFICES ASSUME ends # {}, NEW c \in DOMAIN table.columns
               PROVE  [name |-> c, type |-> table.columns[c].type] \in AnticipatedColumn
      OBVIOUS
  <2>1. IsMapTo(table.columns, Columns, Column)
      BY <1>3 DEF IsTable
  <2> HIDE DEF table
  <2>2. c \in Columns /\ table.columns[c] \in Column
      BY <2>1 DEF IsMapTo
  <2> QED
      BY <2>2 DEF Column, AnticipatedColumn
<1>5. U \in SUBSET Unique /\ F \in SUBSET ForeignKey
  <2>1. ends # {} => table.uniques \in SUBSET Unique /\ table.foreignKeys \in SUBSET ForeignKey
    <3> HIDE DEF table
    <3> QED
        BY <1>3 DEF IsTable
  <2> QED
      BY <2>1
<1>6. X \in SUBSET NamedIndex
  <2> SUFFICES ASSUME NEW i \in IndexEnds(sql)
               PROVE  NamedIndexOf(sql[i]) \in NamedIndex
      OBVIOUS
  <2>1. i \in DOMAIN sql /\ sql[i].kind = "index" /\ sql[i] \in TextLines
      BY <1>2 DEF IndexEnds, StatementEnds
  <2>2. sql[i].name \in Indexes /\ sql[i].index \in Index
      BY <2>1, TextLineTyped DEF LineTyped
  <2> QED
      BY <2>2 DEF NamedIndexOf, Index, NamedIndex
<1> HIDE DEF C, U, F, X
<1> QED
    BY <1>1, <1>4, <1>5, <1>6 DEF BlockHolds
-----------------------------------------------------------------------------
(* What is handed to the planner.                                          *)

LEMMA FiniteImage ==
    ASSUME NEW S, IsFiniteSet(S), NEW f
    PROVE  IsFiniteSet({f[x] : x \in S})
<1> DEFINE T == {f[x] : x \in S}
           g == [x \in S |-> f[x]]
<1>1. g \in [S -> T] /\ \A y \in T : \E x \in S : g[x] = y
    OBVIOUS
<1>2. g \in Surjection(S, T)
    BY <1>1 DEF Surjection
<1> HIDE DEF g, T
<1>3. IsFiniteSet(T)
    BY <1>2, FS_Surjection
<1> QED
    BY <1>3 DEF T

BlockTyped(b) == b.policy \in Policies /\ b.holds \in BlockHolds

\* The groups that blocks are merged into.
LEMMA GroupTyped ==
    ASSUME NEW bs, \A b \in bs : BlockTyped(b), NEW id \in {b.id : b \in bs}
    PROVE  GroupOf(id, bs) \in DriftGroup
<1> DEFINE own == {b \in bs : b.id = id}
<1>1. own # {} /\ own \subseteq bs
    OBVIOUS
<1> HIDE DEF own
<1>2. (CHOOSE b \in own : TRUE) \in own
    BY <1>1
<1>3. (CHOOSE b \in own : TRUE).policy \in Policies
    BY <1>1, <1>2 DEF BlockTyped
<1>4. ASSUME NEW b \in own
      PROVE  /\ b.holds.columns \subseteq AnticipatedColumn /\ b.holds.uniques \subseteq Unique
             /\ b.holds.foreignKeys \subseteq ForeignKey /\ b.holds.indexes \subseteq NamedIndex
  <2>1. b.holds \in BlockHolds
      BY <1>1 DEF BlockTyped
  <2> QED
      BY <2>1 DEF BlockHolds
<1>5. /\ UNION {b.holds.columns : b \in own} \subseteq AnticipatedColumn
      /\ UNION {b.holds.uniques : b \in own} \subseteq Unique
    BY <1>4
<1>6. /\ UNION {b.holds.foreignKeys : b \in own} \subseteq ForeignKey
      /\ UNION {b.holds.indexes : b \in own} \subseteq NamedIndex
    BY <1>4
<1> QED
    BY <1>3, <1>5, <1>6 DEF GroupOf, DriftGroup, own

LEMMA GroupsTyped ==
    ASSUME NEW bs, IsFiniteSet(bs), \A b \in bs : BlockTyped(b)
    PROVE  LET merged == Merged(bs)
               all == {merged[id] : id \in DOMAIN merged}
           IN  all \in SUBSET DriftGroup /\ IsFiniteSet(all)
<1> DEFINE merged == Merged(bs)
           ids == {b.id : b \in bs}
           h == [b \in bs |-> b.id]
<1>1. DOMAIN merged = ids /\ \A id \in ids : merged[id] = GroupOf(id, bs)
    BY DEF Merged
<1>2. ids = {h[b] : b \in bs}
    OBVIOUS
<1> HIDE DEF h
<1>3. IsFiniteSet({h[b] : b \in bs})
    BY FiniteImage
<1> HIDE DEF merged
<1>4. IsFiniteSet(DOMAIN merged)
    BY <1>1, <1>2, <1>3
<1>5. IsFiniteSet({merged[id] : id \in DOMAIN merged})
    BY <1>4, FiniteImage
<1>6. \A id \in DOMAIN merged : merged[id] \in DriftGroup
    BY <1>1, GroupTyped
<1>7. {merged[id] : id \in DOMAIN merged} \in SUBSET DriftGroup
    BY <1>6
<1> QED
    BY <1>5, <1>7 DEF merged

LEMMA FreshTyped ==
    ASSUME ScanInv, Go \/ ScanIsUsable
    PROVE  /\ IsFiniteSet({Built(b) : b \in Fresh})
           /\ \A b \in {Built(c) : c \in Fresh} : BlockTyped(b)
<1>1. ASSUME NEW b \in Fresh
      PROVE  BlockTyped(Built(b))
  <2>1. PICK j \in DOMAIN found : b = found[j]
      BY DEF Fresh, Elements
  <2>2. b.policy \in Policies
    <3>1. found[j] \in FoundBlock
        BY DEF ScanInv, ScanTyped
    <3> QED
        BY <2>1, <3>1 DEF FoundBlock
  <2>3. Nothing \in BlockHolds
      BY DEF Nothing, BlockHolds
  <2>4. BodyParses(b) => Anticipated(b) \in BlockHolds
      BY <2>1, AnticipatedTyped
  <2>5. Built(b).policy = b.policy
        /\ Built(b).holds = IF BodyParses(b) THEN Anticipated(b) ELSE Nothing
      BY DEF Built
  <2> QED
      BY <2>2, <2>3, <2>4, <2>5 DEF BlockTyped
<1>2. IsFiniteSet({Built(b) : b \in Fresh})
  <2> DEFINE h == [b \in Fresh |-> Built(b)]
  <2>1. Len(found) \in Nat /\ DOMAIN found = 1..Len(found)
      BY FoundFacts DEF ScanInv
  <2>2. IsFiniteSet(DOMAIN found)
      BY <2>1, FS_Interval
  <2>3. IsFiniteSet({found[j] : j \in DOMAIN found})
      BY <2>2, FiniteImage
  <2>4. Fresh \in SUBSET {found[j] : j \in DOMAIN found}
      BY DEF Fresh, Elements
  <2>5. IsFiniteSet(Fresh)
      BY <2>3, <2>4, FS_Subset
  <2>6. {h[b] : b \in Fresh} = {Built(b) : b \in Fresh}
      OBVIOUS
  <2> HIDE DEF h
  <2>7. IsFiniteSet({h[b] : b \in Fresh})
      BY <2>5, FiniteImage
  <2> QED
      BY <2>6, <2>7
<1> QED
    BY <1>1, <1>2

DesiredTyped ==
    /\ namespaces \subseteq Namespaces /\ AreTables(tables)
    /\ IsMapTo(indexes, Indexes, Index) /\ AreTables(allowDrop)

BlocksTyped == IsFiniteSet(blocks) /\ \A b \in blocks : BlockTyped(b)

PlacesTyped == depth \in Nat /\ current \in DOMAIN directory \cup {0}

TypedInv == DesiredTyped /\ BlocksTyped /\ PlacesTyped

LEMMA TypedInvIsTypeOK ==
    ASSUME IInv, PairsInv, TypedInv
    PROVE  TypeOK
<1>1. /\ phase \in {"files", "tables", "file", "directives", "done", "failed"}
      /\ unread \subseteq DOMAIN directory
    BY DEF IInv, LoadInv, Reading, FirstPass, SecondPass
<1>2. scan \in {"idle", "running", "ok", "error"} /\ last \in 0..Len(text)
    BY DEF IInv, ScanInv, ScanTyped
<1>3. opened \in 0..last /\ cursor \in 1..(last + 1)
    BY PartFacts DEF IInv, ScanInv, ScanTyped
<1>4. depth \in Nat /\ current \in DOMAIN directory \cup {0}
    BY DEF TypedInv, PlacesTyped
<1>5. ASSUME phase = "done"
      PROVE  IsFiles(Loaded)
  <2> DEFINE all == {groups[id] : id \in DOMAIN groups}
  <2>1. groups = Merged(blocks)
      BY <1>5 DEF IInv, LoadInv, GroupsMerged, SecondPass
  <2>2. all \in SUBSET DriftGroup /\ IsFiniteSet(all)
      BY <2>1, GroupsTyped DEF TypedInv, BlocksTyped
  <2>3. Loaded = [schemas |-> namespaces, tables |-> tables, indexes |-> indexes,
                  allowDropTables |-> allowDrop, groups |-> all]
      BY DEF Loaded
  <2> HIDE DEF all
  <2> QED
      BY <2>2, <2>3 DEF TypedInv, DesiredTyped, IsFiles
<1> QED
    BY <1>1, <1>2, <1>3, <1>4, <1>5 DEF TypeOK
LEMMA InitTyped ==
    Init => TypedInv
<1> SUFFICES ASSUME Init PROVE TypedInv
    OBVIOUS
<1>1. AreTables(<< >>)
  <2>1. DOMAIN << >> = {} /\ << >> = [x \in DOMAIN << >> |-> << >>[x]]
      OBVIOUS
  <2> QED
      BY <2>1 DEF AreTables, IsMap
<1>2. IsMapTo(<< >>, Indexes, Index)
  <2>1. DOMAIN << >> = {} /\ << >> \in [DOMAIN << >> -> Index]
      OBVIOUS
  <2> QED
      BY <2>1 DEF IsMapTo
<1>3. DesiredTyped
    BY <1>1, <1>2 DEF Init, DesiredTyped
<1>4. BlocksTyped
    BY FS_EmptySet DEF Init, BlocksTyped
<1>5. PlacesTyped
    BY DEF Init, ScanIdle, PlacesTyped
<1> QED
    BY <1>3, <1>4, <1>5 DEF TypedInv

LEMMA ReadFileTyped ==
    ASSUME IInv, TypedInv, NEW n \in unread, ReadFile(n)
    PROVE  TypedInv'
<1>1. /\ Parses(directory[n]) /\ n \in DOMAIN directory /\ directory[n] \in Seq(Lines)
      /\ namespaces' = namespaces \cup ExtractCreateSchemas(directory[n])
      /\ tables' = Replacing(tables, ParsedTables(directory[n]))
      /\ indexes' = Replacing(indexes, ParsedIndexes(directory[n]))
      /\ current' = n /\ UNCHANGED <<depth, directory, blocks, allowDrop>>
    BY DEF ReadFile, IInv, LoadInv, Reading, scanVars
<1> DEFINE lines == directory[n]
<1>2. /\ ExtractCreateSchemas(lines) \subseteq Namespaces
      /\ AreTables(ParsedTables(lines))
      /\ IsMapTo(ParsedIndexes(lines), Indexes, Index)
    BY <1>1, SchemasTyped, ParsedTablesTyped, ParsedIndexesTyped
<1> HIDE DEF lines
<1>3. AreTables(tables')
    BY <1>1, <1>2, ReplacingTables DEF TypedInv, DesiredTyped, lines
<1>4. IsMapTo(indexes', Indexes, Index)
    BY <1>1, <1>2, ReplacingIndexes DEF TypedInv, DesiredTyped, lines
<1>5. namespaces' \subseteq Namespaces
    BY <1>1, <1>2 DEF TypedInv, DesiredTyped, lines
<1>6. AreTables(allowDrop')
    BY <1>1 DEF TypedInv, DesiredTyped
<1>7. DesiredTyped'
    BY <1>3, <1>4, <1>5, <1>6 DEF DesiredTyped, AreTables, IsMap, IsMapTo
<1>8. BlocksTyped'
    BY <1>1 DEF TypedInv, BlocksTyped
<1>9. PlacesTyped'
    BY <1>1 DEF TypedInv, PlacesTyped
<1> QED
    BY <1>7, <1>8, <1>9 DEF TypedInv

LEMMA UnreadTyped ==
    ASSUME TypedInv, UNCHANGED <<namespaces, tables, indexes, allowDrop, blocks, directory, current>>,
           depth' \in Nat
    PROVE  TypedInv'
<1>1. DesiredTyped' /\ BlocksTyped'
    BY DEF TypedInv, DesiredTyped, BlocksTyped
<1>2. PlacesTyped'
    BY DEF TypedInv, PlacesTyped
<1> QED
    BY <1>1, <1>2 DEF TypedInv

LEMMA DepthTyped ==
    ASSUME IInv, TypedInv,
           \/ \E end \in statements : ScanTable(end)
           \/ ScanFile \/ Scan \/ BadBlocks \/ Merge \/ RefuseMerge \/ Finish
           \/ \E n \in unread : UnparsedFile(n)
    PROVE  TypedInv'
<1>0. depth \in Nat
    BY DEF TypedInv, PlacesTyped
<1>1. ASSUME NEW end \in statements, ScanTable(end)
      PROVE  TypedInv'
  <2>1. depth' = 0 /\ UNCHANGED <<namespaces, tables, indexes, allowDrop, blocks, directory, current>>
      BY <1>1 DEF ScanTable, StartScan
  <2> QED
      BY <2>1, UnreadTyped
<1>2. ASSUME ScanFile
      PROVE  TypedInv'
  <2>1. depth' = 0 /\ UNCHANGED <<namespaces, tables, indexes, allowDrop, blocks, directory, current>>
      BY <1>2 DEF ScanFile, StartScan
  <2> QED
      BY <2>1, UnreadTyped
<1>3. ASSUME Scan
      PROVE  TypedInv'
  <2>1. UNCHANGED <<namespaces, tables, indexes, allowDrop, blocks, directory, current>>
      BY <1>3 DEF Scan, loadVars
  <2>2. depth' \in Nat
    <3>1. CASE SkipLine \/ CloseBlock \/ FailScan \/ FinishScan
        BY <1>0, <3>1 DEF SkipLine, CloseBlock, FailScan, FinishScan
    <3>2. CASE OpenBlock
        BY <3>2 DEF OpenBlock
    <3>3. CASE BodyLine
      <4>1. Line \in Lines
          BY <3>3, CurrentLine DEF BodyLine, IInv, ScanInv
      <4>2. NewDepth \in Int
          BY <1>0, <4>1, LineFacts DEF NewDepth
      <4> QED
          BY <3>3, <4>2 DEF BodyLine
    <3> QED
        BY <1>3, <3>1, <3>2, <3>3 DEF Scan, ScanStep
  <2> QED
      BY <2>1, <2>2, UnreadTyped
<1>4. ASSUME BadBlocks
      PROVE  TypedInv'
  <2>1. UNCHANGED <<depth, namespaces, tables, indexes, allowDrop, blocks, directory, current>>
      BY <1>4 DEF BadBlocks
  <2> QED
      BY <1>0, <2>1, UnreadTyped
<1>5. ASSUME Merge \/ RefuseMerge \/ Finish
      PROVE  TypedInv'
  <2>1. UNCHANGED <<depth, namespaces, tables, indexes, allowDrop, blocks, directory, current>>
      BY <1>5 DEF Merge, RefuseMerge, Finish, scanVars
  <2> QED
      BY <1>0, <2>1, UnreadTyped
<1>6. ASSUME NEW n \in unread, UnparsedFile(n)
      PROVE  TypedInv'
  <2>1. UNCHANGED <<depth, namespaces, tables, indexes, allowDrop, blocks, directory, current>>
      BY <1>6 DEF UnparsedFile, scanVars
  <2> QED
      BY <1>0, <2>1, UnreadTyped
<1> QED
    BY <1>1, <1>2, <1>3, <1>4, <1>5, <1>6

LEMMA ReadDirectivesTyped ==
    ASSUME IInv, TypedInv, NEW n \in unread, ReadDirectives(n)
    PROVE  TypedInv'
<1>1. /\ UNCHANGED <<depth, namespaces, tables, indexes, blocks, directory, current>>
      /\ \/ DirectivesParse(directory[n]) /\ allowDrop' = Replacing(allowDrop, AllowedDrops(directory[n]))
         \/ allowDrop' = allowDrop
    BY DEF ReadDirectives, scanVars
<1>2. directory[n] \in Seq(Lines)
    BY DEF IInv, LoadInv, Reading
<1>3. AreTables(allowDrop')
    BY <1>1, <1>2, AllowedDropsTyped, ReplacingTables DEF TypedInv, DesiredTyped
<1>4. DesiredTyped'
    BY <1>1, <1>3 DEF TypedInv, DesiredTyped, AreTables, IsMap
<1>5. BlocksTyped' /\ PlacesTyped'
    BY <1>1 DEF TypedInv, BlocksTyped, PlacesTyped
<1> QED
    BY <1>4, <1>5 DEF TypedInv

LEMMA TakeBlocksTyped ==
    ASSUME IInv, TypedInv, TakeBlocks
    PROVE  TypedInv'
<1> DEFINE taken == {Built(b) : b \in Fresh}
<1>1. /\ UNCHANGED <<depth, namespaces, tables, indexes, allowDrop, directory, current>>
      /\ blocks' = blocks \cup taken \/ blocks' = blocks
      /\ Go \/ ScanIsUsable
    BY DEF TakeBlocks
<1>2. IsFiniteSet(taken) /\ \A b \in taken : BlockTyped(b)
    BY <1>1, FreshTyped DEF IInv
<1> HIDE DEF taken
<1>3. IsFiniteSet(blocks') /\ \A b \in blocks' : BlockTyped(b)
    BY <1>1, <1>2, FS_Union DEF TypedInv, BlocksTyped
<1>4. BlocksTyped'
    BY <1>3 DEF BlocksTyped, BlockTyped
<1>5. DesiredTyped' /\ PlacesTyped'
    BY <1>1 DEF TypedInv, DesiredTyped, PlacesTyped
<1> QED
    BY <1>4, <1>5 DEF TypedInv

LEMMA TypedInductive ==
    IInv /\ TypedInv /\ [Next]_vars => TypedInv'
<1> SUFFICES ASSUME IInv, TypedInv, [Next]_vars PROVE TypedInv'
    OBVIOUS
<1>1. CASE UNCHANGED vars
  <2>1. UNCHANGED <<depth, namespaces, tables, indexes, allowDrop, blocks, directory, current>>
      BY <1>1 DEF vars, loadVars, scanVars
  <2>2. depth' \in Nat
      BY <2>1 DEF TypedInv, PlacesTyped
  <2> QED
      BY <2>1, <2>2, UnreadTyped
<1>2. CASE Next
    BY <1>2, ReadFileTyped, DepthTyped, ReadDirectivesTyped, TakeBlocksTyped
    DEF Next, Read, FindBlocks
<1> QED
    BY <1>1, <1>2

\* Whatever the files of a directory say, what the planner is given is of the
\* form that the theorems about plans and runs start from, drift groups are
\* finitely many, and a scan stays within its text (load_decorated_from_dir,
\* extract_drift_blocks).
THEOREM LoadedIsWellFormed ==
    Spec => []TypeOK
<1>1. IInv /\ PairsInv /\ TypedInv => TypeOK
    BY TypedInvIsTypeOK
<1> QED
    BY <1>1, InitTyped, TypedInductive, Invariant, PairsInvariant, PTL DEF Spec
-----------------------------------------------------------------------------
(* What the groups list.                                                   *)

\* The block that was taken is one of the directory, which it lists.
IsBlockOf(dir, b) ==
    \E n \in DOMAIN dir : \E p \in BlocksOf(dir[n]) :
        /\ ~IsPassedOver(dir[n], p)
        /\ b.id = dir[n][p[1]].id /\ b.policy = dir[n][p[1]].policy
        /\ IsListedAs(b.holds, dir[n], p)

BlocksAreListed == \A b \in blocks : IsBlockOf(directory, b)

LEMMA InitListed ==
    Init => BlocksAreListed
    BY DEF Init, BlocksAreListed

\* A block of a scan is one of its text that nothing takes the place of.
LEMMA FreshIsListed ==
    ASSUME IInv, PairsInv, ScansPlaced, scan = "ok",
           NEW j \in DOMAIN found, found[j] \in Fresh, BodyParses(found[j])
    PROVE  IsBlockOf(directory, Built(found[j]))
<1> DEFINE p == <<found[j].first, found[j].last>>
           c == Built(found[j])
<1>1. /\ current \in DOMAIN directory /\ text = directory[current]
      /\ text \in Seq(Lines) /\ Part \in Parts(text)
    BY PartIsScanned
<1>2. ScanInv
    BY DEF IInv
<1>3. p \in Outermost(Pairs(text, Part))
  <2>1. p \in {<<b.first, b.last>> : b \in Elements(found)}
      BY DEF Elements
  <2> QED
      BY <1>2, <2>1, ScanThatEnds
<1>4. p \in BlocksOf(text)
    BY <1>1, <1>3 DEF BlocksOf
<1>5. c.id = text[found[j].first].id /\ c.policy = text[found[j].first].policy
    BY <1>2 DEF Built, ScanInv, BlocksApart, Delimited
<1>6. IsListedAs(c.holds, text, p)
    BY <1>2, AnticipatedIsListed DEF Built
<1>7. ~IsPassedOver(text, p)
  <2>1. CASE inTable
    <3>1. last \in TableEnds(text) /\ Part = StatementStart(text, last)..last
        BY <2>1 DEF ScansPlaced, Part, PartStart
    <3>2. p[1] \in Part
        BY <1>3 DEF Outermost, Pairs
    <3>3. InStatement(text, p[1])
        BY <3>1, <3>2 DEF InStatement
    <3> QED
        BY <3>3 DEF IsPassedOver, PassedOver, BlockFrom
  <2>2. CASE ~inTable
    <3>1. ~OpenedInTable(found[j])
        BY <2>2 DEF Fresh
    <3>2. found[j].id = text[p[1]].id /\ found[j].policy = text[p[1]].policy
        BY <1>5 DEF Built
    <3>3. ASSUME NEW i \in DOMAIN text, InStatement(text, i), text[i].kind = "open",
                 text[i].plain, Uppercase[text[i].id] = Uppercase[text[p[1]].id],
                 text[i].policy = text[p[1]].policy
          PROVE  FALSE
      <4>1. PICK e \in TableEnds(text) : i \in StatementStart(text, e)..e
          BY <3>3 DEF InStatement
      <4>2. text[i] \in StatementLines(text, e)
          BY <4>1 DEF StatementLines
      <4> QED
          BY <3>1, <3>2, <3>3, <4>1, <4>2 DEF OpenedInTable
    <3>4. ASSUME NEW i \in DOMAIN text
          PROVE  ~TakenFor(text, BlockFrom(text, p), i)
        BY <3>3 DEF TakenFor, BlockFrom
    <3> QED
        BY <3>4 DEF IsPassedOver, PassedOver
  <2> QED
      BY <2>1, <2>2
<1>8. p[1] = found[j].first
    OBVIOUS
<1> HIDE DEF p, c
<1>9. /\ c.id = directory[current][p[1]].id /\ c.policy = directory[current][p[1]].policy
      /\ IsListedAs(c.holds, directory[current], p)
      /\ ~IsPassedOver(directory[current], p) /\ p \in BlocksOf(directory[current])
    BY <1>1, <1>4, <1>5, <1>6, <1>7, <1>8
<1>10. IsBlockOf(directory, c)
    BY <1>1, <1>9 DEF IsBlockOf
<1> QED
    BY <1>10 DEF c

LEMMA ListedInductive ==
    ASSUME ~Go
    PROVE  IInv /\ PairsInv /\ ScansPlaced /\ BlocksAreListed /\ [Next]_vars => BlocksAreListed'
<1> SUFFICES ASSUME IInv, PairsInv, ScansPlaced, BlocksAreListed, [Next]_vars
             PROVE  BlocksAreListed'
    OBVIOUS
<1>1. CASE TakeBlocks
  <2>1. /\ scan = "ok" /\ \A b \in Fresh : BodyParses(b)
        /\ blocks' = blocks \cup {Built(b) : b \in Fresh} /\ directory' = directory
      BY <1>1 DEF TakeBlocks, ScanIsUsable
  <2>2. ASSUME NEW b \in Fresh
        PROVE  IsBlockOf(directory, Built(b))
    <3>1. PICK j \in DOMAIN found : b = found[j]
        BY DEF Fresh, Elements
    <3> QED
        BY <2>1, <2>2, <3>1, FreshIsListed
  <2>3. \A b \in blocks' : IsBlockOf(directory, b)
      BY <2>1, <2>2 DEF BlocksAreListed
  <2> QED
      BY <2>1, <2>3 DEF BlocksAreListed
<1>2. ASSUME UNCHANGED <<blocks, directory>>
      PROVE  BlocksAreListed'
    BY <1>2 DEF BlocksAreListed
<1>3. CASE UNCHANGED vars
    BY <1>2, <1>3 DEF vars, loadVars
<1>4. ASSUME Read \/ (\E end \in statements : ScanTable(end)) \/ ScanFile \/ Scan
                \/ BadBlocks \/ Merge \/ RefuseMerge \/ Finish
      PROVE  BlocksAreListed'
  <2>1. UNCHANGED <<blocks, directory>>
      BY <1>4 DEF Read, ReadFile, UnparsedFile, ReadDirectives, ScanTable, ScanFile, Scan,
                  BadBlocks, Merge, RefuseMerge, Finish, loadVars
  <2> QED
      BY <1>2, <2>1
<1> QED
    BY <1>1, <1>3, <1>4 DEF Next, FindBlocks

\* No block of a directory lists a column with two types, of which the loader
\* would keep one.
OneTypeInBlocks ==
    \A dir \in Directories : \A n \in DOMAIN dir : \A p \in BlocksOf(dir[n]) :
        OneTypeIn(dir[n], p)

\* A block of the directory that was taken, by its file and lines.
LEMMA HeardBlock ==
    ASSUME IInv, HeardInv, phase = "done", NEW d \in AllBlocks(directory),
           ~PassedOver(directory[d.file], d)
    PROVE  \E b \in blocks, p \in BlocksOf(directory[d.file]) :
              /\ b.id = d.id /\ d.from = p[1] /\ d.to = p[2]
              /\ IsListedAs(b.holds, directory[d.file], p)
<1>1. directory \in Seq(Seq(Lines))
    BY DEF IInv, LoadInv, Reading
<1>2. PICK p \in BlocksOf(directory[d.file]) :
          /\ d.from = p[1] /\ d.to = p[2]
          /\ d.id = directory[d.file][p[1]].id /\ d.policy = directory[d.file][p[1]].policy
    BY <1>1, AllBlocksArePairs
<1>3. d.file \in DOMAIN directory
    BY <1>1, AllBlocksArePairs
<1>4. FileHeard(d.file)
    BY <1>3 DEF HeardInv, FilesHeard, SecondPass
<1>5. ~IsPassedOver(directory[d.file], p)
    BY <1>2, PassedOverIff
<1>6. IsListed(directory[d.file], p)
    BY <1>4, <1>5 DEF FileHeard, IsRead
<1> QED
    BY <1>2, <1>6 DEF IsListed

\* The block that one that was taken comes from.
LEMMA BlockHeard ==
    ASSUME BlocksAreListed, NEW b \in blocks
    PROVE  \E d \in AllBlocks(directory) : \E p \in BlocksOf(directory[d.file]) :
              /\ ~PassedOver(directory[d.file], d) /\ d.file \in DOMAIN directory
              /\ b.id = d.id /\ d.from = p[1] /\ d.to = p[2]
              /\ IsListedAs(b.holds, directory[d.file], p)
<1>1. IsBlockOf(directory, b)
    BY DEF BlocksAreListed
<1>2. PICK n \in DOMAIN directory : \E p \in BlocksOf(directory[n]) :
          /\ ~IsPassedOver(directory[n], p)
          /\ b.id = directory[n][p[1]].id /\ b.policy = directory[n][p[1]].policy
          /\ IsListedAs(b.holds, directory[n], p)
    BY <1>1 DEF IsBlockOf
<1>3. PICK p \in BlocksOf(directory[n]) :
          /\ ~IsPassedOver(directory[n], p)
          /\ b.id = directory[n][p[1]].id /\ b.policy = directory[n][p[1]].policy
          /\ IsListedAs(b.holds, directory[n], p)
    BY <1>2
<1> DEFINE d == [file |-> n, from |-> p[1], to |-> p[2],
                 id |-> directory[n][p[1]].id, policy |-> directory[n][p[1]].policy]
<1>4. d \in AllBlocks(directory)
    BY DEF AllBlocks
<1>5. /\ d.file = n /\ d.from = p[1] /\ d.to = p[2]
      /\ d.id = directory[n][p[1]].id /\ d.policy = directory[n][p[1]].policy
    OBVIOUS
<1> HIDE DEF d
<1>6. ~PassedOver(directory[n], d)
    BY <1>3, <1>5, PassedOverIff
<1> QED
    BY <1>3, <1>4, <1>5, <1>6

\* What is listed depends on the lines of a block only.
LEMMA ListsAreOfLines ==
    ASSUME NEW lines, NEW p, NEW d, d.from = p[1], d.to = p[2]
    PROVE  /\ ListedColumns(lines, PairBlock(p)) = ListedColumns(lines, d)
           /\ ListedIndexes(lines, PairBlock(p)) = ListedIndexes(lines, d)
<1>1. Inner(PairBlock(p)) = Inner(d)
    BY DEF PairBlock, Inner
<1> QED
    BY <1>1 DEF ListedColumns, ListedIndexes

\* For every directory that Rust loads, if no block in it lists a column with
\* two types: every block that is not passed over is wholly in the group of its
\* id, whichever scope and file it is in, and no group lists a column or index
\* but those of blocks with its id (load_decorated_from_dir,
\* build_anticipated_drift, merge_drift_groups). A block that is passed over
\* may be missing.
THEOREM GroupsAreTheirBlocks ==
    ASSUME ~Go, OneTypeInBlocks
    PROVE  Spec => []GroupsListTheirBlocks
<1>1. ASSUME IInv, HeardInv, BlocksAreListed, GivenDirectory, phase = "done"
      PROVE  GroupsListTheirBlocks
  <2> DEFINE all == AllBlocks(directory)
             taken == {b \in all : ~PassedOver(directory[b.file], b)}
             own(id) == {b \in all : b.id = id}
             ColumnsOf(b) == ListedColumns(directory[b.file], b)
             IndexesOf(b) == ListedIndexes(directory[b.file], b)
  <2>1. groups = Merged(blocks)
      BY <1>1 DEF IInv, LoadInv, GroupsMerged, SecondPass
  <2>2. ASSUME NEW d \in taken
        PROVE  \E b \in blocks : /\ b.id = d.id /\ b.holds.columns = ColumnsOf(d)
                                 /\ b.holds.indexes = IndexesOf(d)
    <3>1. PICK b \in blocks, p \in BlocksOf(directory[d.file]) :
              /\ b.id = d.id /\ d.from = p[1] /\ d.to = p[2]
              /\ IsListedAs(b.holds, directory[d.file], p)
        BY <1>1, HeardBlock
    <3>2. d.file \in DOMAIN directory
        BY <1>1, AllBlocksArePairs DEF IInv, LoadInv, Reading
    <3>3. OneTypeIn(directory[d.file], p)
        BY <1>1, <3>2 DEF OneTypeInBlocks, GivenDirectory
    <3> QED
        BY <3>1, <3>3, ListsAreOfLines DEF IsListedAs
  <2>3. ASSUME NEW b \in blocks
        PROVE  \E d \in all : /\ b.id = d.id /\ b.holds.columns = ColumnsOf(d)
                              /\ b.holds.indexes = IndexesOf(d)
    <3>1. PICK d \in AllBlocks(directory) : \E p \in BlocksOf(directory[d.file]) :
              /\ d.file \in DOMAIN directory
              /\ b.id = d.id /\ d.from = p[1] /\ d.to = p[2]
              /\ IsListedAs(b.holds, directory[d.file], p)
        BY <1>1, BlockHeard
    <3>2. PICK p \in BlocksOf(directory[d.file]) :
              /\ d.file \in DOMAIN directory
              /\ b.id = d.id /\ d.from = p[1] /\ d.to = p[2]
              /\ IsListedAs(b.holds, directory[d.file], p)
        BY <3>1
    <3>3. OneTypeIn(directory[d.file], p)
        BY <1>1, <3>2 DEF OneTypeInBlocks, GivenDirectory
    <3> QED
        BY <3>2, <3>3, ListsAreOfLines DEF IsListedAs
  <2> HIDE DEF all, ColumnsOf, IndexesOf
  <2>4. DOMAIN groups = {b.id : b \in blocks}
      BY <2>1 DEF Merged
  <2>5. ASSUME NEW id \in DOMAIN groups
        PROVE  /\ groups[id].columns = UNION {b.holds.columns : b \in {c \in blocks : c.id = id}}
               /\ groups[id].indexes = UNION {b.holds.indexes : b \in {c \in blocks : c.id = id}}
    <3>1. groups[id] = GroupOf(id, blocks)
        BY <2>1 DEF Merged
    <3> QED
        BY <3>1 DEF GroupOf
  <2>6. ASSUME NEW d \in taken
        PROVE  /\ d.id \in DOMAIN groups
               /\ ColumnsOf(d) \subseteq groups[d.id].columns
               /\ IndexesOf(d) \subseteq groups[d.id].indexes
    <3>1. PICK b \in blocks : /\ b.id = d.id /\ b.holds.columns = ColumnsOf(d)
                              /\ b.holds.indexes = IndexesOf(d)
        BY <2>2
    <3>2. d.id \in DOMAIN groups
        BY <2>4, <3>1
    <3> QED
        BY <2>5, <3>1, <3>2
  <2>7. ASSUME NEW id \in DOMAIN groups
        PROVE  /\ own(id) # {}
               /\ groups[id].columns \subseteq UNION {ColumnsOf(d) : d \in own(id)}
               /\ groups[id].indexes \subseteq UNION {IndexesOf(d) : d \in own(id)}
    <3>1. own(id) # {}
        BY <2>3, <2>4
    <3>2. ASSUME NEW x \in groups[id].columns
          PROVE  x \in UNION {ColumnsOf(d) : d \in own(id)}
        BY <2>3, <2>5
    <3>3. ASSUME NEW x \in groups[id].indexes
          PROVE  x \in UNION {IndexesOf(d) : d \in own(id)}
        BY <2>3, <2>5
    <3> QED
        BY <3>1, <3>2, <3>3
  <2> QED
      BY <1>1, <2>6, <2>7 DEF GroupsListTheirBlocks, all, ColumnsOf, IndexesOf
<1>2. IInv /\ HeardInv /\ BlocksAreListed /\ GivenDirectory => GroupsListTheirBlocks
    BY <1>1 DEF GroupsListTheirBlocks
<1>3. IInv /\ PairsInv /\ HeardInv /\ [Next]_vars => HeardInv'
    BY HeardInductive
<1>4. IInv /\ PairsInv /\ ScansPlaced /\ BlocksAreListed /\ [Next]_vars => BlocksAreListed'
    BY ListedInductive
<1> QED
    BY <1>2, <1>3, <1>4, InitHeard, InitPlaced, InitListed, PlacedInductive, DirectoryStays,
       PairsInvariant, PTL DEF Spec

-----------------------------------------------------------------------------
(* Types that settle.                                                      *)

\* Every name of a type in a line is one that introspection shows as the
\* loader writes it: no serial type, no precision, no type with an alias that
\* only one side knows.
PlainLines ==
    \A l \in Lines :
        /\ l.kind = "column" => IsSettled(ColumnType[l.type])
        /\ l.kind = "removed" => RemovedType(l.type) = AnyType \/ IsSettled(RemovedType(l.type))

SettledType(type) == type = AnyType \/ IsSettled(type)

TableSettled(table) ==
    /\ \A c \in DOMAIN table.columns : SettledType(table.columns[c].type)
    /\ \A c \in DOMAIN table.removed : SettledType(table.removed[c])

AreSettled(ts) == \A t \in DOMAIN ts : TableSettled(ts[t])

BlockSettled(b) == \A c \in b.holds.columns : SettledType(c.type)

SettledInv ==
    /\ AreSettled(tables) /\ AreSettled(allowDrop)
    /\ \A b \in blocks : BlockSettled(b)

LEMMA TextLineSettled ==
    ASSUME PlainLines, NEW l \in TextLines
    PROVE  /\ l.kind = "column" => SettledType(ColumnType[l.type])
           /\ l.kind = "removed" => SettledType(RemovedType(l.type))
<1>1. CASE l \in Lines
    BY <1>1 DEF PlainLines, SettledType
<1>2. ASSUME NEW m \in Lines, l = Uncommented(m)
      PROVE  /\ l.kind = "column" => SettledType(ColumnType[l.type])
             /\ l.kind = "removed" => SettledType(RemovedType(l.type))
  <2>1. l.kind = m.kind
      BY <1>2, LineShape DEF Uncommented
  <2>2. m.kind \in {"column", "removed"} => l.type = m.type
      BY <1>2, UncommentedSame, FieldsOfKinds
  <2> QED
      BY <2>1, <2>2 DEF PlainLines, SettledType
<1>3. CASE l \in {CreateProbe, EndOfTable} \/ \E t \in Tables : l = CreateLine(t)
    BY <1>3 DEF CreateProbe, EndOfTable, CreateLine
<1> QED
    BY <1>1, <1>2, <1>3 DEF TextLines

LEMMA DefinitionSettled ==
    ASSUME PlainLines, NEW t, NEW lines \in SUBSET TextLines
    PROVE  TableSettled(Definition(t, lines))
<1> DEFINE columns == Sql(lines, "column")
           legacy == {l \in lines : l.comment /\ l.kind = "removed"}
           C == Definition(t, lines).columns
           R == Definition(t, lines).removed
<1>1. /\ C = [n \in {l.name : l \in columns} |->
                LET l == CHOOSE l \in columns : l.name = n
                IN  [type |-> ColumnType[l.type], nullable |-> IsNullable(l), default |-> l.default]]
      /\ R = [n \in {l.name : l \in legacy} |->
                RemovedType((CHOOSE l \in legacy : l.name = n).type)]
    BY DEF Definition
<1>2. ASSUME NEW n \in DOMAIN C
      PROVE  SettledType(C[n].type)
  <2> DEFINE k == CHOOSE m \in columns : m.name = n
  <2>1. k \in columns /\ C[n] = [type |-> ColumnType[k.type], nullable |-> IsNullable(k), default |-> k.default]
      BY <1>1
  <2>2. k \in lines /\ k.kind = "column"
      BY <2>1 DEF Sql
  <2> HIDE DEF C, k
  <2>3. SettledType(ColumnType[k.type])
      BY <2>2, TextLineSettled
  <2> QED
      BY <2>1, <2>3
<1>3. ASSUME NEW n \in DOMAIN R
      PROVE  SettledType(R[n])
  <2> DEFINE k == CHOOSE m \in legacy : m.name = n
  <2>1. k \in legacy /\ R[n] = RemovedType(k.type)
      BY <1>1
  <2> HIDE DEF R, k
  <2> QED
      BY <2>1, TextLineSettled
<1> QED
    BY <1>2, <1>3 DEF TableSettled

LEMMA ReplacingSettled ==
    ASSUME NEW old, NEW new, AreSettled(old), AreSettled(new)
    PROVE  AreSettled(Replacing(old, new))
<1> DEFINE f == Replacing(old, new)
<1>1. \A x \in DOMAIN f : \/ x \in DOMAIN new /\ f[x] = new[x]
                          \/ x \in DOMAIN old /\ f[x] = old[x]
    BY DEF Replacing
<1> HIDE DEF f
<1>2. AreSettled(f)
    BY <1>1 DEF AreSettled
<1> QED
    BY <1>2 DEF f

LEMMA ParsedTablesSettled ==
    ASSUME PlainLines, NEW lines \in Seq(Lines)
    PROVE  AreSettled(ParsedTables(lines))
<1> DEFINE f == ParsedTables(lines)
           S(t) == {e \in TableEnds(lines) : TableName(lines, e) = t}
<1>1. lines \in Seq(TextLines)
    BY LinesAreTextLines
<1>2. ASSUME NEW t \in DOMAIN f
      PROVE  TableSettled(f[t])
  <2> DEFINE A == S(t)
  <2>1. f[t] = DefinitionAt(lines, Latest(A))
      BY DEF ParsedTables
  <2>2. A \in SUBSET (1..Len(lines)) /\ A # {} /\ A \subseteq TableEnds(lines)
      BY TableEndFacts DEF ParsedTables
  <2> HIDE DEF A, f
  <2>3. Latest(A) \in TableEnds(lines)
      BY <2>2, TableEndFacts, LatestIsGreatest
  <2> QED
      BY <1>1, <2>1, <2>3, StatementLinesTyped, DefinitionSettled DEF DefinitionAt
<1> QED
    BY <1>2 DEF AreSettled

LEMMA AllowedDropsSettled ==
    ASSUME PlainLines, NEW lines \in Seq(Lines)
    PROVE  AreSettled(AllowedDrops(lines))
<1> DEFINE f == AllowedDrops(lines)
           starts == Directives(lines)
           S(t) == {j \in starts : lines[j].table = t}
<1>1. ASSUME NEW i \in starts
      PROVE  /\ i \in 1..Len(lines)
             /\ DirectiveSql(lines, i) \in Seq(TextLines)
             /\ TableEnds(DirectiveSql(lines, i)) # {}
  <2>1. i \in DOMAIN lines /\ IsDirective(lines, i)
      BY DirectivesAre DEF IsTaken
  <2> QED
      BY <2>1, DirectiveTyped
<1>2. DOMAIN f = {lines[i].table : i \in starts}
    BY DEF AllowedDrops
<1>3. ASSUME NEW t \in DOMAIN f
      PROVE  TableSettled(f[t])
  <2> DEFINE A == S(t)
             sql == DirectiveSql(lines, Latest(A))
  <2>1. f[t] = DefinitionAt(sql, FirstTableEnd(sql))
      BY DEF AllowedDrops
  <2>2. A \in SUBSET (1..Len(lines)) /\ A # {} /\ A \subseteq starts
      BY <1>1, <1>2
  <2> HIDE DEF A, f, starts
  <2>3. Latest(A) \in starts
      BY <2>2, TableEndFacts, LatestIsGreatest
  <2>4. sql \in Seq(TextLines) /\ TableEnds(sql) # {}
      BY <1>1, <2>3
  <2> HIDE DEF sql
  <2>5. FirstTableEnd(sql) \in TableEnds(sql)
      BY <2>4, FirstTableEndFacts
  <2> QED
      BY <2>1, <2>4, <2>5, StatementLinesTyped, DefinitionSettled DEF DefinitionAt
<1> QED
    BY <1>3 DEF AreSettled

LEMMA FreshSettled ==
    ASSUME PlainLines, ScanInv, NEW b \in Fresh
    PROVE  BlockSettled(Built(b))
<1>1. PICK j \in DOMAIN found : b = found[j]
    BY DEF Fresh, Elements
<1> DEFINE sql == Tried(b)
           ends == TableEnds(sql)
           table == DefinitionAt(sql, FirstTableEnd(sql))
<1>2. ASSUME BodyParses(b)
      PROVE  \A c \in Anticipated(b).columns : SettledType(c.type)
  <2>1. sql \in Seq(TextLines)
      BY <1>1, TriedLines
  <2>2. Anticipated(b).columns =
            IF ends = {} THEN {}
            ELSE {[name |-> c, type |-> table.columns[c].type] : c \in DOMAIN table.columns}
      BY DEF Anticipated
  <2> HIDE DEF sql
  <2>3. ends # {} => TableSettled(table)
      BY <2>1, FirstTableEndFacts, StatementLinesTyped, DefinitionSettled DEF DefinitionAt
  <2> HIDE DEF ends, table
  <2> QED
      BY <2>2, <2>3 DEF TableSettled
<1>3. Built(b).holds = IF BodyParses(b) THEN Anticipated(b) ELSE Nothing
    BY DEF Built
<1>4. Nothing.columns = {}
    BY DEF Nothing
<1> QED
    BY <1>2, <1>3, <1>4 DEF BlockSettled

LEMMA InitSettled ==
    Init => SettledInv
    BY DEF Init, SettledInv, AreSettled

LEMMA SettledInductive ==
    ASSUME PlainLines
    PROVE  IInv /\ SettledInv /\ [Next]_vars => SettledInv'
<1> SUFFICES ASSUME IInv, SettledInv, [Next]_vars PROVE SettledInv'
    OBVIOUS
<1>1. \A n \in DOMAIN directory : directory[n] \in Seq(Lines)
    BY DEF IInv, LoadInv, Reading
<1>2. unread \subseteq DOMAIN directory
    BY DEF IInv, LoadInv, Reading
<1>3. ASSUME NEW n \in unread, ReadFile(n)
      PROVE  SettledInv'
  <2>1. AreSettled(tables')
      BY <1>1, <1>2, <1>3, ParsedTablesSettled, ReplacingSettled DEF ReadFile, SettledInv
  <2>2. UNCHANGED <<blocks, allowDrop>>
      BY <1>3 DEF ReadFile
  <2> QED
      BY <2>1, <2>2 DEF SettledInv, AreSettled, TableSettled, BlockSettled
<1>4. ASSUME NEW n \in unread, ReadDirectives(n)
      PROVE  SettledInv'
  <2>1. AreSettled(allowDrop')
      BY <1>1, <1>2, <1>4, AllowedDropsSettled, ReplacingSettled DEF ReadDirectives, SettledInv
  <2>2. UNCHANGED <<blocks, tables>>
      BY <1>4 DEF ReadDirectives
  <2> QED
      BY <2>1, <2>2 DEF SettledInv, AreSettled, TableSettled, BlockSettled
<1>5. CASE TakeBlocks
  <2>1. /\ UNCHANGED <<tables, allowDrop>>
        /\ blocks' = blocks \cup (IF scan = "ok" THEN {Built(b) : b \in Fresh} ELSE {})
      BY <1>5 DEF TakeBlocks
  <2>2. \A b \in Fresh : BlockSettled(Built(b))
      BY FreshSettled DEF IInv
  <2>3. \A b \in blocks' : BlockSettled(b)
      BY <2>1, <2>2 DEF SettledInv
  <2> QED
      BY <2>1, <2>3 DEF SettledInv, AreSettled, TableSettled, BlockSettled
<1>6. ASSUME UNCHANGED <<tables, allowDrop, blocks>>
      PROVE  SettledInv'
    BY <1>6 DEF SettledInv, AreSettled, TableSettled, BlockSettled
<1>7. CASE UNCHANGED vars
    BY <1>6, <1>7 DEF vars, loadVars
<1>8. ASSUME \/ \E end \in statements : ScanTable(end)
             \/ ScanFile \/ Scan \/ BadBlocks \/ Merge \/ RefuseMerge \/ Finish
             \/ \E n \in unread : UnparsedFile(n)
      PROVE  SettledInv'
  <2>1. UNCHANGED <<tables, allowDrop, blocks>>
      BY <1>8 DEF UnparsedFile, ScanTable, ScanFile, Scan, BadBlocks, Merge, RefuseMerge, Finish,
                  loadVars
  <2> QED
      BY <1>6, <2>1
<1> QED
    BY <1>3, <1>4, <1>5, <1>7, <1>8 DEF Next, Read, FindBlocks

\* Whatever the files of a directory say in other respects, a load that
\* succeeds hands over no type that the catalog would show under another name:
\* a column that was created from the files is not altered by the next run,
\* and a declared drop finds its column (load_decorated_from_dir,
\* format_type_name, normalize_type, normalize_info_schema_type).
THEOREM PlainTypesAreKept ==
    ASSUME PlainLines
    PROVE  Spec => []TypesSettle
<1>1. ASSUME IInv, SettledInv, phase = "done", NEW type \in Compared \ {AnyType}
      PROVE  ReadBack[type] = type
  <2>1. groups = Merged(blocks)
      BY <1>1 DEF IInv, LoadInv, GroupsMerged, SecondPass
  <2>2. ASSUME NEW id \in DOMAIN groups, NEW c \in groups[id].columns
        PROVE  SettledType(c.type)
    <3>1. groups[id] = GroupOf(id, blocks)
        BY <2>1, <2>2 DEF Merged
    <3>2. \E b \in blocks : c \in b.holds.columns
        BY <2>2, <3>1 DEF GroupOf
    <3> QED
        BY <1>1, <3>2 DEF SettledInv, BlockSettled
  <2>3. type \in ColumnsIn(tables) \cup ColumnsIn(allowDrop) => SettledType(type)
      BY <1>1 DEF SettledInv, AreSettled, TableSettled, ColumnsIn
  <2>4. \A t \in DOMAIN tables : \A c \in DOMAIN tables[t].removed : SettledType(tables[t].removed[c])
      BY <1>1 DEF SettledInv, AreSettled, TableSettled
  <2>5. SettledType(type)
    <3> DEFINE listed == UNION {{c.type : c \in groups[id].columns} : id \in DOMAIN groups}
               removed == UNION {{tables[t].removed[c] : c \in DOMAIN tables[t].removed} :
                                    t \in DOMAIN tables}
    <3>1. type \in listed => SettledType(type)
        BY <2>2
    <3>2. type \in removed => SettledType(type)
        BY <2>4
    <3>3. Compared = ColumnsIn(tables) \cup ColumnsIn(allowDrop) \cup listed \cup removed
        BY DEF Compared
    <3> HIDE DEF listed, removed
    <3> QED
        BY <1>1, <2>3, <3>1, <3>2, <3>3
  <2>6. IsSettled(type) /\ type \in TypeName
      BY <1>1, <2>5 DEF SettledType, IsSettled
  <2> QED
      BY <2>6, PlainTypesSettle
<1>2. IInv /\ SettledInv => TypesSettle
    BY <1>1 DEF TypesSettle
<1> QED
    BY <1>2, InitSettled, SettledInductive, Invariant, PTL DEF Spec
=============================================================================
