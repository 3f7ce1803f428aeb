------------------------------ MODULE Migrator ------------------------------
(***************************************************************************)
(* What the tool promises, without saying how: the database moves from one *)
(* schema to another in single steps that bring its tables to what some    *)
(* deployment's files ask for, followed by changes of one index at a time, *)
(* and nothing is ever lost that those files do not say may go.            *)
(***************************************************************************)
EXTENDS Contract

VARIABLES
    catalog,   \* the committed catalog
    files      \* the files of each deployment

-----------------------------------------------------------------------------
\* What a transaction does to indexes: none comes, and none changes.
NoNewIndex ==
    /\ DOMAIN catalog'.indexes \subseteq DOMAIN catalog.indexes
    /\ \A i \in DOMAIN catalog'.indexes : catalog'.indexes[i] = catalog.indexes[i]

\* One transaction: all of the tables at once, and no index but by loss.
Migrate(f) == TablesMeet(f, catalog') /\ NoNewIndex

\* One index statement, for an index the files say something about.
ChangeIndex(f) ==
    /\ catalog'.namespaces = catalog.namespaces
    /\ catalog'.tables = catalog.tables
    /\ \E i \in DOMAIN catalog.indexes \cup DOMAIN catalog'.indexes :
          /\ \A j \in (DOMAIN catalog.indexes \cup DOMAIN catalog'.indexes) \ {i} :
                /\ j \in DOMAIN catalog.indexes
                /\ j \in DOMAIN catalog'.indexes
                /\ catalog'.indexes[j] = catalog.indexes[j]
          /\ i \in DOMAIN catalog'.indexes =>
                /\ i \in DOMAIN f.indexes
                /\ SameIndex(catalog'.indexes[i], f.indexes[i])

Next ==
    /\ UNCHANGED files
    /\ \E r \in DOMAIN files :
          /\ OnlyApprovedLoss(files[r], catalog, catalog')
          /\ Migrate(files[r]) \/ ChangeIndex(files[r])

Spec == [][Next]_<<catalog, files>>

\* The half of the promise that protects what is there: a step may leave the
\* tables short of what the files ask for, but takes nothing unapproved.
NothingLost ==
    /\ UNCHANGED files
    /\ \E r \in DOMAIN files :
          /\ OnlyApprovedLoss(files[r], catalog, catalog')
          /\ NoNewIndex \/ ChangeIndex(files[r])

SafeSpec == [][NothingLost]_<<catalog, files>>
=============================================================================
