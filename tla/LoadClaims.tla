------------------------------ MODULE LoadClaims ------------------------------
(***************************************************************************)
(* What the repository says of drift blocks, where the loader does         *)
(* something else.                                                         *)
(***************************************************************************)
EXTENDS LoadContract

\* "blocks with the same {id} and policy across multiple files are merged"
\* (load.go), and "Cross-scope merge for `cleanup1` should allow both the
\* column drop and index drop" (drift-roadmap.md): every block of a directory
\* that loads has what it lists in the group of its id.
BlocksAreMergedAcrossScopes ==
    phase = "done" =>
        \A b \in AllBlocks(directory) :
            /\ b.id \in DOMAIN groups
            /\ ListedColumns(directory[b.file], b) \subseteq groups[b.id].columns
            /\ ListedIndexes(directory[b.file], b) \subseteq groups[b.id].indexes
=============================================================================
