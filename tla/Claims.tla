------------------------------- MODULE Claims -------------------------------
(***************************************************************************)
(* What the repository's documents and tests say of the runs, where the    *)
(* code does something else.  Each claim is violated by one small run; the *)
(* README tells what the counterexamples show.                             *)
(***************************************************************************)
EXTENDS Runner

\* "Schemify will create indexes that are in your schema files but missing
\* from the database" (go/schemify/README.md): a run that reports success
\* leaves every index of the files on its table, and valid.
DoneMeansIndexed ==
    \A r \in Runners \ DryRunners : pc[r] = "done" =>
        \A i \in DOMAIN files[r].indexes :
            /\ i \in DOMAIN catalog.indexes
            /\ SameIndex(catalog.indexes[i], files[r].indexes[i])
            /\ catalog.indexes[i].valid

\* "compared to the current table - only if they match exactly is the drop
\* allowed" (go/schemify/README.md): at the moment a table goes.
DropsMatchTheCurrentTable ==
    [][\A t \in DOMAIN catalog.tables \ DOMAIN catalog'.tables :
          \E r \in Runners : DropTableAllowed(files[r], catalog, t)]_vars

\* A drop of a table and of the foreign keys to it, both declared, goes
\* through: diff.rs is "ported from Go internal/diff", whose ranks have the
\* constraint dropped before the table.
DeclaredDropsAreAccepted ==
    \A r \in Runners : pc[r] = "transaction" =>
        \A m \in NextOf(files[r], plan[r], InTransaction(todo[r])) :
            m.kind = "drop_table" => Accepts(working, m, files[r], have[r])
=============================================================================
