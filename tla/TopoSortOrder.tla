---------------------------- MODULE TopoSortOrder ----------------------------
(* The link from the sort to the order the plans of Runner are executed in. *)
EXTENDS TopoSort

\* Of the universe of a plan, only the tables and their order matter here: a
\* table stands at the place the sort by name gave it.
Order == INSTANCE MigrationOrder WITH
    Namespaces <- {0}, Public <- 0, Tables <- Created,
    NamespaceOf <- [i \in Created |-> 0], Columns <- {}, Types <- {},
    Defaults <- {}, NoDefault <- 0, AnyType <- 0, ConstraintNames <- {},
    Indexes <- {}, Methods <- {}, Go <- FALSE, NoName <- 0,
    Position <- [i \in 0..N |-> i]

AsFiles == [tables |-> [i \in Created |->
    [foreignKeys |-> {[references |-> refs[i][k]] : k \in DOMAIN refs[i]}]]]

\* The result is in the order that the composition takes CREATE TABLE
\* statements to be sent in (MigrationOrder!CreatedBefore): tables without a
\* cycle first, each after those it refers to, and then the others by name.
InPromisedOrder ==
    pc = "done" =>
        \A j, k \in Created :
            Order!CreatedBefore(AsFiles, Created, sorted[j], sorted[k]) => j < k
=============================================================================
