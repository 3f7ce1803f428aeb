------------------------------ MODULE TopoSort ------------------------------
(***************************************************************************)
(* topo_sort_create_table: Kahn's algorithm over the create_table          *)
(* migrations of one plan, numbered in the order the sort by name left     *)
(* them in.  A migration moves only within the slots that create_table     *)
(* migrations occupy, so the numbers are all there is to order.            *)
(***************************************************************************)
EXTENDS Naturals, Integers, Sequences, FiniteSets

CONSTANTS
    N,         \* number of tables to create
    Inputs     \* the foreign keys of each table, as the numbers of the
               \* tables they refer to; 0 is a table that is not created here

ASSUME TopoSortAssumption ==
    /\ N \in Nat
    /\ Inputs \subseteq [1..N -> Seq(0..N)]

Created == 1..N

VARIABLES
    refs,      \* the input
    inDegree,  \* foreign keys of each table that still wait for a table
    queue,     \* tables that wait for none
    sorted,    \* tables in the order found so far
    pc

vars == <<refs, inDegree, queue, sorted, pc>>

-----------------------------------------------------------------------------
Members(seq) == {seq[k] : k \in DOMAIN seq}

Distinct(seq) == \A j, k \in DOMAIN seq : j # k => seq[j] # seq[k]

\* The foreign keys of table i to a table of S; one to itself is not an edge.
Edges(i, S) == {k \in DOMAIN refs[i] : refs[i][k] \in S \ {i}}

\* The sequence (there is one) of the members of S, smallest first.
InOrder(S) ==
    {seq \in [1..Cardinality(S) -> S] : \A j, k \in DOMAIN seq : j < k => seq[j] < seq[k]}

\* Mutant: a table is freed by the first table it waits for.
FreedByFirst(cur) == {i \in Created : Edges(i, {cur}) # {} /\ i \notin Members(queue)}

\* Mutant: off by one, so that a table is freed twice.
FreedTooEarly(cur) ==
    {i \in Created : Edges(i, {cur}) # {} /\ inDegree[i] <= Cardinality(Edges(i, {cur})) + 1}

\* Mutant: one key of a table to another is enough to count.
FreedByOneKey(cur) == {i \in Created : Edges(i, {cur}) # {} /\ inDegree[i] = 1}

\* The tables that wait for "cur" alone.
Freed(cur) ==
    {i \in Created : Edges(i, {cur}) # {} /\ inDegree[i] = Cardinality(Edges(i, {cur}))}

\* Mutant: tables are counted instead of keys.
InitCountsTables ==
    /\ refs \in Inputs
    /\ inDegree = [i \in Created |-> Cardinality({refs[i][k] : k \in Edges(i, Created)})]
    /\ queue \in InOrder({i \in Created : inDegree[i] = 0})
    /\ sorted = << >>
    /\ pc = "sorting"

Init ==
    /\ refs \in Inputs
    /\ inDegree = [i \in Created |-> Cardinality(Edges(i, Created))]
    /\ queue \in InOrder({i \in Created : inDegree[i] = 0})
    /\ sorted = << >>
    /\ pc = "sorting"

\* The first table of the queue, and every key of another table that refers
\* to it; tables that wait for nothing more are queued by number.
Take ==
    /\ pc = "sorting"
    /\ queue # << >>
    /\ LET cur == Head(queue)
       IN  /\ sorted' = Append(sorted, cur)
           /\ inDegree' = [i \in Created |-> inDegree[i] - Cardinality(Edges(i, {cur}))]
           /\ \E freed \in InOrder(Freed(cur)) : queue' = Tail(queue) \o freed
    /\ UNCHANGED <<refs, pc>>

\* Mutant: what is on a cycle is lost.
AppendNone ==
    /\ pc = "sorting" /\ queue = << >>
    /\ pc' = "done"
    /\ UNCHANGED <<refs, inDegree, queue, sorted>>

\* Mutant: what is on a cycle comes in reverse.
AppendReversed ==
    /\ pc = "sorting" /\ queue = << >>
    /\ \E rest \in InOrder(Created \ Members(sorted)) :
          sorted' = sorted \o [k \in DOMAIN rest |-> rest[Len(rest) + 1 - k]]
    /\ pc' = "done"
    /\ UNCHANGED <<refs, inDegree, queue>>

\* Mutant: the sort waits for tables on a cycle.
AppendWaits ==
    /\ pc = "sorting" /\ queue = << >>
    /\ Members(sorted) = Created
    /\ pc' = "done"
    /\ UNCHANGED <<refs, inDegree, queue, sorted>>

\* Tables on a cycle, or behind one, keep the order they came in.
AppendRest ==
    /\ pc = "sorting"
    /\ queue = << >>
    /\ \E rest \in InOrder(Created \ Members(sorted)) : sorted' = sorted \o rest
    /\ pc' = "done"
    /\ UNCHANGED <<refs, inDegree, queue>>

Next == Take \/ AppendRest

Spec == Init /\ [][Next]_vars /\ WF_vars(Next)

-----------------------------------------------------------------------------
TypeOK ==
    /\ refs \in Inputs
    /\ inDegree \in [Created -> Nat]
    /\ queue \in Seq(Created)
    /\ sorted \in Seq(Created)
    /\ pc \in {"sorting", "done"}

\* While tables are taken from the queue, each comes after every table its
\* foreign keys refer to: CREATE TABLE never names a table that is still to
\* be created.
DependenciesFirst ==
    pc = "sorting" =>
        \A k \in DOMAIN sorted : \A e \in Edges(sorted[k], Created) :
            \E j \in 1..(k - 1) : sorted[j] = refs[sorted[k]][e]

\* No table is created twice: neither taken again nor queued again.
EachOnce ==
    /\ Distinct(sorted)
    /\ Distinct(queue)
    /\ Members(sorted) \cap Members(queue) = {}

\* Only cycles escape the sort: each table that is left to AppendRest waits
\* for another one that is left.
OnlyCyclesAreLeft ==
    (pc = "sorting" /\ queue = << >>) =>
        \A i \in Created \ Members(sorted) : Edges(i, Created \ Members(sorted)) # {}

\* No CREATE TABLE is lost: the slots of the plan are filled again with all
\* of the migrations that were taken out.
NoneIsLost == pc = "done" => Members(sorted) = Created /\ Len(sorted) = N

\* The sort ends.
Completes == <>(pc = "done")
=============================================================================
