--------------------------- MODULE TopoSortProofs ---------------------------
(***************************************************************************)
(* The sort of CREATE TABLE statements is correct for any number of tables *)
(* and any foreign keys among them.                                        *)
(***************************************************************************)
EXTENDS TopoSortOrder, FiniteSetTheorems, TLAPS

\* The in-degrees count the keys to tables that are not sorted yet.
Counts ==
    \A i \in Created : inDegree[i] = Cardinality(Edges(i, Created \ Members(sorted)))

\* The queue holds exactly the tables that wait for none and are not sorted.
Ready == Members(sorted) \cup Members(queue) = {i \in Created : inDegree[i] = 0}

SortInv == pc = "sorting" => Counts /\ Ready /\ EachOnce

-----------------------------------------------------------------------------
\* An enumeration in order of a finite set of numbers names each member once.
LEMMA InOrderMembers ==
    ASSUME NEW S \in SUBSET Int, IsFiniteSet(S), NEW seq \in InOrder(S)
    PROVE  /\ seq \in Seq(S)
           /\ Len(seq) = Cardinality(S)
           /\ Members(seq) = S
           /\ Distinct(seq)
<1> DEFINE n == Cardinality(S)
<1>1. n \in Nat
    BY FS_CardinalityType
<1>2. /\ seq \in [1..n -> S]
      /\ \A j, k \in 1..n : j < k => seq[j] < seq[k]
    BY DEF InOrder
<1>3. seq \in Seq(S) /\ Len(seq) = n
    BY <1>1, <1>2
<1>4. Distinct(seq)
    <2> SUFFICES ASSUME NEW j \in 1..n, NEW k \in 1..n, j # k
                 PROVE  seq[j] # seq[k]
        BY <1>2 DEF Distinct
    <2>1. seq[j] \in Int /\ seq[k] \in Int
        BY <1>2
    <2>2. j < k \/ k < j
        BY <1>1
    <2> QED
        BY <1>2, <2>1, <2>2
<1>5. seq \in Injection(1..n, S)
    BY <1>2, <1>4 DEF Injection, IsInjective, Distinct
<1>6. IsFiniteSet(1..n) /\ Cardinality(1..n) = n
    BY <1>1, FS_Interval
<1>7. seq \in Surjection(1..n, S)
    BY <1>5, <1>6, FS_Injection
<1>8. Members(seq) = S
    BY <1>2, <1>7 DEF Surjection, Members
<1> QED
    BY <1>3, <1>4, <1>8

\* The edges of a table are positions in its finite list of foreign keys.
LEMMA EdgesFinite ==
    ASSUME refs \in Inputs, NEW i \in Created, NEW S
    PROVE  IsFiniteSet(Edges(i, S)) /\ Cardinality(Edges(i, S)) \in Nat
<1>1. refs[i] \in Seq(0..N)
    BY TopoSortAssumption DEF Created
<1>2. IsFiniteSet(1..Len(refs[i]))
    BY <1>1, FS_Interval
<1>3. Edges(i, S) \in SUBSET (1..Len(refs[i]))
    BY <1>1 DEF Edges
<1> QED
    BY <1>2, <1>3, FS_Subset, FS_CardinalityType

\* A table has as many edges to S as to one member of S and to the others.
LEMMA EdgesSplit ==
    ASSUME refs \in Inputs, NEW i \in Created, NEW S, NEW cur \in S
    PROVE  Cardinality(Edges(i, S)) =
               Cardinality(Edges(i, S \ {cur})) + Cardinality(Edges(i, {cur}))
<1> DEFINE A == Edges(i, S \ {cur})
           B == Edges(i, {cur})
<1>1. IsFiniteSet(A) /\ IsFiniteSet(B) /\ Cardinality(A) \in Nat /\ Cardinality(B) \in Nat
    BY EdgesFinite
<1>2. Edges(i, S) = A \cup B /\ A \cap B = {}
    BY DEF Edges
<1>3. Cardinality(A \cup B) = Cardinality(A) + Cardinality(B) - Cardinality(A \cap B)
    BY <1>1, FS_Union
<1>4. Cardinality(A \cap B) = 0
    BY <1>2, FS_EmptySet
<1>5. Cardinality(A \cup B) = Cardinality(A) + Cardinality(B)
    BY <1>1, <1>3, <1>4
<1> QED
    BY <1>2, <1>5

\* A table without edges to S has none at all.
LEMMA NoEdges ==
    ASSUME refs \in Inputs, NEW i \in Created, NEW S
    PROVE  Cardinality(Edges(i, S)) = 0 <=> Edges(i, S) = {}
    BY EdgesFinite, FS_EmptySet

LEMMA CreatedFinite ==
    ASSUME NEW S \in SUBSET Created
    PROVE  IsFiniteSet(S) /\ S \in SUBSET Int
<1>1. IsFiniteSet(Created)
    BY TopoSortAssumption, FS_Interval DEF Created
<1>2. S \in SUBSET Int
    BY TopoSortAssumption DEF Created
<1> QED
    BY <1>1, <1>2, FS_Subset

-----------------------------------------------------------------------------
(* Members of the sequences that the steps build.                          *)

LEMMA AppendMembers ==
    ASSUME NEW T, NEW s \in Seq(T), NEW x \in T, Distinct(s), x \notin Members(s)
    PROVE  /\ Append(s, x) \in Seq(T)
           /\ Members(Append(s, x)) = Members(s) \cup {x}
           /\ Distinct(Append(s, x))
<1> DEFINE a == Append(s, x)
<1>1. /\ a \in Seq(T)
      /\ DOMAIN s = 1..Len(s) /\ Len(s) \in Nat
      /\ DOMAIN a = 1..(Len(s) + 1)
      /\ a[Len(s) + 1] = x
      /\ \A k \in 1..Len(s) : a[k] = s[k]
    OBVIOUS
<1> HIDE DEF a
<1>2. Members(a) = Members(s) \cup {x}
    <2>1. Members(a) \subseteq Members(s) \cup {x}
        <3> SUFFICES ASSUME NEW k \in 1..(Len(s) + 1) PROVE a[k] \in Members(s) \cup {x}
            BY <1>1 DEF Members
        <3>1. k \in 1..Len(s) \/ k = Len(s) + 1
            BY <1>1
        <3> QED
            BY <1>1, <3>1 DEF Members
    <2>2. Members(s) \subseteq Members(a)
        <3> SUFFICES ASSUME NEW k \in 1..Len(s) PROVE s[k] \in Members(a)
            BY <1>1 DEF Members
        <3>1. k \in 1..(Len(s) + 1) /\ s[k] = a[k]
            BY <1>1
        <3> QED
            BY <1>1, <3>1 DEF Members
    <2>3. x \in Members(a)
        <3>1. Len(s) + 1 \in 1..(Len(s) + 1)
            BY <1>1
        <3> QED
            BY <1>1, <3>1 DEF Members
    <2> QED
        BY <2>1, <2>2, <2>3
<1>3. Distinct(a)
    <2> SUFFICES ASSUME NEW j \in 1..(Len(s) + 1), NEW k \in 1..(Len(s) + 1), j # k
                 PROVE  a[j] # a[k]
        BY <1>1 DEF Distinct
    <2>1. \A i \in 1..Len(s) : s[i] # x
        BY <1>1 DEF Members
    <2>2. j \in 1..Len(s) \/ j = Len(s) + 1
        BY <1>1
    <2>3. k \in 1..Len(s) \/ k = Len(s) + 1
        BY <1>1
    <2> QED
        BY <1>1, <2>1, <2>2, <2>3 DEF Distinct
<1> QED
    BY <1>1, <1>2, <1>3 DEF a

LEMMA TailMembers ==
    ASSUME NEW T, NEW s \in Seq(T), s # << >>, Distinct(s)
    PROVE  /\ Tail(s) \in Seq(T)
           /\ Members(Tail(s)) = Members(s) \ {Head(s)}
           /\ Distinct(Tail(s))
<1> DEFINE t == Tail(s)
<1>1. /\ t \in Seq(T)
      /\ DOMAIN s = 1..Len(s) /\ Len(s) \in Nat \ {0}
      /\ DOMAIN t = 1..(Len(s) - 1)
      /\ Head(s) = s[1]
      /\ \A k \in 1..(Len(s) - 1) : t[k] = s[k + 1]
    OBVIOUS
<1> HIDE DEF t
<1>2. Members(t) \subseteq Members(s) \ {Head(s)}
    <2> SUFFICES ASSUME NEW k \in 1..(Len(s) - 1) PROVE t[k] \in Members(s) \ {Head(s)}
        BY <1>1 DEF Members
    <2>1. k + 1 \in 1..Len(s) /\ 1 \in 1..Len(s) /\ k + 1 # 1
        BY <1>1
    <2> QED
        BY <1>1, <2>1 DEF Members, Distinct
<1>3. Members(s) \ {Head(s)} \subseteq Members(t)
    <2> SUFFICES ASSUME NEW k \in 1..Len(s), s[k] # s[1] PROVE s[k] \in Members(t)
        BY <1>1 DEF Members
    <2>1. k - 1 \in 1..(Len(s) - 1) /\ (k - 1) + 1 = k
        BY <1>1
    <2>2. t[k - 1] = s[k]
        BY <1>1, <2>1
    <2> QED
        BY <1>1, <2>1, <2>2 DEF Members
<1>4. Distinct(t)
    <2> SUFFICES ASSUME NEW j \in 1..(Len(s) - 1), NEW k \in 1..(Len(s) - 1), j # k
                 PROVE  t[j] # t[k]
        BY <1>1 DEF Distinct
    <2>1. j + 1 \in 1..Len(s) /\ k + 1 \in 1..Len(s) /\ j + 1 # k + 1
        BY <1>1
    <2> QED
        BY <1>1, <2>1 DEF Distinct
<1> QED
    BY <1>1, <1>2, <1>3, <1>4 DEF t

LEMMA ConcatMembers ==
    ASSUME NEW T, NEW s \in Seq(T), NEW t \in Seq(T), Distinct(s), Distinct(t),
           Members(s) \cap Members(t) = {}
    PROVE  /\ s \o t \in Seq(T)
           /\ Members(s \o t) = Members(s) \cup Members(t)
           /\ Distinct(s \o t)
<1> DEFINE c == s \o t
           m == Len(s)
           n == Len(t)
<1>1. /\ c \in Seq(T)
      /\ DOMAIN s = 1..m /\ m \in Nat
      /\ DOMAIN t = 1..n /\ n \in Nat
      /\ DOMAIN c = 1..(m + n)
      /\ \A k \in 1..m : c[k] = s[k]
      /\ \A k \in 1..n : c[m + k] = t[k]
    OBVIOUS
<1> HIDE DEF c, m, n
<1>2. ASSUME NEW k \in 1..(m + n)
      PROVE  \/ k \in 1..m /\ c[k] = s[k] /\ c[k] \in Members(s)
             \/ k - m \in 1..n /\ c[k] = t[k - m] /\ c[k] \in Members(t)
    <2>1. CASE k \in 1..m
        BY <1>1, <2>1 DEF Members
    <2>2. CASE k \notin 1..m
        <3>1. k - m \in 1..n /\ m + (k - m) = k
            BY <1>1, <2>2
        <3>2. c[k] = t[k - m]
            BY <1>1, <3>1
        <3> QED
            BY <1>1, <3>1, <3>2 DEF Members
    <2> QED
        BY <2>1, <2>2
<1>3. Members(c) = Members(s) \cup Members(t)
    <2>1. Members(c) \subseteq Members(s) \cup Members(t)
        BY <1>1, <1>2 DEF Members
    <2>2. Members(s) \subseteq Members(c)
        <3> SUFFICES ASSUME NEW k \in 1..m PROVE s[k] \in Members(c)
            BY <1>1 DEF Members
        <3>1. k \in 1..(m + n) /\ c[k] = s[k]
            BY <1>1
        <3> QED
            BY <1>1, <3>1 DEF Members
    <2>3. Members(t) \subseteq Members(c)
        <3> SUFFICES ASSUME NEW k \in 1..n PROVE t[k] \in Members(c)
            BY <1>1 DEF Members
        <3>1. m + k \in 1..(m + n) /\ c[m + k] = t[k]
            BY <1>1
        <3> QED
            BY <1>1, <3>1 DEF Members
    <2> QED
        BY <2>1, <2>2, <2>3
<1>4. Distinct(c)
    <2> SUFFICES ASSUME NEW j \in 1..(m + n), NEW k \in 1..(m + n), j # k
                 PROVE  c[j] # c[k]
        BY <1>1 DEF Distinct
    <2>1. CASE j \in 1..m /\ c[j] = s[j] /\ c[j] \in Members(s)
        <3>1. CASE k \in 1..m /\ c[k] = s[k]
            BY <1>1, <2>1, <3>1 DEF Distinct
        <3>2. CASE c[k] \in Members(t)
            BY <2>1, <3>2
        <3> QED
            BY <1>2, <3>1, <3>2
    <2>2. CASE j - m \in 1..n /\ c[j] = t[j - m] /\ c[j] \in Members(t)
        <3>1. CASE c[k] \in Members(s)
            BY <2>2, <3>1
        <3>2. CASE k - m \in 1..n /\ c[k] = t[k - m]
            <4>1. j - m # k - m
                BY <1>1
            <4> QED
                BY <1>1, <2>2, <3>2, <4>1 DEF Distinct
        <3> QED
            BY <1>2, <3>1, <3>2
    <2> QED
        BY <1>2, <2>1, <2>2
<1> QED
    BY <1>1, <1>3, <1>4 DEF c

\* A sequence that names each member of a finite set once has its size.
LEMMA DistinctLength ==
    ASSUME NEW T, IsFiniteSet(T), NEW s \in Seq(T), Distinct(s), Members(s) = T
    PROVE  Len(s) = Cardinality(T)
<1> DEFINE n == Len(s)
<1>1. n \in Nat /\ s \in [1..n -> T]
    OBVIOUS
<1> HIDE DEF n
<1>2. s \in Injection(1..n, T)
    BY <1>1 DEF Injection, IsInjective, Distinct
<1>3. s \in Surjection(1..n, T)
    BY <1>1 DEF Surjection, Members
<1>4. Cardinality(1..n) = n
    BY <1>1, FS_Interval
<1> QED
    BY <1>2, <1>3, <1>4, FS_Injection DEF n

-----------------------------------------------------------------------------
\* The variables keep their types: in particular an in-degree, a signed
\* counter in the code, is never decremented below zero.
IInv == TypeOK /\ SortInv /\ DependenciesFirst

LEMMA InitIInv == Init => IInv
<1> SUFFICES ASSUME Init PROVE IInv
    OBVIOUS
<1> DEFINE Z == {i \in Created : inDegree[i] = 0}
<1>1. IsFiniteSet(Z) /\ Z \in SUBSET Int
    BY CreatedFinite
<1>2. queue \in Seq(Z) /\ Members(queue) = Z /\ Distinct(queue)
    BY <1>1, InOrderMembers DEF Init
<1>3. inDegree \in [Created -> Nat]
    BY EdgesFinite DEF Init
<1>4. queue \in Seq(Created)
    BY <1>2
<1>5. sorted = << >> /\ Members(sorted) = {} /\ DOMAIN sorted = {}
    BY DEF Init, Members
<1>6. TypeOK
    BY <1>3, <1>4, <1>5 DEF TypeOK, Init
<1>7. Counts
    BY <1>5 DEF Counts, Init
<1>8. Ready /\ EachOnce
    BY <1>2, <1>5 DEF Ready, EachOnce, Distinct
<1>9. DependenciesFirst
    BY <1>5 DEF DependenciesFirst
<1> QED
    BY <1>6, <1>7, <1>8, <1>9 DEF IInv, SortInv

\* What Take does to the two sequences, in terms of their members.
LEMMA TakeMembers ==
    ASSUME IInv, Take
    PROVE  LET cur == Head(queue)
               F == Freed(cur)
           IN  /\ cur \in Created
               /\ cur \notin Members(sorted)
               /\ inDegree[cur] = 0
               /\ sorted' = Append(sorted, cur)
               /\ sorted' \in Seq(Created)
               /\ Members(sorted') = Members(sorted) \cup {cur}
               /\ Distinct(sorted')
               /\ queue' \in Seq(Created)
               /\ Members(queue') = (Members(queue) \ {cur}) \cup F
               /\ Distinct(queue')
               /\ F \cap {i \in Created : inDegree[i] = 0} = {}
<1> DEFINE cur == Head(queue)
           F == Freed(cur)
<1>0. /\ TypeOK /\ Counts /\ Ready /\ EachOnce
      /\ queue # << >>
      /\ sorted' = Append(sorted, cur)
    BY DEF IInv, SortInv, Take
<1>1. PICK freed \in InOrder(F) : queue' = Tail(queue) \o freed
    BY DEF Take
<1>2. IsFiniteSet(F) /\ F \in SUBSET Int
    <2>1. F \in SUBSET Created
        BY DEF Freed
    <2> QED
        BY <2>1, CreatedFinite
<1>3. freed \in Seq(F) /\ Members(freed) = F /\ Distinct(freed)
    BY <1>1, <1>2, InOrderMembers
<1>4. queue \in Seq(Created) /\ Len(queue) > 0 /\ cur = queue[1] /\ cur \in Members(queue)
    BY <1>0 DEF TypeOK, Members
<1>5. cur \in Created /\ cur \notin Members(sorted) /\ inDegree[cur] = 0
    BY <1>0, <1>4 DEF EachOnce, Ready
<1>6. F \cap {i \in Created : inDegree[i] = 0} = {}
    <2> SUFFICES ASSUME NEW i \in F, inDegree[i] = 0 PROVE FALSE
        OBVIOUS
    <2>1. i \in Created /\ Edges(i, {cur}) # {} /\ Cardinality(Edges(i, {cur})) = 0
        BY DEF Freed
    <2> QED
        BY <1>0, <2>1, NoEdges DEF TypeOK
<1>7. /\ sorted' \in Seq(Created)
      /\ Members(sorted') = Members(sorted) \cup {cur}
      /\ Distinct(sorted')
    <2>1. sorted \in Seq(Created) /\ Distinct(sorted)
        BY <1>0 DEF TypeOK, EachOnce
    <2> QED
        BY <1>0, <1>5, <2>1, AppendMembers
<1>8. /\ Tail(queue) \in Seq(Created)
      /\ Members(Tail(queue)) = Members(queue) \ {cur}
      /\ Distinct(Tail(queue))
    <2>1. Distinct(queue)
        BY <1>0 DEF EachOnce
    <2> QED
        BY <1>0, <1>4, <2>1, TailMembers
<1>9. F \subseteq Created /\ F \cap Members(queue) = {}
    BY <1>0, <1>6 DEF Freed, Ready
<1>10. /\ queue' \in Seq(Created)
       /\ Members(queue') = (Members(queue) \ {cur}) \cup F
       /\ Distinct(queue')
    <2>1. freed \in Seq(Created)
        BY <1>3, <1>9
    <2>2. Members(Tail(queue)) \cap Members(freed) = {}
        BY <1>3, <1>8, <1>9
    <2>3. Distinct(freed) /\ Members(freed) = F
        BY <1>3
    <2> HIDE DEF F
    <2>4. /\ Tail(queue) \o freed \in Seq(Created)
          /\ Members(Tail(queue) \o freed) = Members(Tail(queue)) \cup Members(freed)
          /\ Distinct(Tail(queue) \o freed)
        BY <1>8, <2>1, <2>2, <2>3, ConcatMembers
    <2> QED
        BY <1>1, <1>8, <2>3, <2>4
<1> QED
    BY <1>0, <1>5, <1>6, <1>7, <1>10

LEMMA TakeIInv == IInv /\ Take => IInv'
<1> SUFFICES ASSUME IInv, Take PROVE IInv'
    OBVIOUS
<1> DEFINE cur == Head(queue)
           P == Created \ Members(sorted)
           F == Freed(cur)
           Z == {i \in Created : inDegree[i] = 0}
<1>0. TypeOK /\ Counts /\ Ready /\ EachOnce /\ DependenciesFirst
    BY DEF IInv, SortInv, Take
<1>1. /\ pc = "sorting" /\ pc' = "sorting" /\ refs' = refs
      /\ inDegree' = [i \in Created |-> inDegree[i] - Cardinality(Edges(i, {cur}))]
    BY DEF Take
<1>2. /\ cur \in P
      /\ inDegree[cur] = 0
      /\ sorted' = Append(sorted, cur)
      /\ sorted' \in Seq(Created)
      /\ Members(sorted') = Members(sorted) \cup {cur}
      /\ Distinct(sorted')
      /\ queue' \in Seq(Created)
      /\ Members(queue') = (Members(queue) \ {cur}) \cup F
      /\ Distinct(queue')
      /\ F \cap Z = {}
    BY TakeMembers
<1>3. Created \ Members(sorted') = P \ {cur}
    BY <1>2
\* The keys to cur no longer wait; the others are untouched.
<1>4. ASSUME NEW i \in Created
      PROVE  /\ inDegree[i] = Cardinality(Edges(i, P))
             /\ inDegree[i] = Cardinality(Edges(i, P \ {cur})) + Cardinality(Edges(i, {cur}))
             /\ Cardinality(Edges(i, P \ {cur})) \in Nat
             /\ Cardinality(Edges(i, {cur})) \in Nat
             /\ inDegree'[i] = Cardinality(Edges(i, P \ {cur}))
    <2>1. inDegree[i] = Cardinality(Edges(i, P))
        BY <1>0 DEF Counts
    <2>2. inDegree[i] = Cardinality(Edges(i, P \ {cur})) + Cardinality(Edges(i, {cur}))
        BY <1>0, <1>2, <2>1, EdgesSplit DEF TypeOK
    <2>3. Cardinality(Edges(i, P \ {cur})) \in Nat /\ Cardinality(Edges(i, {cur})) \in Nat
        BY <1>0, EdgesFinite DEF TypeOK
    <2>4. inDegree'[i] = inDegree[i] - Cardinality(Edges(i, {cur}))
        BY <1>1
    <2> HIDE DEF P, cur
    <2> QED
        BY <2>1, <2>2, <2>3, <2>4
<1>5. TypeOK'
    <2>1. inDegree' \in [Created -> Nat]
        BY <1>1, <1>4
    <2> QED
        BY <1>0, <1>1, <1>2, <2>1 DEF TypeOK
<1>6. Counts'
    <2> SUFFICES ASSUME NEW i \in Created
                 PROVE  inDegree'[i] = Cardinality(Edges(i, Created \ Members(sorted))')
        BY DEF Counts
    <2>1. Edges(i, Created \ Members(sorted))' = Edges(i, P \ {cur})
        BY <1>1, <1>3 DEF Edges
    <2> QED
        BY <1>4, <2>1
<1>7. Ready'
    <2>1. ASSUME NEW i \in Created PROVE inDegree'[i] = 0 <=> i \in Z \cup F
        <3>1. CASE i \in Z
            <4>1. inDegree[i] = 0
                BY <3>1
            <4> HIDE DEF P, cur
            <4> QED
                BY <1>4, <3>1, <4>1
        <3>2. CASE i \notin Z
            <4>1. inDegree[i] # 0
                BY <3>2
            <4>2. i \in F <=> /\ Edges(i, {cur}) # {}
                              /\ inDegree[i] = Cardinality(Edges(i, {cur}))
                BY DEF Freed
            <4>3. Cardinality(Edges(i, {cur})) = 0 <=> Edges(i, {cur}) = {}
                BY <1>0, NoEdges DEF TypeOK
            <4> DEFINE a == Cardinality(Edges(i, P \ {cur}))
                       b == Cardinality(Edges(i, {cur}))
            <4>4. /\ inDegree[i] = a + b /\ a \in Nat /\ b \in Nat
                  /\ inDegree'[i] = a
                BY <1>4
            <4>5. (i \in F) <=> (b # 0 /\ inDegree[i] = b)
                BY <4>2, <4>3
            <4> HIDE DEF P, cur, F, Z, a, b
            <4>6. (a = 0) <=> (b # 0 /\ inDegree[i] = b)
                BY <4>1, <4>4
            <4> QED
                BY <3>2, <4>4, <4>5, <4>6
        <3> QED
            BY <3>1, <3>2
    <2>2. F \subseteq Created
        BY DEF Freed
    <2>3. Members(sorted) \cup Members(queue) = Z
        BY <1>0 DEF Ready
    <2>4. Members(sorted') \cup Members(queue') = Z \cup F
        <3>1. cur \in Z
            BY <1>2
        <3> HIDE DEF Z, F, cur
        <3> QED
            BY <1>2, <2>3, <3>1
    <2>5. {i \in Created : inDegree'[i] = 0} = Z \cup F
        BY <2>1, <2>2
    <2> QED
        BY <2>4, <2>5 DEF Ready
<1>8. EachOnce'
    <2>1. Members(sorted) \cap Members(queue) = {} /\ Members(sorted) \subseteq Z
        BY <1>0 DEF EachOnce, Ready
    <2>2. Members(sorted') \cap Members(queue') = {}
        <3>1. cur \in Z
            BY <1>2
        <3> HIDE DEF Z, F, cur
        <3> QED
            BY <1>2, <2>1, <3>1
    <2> QED
        BY <1>2, <2>2 DEF EachOnce
<1>9. DependenciesFirst'
    <2>1. /\ sorted \in Seq(Created) /\ Len(sorted) \in Nat
          /\ DOMAIN sorted' = 1..(Len(sorted) + 1)
          /\ sorted'[Len(sorted) + 1] = cur
          /\ \A k \in 1..Len(sorted) : sorted'[k] = sorted[k]
        BY <1>0, <1>2 DEF TypeOK
    <2>2. ASSUME NEW k \in 1..(Len(sorted) + 1), NEW e \in Edges(sorted'[k], Created)
          PROVE  \E j \in 1..(k - 1) : sorted'[j] = refs[sorted'[k]][e]
        <3>1. CASE k \in 1..Len(sorted)
            <4>1. sorted'[k] = sorted[k] /\ k \in DOMAIN sorted
                BY <2>1, <3>1
            <4>2. PICK j \in 1..(k - 1) : sorted[j] = refs[sorted[k]][e]
                BY <1>0, <1>1, <4>1 DEF DependenciesFirst
            <4>3. j \in 1..Len(sorted)
                BY <2>1, <3>1
            <4> QED
                BY <2>1, <4>1, <4>2, <4>3
        <3>2. CASE k = Len(sorted) + 1
            <4>1. sorted'[k] = cur /\ cur \in Created
                BY <1>2, <2>1, <3>2
            <4>2. Cardinality(Edges(cur, P)) = 0
                BY <1>2, <1>4, <4>1
            <4>3. Edges(cur, P) = {}
                BY <1>0, <4>1, <4>2, NoEdges DEF TypeOK
            <4>4. refs[cur][e] \in Members(sorted)
                BY <4>1, <4>3 DEF Edges
            <4>5. PICK j \in 1..Len(sorted) : sorted[j] = refs[cur][e]
                BY <2>1, <4>4 DEF Members
            <4>6. j \in 1..(k - 1)
                BY <2>1, <3>2
            <4> QED
                BY <2>1, <4>1, <4>5, <4>6
        <3> QED
            BY <2>1, <3>1, <3>2
    <2> QED
        BY <1>1, <2>1, <2>2 DEF DependenciesFirst, Edges
<1> QED
    BY <1>5, <1>6, <1>7, <1>8, <1>9 DEF IInv, SortInv

LEMMA AppendRestIInv == IInv /\ AppendRest => IInv' /\ NoneIsLost' /\ EachOnce'
<1> SUFFICES ASSUME IInv, AppendRest PROVE IInv' /\ NoneIsLost' /\ EachOnce'
    OBVIOUS
<1> DEFINE R == Created \ Members(sorted)
<1>0. TypeOK /\ EachOnce
    BY DEF IInv, SortInv, AppendRest
<1>1. PICK rest \in InOrder(R) : sorted' = sorted \o rest
    BY DEF AppendRest
<1>2. IsFiniteSet(R) /\ R \in SUBSET Int
    BY CreatedFinite
<1>3. rest \in Seq(R) /\ Members(rest) = R /\ Distinct(rest)
    BY <1>1, <1>2, InOrderMembers
<1>4. rest \in Seq(Created) /\ sorted \in Seq(Created) /\ Distinct(sorted)
    BY <1>0, <1>3 DEF TypeOK, EachOnce
<1>5. Members(sorted) \cap Members(rest) = {}
    BY <1>3
<1>6. /\ sorted' \in Seq(Created)
      /\ Members(sorted') = Members(sorted) \cup Members(rest)
      /\ Distinct(sorted')
    <2> HIDE DEF R
    <2>1. /\ sorted \o rest \in Seq(Created)
          /\ Members(sorted \o rest) = Members(sorted) \cup Members(rest)
          /\ Distinct(sorted \o rest)
        BY <1>3, <1>4, <1>5, ConcatMembers
    <2> QED
        BY <1>1, <2>1
<1>7. Members(sorted) \subseteq Created
    BY <1>4 DEF Members
<1>8. Members(sorted') = Created
    BY <1>3, <1>6, <1>7
<1>9. Len(sorted') = N
    <2>1. IsFiniteSet(Created) /\ Cardinality(Created) = N
        BY TopoSortAssumption, FS_Interval DEF Created
    <2> QED
        BY <1>6, <1>8, <2>1, DistinctLength
<1>10. pc' = "done" /\ UNCHANGED <<refs, inDegree, queue>>
    BY DEF AppendRest
<1>11. TypeOK'
    BY <1>0, <1>6, <1>10 DEF TypeOK
<1>12. EachOnce'
  <2>1. queue' = << >>
      BY <1>10 DEF AppendRest
  <2> QED
      BY <1>6, <2>1 DEF EachOnce, Distinct, Members
<1> QED
    BY <1>8, <1>9, <1>10, <1>11, <1>12 DEF IInv, SortInv, DependenciesFirst, NoneIsLost

-----------------------------------------------------------------------------
(* The theorems.                                                           *)

LEMMA NextIInv == IInv /\ [Next]_vars => IInv'
<1> SUFFICES ASSUME IInv, [Next]_vars PROVE IInv'
    OBVIOUS
<1>1. CASE Take
    BY <1>1, TakeIInv
<1>2. CASE AppendRest
    BY <1>2, AppendRestIInv
<1>3. CASE UNCHANGED vars
    <2>0. /\ refs' = refs /\ inDegree' = inDegree /\ queue' = queue
          /\ sorted' = sorted /\ pc' = pc
        BY <1>3 DEF vars
    <2>1. TypeOK'
        BY <2>0 DEF IInv, TypeOK
    <2>2. Counts' <=> Counts
        BY <2>0 DEF Counts, Edges
    <2>3. Ready' <=> Ready
        BY <2>0 DEF Ready
    <2>4. EachOnce' <=> EachOnce
        BY <2>0 DEF EachOnce
    <2>5. DependenciesFirst' <=> DependenciesFirst
        BY <2>0 DEF DependenciesFirst, Edges
    <2> QED
        BY <2>0, <2>1, <2>2, <2>3, <2>4, <2>5 DEF IInv, SortInv
<1> QED
    BY <1>1, <1>2, <1>3 DEF Next

LEMMA Inductive == Spec => []IInv
<1> QED
    BY InitIInv, NextIInv, PTL DEF Spec

\* Every variable keeps its type; an in-degree, which the code keeps in a
\* signed counter, never goes below zero.
THEOREM TypeCorrect == Spec => []TypeOK
<1>1. IInv => TypeOK
    BY DEF IInv
<1> QED
    BY <1>1, Inductive, PTL

\* CREATE TABLE statements that come off the queue never refer to a table
\* that is still to be created, whatever the foreign keys are.
THEOREM DependenciesComeFirst == Spec => []DependenciesFirst
<1>1. IInv => DependenciesFirst
    BY DEF IInv
<1> QED
    BY <1>1, Inductive, PTL

\* Only tables on a cycle of foreign keys, or behind one, escape the sort.
THEOREM OnlyCyclesEscape == Spec => []OnlyCyclesAreLeft
<1>1. IInv => OnlyCyclesAreLeft
    <2> SUFFICES ASSUME IInv, pc = "sorting", queue = << >>,
                        NEW i \in Created \ Members(sorted)
                 PROVE  Edges(i, Created \ Members(sorted)) # {}
        BY DEF OnlyCyclesAreLeft
    <2>1. TypeOK /\ Counts /\ Ready
        BY DEF IInv, SortInv
    <2>2. Members(queue) = {}
        BY DEF Members
    <2>3. inDegree[i] # 0
        BY <2>1, <2>2 DEF Ready
    <2>4. inDegree[i] = Cardinality(Edges(i, Created \ Members(sorted)))
        BY <2>1 DEF Counts
    <2> QED
        BY <2>1, <2>3, <2>4, NoEdges DEF TypeOK
<1> QED
    BY <1>1, Inductive, PTL

\* No table is sorted or queued twice, although a table with several foreign
\* keys to one other is reached once for each of them.
THEOREM NoneComesTwice == Spec => []EachOnce
<1> DEFINE J == IInv /\ EachOnce
<1>1. Init => J
    BY InitIInv DEF Init, IInv, SortInv
<1>2. J /\ [Next]_vars => J'
    <2> SUFFICES ASSUME J, [Next]_vars PROVE J'
        OBVIOUS
    <2>1. IInv'
        BY NextIInv
    <2>2. CASE Take
        BY <2>1, <2>2 DEF Take, IInv, SortInv
    <2>3. CASE AppendRest
        BY <2>1, <2>3, AppendRestIInv
    <2>4. CASE UNCHANGED vars
        BY <2>1, <2>4 DEF vars, EachOnce, Distinct, Members
    <2> QED
        BY <2>2, <2>3, <2>4 DEF Next
<1>3. J => EachOnce
    OBVIOUS
<1> HIDE DEF J
<1> QED
    BY <1>1, <1>2, <1>3, PTL DEF Spec

\* The slots of the plan are filled with the same CREATE TABLE statements
\* that were taken out: none is lost and none is repeated.
THEOREM NoTableIsLost == Spec => []NoneIsLost
<1> DEFINE J == IInv /\ NoneIsLost
<1>1. Init => J
    <2>1. Init => NoneIsLost
        BY DEF Init, NoneIsLost
    <2> QED
        BY <2>1, InitIInv
<1>2. J /\ [Next]_vars => J'
    <2> SUFFICES ASSUME J, [Next]_vars PROVE J'
        OBVIOUS
    <2>1. IInv'
        BY NextIInv
    <2>2. CASE Take
        BY <2>1, <2>2 DEF Take, NoneIsLost
    <2>3. CASE AppendRest
        BY <2>1, <2>3, AppendRestIInv
    <2>4. CASE UNCHANGED vars
        BY <2>1, <2>4 DEF vars, NoneIsLost, Members
    <2> QED
        BY <2>2, <2>3, <2>4 DEF Next
<1>3. J => NoneIsLost
    OBVIOUS
<1> HIDE DEF J
<1> QED
    BY <1>1, <1>2, <1>3, PTL DEF Spec

-----------------------------------------------------------------------------
(* The order that the composition relies on.                               *)

\* What one table refers to, and what sits on a cycle or behind one.
Needs(i) == Order!References(AsFiles, i)
Bound == Order!CycleBound(AsFiles, Created)

\* No table on a cycle, or behind one, was taken from the queue.
NoneBoundSorted == pc = "sorting" => Members(sorted) \cap Bound = {}

LEMMA NeedsEdges ==
    ASSUME NEW i \in Created
    PROVE  /\ Needs(i) = {refs[i][k] : k \in DOMAIN refs[i]} \ {i}
           /\ \A S : Edges(i, S) # {} <=> Needs(i) \cap S # {}
<1>1. AsFiles.tables[i].foreignKeys = {[references |-> refs[i][k]] : k \in DOMAIN refs[i]}
    BY DEF AsFiles
<1>2. Needs(i) = {fk.references : fk \in AsFiles.tables[i].foreignKeys} \ {i}
    BY DEF Needs, Order!References
<1>3. Needs(i) = {refs[i][k] : k \in DOMAIN refs[i]} \ {i}
    <2>1. \A x : x \in {fk.references : fk \in AsFiles.tables[i].foreignKeys}
                    <=> \E k \in DOMAIN refs[i] : x = refs[i][k]
        <3> DEFINE F == {[references |-> refs[i][k]] : k \in DOMAIN refs[i]}
        <3>1. \A fk \in F : \E k \in DOMAIN refs[i] : fk.references = refs[i][k]
            OBVIOUS
        <3>2. \A k \in DOMAIN refs[i] : \E fk \in F : fk.references = refs[i][k]
            <4> SUFFICES ASSUME NEW k \in DOMAIN refs[i]
                         PROVE  \E fk \in F : fk.references = refs[i][k]
                OBVIOUS
            <4>1. [references |-> refs[i][k]] \in F
                OBVIOUS
            <4>2. [references |-> refs[i][k]].references = refs[i][k]
                OBVIOUS
            <4> QED
                BY <4>1, <4>2
        <3> HIDE DEF F
        <3>3. \A x : x \in {fk.references : fk \in F}
                        <=> \E fk \in F : x = fk.references
            OBVIOUS
        <3>4. \A x : x \in {fk.references : fk \in F}
                        <=> \E k \in DOMAIN refs[i] : x = refs[i][k]
            BY <3>1, <3>2, <3>3
        <3> QED
            BY <1>1, <3>4 DEF F
    <2> QED
        BY <1>2, <2>1
<1>4. ASSUME NEW S PROVE Edges(i, S) # {} <=> Needs(i) \cap S # {}
    BY <1>3 DEF Edges
<1> QED
    BY <1>3, <1>4

\* Membership in the set of bound tables, without the union.
LEMMA BoundMembers ==
    ASSUME NEW i
    PROVE  i \in Bound <=>
               \E S \in SUBSET Created : i \in S /\ \A x \in S : Needs(x) \cap S # {}
    BY DEF Bound, Needs, Order!CycleBound

LEMMA BoundUnchanged ==
    ASSUME refs' = refs
    PROVE  Bound' = Bound /\ \A i : Needs(i)' = Needs(i)
<1>1. AsFiles' = AsFiles
    BY DEF AsFiles
<1> QED
    BY <1>1 DEF Bound, Needs, Order!CycleBound, Order!References

\* Whatever is taken waits for nothing that is not sorted, and a table of a
\* cycle waits for another one of the cycle.
LEMMA TakeNoneBound ==
    ASSUME IInv, NoneBoundSorted, Take
    PROVE  NoneBoundSorted'
<1> DEFINE cur == Head(queue)
<1>1. /\ cur \in Created /\ inDegree[cur] = 0
      /\ Members(sorted') = Members(sorted) \cup {cur}
    BY TakeMembers
<1>2. pc = "sorting" /\ refs' = refs
    BY DEF Take
<1>3. /\ refs \in Inputs
      /\ inDegree[cur] = Cardinality(Edges(cur, Created \ Members(sorted)))
    BY <1>1, <1>2 DEF IInv, TypeOK, SortInv, Counts
<1> HIDE DEF cur
<1>4. Edges(cur, Created \ Members(sorted)) = {}
    BY <1>1, <1>3, NoEdges
<1>5. Needs(cur) \cap (Created \ Members(sorted)) = {}
    BY <1>1, <1>4, NeedsEdges
<1>6. cur \notin Bound
    <2> SUFFICES ASSUME NEW S \in SUBSET Created, cur \in S,
                        \A x \in S : Needs(x) \cap S # {}
                 PROVE  FALSE
        BY BoundMembers
    <2>1. S \subseteq Bound
        BY BoundMembers
    <2>2. S \cap Members(sorted) = {}
        BY <1>2, <2>1 DEF NoneBoundSorted
    <2> QED
        BY <1>5, <2>2
<1>7. Members(sorted') \cap Bound = {}
    BY <1>1, <1>2, <1>6 DEF NoneBoundSorted
<1> QED
    BY <1>2, <1>7, BoundUnchanged DEF NoneBoundSorted, Members

\* What is left when the queue is empty is what is bound.
LEMMA RestIsBound ==
    ASSUME IInv, NoneBoundSorted, pc = "sorting", queue = << >>
    PROVE  Created \ Members(sorted) = Bound
<1> DEFINE R == Created \ Members(sorted)
<1>1. \A i \in R : Edges(i, R) # {}
    <2> SUFFICES ASSUME NEW i \in R PROVE Edges(i, R) # {}
        OBVIOUS
    <2>1. TypeOK /\ Counts /\ Ready
        BY DEF IInv, SortInv
    <2>2. Members(queue) = {}
        BY DEF Members
    <2>3. inDegree[i] # 0
        BY <2>1, <2>2 DEF Ready
    <2>4. inDegree[i] = Cardinality(Edges(i, R))
        BY <2>1 DEF Counts
    <2> QED
        BY <2>1, <2>3, <2>4, NoEdges DEF TypeOK
<1>2. \A i \in R : Needs(i) \cap R # {}
    BY <1>1, NeedsEdges
<1>3. R \subseteq Bound
    BY <1>2, BoundMembers
<1>4. Bound \subseteq Created
    BY BoundMembers
<1> QED
    BY <1>3, <1>4 DEF NoneBoundSorted

\* Two parts put together are in the promised order: the sorted part, which
\* is free of bound tables, and the rest by number.
LEMMA AppendInOrder ==
    ASSUME IInv, NoneBoundSorted, AppendRest
    PROVE  InPromisedOrder'
<1> DEFINE R == Created \ Members(sorted)
           m == Len(sorted)
<1>0. /\ TypeOK /\ EachOnce /\ DependenciesFirst
      /\ pc = "sorting" /\ queue = << >> /\ refs' = refs
    BY DEF IInv, SortInv, AppendRest
<1>1. PICK rest \in InOrder(R) : sorted' = sorted \o rest
    BY DEF AppendRest
<1>2. R = Bound
    BY <1>0, RestIsBound
<1>3. IsFiniteSet(R) /\ R \in SUBSET Int
    BY CreatedFinite
<1>4. rest \in Seq(R) /\ Members(rest) = R
    BY <1>1, <1>3, InOrderMembers
<1> HIDE DEF R
<1>5. /\ m \in Nat /\ DOMAIN sorted = 1..m
      /\ Len(rest) \in Nat /\ DOMAIN rest = 1..Len(rest)
      /\ \A k \in 1..m : sorted'[k] = sorted[k] /\ sorted[k] \in Members(sorted)
      /\ Len(sorted') = m + Len(rest)
    BY <1>0, <1>1, <1>4 DEF TypeOK, Members
<1>6. \A k \in (m + 1)..(m + Len(rest)) :
          sorted'[k] = rest[k - m] /\ k - m \in 1..Len(rest) /\ rest[k - m] \in R
    BY <1>0, <1>1, <1>4, <1>5 DEF TypeOK
<1>7. Len(sorted') = N /\ Distinct(sorted') /\ sorted' \in Seq(Created)
    BY AppendRestIInv, <1>0 DEF NoneIsLost, AppendRest, EachOnce, IInv, TypeOK
<1>8. \A k \in Created : k \in 1..m \/ k \in (m + 1)..(m + Len(rest))
    BY <1>5, <1>7, TopoSortAssumption DEF Created
<1>9. \A k \in 1..m : sorted'[k] \notin Bound
    BY <1>0, <1>5 DEF NoneBoundSorted
<1>10. \A k \in (m + 1)..(m + Len(rest)) : sorted'[k] \in Bound
    BY <1>2, <1>6
<1>11. Bound' = Bound /\ \A i : Needs(i)' = Needs(i)
    BY <1>0, BoundUnchanged
<1> HIDE DEF m
<1> SUFFICES ASSUME NEW j \in Created, NEW k \in Created,
                    Order!CreatedBefore(AsFiles, Created, sorted[j], sorted[k])'
             PROVE  j < k
    BY DEF InPromisedOrder
<1>12. \/ sorted'[j] \notin Bound /\ sorted'[k] \in Bound
       \/ /\ sorted'[j] \notin Bound /\ sorted'[k] \notin Bound
          /\ sorted'[j] \in Needs(sorted'[k])
       \/ /\ sorted'[j] \in Bound /\ sorted'[k] \in Bound
          /\ [i \in 0..N |-> i][sorted'[j]] < [i \in 0..N |-> i][sorted'[k]]
    <2>1. AsFiles' = AsFiles
        BY <1>0 DEF AsFiles
    <2> QED
        BY <2>1 DEF Order!CreatedBefore, Bound, Needs
<1>13. CASE sorted'[j] \notin Bound /\ sorted'[k] \in Bound
    <2>1. j \in 1..m /\ k \in (m + 1)..(m + Len(rest))
        BY <1>8, <1>9, <1>10, <1>13
    <2> QED
        BY <1>5, <2>1
<1>14. CASE /\ sorted'[j] \notin Bound /\ sorted'[k] \notin Bound
            /\ sorted'[j] \in Needs(sorted'[k])
    <2>1. j \in 1..m /\ k \in 1..m
        BY <1>8, <1>10, <1>14
    <2>2. sorted'[j] = sorted[j] /\ sorted'[k] = sorted[k]
        BY <1>5, <2>1
    <2>3. sorted[j] \in Created /\ sorted[k] \in Created
        BY <1>0, <1>5, <2>1 DEF TypeOK
    <2>4. PICK e \in DOMAIN refs[sorted[k]] : refs[sorted[k]][e] = sorted[j] /\ sorted[j] # sorted[k]
        BY <1>14, <2>2, <2>3, NeedsEdges
    <2>5. e \in Edges(sorted[k], Created)
        BY <2>3, <2>4 DEF Edges
    <2>6. PICK i \in 1..(k - 1) : sorted[i] = refs[sorted[k]][e]
        BY <1>0, <1>5, <2>1, <2>5 DEF DependenciesFirst
    <2>7. i \in 1..m /\ sorted[i] = sorted[j]
        BY <1>5, <2>1, <2>4, <2>6
    <2>8. i = j
        BY <1>0, <1>5, <2>1, <2>7 DEF EachOnce, Distinct
    <2> QED
        BY <1>5, <2>1, <2>6, <2>8
<1>15. CASE /\ sorted'[j] \in Bound /\ sorted'[k] \in Bound
            /\ [i \in 0..N |-> i][sorted'[j]] < [i \in 0..N |-> i][sorted'[k]]
    <2>1. j \in (m + 1)..(m + Len(rest)) /\ k \in (m + 1)..(m + Len(rest))
        BY <1>8, <1>9, <1>15
    <2>2. sorted'[j] \in 0..N /\ sorted'[k] \in 0..N
        <3>1. sorted'[j] \in Created /\ sorted'[k] \in Created
            BY <1>6, <2>1 DEF R
        <3> QED
            BY <3>1, TopoSortAssumption DEF Created
    <2>3. sorted'[j] < sorted'[k]
        BY <1>15, <2>2
    <2>4. rest[j - m] < rest[k - m] /\ j - m \in 1..Len(rest) /\ k - m \in 1..Len(rest)
        BY <1>6, <2>1, <2>3
    <2>5. \A x, y \in 1..Len(rest) : x < y => rest[x] < rest[y]
        BY <1>1, <1>5 DEF InOrder
    <2>6. rest[j - m] \in Int /\ rest[k - m] \in Int
        BY <1>3, <1>6, <2>1
    <2>7. ~(k - m < j - m) /\ k - m # j - m
        BY <2>4, <2>5, <2>6
    <2> QED
        BY <1>5, <2>1, <2>7
<1> QED
    BY <1>12, <1>13, <1>14, <1>15

\* For any number of tables and any foreign keys among them, the sort delivers
\* the order in which Runner takes CREATE TABLE statements to be sent.
THEOREM PromisedOrderIsKept == Spec => []InPromisedOrder
<1> DEFINE J == IInv /\ NoneBoundSorted /\ InPromisedOrder
<1>1. Init => J
    <2>1. Init => NoneBoundSorted /\ InPromisedOrder
        BY DEF Init, NoneBoundSorted, InPromisedOrder, Members
    <2> QED
        BY <2>1, InitIInv
<1>2. J /\ [Next]_vars => J'
    <2> SUFFICES ASSUME J, [Next]_vars PROVE J'
        OBVIOUS
    <2>1. IInv'
        BY NextIInv
    <2>2. CASE Take
        <3>1. NoneBoundSorted'
            BY <2>2, TakeNoneBound
        <3> QED
            BY <2>1, <2>2, <3>1 DEF Take, InPromisedOrder
    <2>3. CASE AppendRest
        <3>1. InPromisedOrder'
            BY <2>3, AppendInOrder
        <3> QED
            BY <2>1, <2>3, <3>1 DEF AppendRest, NoneBoundSorted
    <2>4. CASE UNCHANGED vars
        <3>1. /\ refs' = refs /\ sorted' = sorted /\ pc' = pc
              /\ Bound' = Bound /\ AsFiles' = AsFiles
            BY <2>4, BoundUnchanged DEF vars, AsFiles
        <3> QED
            BY <2>1, <3>1 DEF NoneBoundSorted, InPromisedOrder, Members
    <2> QED
        BY <2>2, <2>3, <2>4 DEF Next
<1>3. J => InPromisedOrder
    OBVIOUS
<1> HIDE DEF J
<1> QED
    BY <1>1, <1>2, <1>3, PTL DEF Spec
=============================================================================
