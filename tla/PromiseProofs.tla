---------------------------- MODULE PromiseProofs ----------------------------
(***************************************************************************)
(* Overlapping, crashing and failing runs of one set of files never lose   *)
(* what those files do not give away, whatever the others did between the  *)
(* reading, the planning and each statement of a run.                      *)
(*                                                                         *)
(* A run decides about what it read, and acts on what is there.  The two   *)
(* agree where it matters because the runs have the same files: all any    *)
(* of them adds is what the files ask for, so that the surplus a run has   *)
(* read can only shrink until it acts (Reflects).  A constraint is dropped *)
(* by its name alone; it is still the one that was read, because the run   *)
(* would have failed to add a wanted constraint under a name that is taken *)
(* (KeptSoFar, AddedAnew).                                                 *)
(*                                                                         *)
(* Nor do they turn the database into one that those files are refused for *)
(* (OpenInv), and one that commits has brought its tables to what the      *)
(* files ask for (ReachInv).                                               *)
(***************************************************************************)
EXTENDS RunnerProofs

\* All runs that ever overlap are deployments of one version of the files.
AgreeOnFiles == \A s \in Scenarios : \A r, q \in Runners : s.files[r] = s.files[q]

\* The names in U belong to UNIQUE constraints and the others to foreign keys,
\* in the database and in the files, as those PostgreSQL makes up (t_a_key and
\* t_a_fkey) do; what else Sound asks for PostgreSQL guarantees of a catalog.
NamesAreKept(U) ==
    \A s \in Scenarios :
        /\ Sound(U, s.catalog)
        /\ \A r \in Runners : KindsApart(U, s.files[r].tables)

Sent(r) == plan[r] \ todo[r]

\* Until the run has dropped anything, all constraints it found are there.
KeptSoFar(r) ==
    (\A m \in Sent(r) : m.kind \notin Taking) =>
        \A t \in DOMAIN catalog.tables :
            /\ t \in DOMAIN working.tables
            /\ catalog.tables[t].uniques \subseteq working.tables[t].uniques
            /\ catalog.tables[t].foreignKeys \subseteq working.tables[t].foreignKeys

\* A constraint the run has added had no namesake in the table it found.
AddedAnew(r) ==
    \A m \in Sent(r) :
        m.kind \in {"add_unique_key", "add_foreign_key"} /\ m.on \in DOMAIN catalog.tables =>
            m.name \notin ConstraintsOf(catalog.tables[m.on])

InTransactionInv(U, r) ==
    /\ Sound(U, working)
    /\ Evolves(files[r], catalog, working)
    /\ OnlyApprovedLoss(files[r], catalog, working)
    /\ IndexesOnlyGo(catalog, working)
    /\ KeptSoFar(r)
    /\ AddedAnew(r)

\* The index a run is building is the one its next statement is about.
BuildsItsIndex(r) ==
    \A m \in IndexStatements(r) :
        /\ m.name \in DOMAIN files[r].indexes
        /\ m.name \in DOMAIN catalog.indexes
        /\ SameIndex(catalog.indexes[m.name], files[r].indexes[m.name])

HasPlanned(r) ==
    \E orders \in Orders(files[r].groups) : plan[r] = Plan(files[r], have[r], orders)

RunLoss(U, r) ==
    /\ KindsApart(U, files[r].tables)
    /\ ReadsApart(U, have[r])
    /\ Reflects(files[r], have[r], catalog)
    /\ pc[r] \in {"transaction", "building"} <=> owner = r
    /\ pc[r] \in HoldsPlan => HasPlanned(r)
    /\ pc[r] = "planned" => todo[r] = plan[r]
    /\ pc[r] = "transaction" => InTransactionInv(U, r)
    /\ pc[r] = "building" => BuildsItsIndex(r)

LossInv(U) ==
    /\ \A r, q \in Runners : files[r] = files[q]
    /\ Sound(U, catalog)
    /\ \A r \in Runners : RunLoss(U, r)

-----------------------------------------------------------------------------
LEMMA NothingRead ==
    ASSUME NEW U, NEW f, NEW c
    PROVE  ReadsApart(U, EmptySchema) /\ Reflects(f, EmptySchema, c)
<1>1. DOMAIN EmptySchema.tables = {} /\ DOMAIN EmptySchema.indexes = {}
    BY DEF EmptySchema
<1> QED
    BY <1>1 DEF ReadsApart, KindsApart, Reflects

LEMMA InitLoss ==
    ASSUME AgreeOnFiles, NEW U, NamesAreKept(U), Init
    PROVE  LossInv(U)
<1>1. PICK s \in Scenarios : catalog = s.catalog /\ files = s.files
    BY DEF Init
<1>2. \A r, q \in Runners : files[r] = files[q]
    BY <1>1 DEF AgreeOnFiles
<1>3. Sound(U, catalog) /\ \A r \in Runners : KindsApart(U, files[r].tables)
    BY <1>1 DEF NamesAreKept
<1>4. \A r \in Runners : pc[r] = "idle" /\ have[r] = EmptySchema /\ owner # r
    BY RunnerAssumption DEF Init
<1>5. ASSUME NEW r \in Runners
      PROVE  RunLoss(U, r)
    BY <1>3, <1>4, NothingRead DEF RunLoss, HoldsPlan
<1> QED
    BY <1>2, <1>3, <1>5 DEF LossInv

\* The runs that do not take the step: the tables they read are still as they
\* read them, and none of them is in a transaction when the catalog changes.
LEMMA OthersLoss ==
    ASSUME NEW U, LossInv(U), NEW r \in Runners, NEW q \in Runners, q # r,
           files' = files, pc'[q] = pc[q], have'[q] = have[q], plan'[q] = plan[q],
           todo'[q] = todo[q], Evolves(files[r], catalog, catalog'),
           \/ UNCHANGED <<catalog, owner, working>>
           \/ owner \in {NoRunner, r} /\ owner' \in {NoRunner, r}
    PROVE  RunLoss(U, q)'
<1>1. RunLoss(U, q) /\ files[q] = files[r] /\ files'[q] = files[q]
    BY DEF LossInv
<1>2. KindsApart(U, files'[q].tables) /\ ReadsApart(U, have'[q])
    BY <1>1 DEF RunLoss
<1>3. Reflects(files'[q], have'[q], catalog')
    BY <1>1, ReflectsOn DEF RunLoss
<1>4. HasPlanned(q) => HasPlanned(q)'
    BY <1>1 DEF HasPlanned
<1>5. CASE UNCHANGED <<catalog, owner, working>>
    <2>1. InTransactionInv(U, q) => InTransactionInv(U, q)'
        BY <1>5 DEF InTransactionInv, KeptSoFar, AddedAnew, Sent
    <2>2. BuildsItsIndex(q) => BuildsItsIndex(q)'
        BY <1>5 DEF BuildsItsIndex, IndexStatements
    <2> QED
        BY <1>1, <1>2, <1>3, <1>4, <1>5, <2>1, <2>2 DEF RunLoss
<1>6. CASE owner \in {NoRunner, r} /\ owner' \in {NoRunner, r}
    <2>1. owner # q /\ owner' # q
        BY <1>6, RunnerAssumption
    <2>2. pc[q] \notin {"transaction", "building"}
        BY <1>1, <2>1 DEF RunLoss
    <2> QED
        BY <1>1, <1>2, <1>3, <1>4, <2>1, <2>2 DEF RunLoss
<1> QED
    BY <1>5, <1>6

\* A step of run r, given what it leaves of that run.
LEMMA MovesLoss ==
    ASSUME NEW U, LossInv(U), Shape, NEW r \in Runners, files' = files,
           NEW p, pc' = [pc EXCEPT ![r] = p], NEW h, have' = [have EXCEPT ![r] = h],
           NEW pl, plan' = [plan EXCEPT ![r] = pl], NEW td, todo' = [todo EXCEPT ![r] = td],
           Sound(U, catalog'), Evolves(files[r], catalog, catalog'),
           \/ UNCHANGED <<catalog, owner, working>>
           \/ owner \in {NoRunner, r} /\ owner' \in {NoRunner, r},
           RunLoss(U, r)'
    PROVE  LossInv(U)'
<1>1. ASSUME NEW q \in Runners, q # r
      PROVE  RunLoss(U, q)'
    <2>1. /\ pc'[q] = pc[q] /\ have'[q] = have[q]
          /\ plan'[q] = plan[q] /\ todo'[q] = todo[q]
        BY <1>1 DEF Shape
    <2> QED
        BY <1>1, <2>1, OthersLoss
<1>2. \A q, s \in Runners : files'[q] = files'[s]
    BY DEF LossInv
<1> QED
    BY <1>1, <1>2 DEF LossInv

\* A run that stops keeps nothing it could act on.
LEMMA StopsLoss ==
    ASSUME NEW U, LossInv(U), Shape, NEW r \in Runners, files' = files,
           NEW result \in AtRest, Stop(r, result), owner' # r,
           Sound(U, catalog'), Evolves(files[r], catalog, catalog'),
           \/ UNCHANGED <<catalog, owner, working>>
           \/ owner \in {NoRunner, r} /\ owner' \in {NoRunner, r}
    PROVE  LossInv(U)'
<1>1. /\ pc' = [pc EXCEPT ![r] = result] /\ have' = [have EXCEPT ![r] = EmptySchema]
      /\ plan' = [plan EXCEPT ![r] = {}] /\ todo' = [todo EXCEPT ![r] = {}]
    BY DEF Stop
<1>2. pc'[r] = result /\ have'[r] = EmptySchema
    BY <1>1 DEF Shape
<1>3. result \notin HoldsPlan /\ result \notin {"transaction", "building", "planned"}
    BY DEF AtRest, HoldsPlan
<1>4. KindsApart(U, files'[r].tables)
    BY DEF LossInv, RunLoss
<1>5. RunLoss(U, r)'
    BY <1>2, <1>3, <1>4, NothingRead DEF RunLoss, HoldsPlan
<1> QED
    BY <1>1, <1>5, MovesLoss

\* A run without a plan reads on.
LEMMA ReadsLoss ==
    ASSUME NEW U, LossInv(U), Shape, NEW r \in Runners, pc[r] \notin HoldsPlan,
           NEW p \in Active \ HoldsPlan, pc' = [pc EXCEPT ![r] = p],
           NEW h, have' = [have EXCEPT ![r] = h],
           ReadsApart(U, h), Reflects(files[r], h, catalog),
           UNCHANGED <<catalog, owner, working, files, plan, todo>>
    PROVE  LossInv(U)'
<1>1. pc'[r] = p /\ have'[r] = h
    BY DEF Shape
<1>2. owner' # r
    BY DEF LossInv, RunLoss, HoldsPlan
<1>3. KindsApart(U, files'[r].tables) /\ Sound(U, catalog')
    BY DEF LossInv, RunLoss
<1>4. Reflects(files'[r], have'[r], catalog')
    BY <1>1
<1>5. RunLoss(U, r)'
    BY <1>1, <1>2, <1>3, <1>4 DEF RunLoss, HoldsPlan
<1>6. plan' = [plan EXCEPT ![r] = plan[r]] /\ todo' = [todo EXCEPT ![r] = todo[r]]
    BY DEF Shape
<1>7. Evolves(files[r], catalog, catalog')
    BY EvolvesReflexive
<1> QED
    BY <1>1, <1>3, <1>5, <1>6, <1>7, MovesLoss

-----------------------------------------------------------------------------
(* Reading: what is read at any moment is what is there at that moment.    *)

LEMMA ConnectLoss ==
    ASSUME NEW U, LossInv(U), IInv, NEW r \in Runners, Connect(r)
    PROVE  LossInv(U)'
<1>1. pc[r] \notin HoldsPlan /\ "connected" \in Active \ HoldsPlan
    BY DEF Connect, AtRest, Active, HoldsPlan
<1>2. have' = [have EXCEPT ![r] = have[r]]
    BY DEF IInv, Shape, Connect
<1>3. ReadsApart(U, have[r]) /\ Reflects(files[r], have[r], catalog)
    BY DEF LossInv, RunLoss
<1> QED
    BY <1>1, <1>2, <1>3, ReadsLoss DEF IInv, Connect

LEMMA ListUserSchemasLoss ==
    ASSUME NEW U, LossInv(U), IInv, NEW r \in Runners, ListUserSchemas(r)
    PROVE  LossInv(U)'
<1> DEFINE h == [have[r] EXCEPT !.namespaces = catalog.namespaces]
<1>1. pc[r] \notin HoldsPlan /\ "listed" \in Active \ HoldsPlan
    BY DEF ListUserSchemas, Active, HoldsPlan
<1>2. have' = [have EXCEPT ![r] = h]
    BY DEF ListUserSchemas
<1>3. h.tables = have[r].tables /\ h.indexes = have[r].indexes
    BY DEF IInv, RunInv, IsSchema
<1> HIDE DEF h
<1>4. ReadsApart(U, h) /\ Reflects(files[r], h, catalog)
    BY <1>3 DEF LossInv, RunLoss, ReadsApart, Reflects
<1> QED
    BY <1>1, <1>2, <1>4, ReadsLoss DEF IInv, ListUserSchemas

LEMMA ListTablesLoss ==
    ASSUME NEW U, LossInv(U), IInv, NEW r \in Runners, ListTables(r)
    PROVE  LossInv(U)'
<1>1. pc[r] \notin HoldsPlan /\ "columns" \in Active \ HoldsPlan
    BY DEF ListTables, Active, HoldsPlan
<1>2. have' = [have EXCEPT ![r] = have[r]]
    BY DEF IInv, Shape, ListTables
<1>3. ReadsApart(U, have[r]) /\ Reflects(files[r], have[r], catalog)
    BY DEF LossInv, RunLoss
<1> QED
    BY <1>1, <1>2, <1>3, ReadsLoss DEF IInv, ListTables

\* What was read with other tables in place of the old ones.
LEMMA OtherTablesRead ==
    ASSUME NEW U, NEW f, NEW c, NEW s, IsSchema(s), Reflects(f, s, c), NEW ts,
           KindsApart(U, ts), \A t \in DOMAIN ts : NamesApart(ts[t]),
           \A t \in DOMAIN ts \cap DOMAIN c.tables :
              IF t \in DOMAIN f.tables
              THEN TableReflects(f.tables[t], ts[t], c.tables[t])
              ELSE ts[t].columns = c.tables[t].columns
    PROVE  LET h == [s EXCEPT !.tables = ts]
           IN  ReadsApart(U, h) /\ Reflects(f, h, c)
<1> DEFINE h == [s EXCEPT !.tables = ts]
<1>1. h.tables = ts /\ h.indexes = s.indexes
    BY DEF IsSchema
<1> HIDE DEF h
<1>2. ReadsApart(U, h) /\ Reflects(f, h, c)
    BY <1>1 DEF ReadsApart, Reflects
<1> QED
    BY <1>2 DEF h

LEMMA ListColumnsLoss ==
    ASSUME NEW U, LossInv(U), IInv, NEW r \in Runners, ListColumns(r)
    PROVE  LossInv(U)'
<1>1. PICK t \in left[r].tables :
          have' = [have EXCEPT ![r].tables = With(@, t, WithoutKeys(ColumnsOf(t)))]
    BY DEF ListColumns
<1> DEFINE old == have[r].tables
           x == WithoutKeys(ColumnsOf(t))
           ts == With(old, t, x)
           h == [have[r] EXCEPT !.tables = ts]
<1>2. pc[r] \notin HoldsPlan /\ "columns" \in Active \ HoldsPlan
      /\ pc' = [pc EXCEPT ![r] = "columns"]
    BY DEF IInv, Shape, ListColumns, Active, HoldsPlan
<1>3. have' = [have EXCEPT ![r] = h]
    BY <1>1
<1>4. x.columns = ColumnsOf(t) /\ x.uniques = {} /\ x.foreignKeys = {}
    BY DEF WithoutKeys
<1>5. t \in DOMAIN catalog.tables => x.columns = catalog.tables[t].columns
    BY <1>4 DEF ColumnsOf
<1>6. /\ DOMAIN ts = DOMAIN old \cup {t} /\ ts[t] = x
      /\ \A s \in DOMAIN old : s # t => ts[s] = old[s]
    BY DEF With
<1> HIDE DEF x, ts
<1>7. /\ KindsApart(U, old) /\ \A s \in DOMAIN old : NamesApart(old[s])
      /\ Reflects(files[r], have[r], catalog)
    BY DEF LossInv, RunLoss, ReadsApart
<1>8. KindsApart(U, ts)
    BY <1>4, <1>6, <1>7 DEF KindsApart
<1>9. \A s \in DOMAIN ts : NamesApart(ts[s])
    BY <1>4, <1>6, <1>7 DEF NamesApart
<1>10. TableReflects(files[r].tables[t], x, catalog.tables[t]) \/ t \notin DOMAIN catalog.tables
    BY <1>4, <1>5 DEF TableReflects
<1>11. \A s \in DOMAIN ts \cap DOMAIN catalog.tables :
           IF s \in DOMAIN files[r].tables
           THEN TableReflects(files[r].tables[s], ts[s], catalog.tables[s])
           ELSE ts[s].columns = catalog.tables[s].columns
    BY <1>5, <1>6, <1>7, <1>10 DEF Reflects
<1>12. ReadsApart(U, h) /\ Reflects(files[r], h, catalog)
    BY <1>7, <1>8, <1>9, <1>11, OtherTablesRead DEF IInv, RunInv
<1> HIDE DEF h
<1> QED
    BY <1>2, <1>3, <1>12, ReadsLoss DEF IInv, ListColumns

\* The uniques of a table that is read again, with the catalog's keys.
LEMMA ListUniqueKeysLoss ==
    ASSUME NEW U, LossInv(U), IInv, NEW r \in Runners, ListUniqueKeys(r)
    PROVE  LossInv(U)'
<1> DEFINE old == have[r].tables
           Keyed(t) == [old[t] EXCEPT !.primaryKey = catalog.tables[t].primaryKey,
                                      !.uniques = catalog.tables[t].uniques]
           ts == [t \in DOMAIN old |->
                     IF InReach(r, t) /\ t \in DOMAIN catalog.tables THEN Keyed(t) ELSE old[t]]
           h == [have[r] EXCEPT !.tables = ts]
<1>1. pc[r] \notin HoldsPlan /\ "unique keys read" \in Active \ HoldsPlan
    BY DEF ListUniqueKeys, Active, HoldsPlan
<1>2. have' = [have EXCEPT ![r] = h]
    BY DEF ListUniqueKeys
<1>3. \A t \in DOMAIN old : IsTable(old[t])
    BY SchemaRecord, TablesOf DEF IInv, RunInv
<1>4. ASSUME NEW t \in DOMAIN old
      PROVE  /\ Keyed(t).columns = old[t].columns
             /\ Keyed(t).uniques = catalog.tables[t].uniques
             /\ Keyed(t).foreignKeys = old[t].foreignKeys
    <2> DEFINE p == catalog.tables[t].primaryKey
               us == catalog.tables[t].uniques
               a == [columns |-> old[t].columns, primaryKey |-> p, uniques |-> old[t].uniques,
                     foreignKeys |-> old[t].foreignKeys, removed |-> old[t].removed]
    <2>1. [old[t] EXCEPT !.primaryKey = p] = a
        <3> HIDE DEF old, p
        <3> QED
            BY <1>3 DEF IsTable
    <2>2. [a EXCEPT !.uniques = us] =
             [columns |-> old[t].columns, primaryKey |-> p, uniques |-> us,
              foreignKeys |-> old[t].foreignKeys, removed |-> old[t].removed]
        OBVIOUS
    <2>3. Keyed(t) = [[old[t] EXCEPT !.primaryKey = p] EXCEPT !.uniques = us]
        OBVIOUS
    <2> HIDE DEF Keyed, old
    <2> QED
        BY <2>1, <2>2, <2>3
<1> HIDE DEF Keyed
<1>5. /\ KindsApart(U, old) /\ \A s \in DOMAIN old : NamesApart(old[s])
      /\ Reflects(files[r], have[r], catalog)
    BY DEF LossInv, RunLoss, ReadsApart
<1>6. /\ KindsApart(U, catalog.tables)
      /\ \A t \in DOMAIN catalog.tables : NamesApart(catalog.tables[t])
    BY DEF LossInv, Sound
<1>7. ASSUME NEW t \in DOMAIN old, t \in DOMAIN catalog.tables
      PROVE  /\ \A u \in Keyed(t).uniques : u.name \in U
             /\ \A fk \in Keyed(t).foreignKeys : fk.name \notin U
             /\ NamesApart(Keyed(t))
             /\ IF t \in DOMAIN files[r].tables
                THEN TableReflects(files[r].tables[t], Keyed(t), catalog.tables[t])
                ELSE Keyed(t).columns = catalog.tables[t].columns
    <2>1. /\ \A u \in Keyed(t).uniques : u.name \in U
          /\ \A fk \in Keyed(t).foreignKeys : fk.name \notin U
        BY <1>4, <1>5, <1>6, <1>7 DEF KindsApart
    <2>2. NamesApart(Keyed(t))
        BY <1>4, <1>5, <1>6, <1>7, <2>1 DEF NamesApart
    <2>3. CASE t \in DOMAIN files[r].tables
        <3>1. TableReflects(files[r].tables[t], old[t], catalog.tables[t])
            BY <1>5, <1>7, <2>3 DEF Reflects
        <3>2. \A v, u \in catalog.tables[t].uniques : v.name = u.name => v = u
            BY <1>6, <1>7 DEF NamesApart
        <3>3. TableReflects(files[r].tables[t], Keyed(t), catalog.tables[t])
            BY <1>4, <3>1, <3>2 DEF TableReflects
        <3> QED
            BY <2>1, <2>2, <2>3, <3>3
    <2>4. CASE t \notin DOMAIN files[r].tables
        BY <1>4, <1>5, <1>7, <2>1, <2>2, <2>4 DEF Reflects
    <2> QED
        BY <2>3, <2>4
<1>8. KindsApart(U, ts)
    BY <1>5, <1>7 DEF KindsApart
<1>9. \A s \in DOMAIN ts : NamesApart(ts[s])
    BY <1>5, <1>7
<1>10. \A s \in DOMAIN ts \cap DOMAIN catalog.tables :
           IF s \in DOMAIN files[r].tables
           THEN TableReflects(files[r].tables[s], ts[s], catalog.tables[s])
           ELSE ts[s].columns = catalog.tables[s].columns
    BY <1>5, <1>7 DEF Reflects
<1> HIDE DEF ts
<1>11. ReadsApart(U, h) /\ Reflects(files[r], h, catalog)
    BY <1>5, <1>8, <1>9, <1>10, OtherTablesRead DEF IInv, RunInv
<1> HIDE DEF h
<1> QED
    BY <1>1, <1>2, <1>11, ReadsLoss DEF IInv, ListUniqueKeys

LEMMA ListForeignKeysLoss ==
    ASSUME NEW U, LossInv(U), IInv, NEW r \in Runners, ListForeignKeys(r)
    PROVE  LossInv(U)'
<1> DEFINE old == have[r].tables
           Keyed(t) == [old[t] EXCEPT !.foreignKeys = ReadForeignKeys(catalog, t)]
           ts == [t \in DOMAIN old |->
                     IF InReach(r, t) /\ t \in DOMAIN catalog.tables THEN Keyed(t) ELSE old[t]]
           h == [have[r] EXCEPT !.tables = ts]
<1>1. pc[r] \notin HoldsPlan /\ "foreign keys read" \in Active \ HoldsPlan
    BY DEF ListForeignKeys, Active, HoldsPlan
<1>2. have' = [have EXCEPT ![r] = h]
    BY DEF ListForeignKeys
<1>3. \A t \in DOMAIN old : IsTable(old[t])
    BY SchemaRecord, TablesOf DEF IInv, RunInv
<1>4. ASSUME NEW t \in DOMAIN old
      PROVE  /\ Keyed(t).columns = old[t].columns
             /\ Keyed(t).uniques = old[t].uniques
             /\ Keyed(t).foreignKeys \subseteq catalog.tables[t].foreignKeys
    <2> DEFINE fks == ReadForeignKeys(catalog, t)
    <2>1. fks \subseteq catalog.tables[t].foreignKeys
        BY DEF ReadForeignKeys
    <2> HIDE DEF old, fks
    <2>2. Keyed(t) = [columns |-> old[t].columns, primaryKey |-> old[t].primaryKey,
                      uniques |-> old[t].uniques, foreignKeys |-> fks,
                      removed |-> old[t].removed]
        BY <1>3 DEF IsTable, fks
    <2> HIDE DEF Keyed
    <2> QED
        BY <2>1, <2>2
<1> HIDE DEF Keyed
<1>5. /\ KindsApart(U, old) /\ \A s \in DOMAIN old : NamesApart(old[s])
      /\ Reflects(files[r], have[r], catalog)
    BY DEF LossInv, RunLoss, ReadsApart
<1>6. /\ KindsApart(U, catalog.tables)
      /\ \A t \in DOMAIN catalog.tables : NamesApart(catalog.tables[t])
    BY DEF LossInv, Sound
<1>7. ASSUME NEW t \in DOMAIN old, t \in DOMAIN catalog.tables
      PROVE  /\ \A u \in Keyed(t).uniques : u.name \in U
             /\ \A fk \in Keyed(t).foreignKeys : fk.name \notin U
             /\ NamesApart(Keyed(t))
             /\ IF t \in DOMAIN files[r].tables
                THEN TableReflects(files[r].tables[t], Keyed(t), catalog.tables[t])
                ELSE Keyed(t).columns = catalog.tables[t].columns
    <2>1. /\ \A u \in Keyed(t).uniques : u.name \in U
          /\ \A fk \in Keyed(t).foreignKeys : fk.name \notin U
        BY <1>4, <1>5, <1>6, <1>7 DEF KindsApart
    <2>2. NamesApart(Keyed(t))
        BY <1>4, <1>5, <1>6, <1>7, <2>1 DEF NamesApart
    <2>3. CASE t \in DOMAIN files[r].tables
        <3>1. TableReflects(files[r].tables[t], old[t], catalog.tables[t])
            BY <1>5, <1>7, <2>3 DEF Reflects
        <3>2. \A v, fk \in catalog.tables[t].foreignKeys : v.name = fk.name => v = fk
            BY <1>6, <1>7 DEF NamesApart
        <3>3. TableReflects(files[r].tables[t], Keyed(t), catalog.tables[t])
            BY <1>4, <3>1, <3>2 DEF TableReflects
        <3> QED
            BY <2>1, <2>2, <2>3, <3>3
    <2>4. CASE t \notin DOMAIN files[r].tables
        BY <1>4, <1>5, <1>7, <2>1, <2>2, <2>4 DEF Reflects
    <2> QED
        BY <2>3, <2>4
<1>8. KindsApart(U, ts)
    BY <1>5, <1>7 DEF KindsApart
<1>9. \A s \in DOMAIN ts : NamesApart(ts[s])
    BY <1>5, <1>7
<1>10. \A s \in DOMAIN ts \cap DOMAIN catalog.tables :
           IF s \in DOMAIN files[r].tables
           THEN TableReflects(files[r].tables[s], ts[s], catalog.tables[s])
           ELSE ts[s].columns = catalog.tables[s].columns
    BY <1>5, <1>7 DEF Reflects
<1> HIDE DEF ts
<1>11. ReadsApart(U, h) /\ Reflects(files[r], h, catalog)
    BY <1>5, <1>8, <1>9, <1>10, OtherTablesRead DEF IInv, RunInv
<1> HIDE DEF h
<1> QED
    BY <1>1, <1>2, <1>11, ReadsLoss DEF IInv, ListForeignKeys

LEMMA ListIndexesLoss ==
    ASSUME NEW U, LossInv(U), IInv, NEW r \in Runners, ListIndexes(r)
    PROVE  LossInv(U)'
<1> DEFINE old == have[r].indexes
           found == {i \in DOMAIN catalog.indexes : InReach(r, catalog.indexes[i].table)}
           is == [i \in DOMAIN old \cup found |->
                     IF i \in found THEN ReadIndex(catalog.indexes[i]) ELSE old[i]]
           h == [have[r] EXCEPT !.indexes = is]
<1>1. pc[r] \notin HoldsPlan /\ "listed" \in Active \ HoldsPlan
    BY DEF ListIndexes, Active, HoldsPlan
<1>2. have' = [have EXCEPT ![r] = h]
    BY DEF ListIndexes
<1>3. ReadsApart(U, have[r]) /\ Reflects(files[r], have[r], catalog)
    BY DEF LossInv, RunLoss
<1>4. \A i : SameIndex(ReadIndex(catalog.indexes[i]), catalog.indexes[i])
    BY DEF ReadIndex, SameIndex
<1>5. \A i \in (DOMAIN is \cap DOMAIN catalog.indexes) \ DOMAIN files[r].indexes :
          SameIndex(is[i], catalog.indexes[i])
    BY <1>3, <1>4 DEF Reflects
<1> HIDE DEF is
<1>6. h.tables = have[r].tables /\ h.indexes = is
    BY DEF IInv, RunInv, IsSchema
<1> HIDE DEF h
<1>7. ReadsApart(U, h) /\ Reflects(files[r], h, catalog)
    BY <1>3, <1>5, <1>6 DEF ReadsApart, Reflects
<1> QED
    BY <1>1, <1>2, <1>7, ReadsLoss DEF IInv, ListIndexes

-----------------------------------------------------------------------------
(* Planning, and what leaves the database alone.                           *)

\* A run outside of a transaction that stops.
LEMMA GivesUpLoss ==
    ASSUME NEW U, LossInv(U), IInv, NEW r \in Runners,
           pc[r] \notin {"transaction", "building"}, NEW result \in AtRest, Stop(r, result),
           UNCHANGED <<catalog, owner, working, files>>
    PROVE  LossInv(U)'
<1>1. owner' # r /\ Sound(U, catalog')
    BY DEF LossInv, RunLoss
<1>2. Evolves(files[r], catalog, catalog')
    BY EvolvesReflexive
<1> QED
    BY <1>1, <1>2, StopsLoss DEF IInv

LEMMA StopsEarlyLoss ==
    ASSUME NEW U, LossInv(U), IInv, NEW r \in Runners,
           Refuse(r) \/ DryRun(r) \/ Finish(r) \/ FaultOutsideTransaction(r)
    PROVE  LossInv(U)'
<1>1. CASE Refuse(r)
    BY <1>1, GivesUpLoss DEF Refuse, HasIntrospected, AtRest
<1>2. CASE DryRun(r)
    BY <1>2, GivesUpLoss DEF DryRun, AtRest
<1>3. CASE Finish(r)
    BY <1>3, GivesUpLoss DEF Finish, AtRest
<1>4. CASE FaultOutsideTransaction(r)
    BY <1>4, GivesUpLoss DEF FaultOutsideTransaction, Fault, AtRest
<1> QED
    BY <1>1, <1>2, <1>3, <1>4

LEMMA MakePlanLoss ==
    ASSUME NEW U, LossInv(U), IInv, NEW r \in Runners, MakePlan(r)
    PROVE  LossInv(U)'
<1>1. PICK orders \in Orders(files[r].groups) :
          /\ plan' = [plan EXCEPT ![r] = Plan(files[r], have[r], orders)]
          /\ todo' = [todo EXCEPT ![r] = Plan(files[r], have[r], orders)]
    BY DEF MakePlan
<1> DEFINE new == Plan(files[r], have[r], orders)
<1>2. UNCHANGED <<catalog, owner, working, files, have>> /\ pc' = [pc EXCEPT ![r] = "planned"]
    BY DEF MakePlan
<1>3. pc'[r] = "planned" /\ plan'[r] = new /\ todo'[r] = new
    BY <1>1, <1>2 DEF IInv, Shape
<1>4. pc[r] \notin {"transaction", "building"}
    BY DEF MakePlan, HasIntrospected
<1>5. HasPlanned(r)'
    BY <1>2, <1>3 DEF HasPlanned
<1>6. Sound(U, catalog') /\ RunLoss(U, r)'
    BY <1>2, <1>3, <1>4, <1>5 DEF LossInv, RunLoss
<1>7. have' = [have EXCEPT ![r] = have[r]]
    BY <1>2 DEF IInv, Shape
<1>8. Evolves(files[r], catalog, catalog')
    BY <1>2, EvolvesReflexive
<1> QED
    BY <1>1, <1>2, <1>6, <1>7, <1>8, MovesLoss DEF IInv

\* A run that moves on with its plan.
LEMMA GoesOnLoss ==
    ASSUME NEW U, LossInv(U), Shape, NEW r \in Runners, NEW p, pc' = [pc EXCEPT ![r] = p],
           p \in HoldsPlan \ {"planned"}, pc[r] \in HoldsPlan,
           NEW td, todo' = [todo EXCEPT ![r] = td], UNCHANGED <<files, left, have, plan>>,
           Sound(U, catalog'), Evolves(files[r], catalog, catalog'),
           \/ UNCHANGED <<catalog, owner, working>>
           \/ owner \in {NoRunner, r} /\ owner' \in {NoRunner, r},
           p \in {"transaction", "building"} <=> owner' = r,
           p = "transaction" => InTransactionInv(U, r)',
           p = "building" => BuildsItsIndex(r)'
    PROVE  LossInv(U)'
<1>1. pc'[r] = p
    BY DEF Shape
<1>2. plan' = [plan EXCEPT ![r] = plan[r]] /\ have' = [have EXCEPT ![r] = have[r]]
    BY DEF Shape
<1>3. HasPlanned(r)'
    BY DEF LossInv, RunLoss, HasPlanned
<1>4. Reflects(files'[r], have'[r], catalog')
    BY ReflectsOn DEF LossInv, RunLoss
<1>5. KindsApart(U, files'[r].tables) /\ ReadsApart(U, have'[r])
    BY DEF LossInv, RunLoss
<1>6. RunLoss(U, r)'
    BY <1>1, <1>3, <1>4, <1>5 DEF RunLoss
<1> QED
    BY <1>2, <1>6, MovesLoss

LEMMA NoTransactionLoss ==
    ASSUME NEW U, LossInv(U), IInv, NEW r \in Runners, NoTransaction(r)
    PROVE  LossInv(U)'
<1>1. /\ pc' = [pc EXCEPT ![r] = "committed"] /\ pc[r] = "planned"
      /\ UNCHANGED <<catalog, owner, working, files, left, have, plan, todo>>
    BY DEF NoTransaction
<1>2. Sound(U, catalog') /\ owner' # r
    BY <1>1 DEF LossInv, RunLoss
<1>3. Evolves(files[r], catalog, catalog')
    BY <1>1, EvolvesReflexive
<1>4. todo' = [todo EXCEPT ![r] = todo[r]]
    BY <1>1 DEF IInv, Shape
<1>5. /\ "committed" \in HoldsPlan \ {"planned"} /\ pc[r] \in HoldsPlan
      /\ "committed" \in {"transaction", "building"} <=> owner' = r
    BY <1>1, <1>2 DEF HoldsPlan
<1>6. "committed" # "transaction" /\ "committed" # "building"
    OBVIOUS
<1> QED
    BY <1>1, <1>2, <1>3, <1>4, <1>5, <1>6, GoesOnLoss DEF IInv

\* Nothing is lost, and nothing sent, when a transaction begins.
LEMMA BeginLoss ==
    ASSUME NEW U, LossInv(U), IInv, NEW r \in Runners, Begin(r)
    PROVE  LossInv(U)'
<1>1. /\ pc' = [pc EXCEPT ![r] = "transaction"] /\ pc[r] = "planned"
      /\ owner = NoRunner /\ owner' = r /\ working' = catalog
      /\ UNCHANGED <<catalog, files, left, have, plan, todo>>
    BY DEF Begin
<1>2. Sound(U, catalog) /\ todo[r] = plan[r]
    BY <1>1 DEF LossInv, RunLoss
<1>3. Evolves(files[r], catalog, catalog)
    BY EvolvesReflexive
<1>4. OnlyApprovedLoss(files[r], catalog, catalog)
    BY DEF OnlyApprovedLoss, KeepsTable, LostColumns
<1>5. InTransactionInv(U, r)'
    BY <1>1, <1>2, <1>3, <1>4
       DEF InTransactionInv, IndexesOnlyGo, KeptSoFar, AddedAnew, Sent
<1>6. todo' = [todo EXCEPT ![r] = todo[r]]
    BY <1>1 DEF IInv, Shape
<1>7. /\ "transaction" \in HoldsPlan \ {"planned"} /\ pc[r] \in HoldsPlan
      /\ "transaction" \in {"transaction", "building"} <=> owner' = r
      /\ owner \in {NoRunner, r} /\ owner' \in {NoRunner, r}
    BY <1>1 DEF HoldsPlan
<1>8. Sound(U, catalog') /\ Evolves(files[r], catalog, catalog')
    BY <1>1, <1>2, <1>3
<1>9. "transaction" # "building"
    OBVIOUS
<1> QED
    BY <1>1, <1>5, <1>6, <1>7, <1>8, <1>9, GoesOnLoss DEF IInv

-----------------------------------------------------------------------------
(* The ranks of the kinds, in both implementations: what a plan adds goes  *)
(* before its index is built, and before what it takes.                    *)

LEMMA RanksOfKinds ==
    ASSUME NEW rank \in {GoRank, RustRank}
    PROVE  /\ DOMAIN rank = 1..13
           /\ \A k \in Adding : \E i \in 1..7 : rank[i] = k
           /\ \A i \in 8..13 : rank[i] \notin Adding
           /\ \A i \in 1..13 : rank[i] = "create_index" <=> i = 8
           /\ \A k \in Taking \cup {"drop_index"} : \E i \in 9..13 : rank[i] = k
           /\ \A i \in 1..8 : rank[i] \notin Taking \cup {"drop_index"}
<1>1. CASE rank = GoRank
    <2>1. /\ rank[1] = "create_schema" /\ rank[2] = "create_table" /\ rank[3] = "add_column"
          /\ rank[4] = "alter_column" /\ rank[5] = "add_primary_key"
          /\ rank[6] = "add_unique_key" /\ rank[7] = "add_foreign_key"
          /\ rank[8] = "create_index"
          /\ rank[9] = "drop_unique_key" /\ rank[10] = "drop_foreign_key"
          /\ rank[11] = "drop_index" /\ rank[12] = "drop_column" /\ rank[13] = "drop_table"
          /\ DOMAIN rank = 1..13
        BY <1>1 DEF GoRank
    <2> QED
        BY <2>1 DEF Adding, Taking
<1>2. CASE rank = RustRank
    <2>1. /\ rank[1] = "create_schema" /\ rank[2] = "create_table" /\ rank[3] = "add_column"
          /\ rank[4] = "alter_column" /\ rank[5] = "add_primary_key"
          /\ rank[6] = "add_unique_key" /\ rank[7] = "add_foreign_key"
          /\ rank[8] = "create_index"
          /\ rank[9] = "drop_column" /\ rank[10] = "drop_table"
          /\ rank[11] = "drop_unique_key" /\ rank[12] = "drop_foreign_key"
          /\ rank[13] = "drop_index"
          /\ DOMAIN rank = 1..13
        BY <1>2 DEF RustRank
    <2> QED
        BY <2>1 DEF Adding, Taking
<1> QED
    BY <1>1, <1>2

LEMMA Ranks ==
    /\ \A k \in Adding : Rank(k) \in 1..7
    /\ Rank("create_index") = 8
    /\ \A k \in Taking \cup {"drop_index"} : Rank(k) \in 9..13
<1> DEFINE rank == IF Go THEN GoRank ELSE RustRank
<1>1. /\ DOMAIN rank = 1..13
      /\ \A k \in Adding : \E i \in 1..7 : rank[i] = k
      /\ \A i \in 8..13 : rank[i] \notin Adding
      /\ \A i \in 1..13 : rank[i] = "create_index" <=> i = 8
      /\ \A k \in Taking \cup {"drop_index"} : \E i \in 9..13 : rank[i] = k
      /\ \A i \in 1..8 : rank[i] \notin Taking \cup {"drop_index"}
    BY RanksOfKinds
<1>2. \A k : Rank(k) = CHOOSE i \in DOMAIN rank : rank[i] = k
    BY DEF Rank
<1> HIDE DEF rank
<1>3. ASSUME NEW k, \E i \in 1..13 : rank[i] = k
      PROVE  Rank(k) \in 1..13 /\ rank[Rank(k)] = k
    BY <1>1, <1>2, <1>3
<1>4. ASSUME NEW k \in Adding
      PROVE  Rank(k) \in 1..7
    BY <1>1, <1>3
<1>5. Rank("create_index") = 8
    BY <1>1, <1>3
<1>6. ASSUME NEW k \in Taking \cup {"drop_index"}
      PROVE  Rank(k) \in 9..13
    BY <1>1, <1>3
<1> QED
    BY <1>4, <1>5, <1>6

LEMMA AddsBeforeTakes ==
    ASSUME NEW r, NEW a, a.kind \in Adding, NEW d, d.kind \in Taking
    PROVE  SentBefore(r, a, d)
<1>1. Rank(a.kind) < Rank(d.kind)
    BY Ranks
<1>2. ~OutOfTransaction(a) /\ ~OutOfTransaction(d)
    BY DEF OutOfTransaction, Adding, Taking
<1> QED
    BY <1>1, <1>2 DEF SentBefore, Before

-----------------------------------------------------------------------------
(* The transaction, statement by statement.                                *)

LEMMA LossGoesOn ==
    ASSUME NEW U, NEW f, NEW c, Sound(U, c), NEW w, Evolves(f, c, w),
           OnlyApprovedLoss(f, c, w), IndexesOnlyGo(c, w),
           NEW d, Evolves(f, w, d), Gives(f, c, w, d), IndexesOnlyGo(w, d)
    PROVE  Evolves(f, c, d) /\ OnlyApprovedLoss(f, c, d) /\ IndexesOnlyGo(c, d)
<1>1. Evolves(f, c, d)
    BY EvolvesOn
<1>2. OnlyApprovedLoss(f, c, d)
    BY LossAddsUp
<1>3. IndexesOnlyGo(c, d)
    BY DEF IndexesOnlyGo
<1> QED
    BY <1>1, <1>2, <1>3

\* Run r sends m, and the server accepts it.
Executes(r, m) ==
    /\ pc[r] = "transaction"
    /\ m \in NextOf(files[r], plan[r], InTransaction(todo[r]))
    /\ Accepts(working, m, files[r], have[r])
    /\ working' = Effect(working, m, files[r], have[r])
    /\ todo' = [todo EXCEPT ![r] = @ \ {m}]
    /\ UNCHANGED <<catalog, owner, files, pc, left, have, plan, faults>>

LEMMA Executed ==
    ASSUME NEW U, LossInv(U), IInv, NEW r \in Runners, NEW m, Executes(r, m)
    PROVE  /\ m \in todo[r] /\ m \in plan[r] /\ m.kind \in Adding \cup Taking
           /\ Sent(r)' = Sent(r) \cup {m}
           /\ IsCatalog(working) /\ IsFiles(files[r]) /\ Justified(files[r], have[r], m)
           /\ Sound(U, catalog) /\ InTransactionInv(U, r)
<1>1. m \in todo[r] /\ ~OutOfTransaction(m)
    BY DEF Executes, NextOf, InTransaction
<1>2. m \in Migrations /\ Justified(files[r], have[r], m) /\ IsFiles(files[r])
    BY <1>1, TodoIsJustified
<1>3. m.kind \in Kinds
    BY <1>2 DEF Migrations
<1>4. m.kind \in Adding \cup Taking
    BY <1>1, <1>3 DEF Kinds, OutOfTransaction, Adding, Taking
<1>5. m \in plan[r]
    BY <1>1 DEF IInv, RunInv
<1>6. todo'[r] = todo[r] \ {m} /\ plan'[r] = plan[r]
    BY DEF IInv, Shape, Executes
<1>7. Sent(r)' = Sent(r) \cup {m}
    BY <1>1, <1>5, <1>6 DEF Sent
<1>8. IsCatalog(working)
    BY DEF IInv, Environment
<1>9. Sound(U, catalog) /\ InTransactionInv(U, r)
    BY DEF LossInv, RunLoss, Executes
<1> QED
    BY <1>1, <1>2, <1>4, <1>5, <1>7, <1>8, <1>9

\* What is added has no namesake, and nothing that was found has gone yet.
LEMMA AddsLoss ==
    ASSUME NEW U, LossInv(U), IInv, NEW r \in Runners, NEW m, Executes(r, m), m.kind \in Adding
    PROVE  InTransactionInv(U, r)'
<1> DEFINE f == files[r]
           c == catalog
           w == working
           d == working'
<1>1. /\ m \in todo[r] /\ Sent(r)' = Sent(r) \cup {m} /\ IsCatalog(w) /\ IsFiles(f)
      /\ Justified(f, have[r], m) /\ Accepts(w, m, f, have[r])
      /\ d = Effect(w, m, f, have[r]) /\ catalog' = c /\ files'[r] = f /\ have'[r] = have[r]
    BY Executed DEF Executes
<1>2. /\ Sound(U, c) /\ Sound(U, w) /\ Evolves(f, c, w) /\ OnlyApprovedLoss(f, c, w)
      /\ IndexesOnlyGo(c, w) /\ KeptSoFar(r) /\ AddedAnew(r)
    BY Executed DEF InTransactionInv
<1>3. Grows(f, w, d)
    BY <1>1, AddingGrows
<1>4. KindsApart(U, f.tables)
    BY DEF LossInv, RunLoss
<1>5. Sound(U, d) /\ Evolves(f, w, d) /\ Gives(f, c, w, d)
    BY <1>2, <1>3, <1>4, GrowsSound, GrowsEvolves, GrowsGives
<1>6. IndexesOnlyGo(w, d)
    BY <1>3 DEF Grows, IndexesOnlyGo
<1>7. Evolves(f, c, d) /\ OnlyApprovedLoss(f, c, d) /\ IndexesOnlyGo(c, d)
    BY <1>2, <1>5, <1>6, LossGoesOn
<1>8. \A n \in Sent(r) : n.kind \notin Taking
    <2>1. ASSUME NEW n \in Sent(r)
          PROVE  ~SentBefore(r, m, n)
        BY <1>1, <2>1 DEF IInv, RunInv, Sent
    <2> QED
        BY <2>1, AddsBeforeTakes
<1>9. ASSUME NEW t \in DOMAIN c.tables
      PROVE  /\ t \in DOMAIN w.tables
             /\ c.tables[t].uniques \subseteq w.tables[t].uniques
             /\ c.tables[t].foreignKeys \subseteq w.tables[t].foreignKeys
    BY <1>2, <1>8 DEF KeptSoFar
<1>10. \A t \in DOMAIN c.tables :
          /\ t \in DOMAIN d.tables
          /\ c.tables[t].uniques \subseteq d.tables[t].uniques
          /\ c.tables[t].foreignKeys \subseteq d.tables[t].foreignKeys
    BY <1>3, <1>9 DEF Grows, TableGrows
<1>11. KeptSoFar(r)'
    BY <1>1, <1>10 DEF KeptSoFar
<1>12. ASSUME m.kind \in {"add_unique_key", "add_foreign_key"}, m.on \in DOMAIN c.tables
       PROVE  m.name \notin ConstraintsOf(c.tables[m.on])
    <2>1. AlterTableAccepts(w, m, f, have[r])
        BY <1>1, <1>12 DEF Accepts
    <2>2. m.name \notin ConstraintsOf(w.tables[m.on])
        BY <1>12, <2>1 DEF AlterTableAccepts
    <2>3. ConstraintsOf(c.tables[m.on]) \subseteq ConstraintsOf(w.tables[m.on])
        BY <1>9, <1>12 DEF ConstraintsOf
    <2> QED
        BY <2>2, <2>3
<1>13. AddedAnew(r)'
    BY <1>1, <1>2, <1>12 DEF AddedAnew
<1> QED
    BY <1>1, <1>5, <1>7, <1>11, <1>13 DEF InTransactionInv

\* All that the plan adds has been sent by now, so that a name it dropped and
\* added again would have been refused.
LEMMA TakesLoss ==
    ASSUME NEW U, LossInv(U), IInv, NEW r \in Runners, NEW m, Executes(r, m), m.kind \in Taking
    PROVE  InTransactionInv(U, r)'
<1> DEFINE f == files[r]
           c == catalog
           w == working
           d == working'
<1>1. /\ m \in todo[r] /\ Sent(r)' = Sent(r) \cup {m} /\ IsCatalog(w) /\ IsFiles(f)
      /\ Justified(f, have[r], m) /\ Accepts(w, m, f, have[r])
      /\ d = Effect(w, m, f, have[r]) /\ catalog' = c /\ files'[r] = f /\ have'[r] = have[r]
    BY Executed DEF Executes
<1>2. /\ Sound(U, c) /\ Sound(U, w) /\ Evolves(f, c, w) /\ OnlyApprovedLoss(f, c, w)
      /\ IndexesOnlyGo(c, w) /\ AddedAnew(r)
    BY Executed DEF InTransactionInv
<1>3. ReadsApart(U, have[r]) /\ Reflects(f, have[r], c) /\ HasPlanned(r)
    BY DEF LossInv, RunLoss, Executes, HoldsPlan
<1>4. PICK orders : plan[r] = Plan(f, have[r], orders)
    BY <1>3 DEF HasPlanned
<1>5. /\ AddOf(m).kind \in {"add_unique_key", "add_foreign_key"}
      /\ AddOf(m).on = m.on /\ AddOf(m).name = m.name
    BY DEF AddOf, Migration
<1>6. AddOf(m).kind \in Adding /\ AddOf(m).kind \notin Taking
    BY <1>5 DEF Adding, Taking
<1>7. AddOf(m) \notin todo[r]
    <2>1. SentBefore(r, AddOf(m), m) /\ AddOf(m) # m
        BY <1>6, AddsBeforeTakes
    <2> QED
        BY <2>1, SentInTransaction DEF Executes
<1>8. m.on \in DOMAIN c.tables /\ AddOf(m) \in Plan(f, have[r], orders) =>
          m.name \notin ConstraintsOf(c.tables[m.on])
    BY <1>2, <1>4, <1>5, <1>7 DEF AddedAnew, Sent
<1>9. Shrinks(f, w, d) /\ Gives(f, c, w, d)
    BY <1>1, <1>2, <1>3, <1>8, TakingGives
<1>10. Sound(U, d) /\ Evolves(f, w, d)
    BY <1>2, <1>9, ShrinksSound, ShrinksEvolves
<1>11. IndexesOnlyGo(w, d)
    BY <1>9 DEF Shrinks
<1>12. Evolves(f, c, d) /\ OnlyApprovedLoss(f, c, d) /\ IndexesOnlyGo(c, d)
    BY <1>2, <1>9, <1>10, <1>11, LossGoesOn
<1>13. KeptSoFar(r)'
    BY <1>1 DEF KeptSoFar
<1>14. m.kind \notin {"add_unique_key", "add_foreign_key"}
    BY DEF Taking
<1>15. AddedAnew(r)'
    BY <1>1, <1>2, <1>14 DEF AddedAnew
<1> QED
    BY <1>1, <1>10, <1>12, <1>13, <1>15 DEF InTransactionInv

LEMMA ExecuteInTransactionLoss ==
    ASSUME NEW U, LossInv(U), IInv, NEW r \in Runners, ExecuteInTransaction(r)
    PROVE  LossInv(U)'
<1>1. PICK m \in NextOf(files[r], plan[r], InTransaction(todo[r])) :
          \/ /\ Accepts(working, m, files[r], have[r])
             /\ working' = Effect(working, m, files[r], have[r])
             /\ todo' = [todo EXCEPT ![r] = @ \ {m}]
             /\ UNCHANGED <<owner, pc, left, have, plan>>
          \/ Rollback /\ Stop(r, "failed")
    BY DEF ExecuteInTransaction
<1>2. UNCHANGED <<catalog, files, faults>> /\ pc[r] = "transaction"
    BY DEF ExecuteInTransaction
<1>3. owner = r /\ Sound(U, catalog')
    BY <1>2 DEF LossInv, RunLoss
<1>4. Evolves(files[r], catalog, catalog')
    BY <1>2, EvolvesReflexive
<1>5. CASE /\ Accepts(working, m, files[r], have[r])
           /\ working' = Effect(working, m, files[r], have[r])
           /\ todo' = [todo EXCEPT ![r] = @ \ {m}]
           /\ UNCHANGED <<owner, pc, left, have, plan>>
    <2>1. Executes(r, m)
        BY <1>2, <1>5 DEF Executes
    <2>2. m.kind \in Adding \cup Taking
        BY <2>1, Executed
    <2>3. InTransactionInv(U, r)'
        BY <2>1, <2>2, AddsLoss, TakesLoss
    <2>4. pc' = [pc EXCEPT ![r] = "transaction"] /\ todo' = [todo EXCEPT ![r] = todo[r] \ {m}]
        BY <1>2, <1>5 DEF IInv, Shape
    <2>5. /\ "transaction" \in HoldsPlan \ {"planned"} /\ pc[r] \in HoldsPlan
          /\ "transaction" \in {"transaction", "building"} <=> owner' = r
          /\ owner \in {NoRunner, r} /\ owner' \in {NoRunner, r}
        BY <1>2, <1>3, <1>5 DEF HoldsPlan
    <2>6. "transaction" # "building"
        OBVIOUS
    <2> QED
        BY <1>2, <1>3, <1>4, <1>5, <2>3, <2>4, <2>5, <2>6, GoesOnLoss DEF IInv
<1>6. CASE Rollback /\ Stop(r, "failed")
    <2>1. owner' = NoRunner /\ owner' # r
        BY <1>6, RunnerAssumption DEF Rollback
    <2> QED
        BY <1>2, <1>3, <1>4, <1>6, <2>1, StopsLoss DEF IInv, AtRest
<1> QED
    BY <1>1, <1>5, <1>6

-----------------------------------------------------------------------------
(* The end of the transaction, and the index statements after it.          *)

LEMMA CommitLoss ==
    ASSUME NEW U, LossInv(U), IInv, NEW r \in Runners, Commit(r)
    PROVE  LossInv(U)'
<1>1. /\ pc[r] = "transaction" /\ catalog' = working /\ owner' = NoRunner
      /\ pc' = [pc EXCEPT ![r] = "committed"] /\ UNCHANGED <<files, left, have, plan, todo>>
    BY DEF Commit, Rollback
<1>2. owner = r /\ InTransactionInv(U, r)
    BY <1>1 DEF LossInv, RunLoss
<1>3. Sound(U, catalog') /\ Evolves(files[r], catalog, catalog')
    BY <1>1, <1>2 DEF InTransactionInv
<1>4. todo' = [todo EXCEPT ![r] = todo[r]]
    BY <1>1 DEF IInv, Shape
<1>5. /\ "committed" \in HoldsPlan \ {"planned"} /\ pc[r] \in HoldsPlan
      /\ "committed" \in {"transaction", "building"} <=> owner' = r
      /\ owner \in {NoRunner, r} /\ owner' \in {NoRunner, r}
    BY <1>1, <1>2, RunnerAssumption DEF HoldsPlan
<1>6. "committed" # "transaction" /\ "committed" # "building"
    OBVIOUS
<1> QED
    BY <1>1, <1>3, <1>4, <1>5, <1>6, GoesOnLoss DEF IInv

LEMMA TransactionEndsLoss ==
    ASSUME NEW U, LossInv(U), IInv, NEW r \in Runners,
           FaultInTransaction(r) \/ FaultAtCommit(r)
    PROVE  LossInv(U)'
<1>1. /\ pc[r] = "transaction" /\ owner' = NoRunner /\ Stop(r, "failed") /\ files' = files
      /\ catalog' = catalog \/ catalog' = working
    BY DEF FaultInTransaction, FaultAtCommit, Fault, Rollback
<1>2. owner = r /\ InTransactionInv(U, r) /\ Sound(U, catalog)
    BY <1>1 DEF LossInv, RunLoss
<1>3. Sound(U, catalog') /\ Evolves(files[r], catalog, catalog')
    BY <1>1, <1>2, EvolvesReflexive DEF InTransactionInv
<1>4. owner \in {NoRunner, r} /\ owner' \in {NoRunner, r} /\ owner' # r /\ "failed" \in AtRest
    BY <1>1, <1>2, RunnerAssumption DEF AtRest
<1> QED
    BY <1>1, <1>3, <1>4, StopsLoss DEF IInv

\* What a statement about an index is, once the transaction is over.
LEMMA IndexStatement ==
    ASSUME IInv, NEW r \in Runners, NEW m \in IndexStatements(r)
    PROVE  /\ m \in todo[r] /\ m \in Migrations /\ m.kind \in {"create_index", "drop_index"}
           /\ Justified(files[r], have[r], m) /\ IsFiles(files[r])
           /\ m.kind = "create_index" =>
                 /\ m.name \in DOMAIN files[r].indexes
                 /\ m.on = files[r].indexes[m.name].table
                 /\ m.name \in Indexes /\ m.on \in Tables
<1>1. m \in todo[r] /\ m.kind \in {"create_index", "drop_index"}
    BY DEF IndexStatements, NextOf, AfterTransaction, OutOfTransaction
<1>2. m \in Migrations /\ Justified(files[r], have[r], m) /\ IsFiles(files[r])
    BY <1>1, TodoIsJustified
<1>3. IsMapTo(files[r].indexes, Indexes, Index)
    BY <1>2 DEF IsFiles
<1>4. CASE m.kind = "create_index"
    <2>1. m.name \in DOMAIN files[r].indexes /\ m.on = files[r].indexes[m.name].table
        BY <1>2, <1>4 DEF Justified
    <2>2. m.name \in Indexes /\ files[r].indexes[m.name] \in Index
        BY <1>3, <2>1 DEF IsMapTo
    <2> QED
        BY <1>1, <1>2, <2>1, <2>2 DEF Index
<1> QED
    BY <1>1, <1>2, <1>4

\* The order leaves no choice while there is an index to create.
LEMMA OneIndexIsNext ==
    ASSUME IInv, NEW r \in Runners, NEW m \in IndexStatements(r), m.kind = "create_index",
           NEW n \in IndexStatements(r)
    PROVE  n = m
<1> SUFFICES ASSUME n # m
             PROVE  FALSE
    OBVIOUS
<1>1. ~Before(files[r], plan[r], m, n) /\ ~Before(files[r], plan[r], n, m)
    BY DEF IndexStatements, NextOf
<1>2. n.kind = "create_index"
    BY <1>1, IndexStatement, Ranks DEF Before
<1>3. /\ m.on \in Tables /\ n.on \in Tables /\ m.name \in Indexes /\ n.name \in Indexes
      /\ m \in Migrations /\ n \in Migrations
    BY <1>2, IndexStatement
<1>4. Position[m.on] = Position[n.on]
    <2>1. ~(Position[m.on] < Position[n.on]) /\ ~(Position[n.on] < Position[m.on])
        BY <1>1, <1>2 DEF Before
    <2>2. Position[m.on] \in Nat /\ Position[n.on] \in Nat
        BY <1>3, DiffAssumption
    <2> QED
        BY <2>1, <2>2
<1>5. m.on = n.on
    BY <1>3, <1>4, DiffAssumption
<1>6. Position[m.name] = Position[n.name]
    <2>1. "create_index" \in NamedInTies
        BY DEF NamedInTies
    <2>2. ~(Position[m.name] < Position[n.name]) /\ ~(Position[n.name] < Position[m.name])
        BY <1>1, <1>2, <1>5, <2>1 DEF Before
    <2>3. Position[m.name] \in Nat /\ Position[n.name] \in Nat
        BY <1>3, DiffAssumption
    <2> QED
        BY <2>2, <2>3
<1>7. m.name = n.name
    BY <1>3, <1>6, DiffAssumption
<1> QED
    BY <1>2, <1>3, <1>5, <1>7 DEF Migrations

\* What an index statement does at once, and what one that builds begins with.
LEMMA ExecutesIndexSafely ==
    ASSUME NEW U, LossInv(U), IInv, NEW r \in Runners, pc[r] \in HoldsPlan,
           NEW m \in IndexStatements(r), Accepts(catalog, m, files[r], have[r]),
           \/ ~Builds(catalog, m) /\ catalog' = Effect(catalog, m, files[r], have[r])
           \/ Builds(catalog, m) /\ catalog' = CreateIndexEffect(catalog, m.name, files[r], FALSE)
    PROVE  ChangesIndexes(files[r], catalog, catalog')
<1>1. IsCatalog(catalog) /\ Sound(U, catalog) /\ Reflects(files[r], have[r], catalog)
    BY DEF IInv, Environment, LossInv, RunLoss
<1>2. CASE m.kind = "create_index"
    <2>1. m.name \in DOMAIN files[r].indexes
        BY <1>2, IndexStatement
    <2>2. CreateIndexAccepted(catalog, m.name, files[r])
        BY <1>2 DEF Accepts
    <2>3. Effect(catalog, m, files[r], have[r]) = CreateIndexEffect(catalog, m.name, files[r], TRUE)
        BY <1>2 DEF Effect
    <2> QED
        BY <1>1, <2>1, <2>2, <2>3, CreateIndexChanges
<1>3. CASE m.kind = "drop_index"
    <2>1. ~Builds(catalog, m) /\ Justified(files[r], have[r], m)
        BY <1>3, IndexStatement DEF Builds
    <2> QED
        BY <1>1, <1>3, <2>1, DropIndexChanges
<1> QED
    BY <1>2, <1>3, IndexStatement

LEMMA ExecuteIndexLoss ==
    ASSUME NEW U, LossInv(U), IInv, NEW r \in Runners, ExecuteIndex(r)
    PROVE  LossInv(U)'
<1>1. PICK m \in IndexStatements(r) :
          \/ /\ Accepts(catalog, m, files[r], have[r])
             /\ ~Builds(catalog, m)
             /\ catalog' = Effect(catalog, m, files[r], have[r])
             /\ todo' = [todo EXCEPT ![r] = @ \ {m}]
             /\ UNCHANGED <<pc, left, have, plan>>
          \/ Stop(r, "failed") /\ UNCHANGED catalog
    BY DEF ExecuteIndex
<1>2. /\ pc[r] = "committed" /\ owner = NoRunner /\ UNCHANGED <<owner, working, files>>
      /\ pc[r] \in HoldsPlan
    BY DEF ExecuteIndex, HoldsPlan
<1>3. owner # r /\ owner \in {NoRunner, r} /\ owner' \in {NoRunner, r}
    BY <1>2, RunnerAssumption
<1>4. CASE /\ Accepts(catalog, m, files[r], have[r])
           /\ ~Builds(catalog, m)
           /\ catalog' = Effect(catalog, m, files[r], have[r])
           /\ todo' = [todo EXCEPT ![r] = @ \ {m}]
           /\ UNCHANGED <<pc, left, have, plan>>
    <2>1. ChangesIndexes(files[r], catalog, catalog')
        BY <1>2, <1>4, ExecutesIndexSafely
    <2>2. Sound(U, catalog') /\ Evolves(files[r], catalog, catalog')
        BY <2>1, ChangesIndexesSafely DEF LossInv
    <2>3. pc' = [pc EXCEPT ![r] = "committed"] /\ todo' = [todo EXCEPT ![r] = todo[r] \ {m}]
        BY <1>2, <1>4 DEF IInv, Shape
    <2>4. /\ "committed" \in HoldsPlan \ {"planned"}
          /\ "committed" \in {"transaction", "building"} <=> owner' = r
        BY <1>2, <1>3 DEF HoldsPlan
    <2>5. "committed" # "transaction" /\ "committed" # "building"
        OBVIOUS
    <2> QED
        BY <1>2, <1>3, <1>4, <2>2, <2>3, <2>4, <2>5, GoesOnLoss DEF IInv
<1>5. CASE Stop(r, "failed") /\ UNCHANGED catalog
    BY <1>2, <1>5, GivesUpLoss DEF AtRest
<1> QED
    BY <1>1, <1>4, <1>5

\* A build begins with the index as the files define it, not valid yet.
LEMMA BuildBegins ==
    ASSUME NEW U, LossInv(U), IInv, NEW r \in Runners, StartBuild(r)
    PROVE  /\ ChangesIndexes(files[r], catalog, catalog')
           /\ \E m \in IndexStatements(r) :
                 /\ m.kind = "create_index" /\ m.name \in DOMAIN files[r].indexes
                 /\ DOMAIN catalog'.indexes = DOMAIN catalog.indexes \cup {m.name}
                 /\ \A j \in DOMAIN catalog.indexes : catalog'.indexes[j] = catalog.indexes[j]
                 /\ SameIndex(catalog'.indexes[m.name], files[r].indexes[m.name])
<1>1. PICK m \in IndexStatements(r) :
          /\ Builds(catalog, m)
          /\ Accepts(catalog, m, files[r], have[r])
          /\ catalog' = CreateIndexEffect(catalog, m.name, files[r], FALSE)
    BY DEF StartBuild
<1> DEFINE i == m.name
<1>2. pc[r] \in HoldsPlan
    BY DEF StartBuild, HoldsPlan
<1>3. ChangesIndexes(files[r], catalog, catalog')
    BY <1>1, <1>2, ExecutesIndexSafely
<1>4. m.kind = "create_index" /\ i \notin DOMAIN catalog.indexes \cup UniqueNames(catalog)
    BY <1>1 DEF Builds
<1>5. i \in DOMAIN files[r].indexes
    BY <1>4, IndexStatement
<1>6. IsCatalog(catalog)
    BY DEF IInv, Environment
<1>7. catalog' = CreateIndexEffect(catalog, i, files[r], FALSE)
    BY <1>1
<1> HIDE DEF i
<1>8. \A valid : LET e == CreateIndexEffect(catalog, i, files[r], valid)
                 IN  /\ DOMAIN e.indexes = DOMAIN catalog.indexes \cup {i}
                     /\ \A j \in DOMAIN catalog.indexes : e.indexes[j] = catalog.indexes[j]
                     /\ SameIndex(e.indexes[i], files[r].indexes[i])
    BY <1>4, <1>6, CreateIndexParts
<1>9. /\ DOMAIN catalog'.indexes = DOMAIN catalog.indexes \cup {i}
      /\ \A j \in DOMAIN catalog.indexes : catalog'.indexes[j] = catalog.indexes[j]
      /\ SameIndex(catalog'.indexes[i], files[r].indexes[i])
    BY <1>7, <1>8
<1> QED
    BY <1>3, <1>4, <1>5, <1>9 DEF i

LEMMA StartBuildLoss ==
    ASSUME NEW U, LossInv(U), IInv, NEW r \in Runners, StartBuild(r)
    PROVE  LossInv(U)'
<1>1. PICK m \in IndexStatements(r) :
          /\ m.kind = "create_index" /\ m.name \in DOMAIN files[r].indexes
          /\ DOMAIN catalog'.indexes = DOMAIN catalog.indexes \cup {m.name}
          /\ SameIndex(catalog'.indexes[m.name], files[r].indexes[m.name])
    BY BuildBegins
<1>2. /\ pc[r] = "committed" /\ owner = NoRunner /\ owner' = r
      /\ pc' = [pc EXCEPT ![r] = "building"]
      /\ UNCHANGED <<working, files, left, have, plan, todo>>
      /\ pc[r] \in HoldsPlan
    BY DEF StartBuild, HoldsPlan
<1>3. ChangesIndexes(files[r], catalog, catalog')
    BY BuildBegins
<1>4. Sound(U, catalog') /\ Evolves(files[r], catalog, catalog')
    BY <1>3, ChangesIndexesSafely DEF LossInv
<1>5. IndexStatements(r)' = IndexStatements(r)
    BY <1>2 DEF IndexStatements
<1>6. \A n \in IndexStatements(r) : n = m
    BY <1>1, OneIndexIsNext
<1>7. BuildsItsIndex(r)'
    BY <1>1, <1>2, <1>5, <1>6 DEF BuildsItsIndex
<1>8. todo' = [todo EXCEPT ![r] = todo[r]]
    BY <1>2 DEF IInv, Shape
<1>9. /\ "building" \in HoldsPlan \ {"planned"}
      /\ "building" \in {"transaction", "building"} <=> owner' = r
      /\ owner \in {NoRunner, r} /\ owner' \in {NoRunner, r}
    BY <1>2 DEF HoldsPlan
<1>10. "building" # "transaction"
    OBVIOUS
<1> QED
    BY <1>2, <1>4, <1>7, <1>8, <1>9, <1>10, GoesOnLoss DEF IInv

LEMMA FinishBuildLoss ==
    ASSUME NEW U, LossInv(U), IInv, NEW r \in Runners, FinishBuild(r)
    PROVE  LossInv(U)'
<1>1. PICK m \in IndexStatements(r) :
          /\ catalog' = [catalog EXCEPT !.indexes[m.name].valid = TRUE]
          /\ todo' = [todo EXCEPT ![r] = @ \ {m}]
    BY DEF FinishBuild
<1>2. /\ pc[r] = "building" /\ owner' = NoRunner /\ pc' = [pc EXCEPT ![r] = "committed"]
      /\ UNCHANGED <<working, files, left, have, plan>> /\ pc[r] \in HoldsPlan
    BY DEF FinishBuild, HoldsPlan
<1>3. owner = r /\ Sound(U, catalog) /\ IsCatalog(catalog)
    BY <1>2 DEF LossInv, RunLoss, IInv, Environment
<1>4. ChangesIndexes(files[r], catalog, catalog')
    BY <1>1, <1>3, MakeValidChanges
<1>5. Sound(U, catalog') /\ Evolves(files[r], catalog, catalog')
    BY <1>3, <1>4, ChangesIndexesSafely
<1>6. /\ "committed" \in HoldsPlan \ {"planned"}
      /\ "committed" \in {"transaction", "building"} <=> owner' = r
      /\ owner \in {NoRunner, r} /\ owner' \in {NoRunner, r}
    BY <1>2, <1>3, RunnerAssumption DEF HoldsPlan
<1>7. "committed" # "transaction" /\ "committed" # "building"
    OBVIOUS
<1>8. todo' = [todo EXCEPT ![r] = todo[r] \ {m}]
    BY <1>1
<1> QED
    BY <1>2, <1>5, <1>6, <1>7, <1>8, GoesOnLoss DEF IInv

LEMMA FaultInBuildLoss ==
    ASSUME NEW U, LossInv(U), IInv, NEW r \in Runners, FaultInBuild(r)
    PROVE  LossInv(U)'
<1>1. /\ pc[r] = "building" /\ owner' = NoRunner /\ Stop(r, "failed") /\ files' = files
      /\ \/ UNCHANGED catalog
         \/ \E m \in IndexStatements(r) :
               catalog' = [catalog EXCEPT !.indexes[m.name].valid = TRUE]
    BY DEF FaultInBuild, Fault
<1>2. owner = r /\ Sound(U, catalog) /\ IsCatalog(catalog)
    BY <1>1 DEF LossInv, RunLoss, IInv, Environment
<1>3. Sound(U, catalog') /\ Evolves(files[r], catalog, catalog')
    <2>1. CASE UNCHANGED catalog
        BY <1>2, <2>1, EvolvesReflexive
    <2>2. CASE \E m \in IndexStatements(r) :
                  catalog' = [catalog EXCEPT !.indexes[m.name].valid = TRUE]
        BY <1>2, <2>2, MakeValidChanges, ChangesIndexesSafely
    <2> QED
        BY <1>1, <2>1, <2>2
<1>4. owner \in {NoRunner, r} /\ owner' \in {NoRunner, r} /\ owner' # r /\ "failed" \in AtRest
    BY <1>1, <1>2, RunnerAssumption DEF AtRest
<1> QED
    BY <1>1, <1>3, <1>4, StopsLoss DEF IInv

-----------------------------------------------------------------------------
\* LossInv is an invariant of overlapping runs that agree on their files.
LEMMA LossInductive ==
    ASSUME AgreeOnFiles, NEW U, NamesAreKept(U)
    PROVE  Spec => [](IInv /\ LossInv(U))
<1>1. Init => LossInv(U)
    BY InitLoss
<1>2. IInv /\ LossInv(U) /\ [Next]_vars => LossInv(U)'
    <2>1. ASSUME IInv, LossInv(U), NEW r \in Runners, Connect(r) \/ Step(r)
          PROVE  LossInv(U)'
        BY <2>1, ConnectLoss, ListUserSchemasLoss, ListTablesLoss, ListColumnsLoss,
           ListUniqueKeysLoss, ListForeignKeysLoss, ListIndexesLoss, StopsEarlyLoss, MakePlanLoss,
           BeginLoss, NoTransactionLoss, ExecuteInTransactionLoss, CommitLoss,
           ExecuteIndexLoss, StartBuildLoss, FinishBuildLoss DEF Step
    <2>2. ASSUME IInv, LossInv(U), NEW r \in Runners,
                 \/ FaultOutsideTransaction(r) \/ FaultInTransaction(r)
                 \/ FaultAtCommit(r) \/ FaultInBuild(r)
          PROVE  LossInv(U)'
        BY <2>2, StopsEarlyLoss, TransactionEndsLoss, FaultInBuildLoss
    <2>3. ASSUME IInv, LossInv(U), UNCHANGED vars
          PROVE  LossInv(U)'
        <3>1. ASSUME NEW r \in Runners
              PROVE  RunLoss(U, r)'
            <4>1. InTransactionInv(U, r) => InTransactionInv(U, r)'
                BY <2>3 DEF vars, InTransactionInv, KeptSoFar, AddedAnew, Sent
            <4>2. BuildsItsIndex(r) => BuildsItsIndex(r)'
                BY <2>3 DEF vars, BuildsItsIndex, IndexStatements
            <4>3. HasPlanned(r) => HasPlanned(r)'
                BY <2>3 DEF vars, HasPlanned
            <4> QED
                BY <2>3, <4>1, <4>2, <4>3 DEF vars, LossInv, RunLoss
        <3> QED
            BY <2>3, <3>1 DEF vars, LossInv
    <2> QED
        BY <2>1, <2>2, <2>3 DEF Next
<1> QED
    BY <1>1, <1>2, Inductive, PTL DEF Spec

-----------------------------------------------------------------------------
(* The words of the promise are those of the contract.                     *)

LEMMA PromisedCovers ==
    ASSUME NEW g, NEW x, NEW y
    PROVE  /\ Promise!CoversColumn(g, x, y) <=> CoversColumn(g, x, y)
           /\ Promise!CoversUnique(g, x) <=> CoversUnique(g, x)
           /\ Promise!CoversForeignKey(g, x) <=> CoversForeignKey(g, x)
           /\ Promise!CoversIndex(g, x, y) <=> CoversIndex(g, x, y)
    BY DEF CoversUnique, CoversUniqueRust, CoversUniqueGo, CoversForeignKey,
           CoversForeignKeyRust, CoversForeignKeyGo, CoversIndex, CoversIndexRust,
           CoversIndexGo, IndexMatches, CoversColumn, Promise!CoversUnique,
           Promise!CoversUniqueRust, Promise!CoversUniqueGo, Promise!CoversForeignKey,
           Promise!CoversForeignKeyRust, Promise!CoversForeignKeyGo, Promise!CoversIndex,
           Promise!CoversIndexRust, Promise!CoversIndexGo, Promise!IndexMatches,
           Promise!CoversColumn

LEMMA PromisedWords ==
    ASSUME NEW f, NEW c, NEW d, NEW t, NEW x
    PROVE  /\ Promise!Elements(x) = Elements(x)
           /\ Promise!NoPrimaryKey = NoPrimaryKey
           /\ Promise!SameIndex(c, d) <=> SameIndex(c, d)
           /\ Promise!LostColumns(c, d, t) = LostColumns(c, d, t)
           /\ Promise!MayLoseTable(f, c, t) <=> MayLoseTable(f, c, t)
           /\ Promise!MayLoseColumn(f, c, t, x) <=> MayLoseColumn(f, c, t, x)
<1>1. Promise!MayLoseColumn(f, c, t, x) <=> MayLoseColumn(f, c, t, x)
    BY PromisedCovers
       DEF MayLoseColumn, RemovedAllows, Drops, Promise!MayLoseColumn,
           Promise!RemovedAllows, Promise!Drops
<1> QED
    BY <1>1
       DEF Elements, NoPrimaryKey, SameIndex, LostColumns, MayLoseTable, ColumnTypes,
           Promise!Elements, Promise!NoPrimaryKey, Promise!SameIndex, Promise!LostColumns,
           Promise!MayLoseTable, Promise!ColumnTypes

LEMMA PromisedLoss ==
    ASSUME NEW f, NEW c, NEW d, OnlyApprovedLoss(f, c, d)
    PROVE  Promise!OnlyApprovedLoss(f, c, d)
<1>1. ASSUME NEW t, KeepsTable(f, c, d, t)
      PROVE  Promise!KeepsTable(f, c, d, t)
    BY <1>1, PromisedWords, PromisedCovers
       DEF KeepsTable, MayLoseKey, Drops, Promise!KeepsTable, Promise!MayLoseKey, Promise!Drops
<1>2. ASSUME NEW i, KeepsIndex(f, c, d, i)
      PROVE  Promise!KeepsIndex(f, c, d, i)
    BY <1>2, PromisedWords, PromisedCovers
       DEF KeepsIndex, MayLoseKey, Drops, Promise!KeepsIndex, Promise!MayLoseKey, Promise!Drops
<1> QED
    BY <1>1, <1>2, PromisedWords DEF OnlyApprovedLoss, Promise!OnlyApprovedLoss

-----------------------------------------------------------------------------
(* The steps that change the database.                                     *)

Commits(r) == Commit(r) \/ FaultAtCommit(r)

\* A step that loses nothing unapproved, and either commits without bringing an
\* index or changes one index for the files.
Protects(r) ==
    /\ UNCHANGED files
    /\ Promise!OnlyApprovedLoss(files[r], catalog, catalog')
    /\ (Commits(r) /\ Promise!NoNewIndex) \/ Promise!ChangeIndex(files[r])

LEMMA CommitProtects ==
    ASSUME NEW U, LossInv(U), IInv, NEW r \in Runners, Commits(r)
    PROVE  Protects(r)
<1> pc[r] = "transaction" /\ catalog' = working /\ files' = files
    BY DEF Commits, Commit, FaultAtCommit, Fault
<1>1. InTransactionInv(U, r)
    BY DEF LossInv, RunLoss
<1>2. OnlyApprovedLoss(files[r], catalog, catalog') /\ IndexesOnlyGo(catalog, catalog')
    BY <1>1 DEF InTransactionInv
<1>3. Promise!OnlyApprovedLoss(files[r], catalog, catalog')
    BY <1>2, PromisedLoss
<1> QED
    BY <1>2, <1>3 DEF IndexesOnlyGo, Protects, Promise!NoNewIndex

\* A statement that changes one index, for one that the files ask for or let go.
LEMMA IndexStepProtects ==
    ASSUME NEW U, LossInv(U), IInv, NEW r \in Runners, files' = files,
           ChangesIndexes(files[r], catalog, catalog'),
           NEW i \in DOMAIN catalog.indexes \cup DOMAIN catalog'.indexes,
           \A j \in (DOMAIN catalog.indexes \cup DOMAIN catalog'.indexes) \ {i} :
              /\ j \in DOMAIN catalog.indexes /\ j \in DOMAIN catalog'.indexes
              /\ catalog'.indexes[j] = catalog.indexes[j],
           i \in DOMAIN catalog'.indexes =>
              i \in DOMAIN files[r].indexes /\ SameIndex(catalog'.indexes[i], files[r].indexes[i])
    PROVE  Protects(r)
<1>1. Sound(U, catalog)
    BY DEF LossInv
<1>2. OnlyApprovedLoss(files[r], catalog, catalog')
    BY <1>1, ChangesIndexesSafely
<1>3. Promise!OnlyApprovedLoss(files[r], catalog, catalog')
    BY <1>2, PromisedLoss
<1>4. catalog'.namespaces = catalog.namespaces /\ catalog'.tables = catalog.tables
    BY DEF ChangesIndexes
<1>5. i \in DOMAIN catalog'.indexes =>
          /\ i \in DOMAIN files[r].indexes
          /\ Promise!SameIndex(catalog'.indexes[i], files[r].indexes[i])
    BY PromisedWords
<1>6. Promise!ChangeIndex(files[r])
    BY <1>4, <1>5 DEF Promise!ChangeIndex
<1> QED
    BY <1>3, <1>6 DEF Protects

LEMMA ExecuteIndexProtects ==
    ASSUME NEW U, LossInv(U), IInv, NEW r \in Runners, ExecuteIndex(r), catalog' # catalog
    PROVE  Protects(r)
<1>1. PICK m \in IndexStatements(r) :
          /\ Accepts(catalog, m, files[r], have[r])
          /\ ~Builds(catalog, m)
          /\ catalog' = Effect(catalog, m, files[r], have[r])
    BY DEF ExecuteIndex
<1>2. pc[r] \in HoldsPlan /\ files' = files
    BY DEF ExecuteIndex, HoldsPlan
<1>3. ChangesIndexes(files[r], catalog, catalog')
    BY <1>1, <1>2, ExecutesIndexSafely
<1>4. m.kind = "drop_index"
    <2>1. SUFFICES ASSUME m.kind = "create_index" PROVE FALSE
        BY IndexStatement
    <2>2. m.name \in DOMAIN catalog.indexes \cup UniqueNames(catalog)
        BY <1>1, <2>1 DEF Builds
    <2>3. catalog' = CreateIndexEffect(catalog, m.name, files[r], TRUE)
        BY <1>1, <2>1 DEF Effect
    <2>4. catalog' = catalog
        BY <2>2, <2>3 DEF CreateIndexEffect
    <2> QED
        BY <2>4
<1>5. IsCatalog(catalog)
    BY DEF IInv, Environment
<1>6. catalog'.indexes = Without(catalog.indexes, m.name)
    BY <1>1, <1>4, <1>5 DEF Effect, IsCatalog
<1>7. /\ DOMAIN catalog'.indexes = DOMAIN catalog.indexes \ {m.name}
      /\ \A j \in DOMAIN catalog'.indexes : catalog'.indexes[j] = catalog.indexes[j]
    BY <1>6 DEF Without, Restriction
<1>8. m.name \in DOMAIN catalog.indexes
    <2>1. IsMapTo(catalog.indexes, Indexes, CatalogIndex)
        BY <1>5 DEF IsCatalog
    <2>2. CASE m.name \notin DOMAIN catalog.indexes
        <3>1. catalog'.indexes = catalog.indexes
            BY <1>6, <2>1, <2>2 DEF Without, Restriction, IsMapTo
        <3>2. catalog' = [catalog EXCEPT !.indexes = catalog.indexes]
            BY <1>1, <1>4, <1>6, <3>1 DEF Effect
        <3>3. catalog' = catalog
            BY <1>5, <3>2 DEF IsCatalog
        <3> QED
            BY <3>3
    <2> QED
        BY <2>2
<1> QED
    BY <1>2, <1>3, <1>7, <1>8, IndexStepProtects

LEMMA StartBuildProtects ==
    ASSUME NEW U, LossInv(U), IInv, NEW r \in Runners, StartBuild(r)
    PROVE  Protects(r)
<1>1. PICK m \in IndexStatements(r) :
          /\ m.name \in DOMAIN files[r].indexes
          /\ DOMAIN catalog'.indexes = DOMAIN catalog.indexes \cup {m.name}
          /\ \A j \in DOMAIN catalog.indexes : catalog'.indexes[j] = catalog.indexes[j]
          /\ SameIndex(catalog'.indexes[m.name], files[r].indexes[m.name])
    BY BuildBegins
<1>2. files' = files /\ ChangesIndexes(files[r], catalog, catalog')
    BY BuildBegins DEF StartBuild
<1> QED
    BY <1>1, <1>2, IndexStepProtects

MakesValid(m) == catalog' = [catalog EXCEPT !.indexes[m.name].valid = TRUE]

LEMMA MakeValidProtects ==
    ASSUME NEW U, LossInv(U), IInv, NEW r \in Runners, pc[r] = "building", files' = files,
           NEW m \in IndexStatements(r), MakesValid(m)
    PROVE  Protects(r)
<1>1. BuildsItsIndex(r) /\ Sound(U, catalog) /\ IsCatalog(catalog)
    BY DEF LossInv, RunLoss, IInv, Environment
<1>2. ChangesIndexes(files[r], catalog, catalog')
    BY <1>1, MakeValidChanges DEF MakesValid
<1>3. /\ m.name \in DOMAIN files[r].indexes /\ m.name \in DOMAIN catalog.indexes
      /\ SameIndex(catalog.indexes[m.name], files[r].indexes[m.name])
    BY <1>1 DEF BuildsItsIndex
<1>4. /\ DOMAIN catalog'.indexes = DOMAIN catalog.indexes
      /\ \A j \in DOMAIN catalog.indexes : j # m.name => catalog'.indexes[j] = catalog.indexes[j]
      /\ SameIndex(catalog'.indexes[m.name], catalog.indexes[m.name])
    BY <1>1, <1>3, MakeValidParts DEF MakesValid
<1>5. SameIndex(catalog'.indexes[m.name], files[r].indexes[m.name])
    BY <1>3, <1>4 DEF SameIndex
<1> QED
    <2>1. \A j \in (DOMAIN catalog.indexes \cup DOMAIN catalog'.indexes) \ {m.name} :
              /\ j \in DOMAIN catalog.indexes /\ j \in DOMAIN catalog'.indexes
              /\ catalog'.indexes[j] = catalog.indexes[j]
        BY <1>4
    <2>2. m.name \in DOMAIN catalog.indexes \cup DOMAIN catalog'.indexes
        BY <1>3
    <2> QED
        BY <1>2, <1>3, <1>5, <2>1, <2>2, IndexStepProtects

\* Every step, of any run: the rest of them leave the catalog alone.
LEMMA StepProtects ==
    ASSUME NEW U, LossInv(U), IInv, Next
    PROVE  UNCHANGED <<catalog, files>> \/ \E r \in Runners : Protects(r)
<1>1. PICK r \in Runners :
          \/ Connect(r) \/ Step(r)
          \/ FaultOutsideTransaction(r) \/ FaultInTransaction(r)
          \/ FaultAtCommit(r) \/ FaultInBuild(r)
    BY DEF Next
<1>2. CASE Commit(r) \/ FaultAtCommit(r)
    BY <1>2, CommitProtects DEF Commits
<1>3. CASE ExecuteIndex(r)
    BY <1>3, ExecuteIndexProtects DEF ExecuteIndex
<1>4. CASE StartBuild(r)
    BY <1>4, StartBuildProtects
<1>5. CASE FinishBuild(r)
    BY <1>5, MakeValidProtects DEF MakesValid, FinishBuild
<1>6. CASE FaultInBuild(r)
    BY <1>6, MakeValidProtects DEF MakesValid, FaultInBuild, Fault
<1>7. CASE \/ Connect(r) \/ ListUserSchemas(r) \/ ListTables(r) \/ ListColumns(r)
           \/ ListUniqueKeys(r) \/ ListForeignKeys(r) \/ ListIndexes(r)
           \/ Refuse(r) \/ MakePlan(r) \/ DryRun(r) \/ Begin(r) \/ NoTransaction(r)
           \/ ExecuteInTransaction(r) \/ Finish(r)
           \/ FaultOutsideTransaction(r) \/ FaultInTransaction(r)
    BY <1>7 DEF Connect, ListUserSchemas, ListTables, ListColumns, ListUniqueKeys,
                ListForeignKeys, ListIndexes, Refuse, MakePlan, DryRun, Begin, NoTransaction,
                ExecuteInTransaction, Finish, FaultOutsideTransaction, FaultInTransaction, Fault
<1> QED
    BY <1>1, <1>2, <1>3, <1>4, <1>5, <1>6, <1>7 DEF Step

-----------------------------------------------------------------------------
\* Runs of one version of the files may overlap, crash, fail and be repeated
\* at any moment: no step takes anything from the database that the files do
\* not give away, what changes outside a transaction is one index, and every
\* index that comes is as the files define it.
THEOREM NothingUnapprovedIsLost ==
    ASSUME AgreeOnFiles, NEW U, NamesAreKept(U)
    PROVE  Spec => Promise!SafeSpec
<1>1. IInv /\ LossInv(U) /\ [Next]_vars => [Promise!NothingLost]_<<catalog, files>>
    <2>1. ASSUME IInv, LossInv(U), Next
          PROVE  UNCHANGED <<catalog, files>> \/ Promise!NothingLost
        <3>1. ASSUME NEW r \in Runners, Protects(r)
              PROVE  Promise!NothingLost
            <4>1. r \in DOMAIN files
                BY <2>1 DEF IInv, Environment
            <4> QED
                BY <3>1, <4>1 DEF Protects, Promise!NothingLost
        <3> QED
            BY <2>1, <3>1, StepProtects
    <2> QED
        BY <2>1 DEF vars
<1> QED
    BY <1>1, LossInductive, PTL DEF Spec, Promise!SafeSpec

\* This is half of the promise the runs check: Migrator's Spec says besides that
\* a transaction brings the tables to what the files ask for. PromiseIsKept is
\* about that half, for which the files have to be consistent.
THEOREM PromiseProtects == RunsKeepPromise => Promise!SafeSpec
<1>1. Promise!Next => Promise!NothingLost
    BY DEF Promise!Next, Promise!NothingLost, Promise!Migrate
<1> QED
    BY <1>1, PTL DEF RunsKeepPromise, Promise!Spec, Promise!SafeSpec

-----------------------------------------------------------------------------
(* What the planner refuses.                                               *)

\* Table "new", to which "old" was changed, has nothing more than "old" had
\* that would refuse the definition "want" of the files.
TableStaysOpen(want, old, new) ==
    /\ DOMAIN want.columns \cap DOMAIN old.columns \subseteq DOMAIN new.columns
    /\ \A x \in DOMAIN want.columns \cap DOMAIN new.columns :
          Narrows(want, new, x) => x \in DOMAIN old.columns /\ Narrows(want, old, x)
    /\ new.primaryKey \in {NoPrimaryKey, want.primaryKey, old.primaryKey}

\* A table that has come is compared with the one the files define.
StaysOpen(f, c, d) ==
    /\ d.namespaces \subseteq c.namespaces \cup CollectDesiredNamespaces(f)
    /\ \A t \in DOMAIN f.tables \cap DOMAIN d.tables :
          IF t \in DOMAIN c.tables
          THEN TableStaysOpen(f.tables[t], c.tables[t], d.tables[t])
          ELSE TableStaysOpen(f.tables[t], f.tables[t], d.tables[t])

\* The foreign keys the files do not want are ones that a run can see.
SurplusRests(f, c) ==
    \A t \in DOMAIN f.tables \cap DOMAIN c.tables :
        \A fk \in c.tables[t].foreignKeys \ f.tables[t].foreignKeys :
            /\ fk.references \in DOMAIN c.tables
            /\ Elements(fk.referenced) # {}
            /\ RestsOnConstraint(c, fk)

LEMMA TableStaysOpenReflexive ==
    ASSUME NEW want, NEW a
    PROVE  TableStaysOpen(want, a, a)
    BY DEF TableStaysOpen

LEMMA StaysOpenReflexive ==
    ASSUME NEW f, NEW c
    PROVE  StaysOpen(f, c, c)
    BY TableStaysOpenReflexive DEF StaysOpen

LEMMA TableStaysOpenOn ==
    ASSUME NEW want, NEW a, NEW b, NEW c, TableStaysOpen(want, a, b), TableStaysOpen(want, b, c)
    PROVE  TableStaysOpen(want, a, c)
    BY DEF TableStaysOpen

LEMMA NewTableStaysOpen ==
    ASSUME NEW want, NEW a, NEW b, TableStaysOpen(want, want, b)
    PROVE  TableStaysOpen(want, a, b)
    BY DEF TableStaysOpen, Narrows

LEMMA StaysOpenOn ==
    ASSUME NEW f, NEW c, NEW w, NEW d, StaysOpen(f, c, w), StaysOpen(f, w, d)
    PROVE  StaysOpen(f, c, d)
<1>1. d.namespaces \subseteq c.namespaces \cup CollectDesiredNamespaces(f)
    BY DEF StaysOpen
<1>2. ASSUME NEW t \in DOMAIN f.tables \cap DOMAIN d.tables
      PROVE  IF t \in DOMAIN c.tables
             THEN TableStaysOpen(f.tables[t], c.tables[t], d.tables[t])
             ELSE TableStaysOpen(f.tables[t], f.tables[t], d.tables[t])
    <2>1. CASE t \in DOMAIN w.tables
        BY <2>1, TableStaysOpenOn DEF StaysOpen
    <2>2. CASE t \notin DOMAIN w.tables
        BY <2>2, NewTableStaysOpen DEF StaysOpen
    <2> QED
        BY <2>1, <2>2
<1> QED
    BY <1>1, <1>2 DEF StaysOpen

-----------------------------------------------------------------------------
(* The statements.                                                         *)

\* The columns of a table with a primary key, which are NOT NULL.
LEMMA NotNullColumns ==
    ASSUME NEW t, IsTable(t), NEW key, NEW x \in DOMAIN t.columns
    PROVE  /\ NotNull(t.columns, key)[x].type = t.columns[x].type
           /\ NotNull(t.columns, key)[x].default = t.columns[x].default
           /\ x \in Elements(key) => NotNull(t.columns, key)[x].nullable = FALSE
           /\ x \notin Elements(key) => NotNull(t.columns, key)[x] = t.columns[x]
<1>1. t.columns[x] \in Column
    BY TableRecord DEF IsMapTo
<1>2. /\ [t.columns[x] EXCEPT !.nullable = FALSE].type = t.columns[x].type
      /\ [t.columns[x] EXCEPT !.nullable = FALSE].default = t.columns[x].default
      /\ [t.columns[x] EXCEPT !.nullable = FALSE].nullable = FALSE
    BY <1>1 DEF Column
<1> QED
    BY <1>2 DEF NotNull

LEMMA WithPrimaryKeyColumns ==
    ASSUME NEW t, IsTable(t), NEW key
    PROVE  WithPrimaryKey(t, key).columns = NotNull(t.columns, key)
           /\ WithPrimaryKey(t, key).primaryKey = key
<1>1. WithPrimaryKey(t, key) =
         [columns |-> NotNull(t.columns, key), primaryKey |-> key, uniques |-> t.uniques,
          foreignKeys |-> t.foreignKeys, removed |-> t.removed]
    BY ExceptPrimaryKey DEF WithPrimaryKey
<1> QED
    BY <1>1

LEMMA StoredColumns ==
    ASSUME NEW t, IsTable(t)
    PROVE  Stored(t).columns = NotNull(t.columns, t.primaryKey)
           /\ Stored(t).primaryKey = t.primaryKey
<1> DEFINE w == WithPrimaryKey(t, t.primaryKey)
<1>1. IsTable(w)
    BY TableRecord, WithPrimaryKeyType
<1>2. Stored(t) = [w EXCEPT !.removed = << >>]
    BY DEF Stored
<1>3. w.columns = NotNull(t.columns, t.primaryKey) /\ w.primaryKey = t.primaryKey
    BY WithPrimaryKeyColumns
<1> HIDE DEF w
<1>4. Stored(t) = [columns |-> w.columns, primaryKey |-> w.primaryKey, uniques |-> w.uniques,
                   foreignKeys |-> w.foreignKeys, removed |-> << >>]
    BY <1>1, <1>2, ExceptRemoved
<1> QED
    BY <1>3, <1>4

\* A primary key narrows nothing: it only makes columns NOT NULL.
LEMMA KeyStaysOpen ==
    ASSUME NEW t, IsTable(t), NEW want, NEW key, NEW new,
           new.columns = NotNull(t.columns, key), new.primaryKey = want.primaryKey
    PROVE  TableStaysOpen(want, t, new)
<1>1. DOMAIN new.columns = DOMAIN t.columns
    BY DEF NotNull
<1>2. ASSUME NEW x \in DOMAIN t.columns
      PROVE  new.columns[x].nullable => t.columns[x].nullable
    <2>1. \/ NotNull(t.columns, key)[x].nullable = FALSE
          \/ NotNull(t.columns, key)[x] = t.columns[x]
        BY NotNullColumns
    <2>2. new.columns[x] = NotNull(t.columns, key)[x]
        OBVIOUS
    <2> QED
        BY <2>1, <2>2
<1> QED
    BY <1>1, <1>2 DEF TableStaysOpen, Narrows

\* What an ALTER TABLE leaves open it leaves open in the whole catalog.
LEMMA OnTableStaysOpen ==
    ASSUME NEW f, NEW c, IsCatalog(c), NEW t \in DOMAIN c.tables,
           NEW x, TableStaysOpen(f.tables[t], c.tables[t], x)
    PROVE  StaysOpen(f, c, OnTable(c, t, x))
<1> DEFINE d == OnTable(c, t, x)
<1>1. /\ d.namespaces = c.namespaces
      /\ DOMAIN d.tables = DOMAIN c.tables /\ d.tables[t] = x
      /\ \A s \in DOMAIN c.tables : s # t => d.tables[s] = c.tables[s]
    BY OnTableParts
<1> HIDE DEF d
<1>2. StaysOpen(f, c, d)
    BY <1>1, TableStaysOpenReflexive DEF StaysOpen
<1> QED
    BY <1>2 DEF d

LEMMA CreateTableStaysOpen ==
    ASSUME NEW c, IsCatalog(c), NEW f, IsFiles(f), NEW h, NEW m, m.kind = "create_table",
           Justified(f, h, m), Accepts(c, m, f, h)
    PROVE  StaysOpen(f, c, Effect(c, m, f, h))
<1> DEFINE t == m.on
           x == Stored(f.tables[t])
           ts == With(c.tables, t, x)
<1>1. t \in DOMAIN f.tables /\ t \notin DOMAIN c.tables
    BY DEF Justified, Accepts, CreateTableAccepted
<1>2. IsTable(f.tables[t])
    BY <1>1, TablesOf DEF IsFiles
<1>3. /\ x.columns = NotNull(f.tables[t].columns, f.tables[t].primaryKey)
      /\ x.primaryKey = f.tables[t].primaryKey
    BY <1>2, StoredColumns
<1>4. Effect(c, m, f, h) = [c EXCEPT !.tables = ts]
    BY DEF Effect
<1> HIDE DEF x
<1>5. TableStaysOpen(f.tables[t], f.tables[t], x)
    BY <1>2, <1>3, KeyStaysOpen
<1>6. DOMAIN ts = DOMAIN c.tables \cup {t} /\ ts[t] = x
      /\ \A s \in DOMAIN c.tables : ts[s] = c.tables[s]
    BY <1>1 DEF With
<1> HIDE DEF ts
<1>7. Effect(c, m, f, h) = [namespaces |-> c.namespaces, tables |-> ts, indexes |-> c.indexes]
    BY <1>4 DEF IsCatalog
<1> QED
    BY <1>1, <1>5, <1>6, <1>7, TableStaysOpenReflexive DEF StaysOpen

LEMMA AddColumnStaysOpen ==
    ASSUME NEW t, IsTable(t), NEW want, NEW x \in DOMAIN want.columns
    PROVE  TableStaysOpen(want, t, [t EXCEPT !.columns = With(@, x, want.columns[x])])
<1> DEFINE cs == With(t.columns, x, want.columns[x])
           new == [t EXCEPT !.columns = With(@, x, want.columns[x])]
<1>1. /\ DOMAIN cs = DOMAIN t.columns \cup {x} /\ cs[x] = want.columns[x]
      /\ \A z \in DOMAIN t.columns : z # x => cs[z] = t.columns[z]
    BY DEF With
<1> HIDE DEF cs
<1>2. new = [columns |-> cs, primaryKey |-> t.primaryKey,
             uniques |-> t.uniques, foreignKeys |-> t.foreignKeys, removed |-> t.removed]
    BY DEF IsTable, cs
<1>3. new.columns = cs /\ new.primaryKey = t.primaryKey
    BY <1>2
<1> HIDE DEF new
<1>4. TableStaysOpen(want, t, new)
    BY <1>1, <1>3 DEF TableStaysOpen, Narrows
<1> QED
    BY <1>4 DEF new

LEMMA AlterColumnStaysOpen ==
    ASSUME NEW t, IsTable(t), NEW want, NEW x \in DOMAIN want.columns, NEW had
    PROVE  TableStaysOpen(want, t, [t EXCEPT !.columns[x] =
               AlteredColumn(@, had, want.columns[x])])
<1> DEFINE y == AlteredColumn(t.columns[x], had, want.columns[x])
           cs == [t.columns EXCEPT ![x] = y]
           new == [t EXCEPT !.columns = cs]
<1>1. [t EXCEPT !.columns[x] = AlteredColumn(@, had, want.columns[x])] = new
    OBVIOUS
<1>2. y.nullable = want.columns[x].nullable \/ y.nullable = t.columns[x].nullable
    BY DEF AlteredColumn
<1> HIDE DEF y
<1>3. /\ DOMAIN cs = DOMAIN t.columns /\ (x \in DOMAIN t.columns => cs[x] = y)
      /\ \A z \in DOMAIN t.columns : z # x => cs[z] = t.columns[z]
    BY TableRecord DEF IsMapTo
<1> HIDE DEF cs
<1>4. new = [columns |-> cs, primaryKey |-> t.primaryKey,
             uniques |-> t.uniques, foreignKeys |-> t.foreignKeys, removed |-> t.removed]
    BY DEF IsTable
<1>5. new.columns = cs /\ new.primaryKey = t.primaryKey
    BY <1>4
<1> HIDE DEF new
<1>6. ASSUME NEW z \in DOMAIN want.columns \cap DOMAIN new.columns, Narrows(want, new, z)
      PROVE  z \in DOMAIN t.columns /\ Narrows(want, t, z)
    BY <1>2, <1>3, <1>5, <1>6 DEF Narrows
<1>7. TableStaysOpen(want, t, new)
    BY <1>3, <1>5, <1>6 DEF TableStaysOpen
<1> QED
    BY <1>1, <1>7

\* Keys that come or go leave columns and primary key alone.
LEMMA SameColumnsStayOpen ==
    ASSUME NEW want, NEW old, NEW new, new.columns = old.columns, new.primaryKey = old.primaryKey
    PROVE  TableStaysOpen(want, old, new)
    BY DEF TableStaysOpen, Narrows

\* The statements that add: what comes is as the files say, or is not narrower.
LEMMA AddingStaysOpen ==
    ASSUME NEW c, IsCatalog(c), NEW f, IsFiles(f), NEW h, NEW m, m.kind \in Adding,
           Justified(f, h, m), Accepts(c, m, f, h)
    PROVE  StaysOpen(f, c, Effect(c, m, f, h))
<1> DEFINE t == m.on
           table == c.tables[t]
           want == f.tables[t]
<1>1. CASE m.kind = "create_schema"
    <2>1. Effect(c, m, f, h) = [namespaces |-> c.namespaces \cup {m.on}, tables |-> c.tables,
                                indexes |-> c.indexes]
        BY <1>1 DEF Effect, IsCatalog
    <2>2. m.on \in CollectDesiredNamespaces(f)
        BY <1>1 DEF Justified
    <2> QED
        BY <2>1, <2>2, TableStaysOpenReflexive DEF StaysOpen
<1>2. CASE m.kind = "create_table"
    BY <1>2, CreateTableStaysOpen
<1>3. CASE m.kind \in {"add_column", "alter_column", "add_primary_key", "add_unique_key",
                       "add_foreign_key"}
    <2>1. t \in DOMAIN f.tables /\ JustifiedInTable(f, h, m)
        BY <1>3 DEF Justified
    <2>2. t \in DOMAIN c.tables /\ AlterTableAccepts(c, m, f, h)
        BY <1>3 DEF Accepts
    <2>3. Effect(c, m, f, h) = AlterTableEffect(c, m, f, h)
        BY <1>3 DEF Effect
    <2>4. IsTable(table)
        BY <2>2, CatalogRecord
    <2>5. \E x : TableStaysOpen(want, table, x) /\ AlterTableEffect(c, m, f, h) = OnTable(c, t, x)
        <3>1. CASE m.kind = "add_column"
            <4>1. m.name \in DOMAIN want.columns
                BY <2>1, <3>1 DEF JustifiedInTable
            <4> QED
                BY <2>4, <3>1, <4>1, AddColumnStaysOpen DEF AlterTableEffect
        <3>2. CASE m.kind = "alter_column"
            <4> DEFINE x == [table EXCEPT !.columns[m.name] =
                                AlteredColumn(@, h.tables[t].columns[m.name], want.columns[m.name])]
            <4>1. m.name \in DOMAIN want.columns
                BY <2>1, <3>2 DEF JustifiedInTable
            <4>2. AlterTableEffect(c, m, f, h) = OnTable(c, t, x)
                BY <3>2 DEF AlterTableEffect
            <4>3. TableStaysOpen(want, table, x)
                BY <2>4, <4>1, AlterColumnStaysOpen
            <4> HIDE DEF x
            <4> QED
                BY <4>2, <4>3
        <3>3. CASE m.kind = "add_primary_key"
            <4> DEFINE x == WithPrimaryKey(table, want.primaryKey)
            <4>1. x.columns = NotNull(table.columns, want.primaryKey) /\ x.primaryKey = want.primaryKey
                BY <2>4, WithPrimaryKeyColumns
            <4>2. AlterTableEffect(c, m, f, h) = OnTable(c, t, x)
                BY <3>3 DEF AlterTableEffect
            <4> HIDE DEF x
            <4> QED
                BY <2>4, <4>1, <4>2, KeyStaysOpen
        <3>4. CASE m.kind = "add_unique_key"
            <4> DEFINE u == WantedUnique(f, t, m.name)
                       x == [table EXCEPT !.uniques = @ \cup {u}]
            <4>1. AlterTableEffect(c, m, f, h) = OnTable(c, t, x)
                BY <3>4 DEF AlterTableEffect
            <4> HIDE DEF u
            <4>2. x.columns = table.columns /\ x.primaryKey = table.primaryKey
                BY <2>4 DEF IsTable
            <4> HIDE DEF x
            <4> QED
                BY <4>1, <4>2, SameColumnsStayOpen
        <3>5. CASE m.kind = "add_foreign_key"
            <4> DEFINE fk == WantedForeignKey(f, t, m.name)
                       x == [table EXCEPT !.foreignKeys = @ \cup {fk}]
            <4>1. AlterTableEffect(c, m, f, h) = OnTable(c, t, x)
                BY <3>5 DEF AlterTableEffect
            <4> HIDE DEF fk
            <4>2. x.columns = table.columns /\ x.primaryKey = table.primaryKey
                BY <2>4 DEF IsTable
            <4> HIDE DEF x
            <4> QED
                BY <4>1, <4>2, SameColumnsStayOpen
        <3> QED
            BY <1>3, <3>1, <3>2, <3>3, <3>4, <3>5
    <2> QED
        BY <2>2, <2>3, <2>5, OnTableStaysOpen
<1> QED
    BY <1>1, <1>2, <1>3 DEF Adding

\* The primary key that DROP COLUMN leaves.
LEMMA DropColumnKey ==
    ASSUME NEW c, IsCatalog(c), NEW t \in DOMAIN c.tables, NEW x
    PROVE  DropColumn(c, t, x).tables[t].primaryKey \in {NoPrimaryKey, c.tables[t].primaryKey}
<1> DEFINE table == c.tables[t]
           spared == {i \in DOMAIN c.indexes :
                         ~(c.indexes[i].table = t /\ x \in Elements(c.indexes[i].columns))}
           rest == [columns |-> Without(table.columns, x),
                    primaryKey |-> IF x \in Elements(table.primaryKey)
                                   THEN NoPrimaryKey ELSE table.primaryKey,
                    uniques |-> {u \in table.uniques : x \notin Elements(u.columns)},
                    foreignKeys |-> {fk \in table.foreignKeys : x \notin Elements(fk.columns)},
                    removed |-> table.removed]
           is == Restriction(c.indexes, spared)
           e == OnTable(c, t, rest)
<1>1. DropColumn(c, t, x) = [e EXCEPT !.indexes = is]
    BY DEF DropColumn
<1>2. rest.primaryKey \in {NoPrimaryKey, table.primaryKey}
    OBVIOUS
<1> HIDE DEF rest, is
<1>3. e = [namespaces |-> c.namespaces, tables |-> [c.tables EXCEPT ![t] = rest],
           indexes |-> c.indexes]
    BY CatalogRecord DEF OnTable
<1> DEFINE ts == [c.tables EXCEPT ![t] = rest]
<1>4. ts[t] = rest
    BY CatalogRecord
<1> HIDE DEF ts
<1>5. [[namespaces |-> c.namespaces, tables |-> ts, indexes |-> c.indexes]
          EXCEPT !.indexes = is] = [namespaces |-> c.namespaces, tables |-> ts, indexes |-> is]
    OBVIOUS
<1>6. DropColumn(c, t, x).tables = ts
    BY <1>1, <1>3, <1>5 DEF ts
<1> QED
    BY <1>2, <1>4, <1>6

\* What DROP CONSTRAINT leaves of a table.
LEMMA DropConstraintParts ==
    ASSUME NEW old, IsTable(old), NEW name
    PROVE  LET new == DropConstraint(old, name)
           IN  /\ new.columns = old.columns /\ new.primaryKey = old.primaryKey
               /\ new.uniques = {u \in old.uniques : u.name # name}
               /\ new.foreignKeys = {fk \in old.foreignKeys : fk.name # name}
<1> DEFINE new == DropConstraint(old, name)
           us == {u \in old.uniques : u.name # name}
           fks == {fk \in old.foreignKeys : fk.name # name}
<1>1. new = [old EXCEPT !.uniques = us, !.foreignKeys = fks]
    BY DEF DropConstraint
<1>2. new = [columns |-> old.columns, primaryKey |-> old.primaryKey, uniques |-> us,
             foreignKeys |-> fks, removed |-> old.removed]
    <2> HIDE DEF us, fks, new
    <2>1. [old EXCEPT !.uniques = us] =
             [columns |-> old.columns, primaryKey |-> old.primaryKey, uniques |-> us,
              foreignKeys |-> old.foreignKeys, removed |-> old.removed]
        BY DEF IsTable
    <2>2. [[columns |-> old.columns, primaryKey |-> old.primaryKey, uniques |-> us,
            foreignKeys |-> old.foreignKeys, removed |-> old.removed]
              EXCEPT !.foreignKeys = fks] =
             [columns |-> old.columns, primaryKey |-> old.primaryKey, uniques |-> us,
              foreignKeys |-> fks, removed |-> old.removed]
        OBVIOUS
    <2> QED
        BY <1>1, <2>1, <2>2
<1> QED
    BY <1>2

\* The statements that take: no column goes that the files want.
LEMMA TakingStaysOpen ==
    ASSUME NEW c, IsCatalog(c), NEW f, NEW h, NEW m, m.kind \in Taking,
           Justified(f, h, m), Accepts(c, m, f, h)
    PROVE  StaysOpen(f, c, Effect(c, m, f, h))
<1> DEFINE t == m.on
           table == c.tables[t]
<1>1. CASE m.kind = "drop_table"
    <2> DEFINE d == DropTable(c, t)
    <2>1. Effect(c, m, f, h) = d
        BY <1>1 DEF Effect
    <2>2. /\ d.namespaces = c.namespaces /\ DOMAIN d.tables = DOMAIN c.tables \ {t}
          /\ \A s \in DOMAIN d.tables : d.tables[s] = c.tables[s]
        BY DropTableParts
    <2> HIDE DEF d
    <2> QED
        BY <2>1, <2>2, TableStaysOpenReflexive DEF StaysOpen
<1>2. CASE m.kind \in {"drop_column", "drop_unique_key", "drop_foreign_key"}
    <2>1. t \in DOMAIN f.tables /\ t \in DOMAIN h.tables /\ JustifiedInTable(f, h, m)
        BY <1>2 DEF Justified
    <2>2. t \in DOMAIN c.tables /\ IsTable(table)
        BY <1>2, CatalogRecord DEF Accepts
    <2>3. Effect(c, m, f, h) = AlterTableEffect(c, m, f, h)
        BY <1>2 DEF Effect
    <2>4. CASE m.kind = "drop_column"
        <3> DEFINE d == DropColumn(c, t, m.name)
        <3>1. m.name \notin DOMAIN f.tables[t].columns
            BY <2>1, <2>4 DEF JustifiedInTable, MayLoseColumn
        <3>2. AlterTableEffect(c, m, f, h) =
                 IF m.name \in DOMAIN table.columns THEN d ELSE c
            BY <2>4 DEF AlterTableEffect
        <3>3. /\ d.namespaces = c.namespaces /\ DOMAIN d.tables = DOMAIN c.tables
              /\ \A s \in DOMAIN c.tables : s # t => d.tables[s] = c.tables[s]
              /\ DOMAIN d.tables[t].columns = DOMAIN table.columns \ {m.name}
              /\ \A y \in DOMAIN d.tables[t].columns : d.tables[t].columns[y] = table.columns[y]
            BY <2>2, DropColumnParts
        <3>4. d.tables[t].primaryKey \in {NoPrimaryKey, table.primaryKey}
            BY <2>2, DropColumnKey
        <3> HIDE DEF d
        <3>5. TableStaysOpen(f.tables[t], table, d.tables[t])
            BY <3>1, <3>3, <3>4 DEF TableStaysOpen, Narrows
        <3>6. StaysOpen(f, c, d)
            BY <3>3, <3>5, TableStaysOpenReflexive DEF StaysOpen
        <3> QED
            BY <2>3, <3>2, <3>6, StaysOpenReflexive
    <2>5. CASE m.kind \in {"drop_unique_key", "drop_foreign_key"}
        <3> DEFINE x == DropConstraint(table, m.name)
        <3>1. AlterTableEffect(c, m, f, h) = OnTable(c, t, x)
            BY <2>5 DEF AlterTableEffect
        <3>2. x.columns = table.columns /\ x.primaryKey = table.primaryKey
            BY <2>2, DropConstraintParts
        <3> HIDE DEF x
        <3>3. TableStaysOpen(f.tables[t], table, x)
            BY <3>2, SameColumnsStayOpen
        <3> QED
            BY <2>2, <2>3, <3>1, <3>3, OnTableStaysOpen
    <2> QED
        BY <1>2, <2>4, <2>5
<1> QED
    BY <1>1, <1>2 DEF Taking

-----------------------------------------------------------------------------
(* What a foreign key rests on stays, or the foreign key goes.             *)

\* No surplus foreign key comes, so that only what is there has to rest on.
LEMMA SurplusIsOld ==
    ASSUME NEW f, NEW c, NEW d, Evolves(f, c, d),
           NEW t \in DOMAIN f.tables \cap DOMAIN d.tables,
           NEW fk \in d.tables[t].foreignKeys \ f.tables[t].foreignKeys
    PROVE  t \in DOMAIN c.tables /\ fk \in c.tables[t].foreignKeys
    BY DEF Evolves, TableEvolves, Asked

LEMMA GrowsRests ==
    ASSUME NEW f, NEW c, NEW d, Grows(f, c, d), SurplusRests(f, c)
    PROVE  SurplusRests(f, d)
<1> SUFFICES ASSUME NEW t \in DOMAIN f.tables \cap DOMAIN d.tables,
                    NEW fk \in d.tables[t].foreignKeys \ f.tables[t].foreignKeys
             PROVE  /\ fk.references \in DOMAIN d.tables
                    /\ Elements(fk.referenced) # {}
                    /\ RestsOnConstraint(d, fk)
    BY DEF SurplusRests
<1> DEFINE s == fk.references
<1>1. t \in DOMAIN c.tables /\ fk \in c.tables[t].foreignKeys
    BY GrowsEvolves, SurplusIsOld
<1>2. s \in DOMAIN c.tables /\ Elements(fk.referenced) # {} /\ RestsOnConstraint(c, fk)
    BY <1>1 DEF SurplusRests
<1>3. s \in DOMAIN d.tables
    BY <1>2 DEF Grows
<1>4. /\ c.tables[s].uniques \subseteq d.tables[s].uniques
      /\ c.tables[s].primaryKey # d.tables[s].primaryKey => c.tables[s].primaryKey = NoPrimaryKey
    BY <1>2 DEF Grows, TableGrows
<1>5. Elements(NoPrimaryKey) = {}
    BY DEF Elements, NoPrimaryKey
<1>6. RestsOnConstraint(d, fk)
    BY <1>2, <1>4, <1>5 DEF RestsOnConstraint
<1> QED
    BY <1>2, <1>3, <1>6

LEMMA DropTableRests ==
    ASSUME NEW f, NEW c, IsCatalog(c), NEW t, ~TableIsReferenced(c, t), SurplusRests(f, c)
    PROVE  SurplusRests(f, DropTable(c, t))
<1> DEFINE d == DropTable(c, t)
<1>1. /\ DOMAIN d.tables = DOMAIN c.tables \ {t}
      /\ \A s \in DOMAIN d.tables : d.tables[s] = c.tables[s]
    BY DropTableParts
<1> HIDE DEF d
<1>2. ASSUME NEW s \in DOMAIN f.tables \cap DOMAIN d.tables,
             NEW fk \in d.tables[s].foreignKeys \ f.tables[s].foreignKeys
      PROVE  /\ fk.references \in DOMAIN d.tables
             /\ Elements(fk.referenced) # {}
             /\ RestsOnConstraint(d, fk)
    <2>1. s \in DOMAIN c.tables /\ fk \in c.tables[s].foreignKeys /\ s # t
        BY <1>1, <1>2
    <2>2. /\ fk.references \in DOMAIN c.tables /\ Elements(fk.referenced) # {}
          /\ RestsOnConstraint(c, fk)
        BY <1>2, <2>1 DEF SurplusRests
    <2>3. <<s, fk>> \in ForeignKeysOf(c)
        BY <2>1 DEF ForeignKeysOf
    <2>4. fk.references # t
        BY <2>1, <2>3 DEF TableIsReferenced
    <2> QED
        BY <1>1, <2>2, <2>4 DEF RestsOnConstraint
<1> QED
    BY <1>2 DEF SurplusRests, d

LEMMA DropColumnRests ==
    ASSUME NEW f, NEW c, IsCatalog(c), NEW t \in DOMAIN c.tables, NEW x,
           ~ColumnIsReferenced(c, t, x), SurplusRests(f, c)
    PROVE  SurplusRests(f, DropColumn(c, t, x))
<1> DEFINE d == DropColumn(c, t, x)
           old == c.tables[t]
           new == d.tables[t]
<1>1. /\ DOMAIN d.tables = DOMAIN c.tables
      /\ \A s \in DOMAIN c.tables : s # t => d.tables[s] = c.tables[s]
      /\ x \notin Elements(old.primaryKey) => new.primaryKey = old.primaryKey
      /\ new.uniques = {u \in old.uniques : x \notin Elements(u.columns)}
      /\ new.foreignKeys = {fk \in old.foreignKeys : x \notin Elements(fk.columns)}
    BY DropColumnParts
<1> HIDE DEF d
<1>2. ASSUME NEW s \in DOMAIN f.tables \cap DOMAIN d.tables,
             NEW fk \in d.tables[s].foreignKeys \ f.tables[s].foreignKeys
      PROVE  /\ fk.references \in DOMAIN d.tables
             /\ Elements(fk.referenced) # {}
             /\ RestsOnConstraint(d, fk)
    <2>1. /\ s \in DOMAIN c.tables /\ fk \in c.tables[s].foreignKeys
          /\ s = t => x \notin Elements(fk.columns)
        BY <1>1, <1>2
    <2>2. /\ fk.references \in DOMAIN c.tables /\ Elements(fk.referenced) # {}
          /\ RestsOnConstraint(c, fk)
        BY <1>2, <2>1 DEF SurplusRests
    <2>3. <<s, fk>> \in ForeignKeysOf(c)
        BY <2>1 DEF ForeignKeysOf
    <2>4. fk.references = t => x \notin Elements(fk.referenced)
        BY <2>1, <2>3 DEF ColumnIsReferenced
    <2>5. RestsOnConstraint(d, fk)
        BY <1>1, <2>2, <2>4 DEF RestsOnConstraint
    <2> QED
        BY <1>1, <2>2, <2>5
<1> QED
    BY <1>2 DEF SurplusRests, d

\* The constraint that goes has the name of a UNIQUE constraint no foreign key
\* rests on, or of none at all.
LEMMA DropConstraintRests ==
    ASSUME NEW f, NEW c, IsCatalog(c), NEW t \in DOMAIN c.tables, NEW name,
           \/ ~UniqueIsReferenced(c, t, name)
           \/ \A u \in c.tables[t].uniques : u.name # name,
           SurplusRests(f, c)
    PROVE  SurplusRests(f, OnTable(c, t, DropConstraint(c.tables[t], name)))
<1> DEFINE old == c.tables[t]
           new == DropConstraint(old, name)
           d == OnTable(c, t, new)
<1>1. /\ new.primaryKey = old.primaryKey
      /\ new.uniques = {u \in old.uniques : u.name # name}
      /\ new.foreignKeys = {fk \in old.foreignKeys : fk.name # name}
    BY CatalogRecord, DropConstraintParts
<1> HIDE DEF new
<1>2. /\ DOMAIN d.tables = DOMAIN c.tables /\ d.tables[t] = new
      /\ \A s \in DOMAIN c.tables : s # t => d.tables[s] = c.tables[s]
    BY OnTableParts
<1> HIDE DEF d
<1>3. ASSUME NEW s \in DOMAIN f.tables \cap DOMAIN d.tables,
             NEW fk \in d.tables[s].foreignKeys \ f.tables[s].foreignKeys
      PROVE  /\ fk.references \in DOMAIN d.tables
             /\ Elements(fk.referenced) # {}
             /\ RestsOnConstraint(d, fk)
    <2>1. s \in DOMAIN c.tables /\ fk \in c.tables[s].foreignKeys
        BY <1>1, <1>2, <1>3
    <2>2. /\ fk.references \in DOMAIN c.tables /\ Elements(fk.referenced) # {}
          /\ RestsOnConstraint(c, fk)
        BY <1>3, <2>1 DEF SurplusRests
    <2>3. <<s, fk>> \in ForeignKeysOf(c)
        BY <2>1 DEF ForeignKeysOf
    <2>4. CASE fk.references # t
        BY <1>2, <2>2, <2>4 DEF RestsOnConstraint
    <2>5. CASE fk.references = t
        <3>1. CASE Elements(old.primaryKey) = Elements(fk.referenced)
            BY <1>1, <1>2, <2>2, <2>5, <3>1 DEF RestsOnConstraint
        <3>2. CASE \E u \in old.uniques : Elements(u.columns) = Elements(fk.referenced)
            <4>1. PICK u \in old.uniques : Elements(u.columns) = Elements(fk.referenced)
                BY <3>2
            <4>2. u.name = name => Elements(old.primaryKey) = Elements(u.columns)
                BY <2>3, <2>5, <4>1 DEF UniqueIsReferenced
            <4> QED
                BY <1>1, <1>2, <2>2, <2>5, <3>1, <4>1, <4>2 DEF RestsOnConstraint
        <3> QED
            BY <2>2, <2>5, <3>1, <3>2 DEF RestsOnConstraint
    <2> QED
        BY <2>4, <2>5
<1> QED
    BY <1>3 DEF SurplusRests, d, new

LEMMA TakingRests ==
    ASSUME NEW U, NEW f, NEW h, ReadsApart(U, h), NEW c, IsCatalog(c), Sound(U, c),
           NEW m, m.kind \in Taking, Justified(f, h, m), Accepts(c, m, f, h), SurplusRests(f, c)
    PROVE  SurplusRests(f, Effect(c, m, f, h))
<1> DEFINE t == m.on
           table == c.tables[t]
<1>1. CASE m.kind = "drop_table"
    <2>1. Effect(c, m, f, h) = DropTable(c, t) /\ ~TableIsReferenced(c, t)
        BY <1>1 DEF Effect, Accepts
    <2> QED
        BY <2>1, DropTableRests
<1>2. CASE m.kind \in {"drop_column", "drop_unique_key", "drop_foreign_key"}
    <2>1. t \in DOMAIN f.tables /\ t \in DOMAIN h.tables /\ JustifiedInTable(f, h, m)
        BY <1>2 DEF Justified
    <2>2. t \in DOMAIN c.tables /\ AlterTableAccepts(c, m, f, h)
        BY <1>2 DEF Accepts
    <2>3. Effect(c, m, f, h) = AlterTableEffect(c, m, f, h)
        BY <1>2 DEF Effect
    <2>4. CASE m.kind = "drop_column"
        <3>1. AlterTableEffect(c, m, f, h) =
                 IF m.name \in DOMAIN table.columns THEN DropColumn(c, t, m.name) ELSE c
            BY <2>4 DEF AlterTableEffect
        <3>2. m.name \in DOMAIN table.columns => ~ColumnIsReferenced(c, t, m.name)
            BY <2>2, <2>4 DEF AlterTableAccepts
        <3> QED
            BY <2>2, <2>3, <3>1, <3>2, DropColumnRests
    <2>5. CASE m.kind \in {"drop_unique_key", "drop_foreign_key"}
        <3>1. AlterTableEffect(c, m, f, h) = OnTable(c, t, DropConstraint(table, m.name))
            BY <2>5 DEF AlterTableEffect
        <3>2. CASE m.kind = "drop_unique_key"
            <4>1. ~UniqueIsReferenced(c, t, m.name)
                BY <2>2, <3>2 DEF AlterTableAccepts
            <4> QED
                BY <2>2, <2>3, <3>1, <4>1, DropConstraintRests
        <3>3. CASE m.kind = "drop_foreign_key"
            <4>1. m.name \notin U
                BY <2>1, <3>3 DEF JustifiedInTable, ReadsApart, KindsApart
            <4>2. \A u \in table.uniques : u.name # m.name
                BY <2>2, <4>1 DEF Sound, KindsApart
            <4> QED
                BY <2>2, <2>3, <3>1, <4>2, DropConstraintRests
        <3> QED
            BY <2>5, <3>2, <3>3
    <2> QED
        BY <1>2, <2>4, <2>5
<1> QED
    BY <1>1, <1>2 DEF Taking

-----------------------------------------------------------------------------
(* What the planner refuses, part by part.                                 *)

LEMMA ReadParts ==
    ASSUME NEW c, IsCatalog(c)
    PROVE  /\ Introspected(c).namespaces = c.namespaces
           /\ DOMAIN Introspected(c).tables = DOMAIN c.tables
           /\ \A t \in DOMAIN c.tables :
                 /\ Introspected(c).tables[t].columns = c.tables[t].columns
                 /\ Introspected(c).tables[t].primaryKey = c.tables[t].primaryKey
                 /\ Introspected(c).tables[t].uniques = c.tables[t].uniques
                 /\ Introspected(c).tables[t].foreignKeys = ReadForeignKeys(c, t)
           /\ DOMAIN Introspected(c).indexes = DOMAIN c.indexes
           /\ \A i \in DOMAIN c.indexes :
                 Introspected(c).indexes[i] = ReadIndex(c.indexes[i])
<1> DEFINE ReadTable(t) == [c.tables[t] EXCEPT !.foreignKeys = ReadForeignKeys(c, t)]
           ts == [t \in DOMAIN c.tables |-> ReadTable(t)]
           is == [i \in DOMAIN c.indexes |-> ReadIndex(c.indexes[i])]
<1>1. Introspected(c) = [namespaces |-> c.namespaces, tables |-> ts, indexes |-> is]
    BY DEF Introspected
<1>2. ASSUME NEW t \in DOMAIN c.tables
      PROVE  /\ ReadTable(t).columns = c.tables[t].columns
             /\ ReadTable(t).primaryKey = c.tables[t].primaryKey
             /\ ReadTable(t).uniques = c.tables[t].uniques
             /\ ReadTable(t).foreignKeys = ReadForeignKeys(c, t)
    <2> DEFINE table == c.tables[t]
               keys == ReadForeignKeys(c, t)
    <2>1. IsTable(table)
        BY CatalogRecord
    <2> HIDE DEF table, keys
    <2>2. [table EXCEPT !.foreignKeys = keys] =
             [columns |-> table.columns, primaryKey |-> table.primaryKey,
              uniques |-> table.uniques, foreignKeys |-> keys, removed |-> table.removed]
        BY <2>1 DEF IsTable
    <2> QED
        BY <2>2 DEF table, keys
<1>3. /\ DOMAIN ts = DOMAIN c.tables
      /\ \A t \in DOMAIN c.tables : ts[t] = ReadTable(t)
      /\ DOMAIN is = DOMAIN c.indexes
      /\ \A i \in DOMAIN c.indexes : is[i] = ReadIndex(c.indexes[i])
    OBVIOUS
<1> HIDE DEF ReadTable, ts, is
<1>4. /\ Introspected(c).namespaces = c.namespaces
      /\ Introspected(c).tables = ts /\ Introspected(c).indexes = is
    BY <1>1
<1>5. \A t \in DOMAIN c.tables :
         /\ ts[t].columns = c.tables[t].columns
         /\ ts[t].primaryKey = c.tables[t].primaryKey
         /\ ts[t].uniques = c.tables[t].uniques
         /\ ts[t].foreignKeys = ReadForeignKeys(c, t)
    BY <1>2, <1>3
<1> QED
    BY <1>3, <1>4, <1>5

\* The planner does not refuse what a table is like.
OpenTable(want, had, t, orders) ==
    /\ \A x \in DOMAIN had.columns \ DOMAIN want.columns :
          ColumnVerdict(want, x, had.columns[x].type, orders[<<t, x>>]) # "none"
    /\ \A x \in DOMAIN want.columns \ DOMAIN had.columns : ~NotNullNoDefault(want.columns[x])
    /\ \A x \in DOMAIN want.columns \cap DOMAIN had.columns : ~Narrows(want, had, x)
    /\ had.primaryKey \in {NoPrimaryKey, want.primaryKey}
    /\ \A u \in had.uniques \ want.uniques : UniqueVerdict(u, orders[<<t, u.name>>]) # "none"
    /\ \A fk \in had.foreignKeys \ want.foreignKeys :
          ForeignKeyVerdict(fk, orders[<<t, fk.name>>]) # "none"

LEMMA OpenTableIff ==
    ASSUME NEW want, NEW had, NEW t, NEW orders
    PROVE  TableRefusals(want, had, t, orders) = {} <=> OpenTable(want, had, t, orders)
<1>1. ColumnRefusals(want, had, t, orders) = {} <=>
         /\ \A x \in DOMAIN had.columns \ DOMAIN want.columns :
               ColumnVerdict(want, x, had.columns[x].type, orders[<<t, x>>]) # "none"
         /\ \A x \in DOMAIN want.columns \ DOMAIN had.columns : ~NotNullNoDefault(want.columns[x])
         /\ \A x \in DOMAIN want.columns \cap DOMAIN had.columns : ~Narrows(want, had, x)
    <2>1. \A x \in DOMAIN want.columns \cap DOMAIN had.columns :
             Narrows(want, had, x) => x \in ChangedColumns(want, had)
        BY DEF Narrows, ChangedColumns
    <2>2. ChangedColumns(want, had) \subseteq DOMAIN want.columns \cap DOMAIN had.columns
        BY DEF ChangedColumns
    <2> QED
        BY <2>1, <2>2 DEF ColumnRefusals, SurplusColumns, MissingColumns
<1>2. PrimaryKeyRefusals(want, had, t) = {} <=> had.primaryKey \in {NoPrimaryKey, want.primaryKey}
    BY DEF PrimaryKeyRefusals, PrimaryKeyMismatch
<1>3. UniqueRefusals(want, had, t, orders) = {} <=>
         \A u \in had.uniques \ want.uniques : UniqueVerdict(u, orders[<<t, u.name>>]) # "none"
    BY DEF UniqueRefusals, SurplusUniques, HaveUnique
<1>4. ForeignKeyRefusals(want, had, t, orders) = {} <=>
         \A fk \in had.foreignKeys \ want.foreignKeys :
             ForeignKeyVerdict(fk, orders[<<t, fk.name>>]) # "none"
    BY DEF ForeignKeyRefusals, SurplusForeignKeys, HaveForeignKey
<1> QED
    BY <1>1, <1>2, <1>3, <1>4 DEF TableRefusals, OpenTable

Open(f, read, orders) ==
    /\ read.namespaces \ {Public} \subseteq CollectDesiredNamespaces(f)
    /\ \A t \in DOMAIN read.tables \ DOMAIN f.tables : DropTableAllowed(f, read, t)
    /\ \A t \in DOMAIN f.tables \cap DOMAIN read.tables :
          OpenTable(f.tables[t], read.tables[t], t, orders)
    /\ \A i \in DOMAIN read.indexes \ DOMAIN f.indexes :
          LET index == read.indexes[i]
          IN  IndexVerdict(i, index, orders[<<index.table, i>>]) # "none"
                 \/ IndexVanishes(f, read, i)

LEMMA OpenIff ==
    ASSUME NEW f, NEW read, NEW orders
    PROVE  Disallowed(f, read, orders) = {} <=> Open(f, read, orders)
<1>1. {Refusal("drop_schema", ns, NoName) : ns \in SurplusNamespaces(f, read)} = {} <=>
         read.namespaces \ {Public} \subseteq CollectDesiredNamespaces(f)
    BY DEF SurplusNamespaces
<1>2. {Refusal("drop_table", t, NoName) :
          t \in {s \in SurplusTables(f, read) : ~DropTableAllowed(f, read, s)}} = {} <=>
         \A t \in DOMAIN read.tables \ DOMAIN f.tables : DropTableAllowed(f, read, t)
    BY DEF SurplusTables
<1>3. (UNION {TableRefusals(f.tables[t], read.tables[t], t, orders) :
                 t \in CommonTables(f, read)}) = {} <=>
         \A t \in DOMAIN f.tables \cap DOMAIN read.tables :
             OpenTable(f.tables[t], read.tables[t], t, orders)
    BY OpenTableIff DEF CommonTables
<1>4. IndexRefusals(f, read, orders) = {} <=>
         \A i \in DOMAIN read.indexes \ DOMAIN f.indexes :
             \/ IndexVerdict(i, read.indexes[i], orders[<<read.indexes[i].table, i>>]) # "none"
             \/ IndexVanishes(f, read, i)
    BY DEF IndexRefusals, SurplusIndexes
<1> QED
    BY <1>1, <1>2, <1>3, <1>4 DEF Disallowed, Open

\* The planner looks away from nothing it saw before: what is refused in d was
\* refused in c.
LEMMA TableStaysAsOpen ==
    ASSUME NEW want, NEW t, NEW orders, NEW old, NEW new,
           OpenTable(want, old, t, orders), TableStaysOpen(want, old, new),
           TableEvolves(want, old, new)
    PROVE  OpenTable(want, new, t, orders)
<1>1. \A x \in DOMAIN new.columns \ DOMAIN want.columns :
          ColumnVerdict(want, x, new.columns[x].type, orders[<<t, x>>]) # "none"
    BY DEF OpenTable, TableEvolves
<1>2. \A x \in DOMAIN want.columns \ DOMAIN new.columns : ~NotNullNoDefault(want.columns[x])
    BY DEF OpenTable, TableStaysOpen
<1>3. \A x \in DOMAIN want.columns \cap DOMAIN new.columns : ~Narrows(want, new, x)
    BY DEF OpenTable, TableStaysOpen
<1>4. new.primaryKey \in {NoPrimaryKey, want.primaryKey}
    BY DEF OpenTable, TableStaysOpen
<1>5. \A u \in new.uniques \ want.uniques : UniqueVerdict(u, orders[<<t, u.name>>]) # "none"
    BY DEF OpenTable, TableEvolves
<1>6. \A fk \in new.foreignKeys \ want.foreignKeys :
          ForeignKeyVerdict(fk, orders[<<t, fk.name>>]) # "none"
    BY DEF OpenTable, TableEvolves
<1> QED
    BY <1>1, <1>2, <1>3, <1>4, <1>5, <1>6 DEF OpenTable

\* A table that is created has nothing but what the files ask for.
LEMMA NewTableIsOpen ==
    ASSUME NEW want, NEW t, NEW orders, NEW new,
           TableStaysOpen(want, want, new), Asked(want, new)
    PROVE  OpenTable(want, new, t, orders)
<1>1. \A x \in DOMAIN want.columns \cap DOMAIN new.columns : ~Narrows(want, new, x)
    BY DEF TableStaysOpen, Narrows
<1>2. DOMAIN new.columns = DOMAIN want.columns
    BY DEF TableStaysOpen, Asked
<1>3. new.primaryKey \in {NoPrimaryKey, want.primaryKey}
    BY DEF TableStaysOpen
<1> QED
    BY <1>1, <1>2, <1>3 DEF OpenTable, Asked

\* Only the columns of a table decide whether a directive covers it.
LEMMA DropTableAllowedOn ==
    ASSUME NEW f, NEW a, NEW b, NEW t, a.tables[t].columns = b.tables[t].columns,
           DropTableAllowed(f, a, t)
    PROVE  DropTableAllowed(f, b, t)
    BY DEF DropTableAllowed, TablesMatchForDrop

\* A surplus table that is left, and its indexes, are as they were.
LEMMA IndexVanishesOn ==
    ASSUME NEW f, NEW a, NEW b, NEW i, IndexVanishes(f, a, i),
           a.indexes[i].table = b.indexes[i].table, b.indexes[i].table \in DOMAIN b.tables,
           a.tables[a.indexes[i].table].columns = b.tables[a.indexes[i].table].columns
    PROVE  IndexVanishes(f, b, i)
<1> DEFINE t == a.indexes[i].table
<1>1. ~Go /\ Migration("drop_table", t, NoName) \in WholeTableMigrations(f, a)
    BY DEF IndexVanishes, IndexVanishesRust, IndexVanishesGo
<1>2. t \in SurplusTables(f, a) /\ DropTableAllowed(f, a, t)
    BY <1>1 DEF WholeTableMigrations, Migration
<1>3. t \in SurplusTables(f, b) /\ DropTableAllowed(f, b, t)
    BY <1>2, DropTableAllowedOn DEF SurplusTables
<1>4. Migration("drop_table", t, NoName) \in WholeTableMigrations(f, b)
    BY <1>3 DEF WholeTableMigrations
<1> QED
    BY <1>1, <1>4 DEF IndexVanishes, IndexVanishesRust

\* What is read of a table in d is open as what is read of it in c, or new.
LEMMA ReadTableStaysOpen ==
    ASSUME NEW f, NEW c, IsCatalog(c), NEW d, IsCatalog(d), Evolves(f, c, d), StaysOpen(f, c, d),
           SurplusRests(f, c), NEW orders, NEW t \in DOMAIN f.tables \cap DOMAIN d.tables,
           t \in DOMAIN c.tables =>
              OpenTable(f.tables[t], Introspected(c).tables[t], t, orders)
    PROVE  OpenTable(f.tables[t], Introspected(d).tables[t], t, orders)
<1> DEFINE want == f.tables[t]
           had == Introspected(c).tables[t]
           has == Introspected(d).tables[t]
<1>1. /\ has.columns = d.tables[t].columns /\ has.primaryKey = d.tables[t].primaryKey
      /\ has.uniques = d.tables[t].uniques /\ has.foreignKeys = ReadForeignKeys(d, t)
    BY ReadParts
<1>2. has.foreignKeys \subseteq d.tables[t].foreignKeys
    BY <1>1 DEF ReadForeignKeys
<1>3. CASE t \in DOMAIN c.tables
    <2>1. /\ had.columns = c.tables[t].columns /\ had.primaryKey = c.tables[t].primaryKey
          /\ had.uniques = c.tables[t].uniques /\ had.foreignKeys = ReadForeignKeys(c, t)
        BY <1>3, ReadParts
    <2>2. TableStaysOpen(want, c.tables[t], d.tables[t])
        BY <1>3 DEF StaysOpen
    <2>3. TableEvolves(want, c.tables[t], d.tables[t])
        BY <1>3 DEF Evolves
    <2> HIDE DEF had, has, want
    <2>4. TableStaysOpen(want, had, has)
        BY <1>1, <2>1, <2>2 DEF TableStaysOpen, Narrows
    <2>5. \A fk \in c.tables[t].foreignKeys \ want.foreignKeys : fk \in had.foreignKeys
        BY <1>3, <2>1 DEF SurplusRests, ReadForeignKeys, want
    <2>6. TableEvolves(want, had, has)
        BY <1>1, <1>2, <2>1, <2>3, <2>5 DEF TableEvolves
    <2>7. OpenTable(want, had, t, orders)
        BY <1>3 DEF had, want
    <2>8. OpenTable(want, has, t, orders)
        BY <2>4, <2>6, <2>7, TableStaysAsOpen
    <2> QED
        BY <2>8 DEF want, has
<1>4. CASE t \notin DOMAIN c.tables
    <2>1. TableStaysOpen(want, want, d.tables[t]) /\ Asked(want, d.tables[t])
        BY <1>4 DEF StaysOpen, Evolves
    <2> HIDE DEF has, want
    <2>2. TableStaysOpen(want, want, has) /\ Asked(want, has)
        BY <1>1, <1>2, <2>1 DEF TableStaysOpen, Narrows, Asked
    <2>3. OpenTable(want, has, t, orders)
        BY <2>2, NewTableIsOpen
    <2> QED
        BY <2>3 DEF want, has
<1> QED
    BY <1>3, <1>4

LEMMA VerdictStays ==
    ASSUME NEW U, NEW f, NEW c, IsCatalog(c), NEW d, IsCatalog(d), Sound(U, d),
           Evolves(f, c, d), StaysOpen(f, c, d), SurplusRests(f, c), Verdict(f, c) = {}
    PROVE  Verdict(f, d) = {}
<1> SUFFICES ASSUME NEW orders \in Orders(f.groups)
             PROVE  Disallowed(f, Introspected(d), orders) = {}
    BY DEF Verdict
<1> DEFINE a == Introspected(c)
           b == Introspected(d)
<1>1. Open(f, a, orders)
    BY OpenIff DEF Verdict
<1>2. /\ a.namespaces = c.namespaces /\ DOMAIN a.tables = DOMAIN c.tables
      /\ \A t \in DOMAIN c.tables : a.tables[t].columns = c.tables[t].columns
      /\ DOMAIN a.indexes = DOMAIN c.indexes
      /\ \A i \in DOMAIN c.indexes : a.indexes[i] = ReadIndex(c.indexes[i])
    BY ReadParts
<1>3. /\ b.namespaces = d.namespaces /\ DOMAIN b.tables = DOMAIN d.tables
      /\ \A t \in DOMAIN d.tables : b.tables[t].columns = d.tables[t].columns
      /\ DOMAIN b.indexes = DOMAIN d.indexes
      /\ \A i \in DOMAIN d.indexes : b.indexes[i] = ReadIndex(d.indexes[i])
    BY ReadParts
<1>4. \A t \in DOMAIN f.tables \cap DOMAIN b.tables :
          OpenTable(f.tables[t], b.tables[t], t, orders)
    BY <1>1, <1>2, <1>3, ReadTableStaysOpen DEF Open
<1> HIDE DEF a, b
<1>5. b.namespaces \ {Public} \subseteq CollectDesiredNamespaces(f)
    BY <1>1, <1>2, <1>3 DEF Open, StaysOpen
<1>6. ASSUME NEW t \in DOMAIN b.tables \ DOMAIN f.tables
      PROVE  DropTableAllowed(f, b, t)
    <2>1. t \in DOMAIN c.tables /\ d.tables[t] = c.tables[t]
        BY <1>3, <1>6 DEF Evolves
    <2>2. DropTableAllowed(f, a, t) /\ a.tables[t].columns = b.tables[t].columns
        BY <1>1, <1>2, <1>3, <1>6, <2>1 DEF Open
    <2> QED
        BY <2>2, DropTableAllowedOn
<1>7. ASSUME NEW i \in DOMAIN b.indexes \ DOMAIN f.indexes
      PROVE  \/ IndexVerdict(i, b.indexes[i], orders[<<b.indexes[i].table, i>>]) # "none"
             \/ IndexVanishes(f, b, i)
    <2>1. i \in DOMAIN c.indexes /\ SameIndex(d.indexes[i], c.indexes[i])
        BY <1>3, <1>7 DEF Evolves
    <2>2. a.indexes[i] = b.indexes[i]
        BY <1>2, <1>3, <1>7, <2>1 DEF SameIndex, ReadIndex
    <2>3. b.indexes[i].table = d.indexes[i].table /\ d.indexes[i].table \in DOMAIN d.tables
        <3>1. i \in DOMAIN d.indexes /\ b.indexes[i] = ReadIndex(d.indexes[i])
            BY <1>3, <1>7
        <3>2. ReadIndex(d.indexes[i]).table = d.indexes[i].table
            BY DEF ReadIndex
        <3>3. d.indexes[i].table \in DOMAIN d.tables
            BY <3>1 DEF Sound
        <3> QED
            BY <3>1, <3>2, <3>3
    <2>4. CASE IndexVanishes(f, a, i)
        <3>1. b.indexes[i].table \in SurplusTables(f, a)
            BY <2>2, <2>4 DEF IndexVanishes, IndexVanishesRust, IndexVanishesGo,
               WholeTableMigrations, Migration
        <3>2. /\ b.indexes[i].table \in DOMAIN d.tables \ DOMAIN f.tables
              /\ b.indexes[i].table \in DOMAIN c.tables
            BY <1>2, <2>3, <3>1 DEF SurplusTables
        <3>3. d.tables[b.indexes[i].table] = c.tables[b.indexes[i].table]
            BY <3>2 DEF Evolves
        <3>4. a.tables[a.indexes[i].table].columns = b.tables[a.indexes[i].table].columns
            BY <1>2, <1>3, <2>2, <3>2, <3>3
        <3> QED
            BY <1>3, <2>2, <2>3, <2>4, <3>4, IndexVanishesOn
    <2>5. CASE ~IndexVanishes(f, a, i)
        BY <1>1, <1>2, <2>1, <2>2, <2>5, <1>7 DEF Open
    <2> QED
        BY <2>4, <2>5
<1>8. Open(f, b, orders)
    BY <1>4, <1>5, <1>6, <1>7 DEF Open
<1> QED
    BY <1>8, OpenIff DEF b

-----------------------------------------------------------------------------
(* The runs.                                                               *)

\* Every foreign key of the database that the files do not want is one that
\* the query for foreign keys finds.
SurplusKeysRest ==
    \A s \in Scenarios : \A r \in Runners : SurplusRests(s.files[r], s.catalog)

\* What each open transaction has come to leaves the planner nothing more to
\* refuse than what it began with.
OpenInv ==
    \A r \in Runners :
        /\ SurplusRests(files[r], catalog)
        /\ pc[r] = "transaction" =>
              StaysOpen(files[r], catalog, working) /\ SurplusRests(files[r], working)

LEMMA InitOpen ==
    ASSUME SurplusKeysRest, Init
    PROVE  OpenInv
<1>1. PICK s \in Scenarios : catalog = s.catalog /\ files = s.files
    BY DEF Init
<1>2. \A r \in Runners : pc[r] = "idle"
    BY DEF Init
<1> QED
    BY <1>1, <1>2 DEF SurplusKeysRest, OpenInv

\* What a transaction does to the tables, it does to those of its run alone.
LEMMA ExecutesOpen ==
    ASSUME NEW U, LossInv(U), IInv, OpenInv, NEW r \in Runners, NEW m, Executes(r, m)
    PROVE  StaysOpen(files[r], catalog, working') /\ SurplusRests(files[r], working')
<1> DEFINE f == files[r]
           w == working
           d == working'
<1>1. /\ IsCatalog(w) /\ IsFiles(f) /\ Justified(f, have[r], m) /\ Accepts(w, m, f, have[r])
      /\ d = Effect(w, m, f, have[r]) /\ Sound(U, w) /\ m.kind \in Adding \cup Taking
    BY Executed DEF Executes, InTransactionInv
<1>2. StaysOpen(f, catalog, w) /\ SurplusRests(f, w)
    BY DEF OpenInv, Executes
<1>3. ReadsApart(U, have[r])
    BY DEF LossInv, RunLoss
<1>4. StaysOpen(f, w, d)
    BY <1>1, AddingStaysOpen, TakingStaysOpen
<1>5. SurplusRests(f, d)
    <2>1. CASE m.kind \in Adding
        BY <1>1, <1>2, <2>1, AddingGrows, GrowsRests
    <2>2. CASE m.kind \in Taking
        BY <1>1, <1>2, <1>3, <2>2, TakingRests
    <2> QED
        BY <1>1, <2>1, <2>2
<1> QED
    BY <1>2, <1>4, <1>5, StaysOpenOn

\* How a step changes the catalog: not at all, by a commit, or in its indexes.
ChangesCatalog(r) ==
    \/ catalog' = catalog
    \/ pc[r] = "transaction" /\ catalog' = working
    \/ ChangesIndexes(files[r], catalog, catalog')

\* A run that is not about to execute a statement of its transaction.
LEMMA ChangesCatalogOpen ==
    ASSUME NEW U, LossInv(U), OpenInv, NEW r \in Runners, ChangesCatalog(r), files' = files
    PROVE  \A q \in Runners :
              StaysOpen(files[q], catalog, catalog') /\ SurplusRests(files[q], catalog')
<1>1. \A q \in Runners : files[q] = files[r]
    BY DEF LossInv
<1>2. CASE catalog' = catalog
    BY <1>2, StaysOpenReflexive DEF OpenInv
<1>3. CASE pc[r] = "transaction" /\ catalog' = working
    BY <1>1, <1>3 DEF OpenInv
<1>4. CASE ChangesIndexes(files[r], catalog, catalog')
    <2>1. catalog'.tables = catalog.tables /\ catalog'.namespaces = catalog.namespaces
        BY <1>4 DEF ChangesIndexes
    <2> QED
        BY <2>1, TableStaysOpenReflexive DEF OpenInv, StaysOpen, SurplusRests, RestsOnConstraint
<1> QED
    BY <1>2, <1>3, <1>4 DEF ChangesCatalog

\* Every step, of any run, changes the catalog in one of these ways.
LEMMA StepChangesCatalog ==
    ASSUME NEW U, LossInv(U), IInv, NEW r \in Runners,
           \/ Connect(r) \/ Step(r)
           \/ FaultOutsideTransaction(r) \/ FaultInTransaction(r)
           \/ FaultAtCommit(r) \/ FaultInBuild(r)
    PROVE  ChangesCatalog(r) /\ files' = files
<1>1. CASE Commit(r) \/ FaultAtCommit(r)
    BY <1>1 DEF Commit, FaultAtCommit, Fault, ChangesCatalog
<1>2. CASE ExecuteIndex(r)
    <2>1. pc[r] \in HoldsPlan /\ files' = files
        BY <1>2 DEF ExecuteIndex, HoldsPlan
    <2>2. CASE catalog' = catalog
        BY <2>1, <2>2 DEF ChangesCatalog
    <2>3. CASE catalog' # catalog
        <3>1. PICK m \in IndexStatements(r) :
                  /\ Accepts(catalog, m, files[r], have[r])
                  /\ ~Builds(catalog, m)
                  /\ catalog' = Effect(catalog, m, files[r], have[r])
            BY <1>2, <2>3 DEF ExecuteIndex
        <3>2. ChangesIndexes(files[r], catalog, catalog')
            BY <2>1, <3>1, ExecutesIndexSafely
        <3> QED
            BY <2>1, <3>2 DEF ChangesCatalog
    <2> QED
        BY <2>2, <2>3
<1>3. CASE StartBuild(r)
    <2>1. ChangesIndexes(files[r], catalog, catalog')
        BY <1>3, BuildBegins
    <2> QED
        BY <1>3, <2>1 DEF StartBuild, ChangesCatalog
<1>4. CASE FinishBuild(r) \/ FaultInBuild(r)
    <2>1. files' = files
        BY <1>4 DEF FinishBuild, FaultInBuild, Fault
    <2>2. catalog' = catalog \/ \E m \in IndexStatements(r) : MakesValid(m)
        BY <1>4 DEF FinishBuild, FaultInBuild, MakesValid
    <2>3. IsCatalog(catalog) /\ Sound(U, catalog)
        BY DEF IInv, Environment, LossInv
    <2>4. ASSUME NEW m \in IndexStatements(r), MakesValid(m)
          PROVE  ChangesIndexes(files[r], catalog, catalog')
        BY <2>3, <2>4, MakeValidChanges DEF MakesValid
    <2> QED
        BY <2>1, <2>2, <2>4 DEF ChangesCatalog
<1>5. CASE \/ Connect(r) \/ ListUserSchemas(r) \/ ListTables(r) \/ ListColumns(r)
           \/ ListUniqueKeys(r) \/ ListForeignKeys(r) \/ ListIndexes(r)
           \/ Refuse(r) \/ MakePlan(r) \/ DryRun(r) \/ Begin(r) \/ NoTransaction(r)
           \/ ExecuteInTransaction(r) \/ Finish(r)
           \/ FaultOutsideTransaction(r) \/ FaultInTransaction(r)
    <2>1. catalog' = catalog /\ files' = files
        BY <1>5 DEF Connect, ListUserSchemas, ListTables, ListColumns, ListUniqueKeys,
                    ListForeignKeys, ListIndexes, Refuse, MakePlan, DryRun, Begin,
                    NoTransaction, ExecuteInTransaction, Finish, FaultOutsideTransaction,
                    FaultInTransaction, Fault
    <2> QED
        BY <2>1 DEF ChangesCatalog
<1> QED
    BY <1>1, <1>2, <1>3, <1>4, <1>5 DEF Step

\* No run is in a transaction, but the one that has the locks.
LEMMA OthersAreOut ==
    ASSUME NEW U, LossInv(U)', NEW q \in Runners, pc'[q] = "transaction"
    PROVE  owner' = q
    BY DEF LossInv, RunLoss

LEMMA StepOpen ==
    ASSUME NEW U, LossInv(U), LossInv(U)', IInv, OpenInv, NEW r \in Runners,
           \/ Connect(r) \/ Step(r)
           \/ FaultOutsideTransaction(r) \/ FaultInTransaction(r)
           \/ FaultAtCommit(r) \/ FaultInBuild(r)
    PROVE  OpenInv'
<1>1. files' = files /\ \A q \in Runners : SurplusRests(files[q], catalog')
    BY StepChangesCatalog, ChangesCatalogOpen
<1>2. SUFFICES ASSUME NEW q \in Runners, pc'[q] = "transaction"
               PROVE  StaysOpen(files[q], catalog', working') /\ SurplusRests(files[q], working')
    BY <1>1 DEF OpenInv
<1>3. owner' = q /\ q # NoRunner
    BY <1>2, OthersAreOut, RunnerAssumption
<1>4. CASE Begin(r)
    <2>1. working' = catalog /\ catalog' = catalog
        BY <1>4 DEF Begin
    <2> QED
        BY <1>1, <2>1, StaysOpenReflexive
<1>5. CASE ExecuteInTransaction(r)
    <2>1. owner' # NoRunner /\ pc[r] = "transaction" /\ catalog' = catalog
        BY <1>3, <1>5 DEF ExecuteInTransaction
    <2>2. PICK m \in NextOf(files[r], plan[r], InTransaction(todo[r])) : Executes(r, m)
        BY <1>1, <1>5, <2>1 DEF ExecuteInTransaction, Rollback, Executes
    <2>3. owner' = owner /\ owner = r
        BY <2>1, <2>2 DEF Executes, LossInv, RunLoss
    <2> QED
        BY <1>3, <2>1, <2>2, <2>3, ExecutesOpen
<1>6. CASE \/ Commit(r) \/ FaultAtCommit(r) \/ FaultInTransaction(r)
           \/ ExecuteIndex(r) \/ FinishBuild(r) \/ FaultInBuild(r)
    <2>1. owner' = NoRunner
        BY <1>6 DEF Commit, FaultAtCommit, FaultInTransaction, Rollback, ExecuteIndex,
                    FinishBuild, FaultInBuild
    <2> QED
        BY <1>3, <2>1
<1>7. CASE StartBuild(r)
    <2>1. owner' = r /\ pc'[r] = "building"
        BY <1>7 DEF StartBuild, IInv, Shape
    <2> QED
        BY <1>2, <1>3, <2>1
<1>8. CASE \/ Connect(r) \/ ListUserSchemas(r) \/ ListTables(r) \/ ListColumns(r)
           \/ ListUniqueKeys(r) \/ ListForeignKeys(r) \/ ListIndexes(r)
           \/ Refuse(r) \/ MakePlan(r) \/ DryRun(r) \/ NoTransaction(r) \/ Finish(r)
           \/ FaultOutsideTransaction(r)
    <2>1. UNCHANGED <<catalog, owner, working>>
        BY <1>8 DEF Connect, ListUserSchemas, ListTables, ListColumns, ListUniqueKeys,
                    ListForeignKeys, ListIndexes, Refuse, MakePlan, DryRun,
                    NoTransaction, Finish, FaultOutsideTransaction
    <2>2. pc[r] # "transaction" /\ pc[r] # "building"
        BY <1>8 DEF Connect, ListUserSchemas, ListTables, ListColumns, ListUniqueKeys,
                    ListForeignKeys, ListIndexes, Refuse, MakePlan, DryRun, HasIntrospected,
                    NoTransaction, Finish, FaultOutsideTransaction, AtRest, Active
    <2>3. owner = q /\ pc[q] \in {"transaction", "building"} /\ q # r
        BY <1>3, <2>1, <2>2 DEF LossInv, RunLoss
    <2>4. pc'[q] = pc[q]
        BY <1>8, <2>3 DEF Connect, ListUserSchemas, ListTables, ListColumns, ListUniqueKeys,
                    ListForeignKeys, ListIndexes, Refuse, MakePlan, DryRun, Stop, Fault,
                    NoTransaction, Finish, FaultOutsideTransaction, IInv, Shape
    <2> QED
        BY <1>2, <2>1, <2>4 DEF OpenInv
<1> QED
    BY <1>4, <1>5, <1>6, <1>7, <1>8 DEF Step

\* OpenInv is an invariant of overlapping runs that agree on their files.
LEMMA OpenInductive ==
    ASSUME AgreeOnFiles, NEW U, NamesAreKept(U), SurplusKeysRest
    PROVE  Spec => []OpenInv
<1>1. Init => OpenInv
    BY InitOpen
<1>2. IInv /\ LossInv(U) /\ LossInv(U)' /\ OpenInv /\ [Next]_vars => OpenInv'
    <2>1. ASSUME IInv, LossInv(U), LossInv(U)', OpenInv, Next
          PROVE  OpenInv'
        BY <2>1, StepOpen DEF Next
    <2>2. ASSUME OpenInv, UNCHANGED vars
          PROVE  OpenInv'
        BY <2>2 DEF vars, OpenInv
    <2> QED
        BY <2>1, <2>2
<1> QED
    BY <1>1, <1>2, LossInductive, PTL DEF Spec

\* No step makes the planner refuse a database that it did not refuse.
LEMMA StepLeavesOpen ==
    ASSUME NEW U, LossInv(U), LossInv(U)', IInv, IInv', OpenInv, Next, NEW q \in Runners,
           Verdict(files[q], catalog) = {}
    PROVE  Verdict(files'[q], catalog') = {}
<1>1. PICK r \in Runners :
          \/ Connect(r) \/ Step(r)
          \/ FaultOutsideTransaction(r) \/ FaultInTransaction(r)
          \/ FaultAtCommit(r) \/ FaultInBuild(r)
    BY DEF Next
<1>2. ChangesCatalog(r) /\ files' = files
    BY <1>1, StepChangesCatalog
<1>3. StaysOpen(files[q], catalog, catalog') /\ SurplusRests(files[q], catalog)
    BY <1>2, ChangesCatalogOpen DEF OpenInv
<1>4. IsCatalog(catalog) /\ IsCatalog(catalog') /\ Sound(U, catalog) /\ Sound(U, catalog')
    BY DEF IInv, Environment, LossInv
<1>5. Evolves(files[q], catalog, catalog')
    <2>1. files[q] = files[r]
        BY DEF LossInv
    <2>2. CASE catalog' = catalog
        BY <2>2, EvolvesReflexive
    <2>3. CASE pc[r] = "transaction" /\ catalog' = working
        BY <2>1, <2>3 DEF LossInv, RunLoss, InTransactionInv
    <2>4. CASE ChangesIndexes(files[r], catalog, catalog')
        BY <1>4, <2>1, <2>4, ChangesIndexesSafely
    <2> QED
        BY <1>2, <2>2, <2>3, <2>4 DEF ChangesCatalog
<1>6. Verdict(files[q], catalog') = {}
    <2> DEFINE f == files[q]
               c == catalog
               d == catalog'
    <2>1. IsCatalog(c) /\ IsCatalog(d) /\ Sound(U, d) /\ Evolves(f, c, d) /\ StaysOpen(f, c, d)
          /\ SurplusRests(f, c) /\ Verdict(f, c) = {}
        BY <1>3, <1>4, <1>5
    <2> HIDE DEF f, c, d
    <2>2. Verdict(f, d) = {}
        BY <2>1, VerdictStays
    <2> QED
        BY <2>2 DEF f, d
<1> QED
    BY <1>2, <1>6

\* Runs of one version of the files may overlap, crash, fail and be repeated
\* at any moment, and stop between any two statements: a database those files
\* could be applied to never becomes one the planner refuses them for.
THEOREM NeverStuckForever ==
    ASSUME AgreeOnFiles, NEW U, NamesAreKept(U), SurplusKeysRest
    PROVE  Spec => NeverStuck
<1> DEFINE A == \A r \in Runners :
                   Verdict(files[r], catalog) = {} => Verdict(files'[r], catalog') = {}
<1>1. /\ IInv /\ LossInv(U) /\ OpenInv /\ IInv' /\ LossInv(U)' /\ [Next]_vars
      => [A]_vars
    <2>1. ASSUME IInv, LossInv(U), OpenInv, IInv', LossInv(U)', Next
          PROVE  A
        BY <2>1, StepLeavesOpen
    <2> QED
        BY <2>1
<1> HIDE DEF A
<1>2. Spec => [][A]_vars
    BY <1>1, LossInductive, OpenInductive, PTL DEF Spec
<1> QED
    BY <1>2 DEF NeverStuck, A

-----------------------------------------------------------------------------
(* What the files ask for and the old schema already had, the new one has. *)

ColumnNearer(want, old, new) ==
    /\ old.type = want.type => new.type = want.type
    /\ old.nullable = want.nullable => new.nullable = want.nullable
    /\ old.default = want.default => new.default = want.default

\* A constraint that has a name the files use is left alone, even when it is
\* another constraint: adding the wanted one then fails.
Named(wanted, parts) == {p \in parts : \E w \in wanted : w.name = p.name}

TableNearer(want, old, new) ==
    /\ \A x \in DOMAIN want.columns \cap DOMAIN old.columns :
          /\ x \in DOMAIN new.columns
          /\ ColumnNearer(want.columns[x], old.columns[x], new.columns[x])
    /\ want.primaryKey # NoPrimaryKey /\ old.primaryKey = want.primaryKey =>
          new.primaryKey = want.primaryKey
    /\ Named(want.uniques, old.uniques) \subseteq new.uniques
    /\ Named(want.foreignKeys, old.foreignKeys) \subseteq new.foreignKeys

Nearer(f, c, d) ==
    /\ CollectDesiredNamespaces(f) \cap c.namespaces \subseteq d.namespaces
    /\ \A t \in DOMAIN f.tables \cap DOMAIN c.tables :
          t \in DOMAIN d.tables /\ TableNearer(f.tables[t], c.tables[t], d.tables[t])

\* What PostgreSQL demands of the definitions in the files: keys are over
\* columns of the table, those of a primary key are NOT NULL, and the names of
\* constraints differ.
Consistent(want) ==
    /\ Elements(want.primaryKey) \subseteq DOMAIN want.columns
    /\ \A x \in Elements(want.primaryKey) : ~want.columns[x].nullable
    /\ \A u \in want.uniques : Elements(u.columns) \subseteq DOMAIN want.columns
    /\ \A fk \in want.foreignKeys : Elements(fk.columns) \subseteq DOMAIN want.columns
    /\ NamesApart(want)

FilesAreConsistent ==
    \A s \in Scenarios : \A r \in Runners : \A t \in DOMAIN s.files[r].tables :
        Consistent(s.files[r].tables[t])

\* A table of the database is in one of its namespaces.
Housed(f, c) ==
    \A t \in DOMAIN c.tables \ DOMAIN f.tables : NamespaceOf[t] \in c.namespaces

SurplusIsHoused ==
    \A s \in Scenarios : \A r \in Runners : Housed(s.files[r], s.catalog)

-----------------------------------------------------------------------------
(* The surplus of the new schema was there in the old one.                 *)

KeyStays(want, old, new) == new.primaryKey \in {NoPrimaryKey, want.primaryKey, old.primaryKey}

ColumnsKnown(want, had, now) ==
    \A x \in DOMAIN now.columns \ DOMAIN want.columns :
        x \in DOMAIN had.columns /\ now.columns[x].type = had.columns[x].type

UniquesKnown(want, had, now) ==
    now.uniques \ want.uniques \subseteq had.uniques /\ KeyStays(want, had, now)

ForeignKeysKnown(want, had, now) == now.foreignKeys \ want.foreignKeys \subseteq had.foreignKeys

\* Where a run is with the tables of a namespace.
Underway == {"columns", "unique keys read", "foreign keys read"}

HasRead(r, t, stages) ==
    IF pc[r] \in Underway /\ InReach(r, t) THEN pc[r] \in stages
    ELSE NamespaceOf[t] \notin left[r].namespaces

UniquesRead(r, t) == HasRead(r, t, {"unique keys read", "foreign keys read"})
ForeignKeysRead(r, t) == HasRead(r, t, {"foreign keys read"})

TableKnown(r, t) ==
    LET want == files[r].tables[t]
        had == have[r].tables[t]
        now == catalog.tables[t]
    IN  /\ ColumnsKnown(want, had, now)
        /\ UniquesRead(r, t) => UniquesKnown(want, had, now)
        /\ ForeignKeysRead(r, t) => ForeignKeysKnown(want, had, now)

ListedColumns(r) ==
    \A t \in left[r].tables :
        InReach(r, t) /\ (t \in DOMAIN files[r].tables => t \in DOMAIN catalog.tables)

SurplusKnown(r) ==
    /\ catalog.namespaces \subseteq have[r].namespaces \cup CollectDesiredNamespaces(files[r])
    /\ \A t \in DOMAIN catalog.tables \ DOMAIN files[r].tables :
          /\ UniquesRead(r, t) => t \in DOMAIN have[r].tables
          /\ pc[r] = "columns" /\ InReach(r, t) =>
                t \in DOMAIN have[r].tables \cup left[r].tables
    /\ \A t \in DOMAIN files[r].tables \cap DOMAIN have[r].tables : TableKnown(r, t)

Reads == Active \ {"connected"}

Planned(r) ==
    \E orders \in Orders(files[r].groups) :
        /\ plan[r] = Plan(files[r], have[r], orders)
        /\ Disallowed(files[r], have[r], orders) = {}

\* What a run has read is no nearer to the files than the database is, and
\* misses no surplus of it.
ReadInv(r) ==
    /\ Nearer(files[r], have[r], catalog)
    /\ pc[r] \in AtRest \cup {"connected"} => have[r] = EmptySchema
    /\ pc[r] \in Reads => SurplusKnown(r)
    /\ pc[r] = "columns" => ListedColumns(r)
    /\ pc[r] \in HoldsPlan => left[r].namespaces = {} /\ Planned(r)

-----------------------------------------------------------------------------
(* What a statement is for.                                                *)

\* The table is what the files ask for, and nothing else.
TableIs(want, now) ==
    /\ Asked(want, now)
    /\ \A x \in DOMAIN want.columns :
          x \in DOMAIN now.columns /\ now.columns[x] = want.columns[x]
    /\ now.primaryKey = want.primaryKey
    /\ want.uniques \subseteq now.uniques
    /\ want.foreignKeys \subseteq now.foreignKeys

ColumnAltered(want, had, now) ==
    /\ had.type # want.type => now.type = want.type
    /\ had.nullable # want.nullable => now.nullable = want.nullable
    /\ had.default # want.default => now.default = want.default

TableServed(want, had, now, m) ==
    CASE m.kind = "add_column" ->
            m.name \in DOMAIN now.columns /\ now.columns[m.name] = want.columns[m.name]
      [] m.kind = "alter_column" ->
            /\ m.name \in DOMAIN now.columns
            /\ ColumnAltered(want.columns[m.name], had.columns[m.name], now.columns[m.name])
      [] m.kind = "add_primary_key" -> now.primaryKey = want.primaryKey
      [] m.kind = "add_unique_key" ->
            \A u \in want.uniques : u.name = m.name => u \in now.uniques
      [] m.kind = "add_foreign_key" ->
            \A fk \in want.foreignKeys : fk.name = m.name => fk \in now.foreignKeys
      [] m.kind = "drop_column" -> m.name \notin DOMAIN now.columns
      [] m.kind = "drop_unique_key" ->
            \A u \in now.uniques \ want.uniques : u.name # m.name
      [] m.kind = "drop_foreign_key" ->
            \A fk \in now.foreignKeys \ want.foreignKeys : fk.name # m.name

Served(f, h, c, m) ==
    CASE m.kind = "create_schema" -> m.on \in c.namespaces
      [] m.kind = "create_table" ->
            m.on \in DOMAIN c.tables /\ TableIs(f.tables[m.on], c.tables[m.on])
      [] m.kind = "drop_table" -> m.on \notin DOMAIN c.tables
      [] OTHER -> /\ m.on \in DOMAIN c.tables
                  /\ TableServed(f.tables[m.on], h.tables[m.on], c.tables[m.on], m)

ServedInv(r) ==
    pc[r] = "transaction" =>
        /\ Nearer(files[r], catalog, working)
        /\ \A m \in Sent(r) : Served(files[r], have[r], working, m)

ReachInv ==
    \A r \in Runners :
        /\ Housed(files[r], catalog)
        /\ \A t \in DOMAIN files[r].tables : Consistent(files[r].tables[t])
        /\ ReadInv(r) /\ ServedInv(r)

-----------------------------------------------------------------------------
LEMMA TableNearerReflexive ==
    ASSUME NEW want, NEW a
    PROVE  TableNearer(want, a, a)
BY DEF TableNearer, ColumnNearer, Named

LEMMA TableNearerOn ==
    ASSUME NEW want, NEW a, NEW b, NEW c, TableNearer(want, a, b), TableNearer(want, b, c)
    PROVE  TableNearer(want, a, c)
BY DEF TableNearer, ColumnNearer, Named

LEMMA NearerReflexive ==
    ASSUME NEW f, NEW c
    PROVE  Nearer(f, c, c)
BY TableNearerReflexive DEF Nearer

LEMMA NearerOn ==
    ASSUME NEW f, NEW c, NEW w, NEW d, Nearer(f, c, w), Nearer(f, w, d)
    PROVE  Nearer(f, c, d)
BY TableNearerOn DEF Nearer

\* A table that only gains keys is no farther from any wish.
LEMMA KeysAddedNearer ==
    ASSUME NEW want, NEW old, NEW new, new.columns = old.columns,
           new.primaryKey = old.primaryKey, old.uniques \subseteq new.uniques,
           old.foreignKeys \subseteq new.foreignKeys
    PROVE  TableNearer(want, old, new)
BY DEF TableNearer, ColumnNearer, Named

LEMMA AddColumnNearer ==
    ASSUME NEW t, IsTable(t), NEW want, NEW x \in DOMAIN want.columns, x \notin DOMAIN t.columns
    PROVE  LET new == [t EXCEPT !.columns = With(@, x, want.columns[x])]
           IN  /\ TableNearer(want, t, new)
               /\ x \in DOMAIN new.columns /\ new.columns[x] = want.columns[x]
<1> DEFINE cs == With(t.columns, x, want.columns[x])
           new == [t EXCEPT !.columns = With(@, x, want.columns[x])]
<1>1. /\ DOMAIN cs = DOMAIN t.columns \cup {x} /\ cs[x] = want.columns[x]
      /\ \A z \in DOMAIN t.columns : z # x => cs[z] = t.columns[z]
    BY DEF With
<1> HIDE DEF cs
<1>2. new = [columns |-> cs, primaryKey |-> t.primaryKey,
             uniques |-> t.uniques, foreignKeys |-> t.foreignKeys, removed |-> t.removed]
    BY DEF IsTable, cs
<1>3. /\ new.columns = cs /\ new.primaryKey = t.primaryKey
      /\ new.uniques = t.uniques /\ new.foreignKeys = t.foreignKeys
    BY <1>2
<1> HIDE DEF new
<1>4. TableNearer(want, t, new)
    BY <1>1, <1>3 DEF TableNearer, ColumnNearer, Named
<1>5. x \in DOMAIN new.columns /\ new.columns[x] = want.columns[x]
    BY <1>1, <1>3
<1> QED
    BY <1>4, <1>5 DEF new

LEMMA AlterColumnNearer ==
    ASSUME NEW t, IsTable(t), NEW want, NEW x \in DOMAIN want.columns, x \in DOMAIN t.columns,
           NEW had
    PROVE  LET new == [t EXCEPT !.columns[x] = AlteredColumn(@, had, want.columns[x])]
           IN  /\ TableNearer(want, t, new)
               /\ x \in DOMAIN new.columns
               /\ ColumnAltered(want.columns[x], had, new.columns[x])
<1> DEFINE w == want.columns[x]
           y == AlteredColumn(t.columns[x], had, w)
           cs == [t.columns EXCEPT ![x] = y]
           new == [t EXCEPT !.columns = cs]
<1>1. [t EXCEPT !.columns[x] = AlteredColumn(@, had, want.columns[x])] = new
    OBVIOUS
<1>2. ColumnNearer(w, t.columns[x], y)
    <2>1. y.type = w.type \/ y.type = t.columns[x].type
        BY DEF AlteredColumn
    <2>2. y.nullable = w.nullable \/ y.nullable = t.columns[x].nullable
        BY DEF AlteredColumn
    <2>3. y.default = w.default \/ y.default = t.columns[x].default
        BY DEF AlteredColumn
    <2> HIDE DEF y
    <2> QED
        BY <2>1, <2>2, <2>3 DEF ColumnNearer
<1>3. ColumnAltered(w, had, y)
    BY DEF ColumnAltered, AlteredColumn
<1> HIDE DEF y
<1>4. /\ DOMAIN cs = DOMAIN t.columns /\ cs[x] = y
      /\ \A z \in DOMAIN t.columns : z # x => cs[z] = t.columns[z]
    BY TableRecord DEF IsMapTo
<1> HIDE DEF cs
<1>5. new = [columns |-> cs, primaryKey |-> t.primaryKey,
             uniques |-> t.uniques, foreignKeys |-> t.foreignKeys, removed |-> t.removed]
    BY DEF IsTable
<1>6. /\ new.columns = cs /\ new.primaryKey = t.primaryKey
      /\ new.uniques = t.uniques /\ new.foreignKeys = t.foreignKeys
    BY <1>5
<1> HIDE DEF new
<1>7. \A z \in DOMAIN want.columns \cap DOMAIN t.columns :
          /\ z \in DOMAIN new.columns
          /\ ColumnNearer(want.columns[z], t.columns[z], new.columns[z])
    BY <1>2, <1>4, <1>6 DEF ColumnNearer
<1>8. TableNearer(want, t, new)
    BY <1>6, <1>7 DEF TableNearer, Named
<1> QED
    BY <1>1, <1>3, <1>4, <1>6, <1>8

\* A primary key sets NOT NULL where the files want it too.
LEMMA PrimaryKeyNearer ==
    ASSUME NEW t, IsTable(t), NEW want, IsTable(want), Consistent(want)
    PROVE  LET new == WithPrimaryKey(t, want.primaryKey)
           IN  TableNearer(want, t, new) /\ new.primaryKey = want.primaryKey
<1> DEFINE new == WithPrimaryKey(t, want.primaryKey)
<1>1. /\ DOMAIN new.columns = DOMAIN t.columns
      /\ new.primaryKey = want.primaryKey /\ new.uniques = t.uniques
      /\ new.foreignKeys = t.foreignKeys
    BY WithPrimaryKeyParts
<1>2. new.columns = NotNull(t.columns, want.primaryKey)
    BY WithPrimaryKeyColumns
<1> HIDE DEF new
<1>3. ASSUME NEW x \in DOMAIN want.columns \cap DOMAIN t.columns
      PROVE  ColumnNearer(want.columns[x], t.columns[x], new.columns[x])
    <2> DEFINE key == want.primaryKey
    <2>0. /\ NotNull(t.columns, key)[x].type = t.columns[x].type
          /\ NotNull(t.columns, key)[x].default = t.columns[x].default
          /\ x \in Elements(key) => NotNull(t.columns, key)[x].nullable = FALSE
          /\ x \notin Elements(key) => NotNull(t.columns, key)[x] = t.columns[x]
        BY <1>3, NotNullColumns
    <2>1. CASE x \in Elements(want.primaryKey)
        <3>1. /\ new.columns[x].type = t.columns[x].type
              /\ new.columns[x].default = t.columns[x].default
              /\ new.columns[x].nullable = FALSE
            BY <1>2, <2>0, <2>1
        <3>2. want.columns[x].nullable = FALSE
            <4>1. want.columns[x].nullable \in BOOLEAN
                BY <1>3, TableParts DEF Column
            <4> QED
                BY <2>1, <4>1 DEF Consistent
        <3> QED
            BY <3>1, <3>2 DEF ColumnNearer
    <2>2. CASE x \notin Elements(want.primaryKey)
        BY <1>2, <2>0, <2>2 DEF ColumnNearer
    <2> QED
        BY <2>1, <2>2
<1>4. TableNearer(want, t, new)
    BY <1>1, <1>3 DEF TableNearer, Named
<1> QED
    BY <1>1, <1>4 DEF new

\* A table as CREATE TABLE stores it is what the files ask for.
LEMMA StoredIsWanted ==
    ASSUME NEW want, IsTable(want), Consistent(want)
    PROVE  TableIs(want, Stored(want))
<1> DEFINE new == Stored(want)
<1>1. /\ DOMAIN new.columns = DOMAIN want.columns /\ new.uniques = want.uniques
      /\ new.foreignKeys = want.foreignKeys
    BY StoredParts
<1>2. new.columns = NotNull(want.columns, want.primaryKey) /\ new.primaryKey = want.primaryKey
    BY StoredColumns
<1> HIDE DEF new
<1>3. ASSUME NEW x \in DOMAIN want.columns
      PROVE  new.columns[x] = want.columns[x]
    <2>1. CASE x \in Elements(want.primaryKey)
        <3>1. want.columns[x] \in Column /\ ~want.columns[x].nullable
            BY <1>3, <2>1, TableParts DEF Consistent
        <3>2. [want.columns[x] EXCEPT !.nullable = FALSE] = want.columns[x]
            BY <3>1 DEF Column
        <3> QED
            BY <1>2, <1>3, <2>1, <3>2 DEF NotNull
    <2>2. CASE x \notin Elements(want.primaryKey)
        <3>1. NotNull(want.columns, want.primaryKey)[x] = want.columns[x]
            BY <1>3, <2>2, NotNullColumns
        <3> QED
            BY <1>2, <3>1
    <2> QED
        BY <2>1, <2>2
<1>4. TableIs(want, new)
    BY <1>1, <1>2, <1>3 DEF TableIs, Asked
<1> QED
    BY <1>4 DEF new

-----------------------------------------------------------------------------
(* Every statement serves its purpose, and undoes nothing that is wanted.  *)

AllConsistent(f) == \A t \in DOMAIN f.tables : Consistent(f.tables[t])

OnOneTable == {"add_column", "alter_column", "add_primary_key", "add_unique_key",
               "add_foreign_key", "drop_column", "drop_unique_key", "drop_foreign_key"}

LEMMA TableReaches ==
    ASSUME NEW c, NEW d, NEW f, NEW h, NEW m, m.kind \in OnOneTable, m.on \in DOMAIN c.tables,
           d.namespaces = c.namespaces, DOMAIN d.tables = DOMAIN c.tables,
           \A s \in DOMAIN c.tables : s # m.on => d.tables[s] = c.tables[s],
           TableNearer(f.tables[m.on], c.tables[m.on], d.tables[m.on]),
           TableServed(f.tables[m.on], h.tables[m.on], d.tables[m.on], m)
    PROVE  Nearer(f, c, d) /\ Served(f, h, d, m)
<1>1. Nearer(f, c, d)
    BY TableNearerReflexive DEF Nearer
<1>2. Served(f, h, d, m)
    BY DEF Served, OnOneTable
<1> QED
    BY <1>1, <1>2

LEMMA OnTableReaches ==
    ASSUME NEW c, IsCatalog(c), NEW f, NEW h, NEW m, m.kind \in OnOneTable,
           m.on \in DOMAIN c.tables, NEW x, TableNearer(f.tables[m.on], c.tables[m.on], x),
           TableServed(f.tables[m.on], h.tables[m.on], x, m)
    PROVE  LET d == OnTable(c, m.on, x) IN Nearer(f, c, d) /\ Served(f, h, d, m)
<1> DEFINE d == OnTable(c, m.on, x)
<1>1. /\ d.namespaces = c.namespaces /\ DOMAIN d.tables = DOMAIN c.tables /\ d.tables[m.on] = x
      /\ \A s \in DOMAIN c.tables : s # m.on => d.tables[s] = c.tables[s]
    BY OnTableParts
<1> HIDE DEF d
<1>2. Nearer(f, c, d) /\ Served(f, h, d, m)
    BY <1>1, TableReaches
<1> QED
    BY <1>2 DEF d

LEMMA WantedUniqueIs ==
    ASSUME NEW f, NEW t, NamesApart(f.tables[t]), NEW u \in f.tables[t].uniques
    PROVE  WantedUnique(f, t, u.name) = u
BY DEF WantedUnique, NamesApart

LEMMA WantedForeignKeyIs ==
    ASSUME NEW f, NEW t, NamesApart(f.tables[t]), NEW fk \in f.tables[t].foreignKeys
    PROVE  WantedForeignKey(f, t, fk.name) = fk
BY DEF WantedForeignKey, NamesApart

LEMMA AddsToTable ==
    ASSUME NEW c, IsCatalog(c), NEW f, IsFiles(f), NEW h, NEW m,
           m.kind \in Adding \ {"create_schema", "create_table"},
           m.on \in DOMAIN f.tables, JustifiedInTable(f, h, m),
           m.on \in DOMAIN c.tables, AlterTableAccepts(c, m, f, h), Consistent(f.tables[m.on])
    PROVE  LET d == AlterTableEffect(c, m, f, h) IN Nearer(f, c, d) /\ Served(f, h, d, m)
<1> DEFINE t == m.on
           table == c.tables[t]
           want == f.tables[t]
           had == h.tables[t]
<1>1. IsTable(table) /\ IsTable(want) /\ m.kind \in OnOneTable
    BY CatalogRecord, FilesParts DEF Adding, OnOneTable
<1>2. SUFFICES \E x : /\ AlterTableEffect(c, m, f, h) = OnTable(c, t, x)
                      /\ TableNearer(want, table, x) /\ TableServed(want, had, x, m)
    BY <1>1, OnTableReaches
<1>3. CASE m.kind = "add_column"
    <2> DEFINE x == [table EXCEPT !.columns = With(@, m.name, want.columns[m.name])]
    <2>1. m.name \in DOMAIN want.columns /\ m.name \notin DOMAIN table.columns
        BY <1>3 DEF JustifiedInTable, AlterTableAccepts
    <2>2. LET new == [table EXCEPT !.columns = With(@, m.name, want.columns[m.name])]
          IN  /\ TableNearer(want, table, new)
              /\ m.name \in DOMAIN new.columns /\ new.columns[m.name] = want.columns[m.name]
        <3> HIDE DEF want, table
        <3> QED
            BY <1>1, <2>1, AddColumnNearer
    <2>3. AlterTableEffect(c, m, f, h) = OnTable(c, t, x)
        BY <1>3 DEF AlterTableEffect
    <2>4. /\ TableNearer(want, table, x)
          /\ m.name \in DOMAIN x.columns /\ x.columns[m.name] = want.columns[m.name]
        BY <2>2
    <2> HIDE DEF x
    <2>5. TableServed(want, had, x, m)
        BY <1>3, <2>4 DEF TableServed
    <2> QED
        BY <2>3, <2>4, <2>5
<1>4. CASE m.kind = "alter_column"
    <2> DEFINE x == [table EXCEPT !.columns[m.name] =
                        AlteredColumn(@, had.columns[m.name], want.columns[m.name])]
    <2>1. m.name \in DOMAIN want.columns /\ m.name \in DOMAIN table.columns
        BY <1>4 DEF JustifiedInTable, AlterTableAccepts
    <2>2. /\ TableNearer(want, table, x) /\ m.name \in DOMAIN x.columns
          /\ ColumnAltered(want.columns[m.name], had.columns[m.name], x.columns[m.name])
        BY <1>1, <2>1, AlterColumnNearer
    <2>3. AlterTableEffect(c, m, f, h) = OnTable(c, t, x)
        BY <1>4 DEF AlterTableEffect
    <2> HIDE DEF x
    <2>4. TableServed(want, had, x, m)
        BY <1>4, <2>2 DEF TableServed
    <2> QED
        BY <2>2, <2>3, <2>4
<1>5. CASE m.kind = "add_primary_key"
    <2> DEFINE x == WithPrimaryKey(table, want.primaryKey)
    <2>1. TableNearer(want, table, x) /\ x.primaryKey = want.primaryKey
        BY <1>1, PrimaryKeyNearer
    <2>2. AlterTableEffect(c, m, f, h) = OnTable(c, t, x)
        BY <1>5 DEF AlterTableEffect
    <2> HIDE DEF x
    <2>3. TableServed(want, had, x, m)
        BY <1>5, <2>1 DEF TableServed
    <2> QED
        BY <2>1, <2>2, <2>3
<1>6. CASE m.kind = "add_unique_key"
    <2> DEFINE u == WantedUnique(f, t, m.name)
               x == [table EXCEPT !.uniques = @ \cup {u}]
    <2>1. AlterTableEffect(c, m, f, h) = OnTable(c, t, x)
        BY <1>6 DEF AlterTableEffect
    <2>2. \A v \in want.uniques : v.name = m.name => v = u
        BY WantedUniqueIs DEF Consistent
    <2> HIDE DEF u
    <2>3. /\ x.columns = table.columns /\ x.primaryKey = table.primaryKey
          /\ x.uniques = table.uniques \cup {u} /\ x.foreignKeys = table.foreignKeys
        BY <1>1 DEF IsTable
    <2> HIDE DEF x
    <2>4. TableNearer(want, table, x)
        BY <2>3, KeysAddedNearer
    <2>5. TableServed(want, had, x, m)
        BY <1>6, <2>2, <2>3 DEF TableServed
    <2> QED
        BY <2>1, <2>4, <2>5
<1>7. CASE m.kind = "add_foreign_key"
    <2> DEFINE fk == WantedForeignKey(f, t, m.name)
               x == [table EXCEPT !.foreignKeys = @ \cup {fk}]
    <2>1. AlterTableEffect(c, m, f, h) = OnTable(c, t, x)
        BY <1>7 DEF AlterTableEffect
    <2>2. \A v \in want.foreignKeys : v.name = m.name => v = fk
        BY WantedForeignKeyIs DEF Consistent
    <2> HIDE DEF fk
    <2>3. /\ x.columns = table.columns /\ x.primaryKey = table.primaryKey
          /\ x.uniques = table.uniques /\ x.foreignKeys = table.foreignKeys \cup {fk}
        BY <1>1 DEF IsTable
    <2> HIDE DEF x
    <2>4. TableNearer(want, table, x)
        BY <2>3, KeysAddedNearer
    <2>5. TableServed(want, had, x, m)
        BY <1>7, <2>2, <2>3 DEF TableServed
    <2> QED
        BY <2>1, <2>4, <2>5
<1> QED
    BY <1>3, <1>4, <1>5, <1>6, <1>7 DEF Adding

LEMMA AddingReaches ==
    ASSUME NEW c, IsCatalog(c), NEW f, IsFiles(f), AllConsistent(f), NEW h, NEW m,
           m.kind \in Adding, Justified(f, h, m), Accepts(c, m, f, h)
    PROVE  LET d == Effect(c, m, f, h) IN Nearer(f, c, d) /\ Served(f, h, d, m)
<1> DEFINE t == m.on
           d == Effect(c, m, f, h)
<1>1. CASE m.kind = "create_schema"
    <2>1. d = [namespaces |-> c.namespaces \cup {m.on}, tables |-> c.tables,
               indexes |-> c.indexes]
        BY <1>1 DEF Effect, IsCatalog
    <2> HIDE DEF d
    <2>2. Nearer(f, c, d)
        BY <2>1, TableNearerReflexive DEF Nearer
    <2>3. Served(f, h, d, m)
        BY <1>1, <2>1 DEF Served
    <2> QED
        BY <2>2, <2>3 DEF d
<1>2. CASE m.kind = "create_table"
    <2> DEFINE x == Stored(f.tables[t])
               ts == With(c.tables, t, x)
    <2>1. t \in DOMAIN f.tables /\ t \notin DOMAIN c.tables
        BY <1>2 DEF Justified, Accepts, CreateTableAccepted
    <2>2. IsTable(f.tables[t]) /\ TableIs(f.tables[t], x)
        BY <2>1, FilesParts, StoredIsWanted DEF AllConsistent
    <2>3. d = [c EXCEPT !.tables = ts]
        BY <1>2 DEF Effect
    <2> HIDE DEF x
    <2>4. DOMAIN ts = DOMAIN c.tables \cup {t} /\ ts[t] = x
          /\ \A s \in DOMAIN c.tables : ts[s] = c.tables[s]
        BY <2>1 DEF With
    <2> HIDE DEF ts
    <2>5. [c EXCEPT !.tables = ts] =
             [namespaces |-> c.namespaces, tables |-> ts, indexes |-> c.indexes]
        BY DEF IsCatalog
    <2>6. d.namespaces = c.namespaces /\ d.tables = ts
        BY <2>3, <2>5
    <2> HIDE DEF d
    <2>7. Nearer(f, c, d)
        BY <2>4, <2>6, TableNearerReflexive DEF Nearer
    <2>8. Served(f, h, d, m)
        BY <1>2, <2>2, <2>4, <2>6 DEF Served
    <2> QED
        BY <2>7, <2>8 DEF d
<1>3. CASE m.kind \in Adding \ {"create_schema", "create_table"}
    <2>1. t \in DOMAIN f.tables /\ JustifiedInTable(f, h, m)
        BY <1>3 DEF Justified, Adding
    <2>2. t \in DOMAIN c.tables /\ AlterTableAccepts(c, m, f, h)
        BY <1>3 DEF Accepts, Adding
    <2>3. d = AlterTableEffect(c, m, f, h)
        BY <1>3 DEF Effect, Adding
    <2> QED
        BY <1>3, <2>1, <2>2, <2>3, AddsToTable DEF AllConsistent
<1> QED
    BY <1>1, <1>2, <1>3

\* No constraint of the table has the name of a wanted one without being it.
NoClash(want, now) ==
    /\ \A u \in now.uniques \ want.uniques, w \in want.uniques : u.name # w.name
    /\ \A fk \in now.foreignKeys \ want.foreignKeys, w \in want.foreignKeys : fk.name # w.name

\* A drop takes nothing whose name the files use.
Spares(want, now, m) ==
    /\ m.kind = "drop_column" => NoClash(want, now)
    /\ m.kind \in {"drop_unique_key", "drop_foreign_key"} =>
          \A w \in want.uniques \cup want.foreignKeys : w.name # m.name

LEMMA DropColumnReaches ==
    ASSUME NEW c, IsCatalog(c), NEW f, NEW h, NEW m, m.kind = "drop_column",
           m.on \in DOMAIN c.tables, m.name \notin DOMAIN f.tables[m.on].columns,
           Consistent(f.tables[m.on]), NoClash(f.tables[m.on], c.tables[m.on]),
           NEW d, d = DropColumn(c, m.on, m.name)
    PROVE  Nearer(f, c, d) /\ Served(f, h, d, m)
<1> DEFINE t == m.on
           want == f.tables[t]
           old == c.tables[t]
           new == d.tables[t]
<1>1. /\ d.namespaces = c.namespaces /\ DOMAIN d.tables = DOMAIN c.tables
      /\ \A s \in DOMAIN c.tables : s # t => d.tables[s] = c.tables[s]
      /\ DOMAIN new.columns = DOMAIN old.columns \ {m.name}
      /\ \A y \in DOMAIN new.columns : new.columns[y] = old.columns[y]
      /\ m.name \notin Elements(old.primaryKey) => new.primaryKey = old.primaryKey
      /\ new.uniques = {u \in old.uniques : m.name \notin Elements(u.columns)}
      /\ new.foreignKeys = {fk \in old.foreignKeys : m.name \notin Elements(fk.columns)}
    BY DropColumnParts
<1>2. /\ m.name \notin Elements(want.primaryKey)
      /\ \A u \in want.uniques : m.name \notin Elements(u.columns)
      /\ \A fk \in want.foreignKeys : m.name \notin Elements(fk.columns)
    BY DEF Consistent
<1>3. Named(want.uniques, old.uniques) \subseteq new.uniques
    BY <1>1, <1>2 DEF Named, NoClash
<1>4. Named(want.foreignKeys, old.foreignKeys) \subseteq new.foreignKeys
    BY <1>1, <1>2 DEF Named, NoClash
<1>5. old.primaryKey = want.primaryKey => new.primaryKey = want.primaryKey
    BY <1>1, <1>2
<1>6. \A x \in DOMAIN want.columns \cap DOMAIN old.columns :
          x \in DOMAIN new.columns /\ new.columns[x] = old.columns[x]
    BY <1>1
<1>7. TableNearer(want, old, new)
    BY <1>3, <1>4, <1>5, <1>6 DEF TableNearer, ColumnNearer
<1>8. TableServed(want, h.tables[t], new, m)
    BY <1>1 DEF TableServed
<1>9. m.kind \in OnOneTable
    BY DEF OnOneTable
<1>10. /\ d.namespaces = c.namespaces /\ DOMAIN d.tables = DOMAIN c.tables
       /\ \A s \in DOMAIN c.tables : s # m.on => d.tables[s] = c.tables[s]
    BY <1>1
<1> QED
    BY <1>7, <1>8, <1>9, <1>10, TableReaches

LEMMA DropConstraintReaches ==
    ASSUME NEW c, IsCatalog(c), NEW f, NEW h, NEW m, m.kind \in {"drop_unique_key", "drop_foreign_key"},
           m.on \in DOMAIN c.tables,
           \A w \in f.tables[m.on].uniques \cup f.tables[m.on].foreignKeys : w.name # m.name,
           NEW d, d = OnTable(c, m.on, DropConstraint(c.tables[m.on], m.name))
    PROVE  Nearer(f, c, d) /\ Served(f, h, d, m)
<1> DEFINE want == f.tables[m.on]
           old == c.tables[m.on]
           new == DropConstraint(old, m.name)
<1>1. IsTable(old)
    BY CatalogRecord
<1>2. /\ new.columns = old.columns /\ new.primaryKey = old.primaryKey
      /\ new.uniques = {u \in old.uniques : u.name # m.name}
      /\ new.foreignKeys = {fk \in old.foreignKeys : fk.name # m.name}
    BY <1>1, DropConstraintParts
<1> HIDE DEF new
<1>3. TableNearer(want, old, new)
    BY <1>2 DEF TableNearer, ColumnNearer, Named
<1>4. TableServed(want, h.tables[m.on], new, m)
    BY <1>2 DEF TableServed
<1>5. m.kind \in OnOneTable
    BY DEF OnOneTable
<1>6. d = OnTable(c, m.on, new)
    BY DEF new
<1> HIDE DEF new
<1>7. LET e == OnTable(c, m.on, new) IN Nearer(f, c, e) /\ Served(f, h, e, m)
    BY <1>3, <1>4, <1>5, OnTableReaches
<1> QED
    BY <1>6, <1>7

LEMMA TakingReaches ==
    ASSUME NEW c, IsCatalog(c), NEW f, AllConsistent(f), NEW h, NEW m, m.kind \in Taking,
           Justified(f, h, m), Accepts(c, m, f, h),
           m.kind # "drop_table" => Spares(f.tables[m.on], c.tables[m.on], m)
    PROVE  LET d == Effect(c, m, f, h) IN Nearer(f, c, d) /\ Served(f, h, d, m)
<1> DEFINE t == m.on
           d == Effect(c, m, f, h)
<1>1. CASE m.kind = "drop_table"
    <2>1. t \notin DOMAIN f.tables
        BY <1>1 DEF Justified, MayLoseTable
    <2>2. d = DropTable(c, t)
        BY <1>1 DEF Effect
    <2>3. /\ d.namespaces = c.namespaces /\ DOMAIN d.tables = DOMAIN c.tables \ {t}
          /\ \A s \in DOMAIN d.tables : d.tables[s] = c.tables[s]
        BY <2>2, DropTableParts
    <2> HIDE DEF d
    <2>4. Nearer(f, c, d)
        BY <2>1, <2>3, TableNearerReflexive DEF Nearer
    <2>5. Served(f, h, d, m)
        BY <1>1, <2>3 DEF Served
    <2> QED
        BY <2>4, <2>5 DEF d
<1>2. CASE m.kind = "drop_column"
    <2>1. t \in DOMAIN f.tables /\ JustifiedInTable(f, h, m)
        BY <1>2 DEF Justified
    <2>2. m.name \notin DOMAIN f.tables[t].columns
        BY <1>2, <2>1 DEF JustifiedInTable, MayLoseColumn
    <2>3. t \in DOMAIN c.tables
        BY <1>2 DEF Accepts
    <2>4. d = AlterTableEffect(c, m, f, h)
        BY <1>2 DEF Effect
    <2>5. d = IF m.name \in DOMAIN c.tables[t].columns THEN DropColumn(c, t, m.name) ELSE c
        BY <1>2, <2>4 DEF AlterTableEffect
    <2>6. CASE m.name \in DOMAIN c.tables[t].columns
        BY <1>2, <2>1, <2>2, <2>3, <2>5, <2>6, DropColumnReaches DEF Spares, AllConsistent
    <2>7. CASE m.name \notin DOMAIN c.tables[t].columns
        <3>1. TableServed(f.tables[t], h.tables[t], c.tables[t], m)
            BY <1>2, <2>7 DEF TableServed
        <3>2. Served(f, h, c, m)
            BY <1>2, <2>3, <3>1 DEF Served
        <3> QED
            BY <2>5, <2>7, <3>2, NearerReflexive
    <2> QED
        BY <2>6, <2>7
<1>3. CASE m.kind \in {"drop_unique_key", "drop_foreign_key"}
    <2>1. t \in DOMAIN c.tables
        BY <1>3 DEF Accepts
    <2>2. d = AlterTableEffect(c, m, f, h)
        BY <1>3 DEF Effect
    <2>3. d = OnTable(c, t, DropConstraint(c.tables[t], m.name))
        BY <1>3, <2>2 DEF AlterTableEffect
    <2>4. \A w \in f.tables[t].uniques \cup f.tables[t].foreignKeys : w.name # m.name
        BY <1>3 DEF Spares
    <2> HIDE DEF d
    <2>5. Nearer(f, c, d) /\ Served(f, h, d, m)
        BY <1>3, <2>1, <2>3, <2>4, DropConstraintReaches
    <2> QED
        BY <2>5 DEF d
<1> QED
    BY <1>1, <1>2, <1>3 DEF Taking

-----------------------------------------------------------------------------
(* What a statement has done, no later one undoes.                         *)

LEMMA ColumnIs ==
    ASSUME NEW a \in Column, NEW b \in Column, a.type = b.type, a.nullable = b.nullable,
           a.default = b.default
    PROVE  a = b
BY DEF Column

LEMMA ColumnStaysWanted ==
    ASSUME NEW want, IsTable(want), NEW a, NEW b, IsTable(b), TableNearer(want, a, b),
           NEW x \in DOMAIN want.columns, x \in DOMAIN a.columns, a.columns[x] = want.columns[x]
    PROVE  x \in DOMAIN b.columns /\ b.columns[x] = want.columns[x]
<1>1. x \in DOMAIN b.columns /\ ColumnNearer(want.columns[x], a.columns[x], b.columns[x])
    BY DEF TableNearer
<1>2. b.columns[x] \in Column /\ want.columns[x] \in Column
    BY <1>1, TableParts
<1> QED
    BY <1>1, <1>2, ColumnIs DEF ColumnNearer

LEMMA KeyStaysWanted ==
    ASSUME NEW want, NEW a, NEW b, TableNearer(want, a, b), TableStaysOpen(want, a, b),
           a.primaryKey = want.primaryKey
    PROVE  b.primaryKey = want.primaryKey
BY DEF TableNearer, TableStaysOpen

LEMMA TableIsOn ==
    ASSUME NEW want, IsTable(want), NEW a, NEW b, IsTable(b), TableNearer(want, a, b),
           TableStaysOpen(want, a, b), TableEvolves(want, a, b), TableIs(want, a)
    PROVE  TableIs(want, b)
<1>1. Asked(want, b)
    BY AskedEvolvesOn DEF TableIs
<1>2. \A x \in DOMAIN want.columns : x \in DOMAIN b.columns /\ b.columns[x] = want.columns[x]
    BY ColumnStaysWanted DEF TableIs
<1>3. b.primaryKey = want.primaryKey
    BY KeyStaysWanted DEF TableIs
<1>4. want.uniques \subseteq b.uniques /\ want.foreignKeys \subseteq b.foreignKeys
    BY DEF TableIs, TableNearer, Named
<1> QED
    BY <1>1, <1>2, <1>3, <1>4 DEF TableIs

\* Where the part of a table that a statement is about is found in the files.
Concerns(want, m) ==
    /\ m.kind \in {"add_column", "alter_column"} => m.name \in DOMAIN want.columns
    /\ m.kind = "drop_column" => m.name \notin DOMAIN want.columns

LEMMA TableServedOn ==
    ASSUME NEW want, IsTable(want), NEW had, NEW a, NEW b, IsTable(b), TableNearer(want, a, b),
           TableStaysOpen(want, a, b), TableEvolves(want, a, b), NEW m, m.kind \in OnOneTable,
           Concerns(want, m), TableServed(want, had, a, m)
    PROVE  TableServed(want, had, b, m)
<1>1. CASE m.kind = "add_column"
    BY <1>1, ColumnStaysWanted DEF TableServed, Concerns
<1>2. CASE m.kind = "alter_column"
    <2> DEFINE x == m.name
    <2>1. /\ x \in DOMAIN want.columns /\ x \in DOMAIN a.columns
          /\ ColumnAltered(want.columns[x], had.columns[x], a.columns[x])
        BY <1>2 DEF TableServed, Concerns
    <2>2. x \in DOMAIN b.columns /\ ColumnNearer(want.columns[x], a.columns[x], b.columns[x])
        BY <2>1 DEF TableNearer
    <2>3. ColumnAltered(want.columns[x], had.columns[x], b.columns[x])
        BY <2>1, <2>2 DEF ColumnAltered, ColumnNearer
    <2> QED
        BY <1>2, <2>2, <2>3 DEF TableServed
<1>3. CASE m.kind = "add_primary_key"
    BY <1>3, KeyStaysWanted DEF TableServed
<1>4. CASE m.kind = "add_unique_key"
    BY <1>4 DEF TableServed, TableNearer, Named
<1>5. CASE m.kind = "add_foreign_key"
    BY <1>5 DEF TableServed, TableNearer, Named
<1>6. CASE m.kind = "drop_column"
    BY <1>6 DEF TableServed, Concerns, TableEvolves
<1>7. CASE m.kind = "drop_unique_key"
    BY <1>7 DEF TableServed, TableEvolves
<1>8. CASE m.kind = "drop_foreign_key"
    BY <1>8 DEF TableServed, TableEvolves
<1> QED
    BY <1>1, <1>2, <1>3, <1>4, <1>5, <1>6, <1>7, <1>8 DEF OnOneTable

LEMMA ServedOn ==
    ASSUME NEW f, IsFiles(f), NEW h, NEW c, NEW d, IsCatalog(d), Nearer(f, c, d),
           Evolves(f, c, d), StaysOpen(f, c, d), NEW m, m.kind \in Adding \cup Taking,
           Justified(f, h, m), Served(f, h, c, m)
    PROVE  Served(f, h, d, m)
<1> DEFINE t == m.on
<1>1. ASSUME t \in DOMAIN f.tables, t \in DOMAIN c.tables
      PROVE  /\ IsTable(f.tables[t]) /\ t \in DOMAIN d.tables /\ IsTable(d.tables[t])
             /\ TableNearer(f.tables[t], c.tables[t], d.tables[t])
             /\ TableStaysOpen(f.tables[t], c.tables[t], d.tables[t])
             /\ TableEvolves(f.tables[t], c.tables[t], d.tables[t])
    <2>1. t \in DOMAIN d.tables /\ TableNearer(f.tables[t], c.tables[t], d.tables[t])
        BY <1>1 DEF Nearer
    <2>2. IsTable(f.tables[t]) /\ IsTable(d.tables[t])
        BY <1>1, <2>1, FilesParts, CatalogRecord
    <2>3. TableStaysOpen(f.tables[t], c.tables[t], d.tables[t])
        BY <1>1, <2>1 DEF StaysOpen
    <2>4. TableEvolves(f.tables[t], c.tables[t], d.tables[t])
        BY <1>1, <2>1 DEF Evolves
    <2> QED
        BY <2>1, <2>2, <2>3, <2>4
<1>2. CASE m.kind = "create_schema"
    <2>1. m.on \in CollectDesiredNamespaces(f) /\ m.on \in c.namespaces
        BY <1>2 DEF Justified, Served
    <2>2. m.on \in d.namespaces
        BY <2>1 DEF Nearer
    <2> QED
        BY <1>2, <2>2 DEF Served
<1>3. CASE m.kind = "create_table"
    <2>1. t \in DOMAIN f.tables /\ t \in DOMAIN c.tables /\ TableIs(f.tables[t], c.tables[t])
        BY <1>3 DEF Justified, Served
    <2>2. t \in DOMAIN d.tables /\ TableIs(f.tables[t], d.tables[t])
        BY <1>1, <2>1, TableIsOn
    <2> QED
        BY <1>3, <2>2 DEF Served
<1>4. CASE m.kind = "drop_table"
    <2>1. t \notin DOMAIN f.tables /\ t \notin DOMAIN c.tables
        BY <1>4 DEF Justified, MayLoseTable, Served
    <2>2. t \notin DOMAIN d.tables
        BY <2>1 DEF Evolves
    <2> QED
        BY <1>4, <2>2 DEF Served
<1>5. CASE m.kind \in OnOneTable
    <2>1. t \in DOMAIN f.tables /\ JustifiedInTable(f, h, m)
        BY <1>5 DEF Justified, OnOneTable
    <2>2. t \in DOMAIN c.tables /\ TableServed(f.tables[t], h.tables[t], c.tables[t], m)
        BY <1>5 DEF Served, OnOneTable
    <2>3. Concerns(f.tables[t], m)
        BY <2>1 DEF Concerns, JustifiedInTable, MayLoseColumn
    <2>4. t \in DOMAIN d.tables /\ TableServed(f.tables[t], h.tables[t], d.tables[t], m)
        BY <1>1, <1>5, <2>1, <2>2, <2>3, TableServedOn
    <2> QED
        BY <1>5, <2>4 DEF Served, OnOneTable
<1> QED
    BY <1>2, <1>3, <1>4, <1>5 DEF Adding, Taking, OnOneTable

-----------------------------------------------------------------------------
(* A plan that is executed to the end brings the tables to what the files  *)
(* ask for, whatever other runs did since its run read the database.       *)

Known(f, h, c) ==
    /\ c.namespaces \subseteq h.namespaces \cup CollectDesiredNamespaces(f)
    /\ DOMAIN c.tables \ DOMAIN f.tables \subseteq DOMAIN h.tables
    /\ \A t \in DOMAIN f.tables \cap DOMAIN h.tables :
          /\ ColumnsKnown(f.tables[t], h.tables[t], c.tables[t])
          /\ UniquesKnown(f.tables[t], h.tables[t], c.tables[t])
          /\ ForeignKeysKnown(f.tables[t], h.tables[t], c.tables[t])

LEMMA TableKnownOn ==
    ASSUME NEW want, NEW had, NEW a, NEW b, TableEvolves(want, a, b), TableStaysOpen(want, a, b)
    PROVE  /\ ColumnsKnown(want, had, a) => ColumnsKnown(want, had, b)
           /\ UniquesKnown(want, had, a) => UniquesKnown(want, had, b)
           /\ ForeignKeysKnown(want, had, a) => ForeignKeysKnown(want, had, b)
<1>1. ColumnsKnown(want, had, a) => ColumnsKnown(want, had, b)
    BY DEF ColumnsKnown, TableEvolves
<1>2. UniquesKnown(want, had, a) => UniquesKnown(want, had, b)
    BY DEF UniquesKnown, KeyStays, TableEvolves, TableStaysOpen
<1>3. ForeignKeysKnown(want, had, a) => ForeignKeysKnown(want, had, b)
    BY DEF ForeignKeysKnown, TableEvolves
<1> QED
    BY <1>1, <1>2, <1>3

LEMMA KnownOn ==
    ASSUME NEW f, NEW h, NEW c, NEW d, Nearer(f, h, c), Known(f, h, c), Nearer(f, c, d),
           Evolves(f, c, d), StaysOpen(f, c, d)
    PROVE  Known(f, h, d)
<1>1. d.namespaces \subseteq h.namespaces \cup CollectDesiredNamespaces(f)
    BY DEF Known, StaysOpen
<1>2. DOMAIN d.tables \ DOMAIN f.tables \subseteq DOMAIN h.tables
    BY DEF Known, Evolves
<1>3. ASSUME NEW t \in DOMAIN f.tables \cap DOMAIN h.tables
      PROVE  /\ ColumnsKnown(f.tables[t], h.tables[t], d.tables[t])
             /\ UniquesKnown(f.tables[t], h.tables[t], d.tables[t])
             /\ ForeignKeysKnown(f.tables[t], h.tables[t], d.tables[t])
    <2>1. t \in DOMAIN c.tables /\ t \in DOMAIN d.tables
        BY DEF Nearer
    <2>2. TableEvolves(f.tables[t], c.tables[t], d.tables[t])
        BY <2>1 DEF Evolves
    <2>3. TableStaysOpen(f.tables[t], c.tables[t], d.tables[t])
        BY <2>1 DEF StaysOpen
    <2> QED
        BY <2>2, <2>3, TableKnownOn DEF Known
<1> QED
    BY <1>1, <1>2, <1>3 DEF Known

LEMMA TableIsMeets ==
    ASSUME NEW f, NEW t, NEW now, TableIs(f.tables[t], now)
    PROVE  ColumnsMeet(f, t, now) /\ KeysMeet(f, t, now)
<1>1. DOMAIN now.columns \ DOMAIN f.tables[t].columns = {}
    BY DEF TableIs, Asked
<1>2. now.uniques \ f.tables[t].uniques = {} /\ now.foreignKeys \ f.tables[t].foreignKeys = {}
    BY DEF TableIs, Asked
<1>3. ColumnsMeet(f, t, now)
    BY <1>1 DEF TableIs, ColumnsMeet
<1>4. KeysMeet(f, t, now)
    BY <1>2 DEF TableIs, KeysMeet
<1> QED
    BY <1>3, <1>4

LEMMA ColumnsServed ==
    ASSUME NEW f, IsFiles(f), NEW h, IsSchema(h), NEW orders \in Orders(f.groups),
           NEW t \in CommonTables(f, h), OpenTable(f.tables[t], h.tables[t], t, orders),
           NEW now, IsTable(now), TableNearer(f.tables[t], h.tables[t], now),
           ColumnsKnown(f.tables[t], h.tables[t], now),
           \A m \in ColumnMigrations(f.tables[t], h.tables[t], t, orders) :
              TableServed(f.tables[t], h.tables[t], now, m)
    PROVE  ColumnsMeet(f, t, now)
<1> DEFINE want == f.tables[t]
           had == h.tables[t]
<1>1. ASSUME NEW x \in DOMAIN want.columns
      PROVE  x \in DOMAIN now.columns /\ now.columns[x] = want.columns[x]
    <2>1. CASE x \notin DOMAIN had.columns
        <3> DEFINE m == Migration("add_column", t, x)
        <3>1. x \in MissingColumns(want, had) /\ ~NotNullNoDefault(want.columns[x])
            BY <1>1, <2>1 DEF MissingColumns, OpenTable
        <3>2. m \in ColumnMigrations(want, had, t, orders)
            BY <3>1 DEF ColumnMigrations
        <3>3. TableServed(want, had, now, m)
            BY <3>2
        <3> QED
            BY <3>3 DEF TableServed, Migration
    <2>2. CASE x \in DOMAIN had.columns
        <3>1. x \in DOMAIN now.columns
              /\ ColumnNearer(want.columns[x], had.columns[x], now.columns[x])
            BY <1>1, <2>2 DEF TableNearer
        <3>2. now.columns[x] \in Column /\ want.columns[x] \in Column
            BY <1>1, <3>1, FilesParts, TableParts DEF CommonTables
        <3>3. CASE had.columns[x] = want.columns[x]
            BY <3>1, <3>2, <3>3, ColumnIs DEF ColumnNearer
        <3>4. CASE had.columns[x] # want.columns[x]
            <4> DEFINE m == Migration("alter_column", t, x)
            <4>1. x \in ChangedColumns(want, had) /\ ~Narrows(want, had, x)
                BY <1>1, <2>2, <3>4 DEF ChangedColumns, OpenTable
            <4>2. m \in ColumnMigrations(want, had, t, orders)
                BY <4>1 DEF ColumnMigrations
            <4>3. TableServed(want, had, now, m)
                BY <4>2
            <4>4. ColumnAltered(want.columns[x], had.columns[x], now.columns[x])
                BY <4>3 DEF TableServed, Migration
            <4>5. /\ now.columns[x].type = want.columns[x].type
                  /\ now.columns[x].nullable = want.columns[x].nullable
                  /\ now.columns[x].default = want.columns[x].default
                BY <3>1, <4>4 DEF ColumnAltered, ColumnNearer
            <4> QED
                BY <3>1, <3>2, <4>5, ColumnIs
        <3> QED
            BY <3>3, <3>4
    <2> QED
        BY <2>1, <2>2
<1>2. ASSUME NEW x \in DOMAIN now.columns \ DOMAIN want.columns
      PROVE  /\ ~RemovedAllows(want, x, now.columns[x].type)
             /\ \E g \in f.groups :
                   g.policy = "DEPRECATED" /\ CoversColumn(g, x, now.columns[x].type)
    <2> DEFINE type == had.columns[x].type
               m == Migration("drop_column", t, x)
    <2>1. x \in SurplusColumns(want, had) /\ now.columns[x].type = type
        BY <1>2 DEF ColumnsKnown, SurplusColumns
    <2>2. ColumnVerdict(want, x, type, orders[<<t, x>>]) # "none"
        BY <2>1 DEF SurplusColumns, OpenTable
    <2>3. ColumnVerdict(want, x, type, orders[<<t, x>>]) # "DROP"
        <3>1. SUFFICES ASSUME ColumnVerdict(want, x, type, orders[<<t, x>>]) = "DROP"
                       PROVE  FALSE
            OBVIOUS
        <3>2. m \in ColumnMigrations(want, had, t, orders)
            BY <2>1, <3>1 DEF ColumnMigrations
        <3>3. TableServed(want, had, now, m)
            BY <3>2
        <3>4. x \notin DOMAIN now.columns
            BY <3>3 DEF TableServed, Migration
        <3> QED
            BY <1>2, <3>4
    <2>4. t \in Tables /\ x \in Columns
        BY <2>1, FilesParts, SchemaParts, TableParts DEF CommonTables, SurplusColumns
    <2>5. orders[<<t, x>>] \in Iterations(f.groups)
        BY <2>4, IterationOf
    <2> QED
        BY <2>1, <2>2, <2>3, <2>5, ColumnTolerated
<1> QED
    BY <1>1, <1>2 DEF ColumnsMeet, Tolerates

LEMMA KeysServed ==
    ASSUME NEW f, IsFiles(f), NEW h, IsSchema(h), NEW orders \in Orders(f.groups),
           NEW t \in CommonTables(f, h), OpenTable(f.tables[t], h.tables[t], t, orders),
           NEW now, TableNearer(f.tables[t], h.tables[t], now),
           UniquesKnown(f.tables[t], h.tables[t], now),
           ForeignKeysKnown(f.tables[t], h.tables[t], now),
           \A m \in TableMigrations(f.tables[t], h.tables[t], t, orders) :
              TableServed(f.tables[t], h.tables[t], now, m)
    PROVE  KeysMeet(f, t, now)
<1> DEFINE want == f.tables[t]
           had == h.tables[t]
<1>1. now.primaryKey = want.primaryKey
    <2>1. now.primaryKey \in {NoPrimaryKey, want.primaryKey, had.primaryKey}
        BY DEF UniquesKnown, KeyStays
    <2>2. had.primaryKey \in {NoPrimaryKey, want.primaryKey}
        BY DEF OpenTable
    <2>3. CASE want.primaryKey = NoPrimaryKey
        BY <2>1, <2>2, <2>3
    <2>4. CASE want.primaryKey # NoPrimaryKey /\ had.primaryKey = want.primaryKey
        BY <2>4 DEF TableNearer
    <2>5. CASE want.primaryKey # NoPrimaryKey /\ had.primaryKey = NoPrimaryKey
        <3> DEFINE m == Migration("add_primary_key", t, NoName)
        <3>1. m \in TableMigrations(want, had, t, orders)
            BY <2>5 DEF TableMigrations, PrimaryKeyMigrations, AddPrimaryKey
        <3>2. TableServed(want, had, now, m)
            BY <3>1
        <3> QED
            BY <3>2 DEF TableServed, Migration
    <2> QED
        BY <2>2, <2>3, <2>4, <2>5
<1>2. ASSUME NEW u \in want.uniques
      PROVE  u \in now.uniques
    <2>1. CASE u \in had.uniques
        BY <1>2, <2>1 DEF TableNearer, Named
    <2>2. CASE u \notin had.uniques
        <3> DEFINE m == Migration("add_unique_key", t, u.name)
        <3>1. m \in TableMigrations(want, had, t, orders)
            BY <1>2, <2>2 DEF TableMigrations, UniqueMigrations, MissingUniques, HaveUnique
        <3>2. TableServed(want, had, now, m)
            BY <3>1
        <3> QED
            BY <1>2, <3>2 DEF TableServed, Migration
    <2> QED
        BY <2>1, <2>2
<1>3. ASSUME NEW fk \in want.foreignKeys
      PROVE  fk \in now.foreignKeys
    <2>1. CASE fk \in had.foreignKeys
        BY <1>3, <2>1 DEF TableNearer, Named
    <2>2. CASE fk \notin had.foreignKeys
        <3> DEFINE m == Migration("add_foreign_key", t, fk.name)
        <3>1. m \in TableMigrations(want, had, t, orders)
            BY <1>3, <2>2
               DEF TableMigrations, ForeignKeyMigrations, MissingForeignKeys, HaveForeignKey
        <3>2. TableServed(want, had, now, m)
            BY <3>1
        <3> QED
            BY <1>3, <3>2 DEF TableServed, Migration
    <2> QED
        BY <2>1, <2>2
<1>4. t \in Tables
    BY FilesParts DEF CommonTables
<1>5. IsTable(had)
    BY SchemaParts DEF CommonTables
<1>6. ASSUME NEW u \in now.uniques \ want.uniques
      PROVE  \E g \in f.groups : g.policy = "DEPRECATED" /\ CoversUnique(g, u)
    <2> DEFINE m == Migration("drop_unique_key", t, u.name)
    <2>1. u \in had.uniques \ want.uniques /\ u.name \in ConstraintNames
        BY <1>5, <1>6, TableParts DEF UniquesKnown
    <2>2. UniqueVerdict(u, orders[<<t, u.name>>]) # "none"
        BY <2>1 DEF OpenTable
    <2>3. UniqueVerdict(u, orders[<<t, u.name>>]) # "DROP"
        <3>1. SUFFICES ASSUME UniqueVerdict(u, orders[<<t, u.name>>]) = "DROP"
                       PROVE  FALSE
            OBVIOUS
        <3>2. m \in TableMigrations(want, had, t, orders)
            BY <2>1, <3>1 DEF TableMigrations, UniqueMigrations, SurplusUniques, HaveUnique
        <3>3. TableServed(want, had, now, m)
            BY <3>2
        <3> QED
            BY <1>6, <3>3 DEF TableServed, Migration
    <2>4. orders[<<t, u.name>>] \in Iterations(f.groups)
        BY <1>4, <2>1, IterationOf
    <2> QED
        BY <2>2, <2>3, <2>4, UniqueTolerated
<1>7. ASSUME NEW fk \in now.foreignKeys \ want.foreignKeys
      PROVE  \E g \in f.groups : g.policy = "DEPRECATED" /\ CoversForeignKey(g, fk)
    <2> DEFINE m == Migration("drop_foreign_key", t, fk.name)
    <2>1. fk \in had.foreignKeys \ want.foreignKeys /\ fk.name \in ConstraintNames
        BY <1>5, <1>7, TableParts DEF ForeignKeysKnown
    <2>2. ForeignKeyVerdict(fk, orders[<<t, fk.name>>]) # "none"
        BY <2>1 DEF OpenTable
    <2>3. ForeignKeyVerdict(fk, orders[<<t, fk.name>>]) # "DROP"
        <3>1. SUFFICES ASSUME ForeignKeyVerdict(fk, orders[<<t, fk.name>>]) = "DROP"
                       PROVE  FALSE
            OBVIOUS
        <3>2. m \in TableMigrations(want, had, t, orders)
            BY <2>1, <3>1
               DEF TableMigrations, ForeignKeyMigrations, SurplusForeignKeys, HaveForeignKey
        <3>3. TableServed(want, had, now, m)
            BY <3>2
        <3> QED
            BY <1>7, <3>3 DEF TableServed, Migration
    <2>4. orders[<<t, fk.name>>] \in Iterations(f.groups)
        BY <1>4, <2>1, IterationOf
    <2> QED
        BY <2>2, <2>3, <2>4, ForeignKeyTolerated
<1> QED
    BY <1>1, <1>2, <1>3, <1>6, <1>7 DEF KeysMeet, Tolerates

LEMMA TableKinds ==
    ASSUME NEW f, NEW h, NEW orders, NEW t \in CommonTables(f, h),
           NEW m \in TableMigrations(f.tables[t], h.tables[t], t, orders)
    PROVE  m.kind \in OnOneTable /\ m.on = t /\ m \in InTransaction(Plan(f, h, orders))
<1>1. m.kind \in OnOneTable /\ m.on = t
    <2> DEFINE want == f.tables[t]
               had == h.tables[t]
    <2> HIDE DEF want, had
    <2>1. CASE m \in ColumnMigrations(want, had, t, orders)
        <3>1. \E x : \/ m = Migration("drop_column", t, x)
                     \/ m = Migration("add_column", t, x)
                     \/ m = Migration("alter_column", t, x)
            BY <2>1, Zenon DEF ColumnMigrations
        <3> QED
            BY <3>1 DEF Migration, OnOneTable
    <2>2. CASE m \in PrimaryKeyMigrations(want, had, t)
        BY <2>2 DEF PrimaryKeyMigrations, Migration, OnOneTable
    <2>3. CASE m \in UniqueMigrations(want, had, t, orders)
        <3>1. \E x : \/ m = Migration("add_unique_key", t, x)
                     \/ m = Migration("drop_unique_key", t, x)
            BY <2>3, Zenon DEF UniqueMigrations
        <3> QED
            BY <3>1 DEF Migration, OnOneTable
    <2>4. CASE m \in ForeignKeyMigrations(want, had, t, orders)
        <3>1. \E x : \/ m = Migration("add_foreign_key", t, x)
                     \/ m = Migration("drop_foreign_key", t, x)
            BY <2>4, Zenon DEF ForeignKeyMigrations
        <3> QED
            BY <3>1 DEF Migration, OnOneTable
    <2> QED
        BY <2>1, <2>2, <2>3, <2>4 DEF TableMigrations, want, had
<1>2. m \in Plan(f, h, orders)
    BY DEF Plan
<1>3. ~OutOfTransaction(m)
    BY <1>1 DEF OutOfTransaction, OnOneTable
<1> QED
    BY <1>1, <1>2, <1>3 DEF InTransaction

\* The files are met once every statement of the plan has served its purpose.
LEMMA PlanServed ==
    ASSUME NEW f, IsFiles(f), NEW h, IsSchema(h), NEW orders \in Orders(f.groups),
           Disallowed(f, h, orders) = {}, NEW c, IsCatalog(c), Nearer(f, h, c), Known(f, h, c),
           \A m \in InTransaction(Plan(f, h, orders)) : Served(f, h, c, m)
    PROVE  TablesMeet(f, c)
<1>1. Open(f, h, orders)
    BY OpenIff
<1>2. c.namespaces \ {Public} \subseteq CollectDesiredNamespaces(f)
    BY <1>1 DEF Open, Known
<1>3. ASSUME NEW ns \in CollectDesiredNamespaces(f)
      PROVE  ns \in c.namespaces
    <2>1. CASE ns \in h.namespaces
        BY <1>3, <2>1 DEF Nearer
    <2>2. CASE ns \notin h.namespaces
        <3> DEFINE m == Migration("create_schema", ns, NoName)
        <3>1. m \in InTransaction(Plan(f, h, orders))
            BY <1>3, <2>2 DEF Plan, NamespaceMigrations, MissingNamespaces, InTransaction,
                              OutOfTransaction, Migration
        <3>2. Served(f, h, c, m)
            BY <3>1
        <3> QED
            BY <3>2 DEF Served, Migration
    <2> QED
        BY <2>1, <2>2
<1>4. ASSUME NEW t \in DOMAIN c.tables \ DOMAIN f.tables
      PROVE  FALSE
    <2> DEFINE m == Migration("drop_table", t, NoName)
    <2>1. t \in SurplusTables(f, h) /\ DropTableAllowed(f, h, t)
        BY <1>1, <1>4 DEF Known, Open, SurplusTables
    <2>2. m \in WholeTableMigrations(f, h)
        BY <2>1 DEF WholeTableMigrations
    <2>3. m \in InTransaction(Plan(f, h, orders))
        BY <2>2 DEF Plan, InTransaction, OutOfTransaction, Migration
    <2>4. Served(f, h, c, m)
        BY <2>3
    <2> QED
        BY <1>4, <2>4 DEF Served, Migration
<1>5. ASSUME NEW t \in DOMAIN f.tables
      PROVE  /\ t \in DOMAIN c.tables
             /\ ColumnsMeet(f, t, c.tables[t]) /\ KeysMeet(f, t, c.tables[t])
    <2>1. CASE t \notin DOMAIN h.tables
        <3> DEFINE m == Migration("create_table", t, NoName)
        <3>1. m \in WholeTableMigrations(f, h)
            BY <1>5, <2>1 DEF WholeTableMigrations, MissingTables
        <3>2. m \in InTransaction(Plan(f, h, orders))
            BY <3>1 DEF Plan, InTransaction, OutOfTransaction, Migration
        <3>3. Served(f, h, c, m)
            BY <3>2
        <3>4. t \in DOMAIN c.tables /\ TableIs(f.tables[t], c.tables[t])
            BY <3>3 DEF Served, Migration
        <3> QED
            BY <3>4, TableIsMeets
    <2>2. CASE t \in DOMAIN h.tables
        <3>1. t \in CommonTables(f, h) /\ t \in DOMAIN c.tables /\ IsTable(c.tables[t])
              /\ TableNearer(f.tables[t], h.tables[t], c.tables[t])
            BY <1>5, <2>2, CatalogRecord DEF CommonTables, Nearer
        <3>2. OpenTable(f.tables[t], h.tables[t], t, orders)
            BY <1>1, <1>5, <2>2 DEF Open
        <3>3. /\ ColumnsKnown(f.tables[t], h.tables[t], c.tables[t])
              /\ UniquesKnown(f.tables[t], h.tables[t], c.tables[t])
              /\ ForeignKeysKnown(f.tables[t], h.tables[t], c.tables[t])
            BY <1>5, <2>2 DEF Known
        <3>4. ASSUME NEW m \in TableMigrations(f.tables[t], h.tables[t], t, orders)
              PROVE  TableServed(f.tables[t], h.tables[t], c.tables[t], m)
            <4>1. m.kind \in OnOneTable /\ m.on = t /\ Served(f, h, c, m)
                BY <3>1, <3>4, TableKinds
            <4> QED
                BY <4>1 DEF Served, OnOneTable
        <3>5. ColumnsMeet(f, t, c.tables[t])
            BY <3>1, <3>2, <3>3, <3>4, ColumnsServed DEF TableMigrations
        <3>6. KeysMeet(f, t, c.tables[t])
            BY <3>1, <3>2, <3>3, <3>4, KeysServed
        <3> QED
            BY <3>1, <3>5, <3>6
    <2> QED
        BY <2>1, <2>2
<1> QED
    BY <1>2, <1>3, <1>4, <1>5 DEF TablesMeet

-----------------------------------------------------------------------------
(* The transaction.                                                        *)

AddsConstraint == {"add_unique_key", "add_foreign_key"}

\* When a run drops, it has added all it was to add, under free names.
LEMMA AddedUnderFreeName ==
    ASSUME NEW U, LossInv(U), IInv, NEW r \in Runners, NEW m, Executes(r, m), m.kind \in Taking,
           NEW a \in plan[r], a.kind \in AddsConstraint, a.on \in DOMAIN catalog.tables
    PROVE  a.name \notin ConstraintsOf(catalog.tables[a.on])
<1>1. a.kind \in Adding /\ a.kind \notin Taking
    BY DEF AddsConstraint, Adding, Taking
<1>2. a \notin todo[r]
    <2>1. SentBefore(r, a, m) /\ a # m
        BY <1>1, AddsBeforeTakes
    <2> QED
        BY <2>1, SentInTransaction DEF Executes
<1>3. AddedAnew(r)
    BY Executed DEF InTransactionInv
<1> QED
    BY <1>2, <1>3 DEF AddedAnew, Sent, AddsConstraint

LEMMA ExecutesEvolve ==
    ASSUME NEW U, LossInv(U), IInv, NEW r \in Runners, NEW m, Executes(r, m)
    PROVE  Evolves(files[r], working, working') /\ StaysOpen(files[r], working, working')
<1> DEFINE f == files[r]
           c == catalog
           w == working
           d == working'
<1>1. /\ IsCatalog(w) /\ IsFiles(f) /\ Justified(f, have[r], m) /\ Accepts(w, m, f, have[r])
      /\ d = Effect(w, m, f, have[r]) /\ m.kind \in Adding \cup Taking
      /\ Sound(U, c) /\ Sound(U, w) /\ Evolves(f, c, w)
    BY Executed DEF Executes, InTransactionInv
<1>2. CASE m.kind \in Adding
    BY <1>1, <1>2, AddingGrows, GrowsEvolves, AddingStaysOpen
<1>3. CASE m.kind \in Taking
    <2>1. ReadsApart(U, have[r]) /\ Reflects(f, have[r], c) /\ HasPlanned(r)
        BY DEF LossInv, RunLoss, Executes, HoldsPlan
    <2>2. PICK orders : plan[r] = Plan(f, have[r], orders)
        BY <2>1 DEF HasPlanned
    <2>3. /\ AddOf(m).kind \in AddsConstraint
          /\ AddOf(m).on = m.on /\ AddOf(m).name = m.name
        BY DEF AddOf, Migration, AddsConstraint
    <2>4. m.on \in DOMAIN c.tables /\ AddOf(m) \in Plan(f, have[r], orders) =>
              m.name \notin ConstraintsOf(c.tables[m.on])
        BY <1>3, <2>2, <2>3, AddedUnderFreeName
    <2>5. Shrinks(f, w, d)
        BY <1>1, <1>3, <2>1, <2>4, TakingGives
    <2> QED
        BY <1>1, <1>3, <2>5, ShrinksEvolves, TakingStaysOpen
<1> QED
    BY <1>1, <1>2, <1>3

\* What a run drops is not, by its name, something the files want.
LEMMA TakenIsSpared ==
    ASSUME NEW U, LossInv(U), IInv, NEW r \in Runners, NEW m, Executes(r, m),
           m.kind \in Taking, m.kind # "drop_table",
           Nearer(files[r], have[r], catalog), Known(files[r], have[r], catalog)
    PROVE  Spares(files[r].tables[m.on], working.tables[m.on], m)
<1> DEFINE f == files[r]
           h == have[r]
           c == catalog
           t == m.on
           want == f.tables[t]
           had == h.tables[t]
           now == working.tables[t]
<1>1. /\ t \in DOMAIN f.tables /\ t \in DOMAIN h.tables /\ JustifiedInTable(f, h, m)
      /\ Evolves(f, c, working) /\ t \in DOMAIN working.tables
    <2>1. m.kind \in OnOneTable
        BY DEF Taking, OnOneTable
    <2>2. Justified(f, h, m) /\ Accepts(working, m, f, h) /\ Evolves(f, c, working)
        BY Executed DEF InTransactionInv, Executes
    <2>3. t \in DOMAIN f.tables /\ t \in DOMAIN h.tables /\ JustifiedInTable(f, h, m)
        BY <2>1, <2>2 DEF Justified, OnOneTable
    <2>4. t \in DOMAIN working.tables
        BY <2>1, <2>2 DEF Accepts, OnOneTable
    <2> QED
        BY <2>2, <2>3, <2>4
<1>2. /\ t \in DOMAIN c.tables /\ TableNearer(want, had, c.tables[t])
      /\ UniquesKnown(want, had, c.tables[t]) /\ ForeignKeysKnown(want, had, c.tables[t])
      /\ TableEvolves(want, c.tables[t], now)
    BY <1>1 DEF Nearer, Known, Evolves
<1>3. /\ KindsApart(U, f.tables) /\ ReadsApart(U, h)
    BY DEF LossInv, RunLoss
<1>4. PICK orders : plan[r] = Plan(f, h, orders)
    BY DEF LossInv, RunLoss, Executes, HoldsPlan, HasPlanned
<1>5. NamesApart(had)
    BY <1>1, <1>3 DEF ReadsApart
<1>6. ASSUME NEW v \in had.uniques \ want.uniques, NEW u \in want.uniques, u.name = v.name
      PROVE  v.name \notin ConstraintsOf(c.tables[t])
    <2> DEFINE a == Migration("add_unique_key", t, v.name)
    <2>1. a \in plan[r]
        BY <1>1, <1>4, <1>5, <1>6, RedefinedUniqueIsAdded
    <2>2. a.kind \in AddsConstraint /\ a.on = t /\ a.name = v.name
        BY DEF Migration, AddsConstraint
    <2> HIDE DEF a
    <2> QED
        BY <1>2, <2>1, <2>2, AddedUnderFreeName
<1>7. ASSUME NEW v \in had.foreignKeys \ want.foreignKeys, NEW fk \in want.foreignKeys,
             fk.name = v.name
      PROVE  v.name \notin ConstraintsOf(c.tables[t])
    <2> DEFINE a == Migration("add_foreign_key", t, v.name)
    <2>1. a \in plan[r]
        BY <1>1, <1>4, <1>5, <1>7, RedefinedForeignKeyIsAdded
    <2>2. a.kind \in AddsConstraint /\ a.on = t /\ a.name = v.name
        BY DEF Migration, AddsConstraint
    <2> HIDE DEF a
    <2> QED
        BY <1>2, <2>1, <2>2, AddedUnderFreeName
<1>8. CASE m.kind = "drop_column"
    <2>1. ASSUME NEW v \in now.uniques \ want.uniques, NEW u \in want.uniques
          PROVE  v.name # u.name
        <3>1. v \in c.tables[t].uniques /\ v \in had.uniques
            BY <1>2, <2>1 DEF TableEvolves, UniquesKnown
        <3> QED
            BY <1>6, <2>1, <3>1 DEF ConstraintsOf
    <2>2. ASSUME NEW v \in now.foreignKeys \ want.foreignKeys, NEW fk \in want.foreignKeys
          PROVE  v.name # fk.name
        <3>1. v \in c.tables[t].foreignKeys /\ v \in had.foreignKeys
            BY <1>2, <2>2 DEF TableEvolves, ForeignKeysKnown
        <3> QED
            BY <1>7, <2>2, <3>1 DEF ConstraintsOf
    <2> QED
        BY <1>8, <2>1, <2>2 DEF Spares, NoClash
<1>9. CASE m.kind = "drop_unique_key"
    <2>1. PICK v \in had.uniques \ want.uniques : v.name = m.name
        BY <1>1, <1>9 DEF JustifiedInTable
    <2>2. ASSUME NEW u \in want.uniques, u.name = m.name
          PROVE  FALSE
        <3>1. v \in c.tables[t].uniques
            BY <1>2, <2>1, <2>2 DEF TableNearer, Named
        <3> QED
            BY <1>6, <2>1, <2>2, <3>1 DEF ConstraintsOf
    <2>3. \A fk \in want.foreignKeys : fk.name # m.name
        BY <1>1, <1>3, <2>1 DEF KindsApart, ReadsApart
    <2> QED
        BY <1>9, <2>2, <2>3 DEF Spares
<1>10. CASE m.kind = "drop_foreign_key"
    <2>1. PICK v \in had.foreignKeys \ want.foreignKeys : v.name = m.name
        BY <1>1, <1>10 DEF JustifiedInTable
    <2>2. ASSUME NEW fk \in want.foreignKeys, fk.name = m.name
          PROVE  FALSE
        <3>1. v \in c.tables[t].foreignKeys
            BY <1>2, <2>1, <2>2 DEF TableNearer, Named
        <3> QED
            BY <1>7, <2>1, <2>2, <3>1 DEF ConstraintsOf
    <2>3. \A u \in want.uniques : u.name # m.name
        BY <1>1, <1>3, <2>1 DEF KindsApart, ReadsApart
    <2> QED
        BY <1>10, <2>2, <2>3 DEF Spares
<1> QED
    BY <1>8, <1>9, <1>10 DEF Taking

\* What a transaction has sent so far is of a transaction.
LEMMA SentIsOfTransaction ==
    ASSUME IInv, NEW r \in Runners, NEW m, Executes(r, m), NEW n \in Sent(r)
    PROVE  n.kind \in Adding \cup Taking /\ Justified(files[r], have[r], n)
<1>1. m \in todo[r] /\ ~OutOfTransaction(m)
    BY DEF Executes, NextOf, InTransaction
<1>2. n \in plan[r] /\ ~SentBefore(r, m, n) /\ Justified(files[r], have[r], n)
    BY <1>1 DEF IInv, RunInv, Sent
<1>3. ~OutOfTransaction(n)
    BY <1>1, <1>2 DEF SentBefore
<1>4. n.kind \in Kinds
    BY <1>2 DEF IInv, Shape, Migrations
<1> QED
    BY <1>2, <1>3, <1>4 DEF Kinds, OutOfTransaction, Adding, Taking

LEMMA ExecutesReach ==
    ASSUME NEW U, LossInv(U), IInv, IInv', NEW r \in Runners, NEW m, Executes(r, m),
           AllConsistent(files[r]),
           Nearer(files[r], have[r], catalog), Known(files[r], have[r], catalog), ServedInv(r)
    PROVE  ServedInv(r)'
<1> DEFINE f == files[r]
           h == have[r]
           c == catalog
           w == working
           d == working'
<1>1. /\ IsCatalog(w) /\ IsFiles(f) /\ Justified(f, h, m) /\ Accepts(w, m, f, h)
      /\ d = Effect(w, m, f, h) /\ m.kind \in Adding \cup Taking
      /\ Sent(r)' = Sent(r) \cup {m} /\ catalog' = c /\ files'[r] = f /\ have'[r] = h
    BY Executed DEF Executes
<1>2. Nearer(f, c, w) /\ \A n \in Sent(r) : Served(f, h, w, n)
    BY DEF ServedInv, Executes
<1>3. Evolves(f, w, d) /\ StaysOpen(f, w, d) /\ IsCatalog(d)
    BY ExecutesEvolve DEF IInv, Environment
<1>4. Nearer(f, w, d) /\ Served(f, h, d, m)
    <2>1. CASE m.kind \in Adding
        BY <1>1, <2>1, AddingReaches
    <2>2. CASE m.kind \in Taking
        <3>1. m.kind # "drop_table" => Spares(f.tables[m.on], w.tables[m.on], m)
            BY <2>2, TakenIsSpared
        <3> QED
            BY <1>1, <2>2, <3>1, TakingReaches
    <2> QED
        BY <1>1, <2>1, <2>2
<1>5. ASSUME NEW n \in Sent(r)
      PROVE  Served(f, h, d, n)
    <2>1. n.kind \in Adding \cup Taking /\ Justified(f, h, n) /\ Served(f, h, w, n)
        BY <1>2, SentIsOfTransaction
    <2> HIDE DEF f, h, w, d
    <2> QED
        BY <1>1, <1>3, <1>4, <2>1, ServedOn
<1>6. Nearer(f, c, d)
    BY <1>2, <1>4, NearerOn
<1> QED
    BY <1>1, <1>4, <1>5, <1>6 DEF ServedInv

-----------------------------------------------------------------------------
(* Reading.                                                                *)

\* The catalog may change under a run, but not away from the files.
LEMMA ReadStays ==
    ASSUME NEW q \in Runners, ReadInv(q), files'[q] = files[q], have'[q] = have[q],
           left'[q] = left[q], plan'[q] = plan[q],
           pc'[q] = pc[q] \/ (pc[q] \in HoldsPlan /\ pc'[q] \in HoldsPlan),
           Nearer(files[q], catalog, catalog'), Evolves(files[q], catalog, catalog'),
           StaysOpen(files[q], catalog, catalog')
    PROVE  ReadInv(q)'
<1> DEFINE f == files[q]
           h == have[q]
           c == catalog
           d == catalog'
<1>1. Nearer(f, h, d)
    BY NearerOn DEF ReadInv
<1>2. /\ HoldsPlan \cap Underway = {} /\ HoldsPlan \subseteq Reads
      /\ HoldsPlan \cap (AtRest \cup {"connected"}) = {} /\ "columns" \notin HoldsPlan
    BY DEF HoldsPlan, Underway, Reads, Active, AtRest
<1>3. \A t : InReach(q, t)' <=> InReach(q, t)
    BY DEF InReach, Reading, IsFirst
<1>4. \A t, S : HasRead(q, t, S)' <=> HasRead(q, t, S)
    BY <1>2, <1>3 DEF HasRead
<1>5. \A t : /\ UniquesRead(q, t)' <=> UniquesRead(q, t)
             /\ ForeignKeysRead(q, t)' <=> ForeignKeysRead(q, t)
    BY <1>4 DEF UniquesRead, ForeignKeysRead
<1>6. ASSUME pc'[q] \in Reads
      PROVE  SurplusKnown(q)'
    <2>1. SurplusKnown(q)
        BY <1>2, <1>6 DEF ReadInv
    <2>2. d.namespaces \subseteq h.namespaces \cup CollectDesiredNamespaces(f)
        BY <2>1 DEF SurplusKnown, StaysOpen
    <2>3. ASSUME NEW t \in DOMAIN d.tables \ DOMAIN f.tables
          PROVE  /\ UniquesRead(q, t) => t \in DOMAIN h.tables
                 /\ pc'[q] = "columns" /\ InReach(q, t) => t \in DOMAIN h.tables \cup left[q].tables
        BY <1>2, <2>1 DEF SurplusKnown, Evolves
    <2>4. ASSUME NEW t \in DOMAIN f.tables \cap DOMAIN h.tables
          PROVE  /\ ColumnsKnown(f.tables[t], h.tables[t], d.tables[t])
                 /\ UniquesRead(q, t) => UniquesKnown(f.tables[t], h.tables[t], d.tables[t])
                 /\ ForeignKeysRead(q, t) => ForeignKeysKnown(f.tables[t], h.tables[t], d.tables[t])
        <3>1. t \in DOMAIN c.tables /\ t \in DOMAIN d.tables
            BY <1>1 DEF ReadInv, Nearer
        <3>2. TableEvolves(f.tables[t], c.tables[t], d.tables[t])
              /\ TableStaysOpen(f.tables[t], c.tables[t], d.tables[t])
            BY <3>1 DEF Evolves, StaysOpen
        <3>3. /\ ColumnsKnown(f.tables[t], h.tables[t], c.tables[t])
              /\ UniquesRead(q, t) => UniquesKnown(f.tables[t], h.tables[t], c.tables[t])
              /\ ForeignKeysRead(q, t) => ForeignKeysKnown(f.tables[t], h.tables[t], c.tables[t])
            BY <2>1 DEF SurplusKnown, TableKnown
        <3> QED
            BY <3>2, <3>3, TableKnownOn
    <2> QED
        BY <1>3, <1>5, <2>2, <2>3, <2>4 DEF SurplusKnown, TableKnown
<1>7. pc'[q] = "columns" => ListedColumns(q)'
    BY <1>2, <1>3 DEF ReadInv, ListedColumns, Nearer
<1>8. pc'[q] \in HoldsPlan => left'[q].namespaces = {} /\ Planned(q)'
    BY DEF ReadInv, Planned
<1>9. pc'[q] \in AtRest \cup {"connected"} => have'[q] = EmptySchema
    BY <1>2 DEF ReadInv
<1> QED
    BY <1>1, <1>6, <1>7, <1>8, <1>9 DEF ReadInv

LEMMA NothingReadNearer ==
    ASSUME NEW f, NEW c
    PROVE  Nearer(f, EmptySchema, c)
<1>1. DOMAIN EmptySchema.tables = {} /\ EmptySchema.namespaces = {}
    BY DEF EmptySchema
<1> QED
    BY <1>1 DEF Nearer

LEMMA StoppedReach ==
    ASSUME NEW r \in Runners, pc'[r] \in AtRest, have'[r] = EmptySchema
    PROVE  ReadInv(r)' /\ ServedInv(r)'
<1>1. /\ pc'[r] \notin HoldsPlan /\ pc'[r] \notin Reads
      /\ pc'[r] # "columns" /\ pc'[r] # "transaction"
    BY DEF AtRest, HoldsPlan, Reads, Active
<1> QED
    BY <1>1, NothingReadNearer DEF ReadInv, ServedInv

LEMMA ConnectReach ==
    ASSUME IInv, NEW r \in Runners, ReadInv(r), Connect(r)
    PROVE  ReadInv(r)'
<1>1. pc'[r] = "connected" /\ have' = have /\ have[r] = EmptySchema
    BY DEF Connect, ReadInv, IInv, Shape
<1>2. "connected" \notin Reads /\ "connected" \notin HoldsPlan /\ "connected" # "columns"
    BY DEF Reads, HoldsPlan
<1> QED
    BY <1>1, <1>2, NothingReadNearer DEF ReadInv

\* Not one of the tables has been read yet.
LEMMA ListUserSchemasReach ==
    ASSUME IInv, NEW r \in Runners, ReadInv(r), Housed(files[r], catalog), ListUserSchemas(r)
    PROVE  ReadInv(r)'
<1> DEFINE f == files[r]
           c == catalog
           h == have'[r]
<1>1. pc'[r] = "listed" /\ catalog' = c /\ files'[r] = f /\ have[r] = EmptySchema
    BY DEF ListUserSchemas, ReadInv, IInv, Shape
<1>2. h = [have[r] EXCEPT !.namespaces = c.namespaces]
      /\ left'[r] = [left[r] EXCEPT !.namespaces = CollectDesiredNamespaces(f) \cup c.namespaces]
    BY DEF ListUserSchemas, IInv, Shape
<1>3. h.namespaces = c.namespaces /\ DOMAIN h.tables = {}
    <2>1. [EmptySchema EXCEPT !.namespaces = c.namespaces] =
             [namespaces |-> c.namespaces, tables |-> << >>, indexes |-> << >>]
        BY DEF EmptySchema
    <2> QED
        BY <1>1, <1>2, <2>1
<1>4. left'[r].namespaces = CollectDesiredNamespaces(f) \cup c.namespaces
    <2>1. left[r] \in Leftovers
        BY DEF IInv, Shape
    <2> QED
        BY <1>2, <2>1 DEF Leftovers
<1> HIDE DEF h
<1>5. Nearer(f, h, c)
    BY <1>3 DEF Nearer
<1>6. "listed" \notin Underway /\ "listed" \notin HoldsPlan
    BY DEF Underway, HoldsPlan
<1>7. \A t \in DOMAIN c.tables \ DOMAIN f.tables : ~UniquesRead(r, t)'
    BY <1>1, <1>4, <1>6 DEF UniquesRead, HasRead, Housed
<1>8. SurplusKnown(r)'
    BY <1>1, <1>3, <1>7 DEF SurplusKnown, h
<1> QED
    BY <1>1, <1>5, <1>6, <1>8 DEF ReadInv, AtRest, h

LEMMA ListTablesReach ==
    ASSUME IInv, NEW r \in Runners, ReadInv(r), ListTables(r)
    PROVE  ReadInv(r)'
<1> DEFINE f == files[r]
           c == catalog
           h == have[r]
           listed == {t \in DOMAIN c.tables : InReach(r, t)}
<1>1. /\ pc[r] = "listed" /\ pc'[r] = "columns" /\ catalog' = c /\ files'[r] = f
      /\ have'[r] = h
    BY DEF ListTables, IInv, Shape
<1>2. left'[r] = [left[r] EXCEPT !.tables = listed]
    BY DEF ListTables, IInv, Shape
<1>3. left'[r].namespaces = left[r].namespaces /\ left'[r].tables = listed
    <2>1. left[r] \in Leftovers
        BY DEF IInv, Shape
    <2> QED
        BY <1>2, <2>1 DEF Leftovers
<1>4. \A t : InReach(r, t)' <=> InReach(r, t)
    BY <1>3 DEF InReach, Reading, IsFirst
<1>5. /\ "columns" \notin HoldsPlan /\ "columns" \in Reads /\ "listed" \in Reads
      /\ "columns" \in Underway /\ "listed" \notin Underway
      /\ "columns" \notin {"unique keys read", "foreign keys read"}
    BY DEF HoldsPlan, Reads, Active, Underway
<1>6. \A t : /\ UniquesRead(r, t)' => UniquesRead(r, t)
             /\ ForeignKeysRead(r, t)' => ForeignKeysRead(r, t)
    BY <1>1, <1>3, <1>4, <1>5 DEF UniquesRead, ForeignKeysRead, HasRead
<1>7. SurplusKnown(r)
    BY <1>1, <1>5 DEF ReadInv
<1>8. SurplusKnown(r)'
    <2>1. \A t \in DOMAIN c.tables : InReach(r, t) => t \in listed
        OBVIOUS
    <2> HIDE DEF listed
    <2>2. \A t \in DOMAIN f.tables \cap DOMAIN h.tables : TableKnown(r, t)'
        BY <1>1, <1>6, <1>7 DEF SurplusKnown, TableKnown
    <2> QED
        BY <1>1, <1>3, <1>4, <1>6, <1>7, <2>1, <2>2 DEF SurplusKnown
<1>9. ListedColumns(r)'
    BY <1>1, <1>3, <1>4 DEF ListedColumns
<1>10. Nearer(files'[r], have'[r], catalog')
    BY <1>1 DEF ReadInv
<1> QED
    BY <1>1, <1>5, <1>8, <1>9, <1>10 DEF ReadInv, AtRest

LEMMA ListColumnsReach ==
    ASSUME IInv, NEW r \in Runners, ReadInv(r), ListColumns(r)
    PROVE  ReadInv(r)'
<1>1. PICK t \in left[r].tables :
          /\ have' = [have EXCEPT ![r].tables = With(@, t, WithoutKeys(ColumnsOf(t)))]
          /\ left' = [left EXCEPT ![r].tables = @ \ {t}]
    BY DEF ListColumns
<1> DEFINE f == files[r]
           c == catalog
           h == have[r]
           new == WithoutKeys(ColumnsOf(t))
           ts == With(h.tables, t, new)
           k == [h EXCEPT !.tables = ts]
<1>2. /\ pc[r] = "columns" /\ pc'[r] = "columns" /\ catalog' = c /\ files'[r] = f
      /\ have'[r] = k
    BY <1>1 DEF ListColumns, IInv, Shape
<1>3. left'[r].namespaces = left[r].namespaces /\ left'[r].tables = left[r].tables \ {t}
    <2>1. left[r] \in Leftovers /\ left'[r] = [left[r] EXCEPT !.tables = left[r].tables \ {t}]
        BY <1>1 DEF IInv, Shape
    <2> QED
        BY <2>1 DEF Leftovers
<1>4. new.columns = ColumnsOf(t) /\ new.primaryKey = NoPrimaryKey
      /\ new.uniques = {} /\ new.foreignKeys = {}
    BY DEF WithoutKeys
<1> HIDE DEF new
<1>5. /\ DOMAIN ts = DOMAIN h.tables \cup {t} /\ ts[t] = new
      /\ \A s \in DOMAIN h.tables : s # t => ts[s] = h.tables[s]
    BY DEF With
<1> HIDE DEF ts
<1>6. k.tables = ts /\ k.namespaces = h.namespaces
    BY DEF IInv, RunInv, IsSchema
<1> HIDE DEF k
<1>7. InReach(r, t) /\ (t \in DOMAIN f.tables => t \in DOMAIN c.tables)
    BY <1>2 DEF ReadInv, ListedColumns
<1>8. t \in DOMAIN c.tables => new.columns = c.tables[t].columns
    BY <1>4 DEF ColumnsOf
<1>9. Nearer(f, k, c)
    <2>1. Nearer(f, h, c)
        BY DEF ReadInv
    <2>2. t \in DOMAIN f.tables => TableNearer(f.tables[t], new, c.tables[t])
        BY <1>4, <1>7, <1>8 DEF TableNearer, ColumnNearer, Named
    <2> QED
        BY <1>5, <1>6, <1>7, <2>1, <2>2 DEF Nearer
<1>10. \A s : InReach(r, s)' <=> InReach(r, s)
    BY <1>3 DEF InReach, Reading, IsFirst
<1>11. /\ "columns" \notin HoldsPlan /\ "columns" \in Reads /\ "columns" \in Underway
       /\ "columns" \notin {"unique keys read", "foreign keys read"}
    BY DEF HoldsPlan, Reads, Active, Underway
<1>12. \A s : /\ UniquesRead(r, s)' => UniquesRead(r, s)
              /\ ForeignKeysRead(r, s)' => ForeignKeysRead(r, s)
    BY <1>2, <1>3, <1>10 DEF UniquesRead, ForeignKeysRead, HasRead
<1>13. ~UniquesRead(r, t)' /\ ~ForeignKeysRead(r, t)'
    BY <1>2, <1>7, <1>10, <1>11 DEF UniquesRead, ForeignKeysRead, HasRead
<1>14. SurplusKnown(r)
    BY <1>2, <1>11 DEF ReadInv
<1>15. ASSUME NEW s \in DOMAIN f.tables \cap DOMAIN ts
       PROVE  /\ ColumnsKnown(f.tables[s], ts[s], c.tables[s])
              /\ UniquesRead(r, s)' => UniquesKnown(f.tables[s], ts[s], c.tables[s])
              /\ ForeignKeysRead(r, s)' => ForeignKeysKnown(f.tables[s], ts[s], c.tables[s])
    <2>1. CASE s = t
        BY <1>5, <1>7, <1>8, <1>13, <2>1 DEF ColumnsKnown
    <2>2. CASE s # t
        BY <1>5, <1>12, <1>14, <1>15, <2>2 DEF SurplusKnown, TableKnown
    <2> QED
        BY <2>1, <2>2
<1>16. \A s \in DOMAIN f.tables \cap DOMAIN ts : TableKnown(r, s)'
    BY <1>2, <1>6, <1>15 DEF TableKnown
<1>17. SurplusKnown(r)'
    BY <1>2, <1>3, <1>5, <1>6, <1>10, <1>12, <1>14, <1>16 DEF SurplusKnown
<1>18. ListedColumns(r)'
    BY <1>2, <1>3, <1>10 DEF ReadInv, ListedColumns
<1>19. Nearer(files'[r], have'[r], catalog')
    BY <1>2, <1>9
<1> QED
    BY <1>2, <1>11, <1>17, <1>18, <1>19 DEF ReadInv, AtRest

LEMMA ListUniqueKeysReach ==
    ASSUME IInv, NEW r \in Runners, ReadInv(r), ListUniqueKeys(r)
    PROVE  ReadInv(r)'
<1> DEFINE f == files[r]
           c == catalog
           h == have[r]
           Keyed(t) == [h.tables[t] EXCEPT !.primaryKey = c.tables[t].primaryKey,
                                           !.uniques = c.tables[t].uniques]
           ts == [t \in DOMAIN h.tables |->
                     IF InReach(r, t) /\ t \in DOMAIN c.tables THEN Keyed(t) ELSE h.tables[t]]
           k == [h EXCEPT !.tables = ts]
<1>1. /\ pc[r] = "columns" /\ pc'[r] = "unique keys read" /\ catalog' = c /\ files'[r] = f
      /\ left[r].tables = {} /\ left'[r] = left[r] /\ have'[r] = k
    BY DEF ListUniqueKeys, IInv, Shape
<1>2. ASSUME NEW t \in DOMAIN h.tables
      PROVE  /\ Keyed(t).columns = h.tables[t].columns
             /\ Keyed(t).primaryKey = c.tables[t].primaryKey
             /\ Keyed(t).uniques = c.tables[t].uniques
             /\ Keyed(t).foreignKeys = h.tables[t].foreignKeys
    <2> DEFINE old == h.tables[t]
               p == c.tables[t].primaryKey
               us == c.tables[t].uniques
               a == [columns |-> old.columns, primaryKey |-> p, uniques |-> old.uniques,
                     foreignKeys |-> old.foreignKeys, removed |-> old.removed]
    <2>1. IsTable(old)
        BY SchemaParts DEF IInv, RunInv
    <2>2. [old EXCEPT !.primaryKey = p] = a
        <3> HIDE DEF old, p
        <3> QED
            BY <2>1 DEF IsTable
    <2>3. [a EXCEPT !.uniques = us] =
             [columns |-> old.columns, primaryKey |-> p, uniques |-> us,
              foreignKeys |-> old.foreignKeys, removed |-> old.removed]
        OBVIOUS
    <2>4. Keyed(t) = [[old EXCEPT !.primaryKey = p] EXCEPT !.uniques = us]
        OBVIOUS
    <2> HIDE DEF Keyed, old
    <2> QED
        BY <2>2, <2>3, <2>4 DEF old
<1> HIDE DEF Keyed
<1>3. /\ DOMAIN ts = DOMAIN h.tables
      /\ \A t \in DOMAIN h.tables :
            /\ InReach(r, t) /\ t \in DOMAIN c.tables => ts[t] = Keyed(t)
            /\ ~InReach(r, t) => ts[t] = h.tables[t]
            /\ t \notin DOMAIN c.tables => ts[t] = h.tables[t]
    OBVIOUS
<1> HIDE DEF ts
<1>4. k.tables = ts /\ k.namespaces = h.namespaces
    BY DEF IInv, RunInv, IsSchema
<1> HIDE DEF k
<1>5. Nearer(f, h, c)
    BY DEF ReadInv
<1>6. ASSUME NEW t \in DOMAIN f.tables \cap DOMAIN h.tables
      PROVE  /\ t \in DOMAIN c.tables
             /\ TableNearer(f.tables[t], ts[t], c.tables[t])
    <2>1. t \in DOMAIN c.tables /\ TableNearer(f.tables[t], h.tables[t], c.tables[t])
        BY <1>5 DEF Nearer
    <2>2. TableNearer(f.tables[t], Keyed(t), c.tables[t])
        BY <1>2, <2>1 DEF TableNearer, Named
    <2> QED
        BY <1>3, <2>1, <2>2
<1>7. Nearer(f, k, c)
    BY <1>3, <1>4, <1>5, <1>6 DEF Nearer
<1>8. \A t : InReach(r, t)' <=> InReach(r, t)
    BY <1>1 DEF InReach, Reading, IsFirst
<1>9. /\ "unique keys read" \notin HoldsPlan /\ "unique keys read" \in Reads
      /\ "columns" \in Reads /\ "columns" \in Underway /\ "unique keys read" \in Underway
    BY DEF HoldsPlan, Reads, Active, Underway
<1>10. \A t : ~InReach(r, t) => /\ UniquesRead(r, t)' => UniquesRead(r, t)
                                /\ ForeignKeysRead(r, t)' => ForeignKeysRead(r, t)
    BY <1>1, <1>8 DEF UniquesRead, ForeignKeysRead, HasRead
<1>11. \A t : InReach(r, t) => ~ForeignKeysRead(r, t)'
    BY <1>1, <1>8, <1>9 DEF ForeignKeysRead, HasRead
<1>12. SurplusKnown(r)
    BY <1>1, <1>9 DEF ReadInv
<1>13. ASSUME NEW t \in DOMAIN f.tables \cap DOMAIN ts
       PROVE  /\ ColumnsKnown(f.tables[t], ts[t], c.tables[t])
              /\ UniquesRead(r, t)' => UniquesKnown(f.tables[t], ts[t], c.tables[t])
              /\ ForeignKeysRead(r, t)' => ForeignKeysKnown(f.tables[t], ts[t], c.tables[t])
    <2>1. TableKnown(r, t) /\ t \in DOMAIN c.tables /\ t \in DOMAIN h.tables
        BY <1>3, <1>6, <1>12 DEF SurplusKnown
    <2>2. CASE InReach(r, t)
        <3>1. ts[t] = Keyed(t)
            BY <1>3, <2>1, <2>2
        <3>2. ColumnsKnown(f.tables[t], Keyed(t), c.tables[t])
            BY <1>2, <2>1 DEF TableKnown, ColumnsKnown
        <3>3. UniquesKnown(f.tables[t], Keyed(t), c.tables[t])
            BY <1>2, <2>1 DEF UniquesKnown, KeyStays
        <3> QED
            BY <1>11, <2>2, <3>1, <3>2, <3>3
    <2>3. CASE ~InReach(r, t)
        BY <1>3, <1>10, <2>1, <2>3 DEF TableKnown
    <2> QED
        BY <2>2, <2>3
<1>14. \A t \in DOMAIN f.tables \cap DOMAIN ts : TableKnown(r, t)'
    BY <1>1, <1>4, <1>13 DEF TableKnown
<1>15. \A t \in DOMAIN c.tables \ DOMAIN f.tables : UniquesRead(r, t)' => t \in DOMAIN ts
    BY <1>1, <1>3, <1>10, <1>12 DEF SurplusKnown
<1>16. SurplusKnown(r)'
    BY <1>1, <1>4, <1>12, <1>14, <1>15 DEF SurplusKnown
<1>17. Nearer(files'[r], have'[r], catalog')
    BY <1>1, <1>7
<1> QED
    BY <1>1, <1>9, <1>16, <1>17 DEF ReadInv, AtRest

\* The surplus among the foreign keys is where the query finds it.
LEMMA ListForeignKeysReach ==
    ASSUME IInv, NEW r \in Runners, ReadInv(r), SurplusRests(files[r], catalog),
           ListForeignKeys(r)
    PROVE  ReadInv(r)'
<1> DEFINE f == files[r]
           c == catalog
           h == have[r]
           Keyed(t) == [h.tables[t] EXCEPT !.foreignKeys = ReadForeignKeys(c, t)]
           ts == [t \in DOMAIN h.tables |->
                     IF InReach(r, t) /\ t \in DOMAIN c.tables THEN Keyed(t) ELSE h.tables[t]]
           k == [h EXCEPT !.tables = ts]
<1>1. /\ pc[r] = "unique keys read" /\ pc'[r] = "foreign keys read"
      /\ catalog' = c /\ files'[r] = f /\ left'[r] = left[r] /\ have'[r] = k
    BY DEF ListForeignKeys, IInv, Shape
<1>2. ASSUME NEW t \in DOMAIN h.tables
      PROVE  /\ Keyed(t).columns = h.tables[t].columns
             /\ Keyed(t).primaryKey = h.tables[t].primaryKey
             /\ Keyed(t).uniques = h.tables[t].uniques
             /\ Keyed(t).foreignKeys = ReadForeignKeys(c, t)
    <2> DEFINE old == h.tables[t]
               fks == ReadForeignKeys(c, t)
    <2>1. IsTable(old)
        BY SchemaParts DEF IInv, RunInv
    <2> HIDE DEF old, fks
    <2>2. [old EXCEPT !.foreignKeys = fks] =
             [columns |-> old.columns, primaryKey |-> old.primaryKey, uniques |-> old.uniques,
              foreignKeys |-> fks, removed |-> old.removed]
        BY <2>1 DEF IsTable
    <2>3. Keyed(t) = [old EXCEPT !.foreignKeys = fks]
        BY DEF old, fks
    <2> HIDE DEF Keyed
    <2> QED
        BY <2>2, <2>3 DEF old, fks
<1> HIDE DEF Keyed
<1>3. /\ DOMAIN ts = DOMAIN h.tables
      /\ \A t \in DOMAIN h.tables :
            /\ InReach(r, t) /\ t \in DOMAIN c.tables => ts[t] = Keyed(t)
            /\ ~InReach(r, t) => ts[t] = h.tables[t]
            /\ t \notin DOMAIN c.tables => ts[t] = h.tables[t]
    OBVIOUS
<1> HIDE DEF ts
<1>4. k.tables = ts /\ k.namespaces = h.namespaces
    BY DEF IInv, RunInv, IsSchema
<1> HIDE DEF k
<1>5. Nearer(f, h, c)
    BY DEF ReadInv
<1>6. ASSUME NEW t \in DOMAIN f.tables \cap DOMAIN h.tables
      PROVE  /\ t \in DOMAIN c.tables
             /\ TableNearer(f.tables[t], ts[t], c.tables[t])
    <2>1. t \in DOMAIN c.tables /\ TableNearer(f.tables[t], h.tables[t], c.tables[t])
        BY <1>5 DEF Nearer
    <2>2. ReadForeignKeys(c, t) \subseteq c.tables[t].foreignKeys
        BY DEF ReadForeignKeys
    <2>3. TableNearer(f.tables[t], Keyed(t), c.tables[t])
        BY <1>2, <2>1, <2>2 DEF TableNearer, Named
    <2> QED
        BY <1>3, <2>1, <2>3
<1>7. Nearer(f, k, c)
    BY <1>3, <1>4, <1>5, <1>6 DEF Nearer
<1>8. \A t : InReach(r, t)' <=> InReach(r, t)
    BY <1>1 DEF InReach, Reading, IsFirst
<1>9. /\ "foreign keys read" \notin HoldsPlan /\ "foreign keys read" \in Reads
      /\ "unique keys read" \in Reads
      /\ "unique keys read" \in Underway /\ "foreign keys read" \in Underway
    BY DEF HoldsPlan, Reads, Active, Underway
<1>10. \A t : /\ UniquesRead(r, t)' => UniquesRead(r, t)
              /\ ~InReach(r, t) /\ ForeignKeysRead(r, t)' => ForeignKeysRead(r, t)
    BY <1>1, <1>8, <1>9 DEF UniquesRead, ForeignKeysRead, HasRead
<1>11. SurplusKnown(r)
    BY <1>1, <1>9 DEF ReadInv
<1>12. ASSUME NEW t \in DOMAIN f.tables \cap DOMAIN ts
       PROVE  /\ ColumnsKnown(f.tables[t], ts[t], c.tables[t])
              /\ UniquesRead(r, t)' => UniquesKnown(f.tables[t], ts[t], c.tables[t])
              /\ ForeignKeysRead(r, t)' => ForeignKeysKnown(f.tables[t], ts[t], c.tables[t])
    <2>1. TableKnown(r, t) /\ t \in DOMAIN c.tables /\ t \in DOMAIN h.tables
        BY <1>3, <1>6, <1>11 DEF SurplusKnown
    <2>2. CASE InReach(r, t)
        <3>1. ts[t] = Keyed(t)
            BY <1>3, <2>1, <2>2
        <3>2. ColumnsKnown(f.tables[t], Keyed(t), c.tables[t])
            BY <1>2, <2>1 DEF TableKnown, ColumnsKnown
        <3>3. UniquesRead(r, t)' => UniquesKnown(f.tables[t], Keyed(t), c.tables[t])
            BY <1>2, <1>10, <2>1 DEF TableKnown, UniquesKnown, KeyStays
        <3>4. ForeignKeysKnown(f.tables[t], Keyed(t), c.tables[t])
            BY <1>2, <2>1 DEF ForeignKeysKnown, ReadForeignKeys, SurplusRests
        <3> QED
            BY <3>1, <3>2, <3>3, <3>4
    <2>3. CASE ~InReach(r, t)
        BY <1>3, <1>10, <2>1, <2>3 DEF TableKnown
    <2> QED
        BY <2>2, <2>3
<1>13. \A t \in DOMAIN f.tables \cap DOMAIN ts : TableKnown(r, t)'
    BY <1>1, <1>4, <1>12 DEF TableKnown
<1>14. \A t \in DOMAIN c.tables \ DOMAIN f.tables : UniquesRead(r, t)' => t \in DOMAIN ts
    BY <1>3, <1>10, <1>11 DEF SurplusKnown
<1>15. SurplusKnown(r)'
    BY <1>1, <1>4, <1>11, <1>13, <1>14 DEF SurplusKnown
<1>16. Nearer(files'[r], have'[r], catalog')
    BY <1>1, <1>7
<1> QED
    BY <1>1, <1>9, <1>15, <1>16 DEF ReadInv, AtRest

\* The namespace has been read when the next one is begun.
LEMMA ListIndexesReach ==
    ASSUME IInv, NEW r \in Runners, ReadInv(r), ListIndexes(r)
    PROVE  ReadInv(r)'
<1>1. PICK is : have'[r] = [have[r] EXCEPT !.indexes = is]
    BY DEF ListIndexes, IInv, Shape
<1> DEFINE f == files[r]
           c == catalog
           h == have[r]
           k == have'[r]
<1>2. /\ pc[r] = "foreign keys read" /\ pc'[r] = "listed" /\ catalog' = c /\ files'[r] = f
      /\ left'[r] = [left[r] EXCEPT !.namespaces = left[r].namespaces \ {Reading(r)}]
    BY DEF ListIndexes, IInv, Shape
<1>3. left'[r].namespaces = left[r].namespaces \ {Reading(r)}
    <2>1. left[r] \in Leftovers
        BY DEF IInv, Shape
    <2> QED
        BY <1>2, <2>1 DEF Leftovers
<1>4. k.tables = h.tables /\ k.namespaces = h.namespaces
    BY <1>1 DEF IInv, RunInv, IsSchema
<1> HIDE DEF k
<1>5. /\ "listed" \notin HoldsPlan /\ "listed" \in Reads /\ "listed" \notin Underway
      /\ "foreign keys read" \in Reads /\ "foreign keys read" \in Underway
    BY DEF HoldsPlan, Reads, Active, Underway
<1>6. \A t : /\ UniquesRead(r, t)' => UniquesRead(r, t)
             /\ ForeignKeysRead(r, t)' => ForeignKeysRead(r, t)
    BY <1>2, <1>3, <1>5 DEF UniquesRead, ForeignKeysRead, HasRead, InReach
<1>7. SurplusKnown(r) /\ Nearer(f, h, c)
    BY <1>2, <1>5 DEF ReadInv
<1>8. Nearer(f, k, c)
    BY <1>4, <1>7 DEF Nearer
<1>9. \A t \in DOMAIN f.tables \cap DOMAIN k.tables : TableKnown(r, t)'
    BY <1>2, <1>4, <1>6, <1>7 DEF SurplusKnown, TableKnown, k
<1>10. SurplusKnown(r)'
    BY <1>2, <1>4, <1>6, <1>7, <1>9 DEF SurplusKnown, k
<1>11. Nearer(files'[r], have'[r], catalog')
    BY <1>2, <1>8 DEF k
<1> QED
    BY <1>2, <1>5, <1>10, <1>11 DEF ReadInv, AtRest

LEMMA MakePlanReach ==
    ASSUME IInv, NEW r \in Runners, ReadInv(r), MakePlan(r)
    PROVE  ReadInv(r)'
<1>1. /\ pc[r] = "listed" /\ left[r].namespaces = {} /\ pc'[r] = "planned"
      /\ catalog' = catalog /\ files'[r] = files[r] /\ left'[r] = left[r] /\ have'[r] = have[r]
    BY DEF MakePlan, HasIntrospected, IInv, Shape
<1>2. /\ "listed" \in Reads /\ "listed" \notin Underway /\ "planned" \notin Underway
      /\ "planned" \notin AtRest \cup {"connected"}
    BY DEF Reads, Active, Underway, AtRest
<1>3. \A t : /\ UniquesRead(r, t)' => UniquesRead(r, t)
             /\ ForeignKeysRead(r, t)' => ForeignKeysRead(r, t)
    BY <1>1, <1>2 DEF UniquesRead, ForeignKeysRead, HasRead
<1>4. SurplusKnown(r) /\ Nearer(files[r], have[r], catalog)
    BY <1>1, <1>2 DEF ReadInv
<1>5. \A t \in DOMAIN files[r].tables \cap DOMAIN have[r].tables : TableKnown(r, t)'
    BY <1>1, <1>3, <1>4 DEF SurplusKnown, TableKnown
<1>6. SurplusKnown(r)'
    BY <1>1, <1>3, <1>4, <1>5 DEF SurplusKnown
<1>7. Planned(r)'
    <2>1. PICK orders \in Orders(files[r].groups) :
              /\ Disallowed(files[r], have[r], orders) = {}
              /\ plan' = [plan EXCEPT ![r] = Plan(files[r], have[r], orders)]
        BY DEF MakePlan
    <2>2. plan'[r] = Plan(files[r], have[r], orders)
        BY <2>1 DEF IInv, Shape
    <2> QED
        BY <1>1, <2>1, <2>2 DEF Planned
<1>8. Nearer(files'[r], have'[r], catalog')
    BY <1>1, <1>4
<1> QED
    BY <1>1, <1>2, <1>6, <1>7, <1>8 DEF ReadInv

-----------------------------------------------------------------------------
(* The invariant.                                                          *)

LEMMA InitReach ==
    ASSUME FilesAreConsistent, SurplusIsHoused, Init
    PROVE  ReachInv
<1>1. PICK s \in Scenarios : catalog = s.catalog /\ files = s.files
    BY DEF Init
<1>2. ASSUME NEW r \in Runners
      PROVE  ReadInv(r) /\ ServedInv(r)
    <2>1. pc[r] = "idle" /\ have[r] = EmptySchema
        BY DEF Init
    <2>2. "idle" \notin HoldsPlan /\ "idle" \notin Reads
        BY DEF HoldsPlan, Reads, Active
    <2> QED
        BY <2>1, <2>2, NothingReadNearer DEF ReadInv, ServedInv
<1> QED
    BY <1>1, <1>2 DEF ReachInv, FilesAreConsistent, SurplusIsHoused

\* A run that has its plan knows all the surplus there is.
LEMMA PlannedKnown ==
    ASSUME NEW r \in Runners, ReadInv(r), pc[r] \in HoldsPlan
    PROVE  Known(files[r], have[r], catalog)
<1>1. pc[r] \in Reads /\ pc[r] \notin Underway /\ left[r].namespaces = {}
    BY DEF ReadInv, HoldsPlan, Reads, Active, Underway
<1>2. \A t : UniquesRead(r, t) /\ ForeignKeysRead(r, t)
    BY <1>1 DEF UniquesRead, ForeignKeysRead, HasRead
<1>3. SurplusKnown(r)
    BY <1>1 DEF ReadInv
<1> QED
    BY <1>2, <1>3 DEF SurplusKnown, TableKnown, Known

\* Whatever a step does to the catalog, it does not lead away from the files.
LEMMA ChangesCatalogReach ==
    ASSUME NEW U, LossInv(U), IInv, OpenInv, ReachInv, NEW r \in Runners, ChangesCatalog(r),
           files' = files, NEW q \in Runners
    PROVE  /\ Nearer(files[q], catalog, catalog') /\ Evolves(files[q], catalog, catalog')
           /\ StaysOpen(files[q], catalog, catalog')
           /\ catalog.namespaces \subseteq catalog'.namespaces
<1>1. files[q] = files[r] /\ Sound(U, catalog)
    BY DEF LossInv
<1>2. StaysOpen(files[q], catalog, catalog')
    BY ChangesCatalogOpen
<1>3. CASE catalog' = catalog
    BY <1>2, <1>3, NearerReflexive, EvolvesReflexive
<1>4. CASE pc[r] = "transaction" /\ catalog' = working
    <2>1. Nearer(files[r], catalog, working)
        BY <1>4 DEF ReachInv, ServedInv
    <2>2. Evolves(files[r], catalog, working) /\ OnlyApprovedLoss(files[r], catalog, working)
        BY <1>4 DEF LossInv, RunLoss, InTransactionInv
    <2>3. catalog.namespaces \subseteq working.namespaces
        BY <2>2 DEF OnlyApprovedLoss
    <2> QED
        BY <1>1, <1>2, <1>4, <2>1, <2>2, <2>3
<1>5. CASE ChangesIndexes(files[r], catalog, catalog')
    <2>1. Evolves(files[r], catalog, catalog')
        BY <1>1, <1>5, ChangesIndexesSafely
    <2>2. catalog'.tables = catalog.tables /\ catalog'.namespaces = catalog.namespaces
        BY <1>5 DEF ChangesIndexes
    <2>3. Nearer(files[q], catalog, catalog')
        BY <2>2, TableNearerReflexive DEF Nearer
    <2> QED
        BY <1>1, <1>2, <2>1, <2>2, <2>3
<1> QED
    BY <1>3, <1>4, <1>5 DEF ChangesCatalog

\* A step of run r leaves what the others read and planned alone.
LEMMA OthersKept ==
    ASSUME Shape, NEW r \in Runners, NEW q \in Runners, q # r,
           \/ Connect(r) \/ Step(r)
           \/ FaultOutsideTransaction(r) \/ FaultInTransaction(r)
           \/ FaultAtCommit(r) \/ FaultInBuild(r)
    PROVE  /\ pc'[q] = pc[q] /\ have'[q] = have[q] /\ left'[q] = left[q]
           /\ plan'[q] = plan[q] /\ todo'[q] = todo[q]
<1>1. CASE \/ Connect(r) \/ ListUserSchemas(r) \/ ListTables(r) \/ ListColumns(r)
           \/ ListUniqueKeys(r) \/ ListForeignKeys(r) \/ ListIndexes(r) \/ MakePlan(r)
    BY <1>1 DEF Connect, ListUserSchemas, ListTables, ListColumns, ListUniqueKeys,
                ListForeignKeys, ListIndexes, MakePlan, Shape
<1>2. CASE \/ Refuse(r) \/ DryRun(r) \/ Finish(r) \/ FaultOutsideTransaction(r)
           \/ FaultInTransaction(r) \/ FaultAtCommit(r) \/ FaultInBuild(r)
    <2>1. \E p : Stop(r, p)
        BY <1>2 DEF Refuse, DryRun, Finish, FaultOutsideTransaction, FaultInTransaction,
                    FaultAtCommit, FaultInBuild, Fault
    <2> QED
        BY <2>1 DEF Stop, Shape
<1>3. CASE ExecuteInTransaction(r)
    BY <1>3 DEF ExecuteInTransaction, Stop, Shape
<1>4. CASE ExecuteIndex(r)
    BY <1>4 DEF ExecuteIndex, Stop, Shape
<1>5. CASE Begin(r) \/ NoTransaction(r) \/ Commit(r) \/ StartBuild(r) \/ FinishBuild(r)
    BY <1>5 DEF Begin, NoTransaction, Commit, StartBuild, FinishBuild, Shape
<1> QED
    BY <1>1, <1>2, <1>3, <1>4, <1>5 DEF Step

\* The transaction of one run is not disturbed by the steps of another.
LEMMA OthersServed ==
    ASSUME NEW U, LossInv(U), IInv, NEW r \in Runners, NEW q \in Runners, q # r, ServedInv(q),
           \/ Connect(r) \/ Step(r)
           \/ FaultOutsideTransaction(r) \/ FaultInTransaction(r)
           \/ FaultAtCommit(r) \/ FaultInBuild(r)
    PROVE  ServedInv(q)'
<1>1. /\ pc'[q] = pc[q] /\ have'[q] = have[q] /\ left'[q] = left[q]
      /\ plan'[q] = plan[q] /\ todo'[q] = todo[q] /\ files' = files
    BY OthersKept, StepChangesCatalog DEF IInv
<1>2. SUFFICES ASSUME pc[q] = "transaction"
               PROVE  ServedInv(q)'
    BY <1>1 DEF ServedInv
<1>3. owner = q /\ q # NoRunner /\ pc[r] \notin {"transaction", "building"}
    BY <1>2, RunnerAssumption DEF LossInv, RunLoss
<1>4. UNCHANGED <<catalog, working>>
    BY <1>3 DEF Step, Connect, ListUserSchemas, ListTables, ListColumns, ListUniqueKeys,
                ListForeignKeys, ListIndexes, Refuse, MakePlan, DryRun, Begin, NoTransaction,
                ExecuteInTransaction, Commit, ExecuteIndex, StartBuild, FinishBuild, Finish,
                FaultOutsideTransaction, FaultInTransaction, FaultAtCommit, FaultInBuild
<1> QED
    BY <1>1, <1>4 DEF ServedInv, Sent

\* A run that goes on with its plan.
LEMMA GoesOnReach ==
    ASSUME IInv, NEW r \in Runners, ReadInv(r), pc[r] \in HoldsPlan, NEW p \in HoldsPlan,
           pc' = [pc EXCEPT ![r] = p], UNCHANGED <<files, left, have, plan>>,
           Nearer(files[r], catalog, catalog'), Evolves(files[r], catalog, catalog'),
           StaysOpen(files[r], catalog, catalog')
    PROVE  ReadInv(r)'
<1>1. pc'[r] \in HoldsPlan
    BY DEF IInv, Shape
<1> QED
    BY <1>1, ReadStays

LEMMA StepReach ==
    ASSUME NEW U, LossInv(U), IInv, IInv', OpenInv, ReachInv, NEW r \in Runners,
           \/ Connect(r) \/ Step(r)
           \/ FaultOutsideTransaction(r) \/ FaultInTransaction(r)
           \/ FaultAtCommit(r) \/ FaultInBuild(r)
    PROVE  ReachInv'
<1>1. ChangesCatalog(r) /\ files' = files
    BY StepChangesCatalog
<1>2. \A q \in Runners :
          /\ Nearer(files[q], catalog, catalog') /\ Evolves(files[q], catalog, catalog')
          /\ StaysOpen(files[q], catalog, catalog')
          /\ catalog.namespaces \subseteq catalog'.namespaces
    BY <1>1, ChangesCatalogReach
<1>3. \A q \in Runners : Housed(files[q], catalog')
    BY <1>2 DEF ReachInv, Housed, Evolves
<1>4. ReadInv(r) /\ ServedInv(r) /\ SurplusRests(files[r], catalog)
    BY DEF ReachInv, OpenInv
<1>5. ReadInv(r)' /\ ServedInv(r)'
    <2>1. CASE \/ Connect(r) \/ ListUserSchemas(r) \/ ListTables(r) \/ ListColumns(r)
               \/ ListUniqueKeys(r) \/ ListForeignKeys(r) \/ ListIndexes(r) \/ MakePlan(r)
        <3>1. ReadInv(r)'
            BY <1>4, <2>1, ConnectReach, ListUserSchemasReach, ListTablesReach, ListColumnsReach,
               ListUniqueKeysReach, ListForeignKeysReach, ListIndexesReach, MakePlanReach
               DEF ReachInv
        <3>2. pc'[r] # "transaction"
            BY <2>1 DEF Connect, ListUserSchemas, ListTables, ListColumns, ListUniqueKeys,
                        ListForeignKeys, ListIndexes, MakePlan, IInv, Shape
        <3> QED
            BY <3>1, <3>2 DEF ServedInv
    <2>2. CASE \/ Refuse(r) \/ DryRun(r) \/ Finish(r) \/ FaultOutsideTransaction(r)
               \/ FaultInTransaction(r) \/ FaultAtCommit(r) \/ FaultInBuild(r)
        <3>1. \E p \in AtRest : Stop(r, p)
            BY <2>2 DEF Refuse, DryRun, Finish, FaultOutsideTransaction, FaultInTransaction,
                        FaultAtCommit, FaultInBuild, Fault, AtRest
        <3>2. pc'[r] \in AtRest /\ have'[r] = EmptySchema
            BY <3>1 DEF Stop, IInv, Shape
        <3> QED
            BY <3>2, StoppedReach
    <2>3. CASE ExecuteInTransaction(r)
        <3>1. CASE Stop(r, "failed")
            <4>1. pc'[r] \in AtRest /\ have'[r] = EmptySchema
                BY <3>1 DEF Stop, IInv, Shape, AtRest
            <4> QED
                BY <4>1, StoppedReach
        <3>2. CASE ~Stop(r, "failed")
            <4>1. PICK m : Executes(r, m)
                BY <1>1, <2>3, <3>2 DEF ExecuteInTransaction, Executes
            <4>2. pc[r] \in HoldsPlan /\ pc' = [pc EXCEPT ![r] = pc[r]]
                BY <4>1 DEF Executes, HoldsPlan, IInv, Shape
            <4>3. ReadInv(r)'
                BY <1>2, <1>4, <4>1, <4>2, GoesOnReach DEF Executes
            <4>4. ServedInv(r)'
                <5>1. Known(files[r], have[r], catalog)
                    BY <1>4, <4>2, PlannedKnown
                <5>2. AllConsistent(files[r]) /\ Nearer(files[r], have[r], catalog)
                    BY <1>4 DEF ReachInv, AllConsistent, ReadInv
                <5> QED
                    BY <1>4, <4>1, <5>1, <5>2, ExecutesReach
            <4> QED
                BY <4>3, <4>4
        <3> QED
            BY <3>1, <3>2
    <2>4. CASE ExecuteIndex(r)
        <3>1. CASE Stop(r, "failed")
            <4>1. pc'[r] \in AtRest /\ have'[r] = EmptySchema
                BY <3>1 DEF Stop, IInv, Shape, AtRest
            <4> QED
                BY <4>1, StoppedReach
        <3>2. CASE ~Stop(r, "failed")
            <4>1. UNCHANGED <<pc, left, have, plan>> /\ pc[r] = "committed"
                BY <2>4, <3>2 DEF ExecuteIndex
            <4>2. pc[r] \in HoldsPlan /\ pc' = [pc EXCEPT ![r] = pc[r]]
                BY <4>1 DEF HoldsPlan, IInv, Shape
            <4>3. ReadInv(r)'
                BY <1>1, <1>2, <1>4, <4>1, <4>2, GoesOnReach
            <4> QED
                BY <4>1, <4>3 DEF ServedInv
        <3> QED
            BY <3>1, <3>2
    <2>5. CASE Begin(r)
        <3>1. /\ pc[r] = "planned" /\ pc' = [pc EXCEPT ![r] = "transaction"]
              /\ UNCHANGED <<catalog, files, left, have, plan, todo>> /\ working' = catalog
            BY <2>5 DEF Begin
        <3>2. pc[r] \in HoldsPlan /\ "transaction" \in HoldsPlan
            BY <3>1 DEF HoldsPlan
        <3>3. ReadInv(r)'
            BY <1>2, <1>4, <3>1, <3>2, GoesOnReach
        <3>4. Sent(r)' = {}
            BY <3>1 DEF LossInv, RunLoss, Sent
        <3> QED
            BY <3>1, <3>3, <3>4, NearerReflexive DEF ServedInv
    <2>6. CASE NoTransaction(r) \/ Commit(r) \/ StartBuild(r) \/ FinishBuild(r)
        <3>1. PICK p \in {"committed", "building"} :
                  /\ pc' = [pc EXCEPT ![r] = p] /\ UNCHANGED <<files, left, have, plan>>
            BY <2>6 DEF NoTransaction, Commit, StartBuild, FinishBuild
        <3>2. pc[r] \in HoldsPlan /\ p \in HoldsPlan /\ pc'[r] # "transaction"
            BY <2>6, <3>1 DEF NoTransaction, Commit, StartBuild, FinishBuild, HoldsPlan, IInv, Shape
        <3>3. ReadInv(r)'
            BY <1>2, <1>4, <3>1, <3>2, GoesOnReach
        <3> QED
            BY <3>2, <3>3 DEF ServedInv
    <2> QED
        BY <2>1, <2>2, <2>3, <2>4, <2>5, <2>6 DEF Step
<1>6. ASSUME NEW q \in Runners, q # r
      PROVE  ReadInv(q)' /\ ServedInv(q)'
    <2>1. /\ pc'[q] = pc[q] /\ have'[q] = have[q] /\ left'[q] = left[q] /\ plan'[q] = plan[q]
        BY <1>6, OthersKept DEF IInv
    <2>2. ReadInv(q) /\ ServedInv(q)
        BY DEF ReachInv
    <2>3. ReadInv(q)'
        BY <1>1, <1>2, <2>1, <2>2, ReadStays
    <2> QED
        BY <1>6, <2>2, <2>3, OthersServed
<1> QED
    BY <1>1, <1>3, <1>5, <1>6 DEF ReachInv

\* ReachInv is an invariant of overlapping runs that agree on their files.
LEMMA ReachInductive ==
    ASSUME AgreeOnFiles, NEW U, NamesAreKept(U), SurplusKeysRest, FilesAreConsistent,
           SurplusIsHoused
    PROVE  Spec => []ReachInv
<1>1. Init => ReachInv
    BY InitReach
<1>2. IInv /\ IInv' /\ LossInv(U) /\ OpenInv /\ ReachInv /\ [Next]_vars => ReachInv'
    <2>1. ASSUME IInv, IInv', LossInv(U), OpenInv, ReachInv, Next
          PROVE  ReachInv'
        BY <2>1, StepReach DEF Next
    <2>2. ASSUME ReachInv, UNCHANGED vars
          PROVE  ReachInv'
        <3>1. ASSUME NEW q \in Runners
              PROVE  ReadInv(q)' /\ ServedInv(q)'
            <4>1. ReadInv(q) /\ ServedInv(q)
                BY <2>2 DEF ReachInv
            <4>2. ReadInv(q)'
                BY <2>2, <4>1, ReadStays, NearerReflexive, EvolvesReflexive, StaysOpenReflexive
                   DEF vars
            <4>3. ServedInv(q)'
                BY <2>2, <4>1 DEF vars, ServedInv, Sent
            <4> QED
                BY <4>2, <4>3
        <3> QED
            BY <2>2, <3>1 DEF vars, ReachInv
    <2> QED
        BY <2>1, <2>2
<1> QED
    BY <1>1, <1>2, Inductive, LossInductive, OpenInductive, PTL DEF Spec

-----------------------------------------------------------------------------
(* The commit.                                                             *)

LEMMA CommitMeets ==
    ASSUME NEW U, LossInv(U), IInv, OpenInv, ReachInv, NEW r \in Runners, Commits(r)
    PROVE  TablesMeet(files[r], catalog')
<1>1. pc[r] = "transaction" /\ InTransaction(todo[r]) = {} /\ catalog' = working
    BY DEF Commits, Commit, FaultAtCommit
<1>2. ReadInv(r) /\ ServedInv(r) /\ pc[r] \in HoldsPlan
    BY <1>1 DEF ReachInv, HoldsPlan
<1>3. PICK orders \in Orders(files[r].groups) :
          /\ plan[r] = Plan(files[r], have[r], orders)
          /\ Disallowed(files[r], have[r], orders) = {}
    BY <1>2 DEF ReadInv, Planned
<1>4. ASSUME NEW m \in InTransaction(plan[r])
      PROVE  Served(files[r], have[r], working, m)
    <2>1. m \in Sent(r)
        BY <1>1 DEF InTransaction, Sent
    <2> QED
        BY <1>1, <1>2, <2>1 DEF ServedInv
<1>5. Nearer(files[r], have[r], catalog) /\ Nearer(files[r], catalog, working)
    BY <1>1, <1>2 DEF ReadInv, ServedInv
<1>6. Known(files[r], have[r], working)
    <2>1. Evolves(files[r], catalog, working)
        BY <1>1 DEF LossInv, RunLoss, InTransactionInv
    <2>2. StaysOpen(files[r], catalog, working)
        BY <1>1 DEF OpenInv
    <2>3. Known(files[r], have[r], catalog)
        BY <1>2, PlannedKnown
    <2> QED
        BY <1>5, <2>1, <2>2, <2>3, KnownOn
<1>7. Nearer(files[r], have[r], working)
    BY <1>5, NearerOn
<1>8. IsFiles(files[r]) /\ IsSchema(have[r]) /\ IsCatalog(working)
    BY DEF IInv, Environment, RunInv
<1>9. TablesMeet(files[r], working)
    BY <1>3, <1>4, <1>6, <1>7, <1>8, PlanServed
<1> QED
    BY <1>1, <1>9

LEMMA PromisedTables ==
    ASSUME NEW f, NEW c, TablesMeet(f, c)
    PROVE  Promise!TablesMeet(f, c)
<1>1. ASSUME NEW t \in DOMAIN f.tables
      PROVE  Promise!ColumnsMeet(f, t, c.tables[t]) /\ Promise!KeysMeet(f, t, c.tables[t])
    <2>1. ColumnsMeet(f, t, c.tables[t]) /\ KeysMeet(f, t, c.tables[t])
        BY DEF TablesMeet
    <2>2. ASSUME NEW x, NEW type
          PROVE  Promise!RemovedAllows(f.tables[t], x, type) <=> RemovedAllows(f.tables[t], x, type)
        BY DEF RemovedAllows, Promise!RemovedAllows
    <2>3. Promise!ColumnsMeet(f, t, c.tables[t])
        BY <2>1, <2>2, PromisedCovers
           DEF ColumnsMeet, Tolerates, Promise!ColumnsMeet, Promise!Tolerates
    <2>4. Promise!KeysMeet(f, t, c.tables[t])
        BY <2>1, PromisedCovers DEF KeysMeet, Tolerates, Promise!KeysMeet, Promise!Tolerates
    <2> QED
        BY <2>3, <2>4
<1>2. Promise!CollectDesiredNamespaces(f) = CollectDesiredNamespaces(f)
    BY DEF CollectDesiredNamespaces, Promise!CollectDesiredNamespaces
<1> QED
    BY <1>1, <1>2 DEF TablesMeet, Promise!TablesMeet

-----------------------------------------------------------------------------
\* Runs of one version of the files may overlap, crash, fail and be repeated
\* at any moment: whichever run commits has brought the tables of the database
\* to what the files ask for, all at once; what changes besides is one index at
\* a time; and nothing goes that the files do not give away.
THEOREM PromiseIsKept ==
    ASSUME AgreeOnFiles, NEW U, NamesAreKept(U), SurplusKeysRest, FilesAreConsistent,
           SurplusIsHoused
    PROVE  Spec => RunsKeepPromise
<1>1. IInv /\ LossInv(U) /\ OpenInv /\ ReachInv /\ [Next]_vars
          => [Promise!Next]_<<catalog, files>>
    <2>1. ASSUME IInv, LossInv(U), OpenInv, ReachInv, Next
          PROVE  UNCHANGED <<catalog, files>> \/ Promise!Next
        <3>1. ASSUME NEW r \in Runners, Protects(r)
              PROVE  Promise!Next
            <4>1. r \in DOMAIN files
                BY <2>1 DEF IInv, Environment
            <4>2. Commits(r) => Promise!TablesMeet(files[r], catalog')
                BY <2>1, CommitMeets, PromisedTables
            <4> QED
                BY <3>1, <4>1, <4>2 DEF Protects, Promise!Next, Promise!Migrate
        <3> QED
            BY <2>1, <3>1, StepProtects
    <2> QED
        BY <2>1 DEF vars
<1> QED
    BY <1>1, LossInductive, OpenInductive, ReachInductive, PTL
       DEF Spec, RunsKeepPromise, Promise!Spec
=============================================================================
