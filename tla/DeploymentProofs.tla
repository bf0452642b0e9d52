-------------------------- MODULE DeploymentProofs --------------------------
(***************************************************************************)
(* Theorems about Deployment, for any set of processes: migrations, grants *)
(* and development starts in any order.                                    *)
(***************************************************************************)
EXTENDS Deployment, TLAPS

\* The tables of the recorded revision, with exactly the models' constraints on
\* whatever is there, and no grant that least_privilege.sql does not give.
SchemaInv ==
  /\ TypeOK
  /\ SchemaIsVersioned
  /\ constraints = On(tables, ModelConstraints)
  /\ revision > 0 => Version \in tables
  /\ grants \subseteq Matrix

\* The migrations create the constraints the models declare.
LEMMA SameConstraints == Constraints0001 \cup Constraints0002 = ModelConstraints
<1> DEFINE
      Unique == {<<"assets", "external_id">>, <<"reservations", "offer_id">>,
                 <<"dispatches", "reservation_id">>,
                 <<"meter_readings", "fingerprint">>,
                 <<"settlements", "reservation_id">>,
                 <<"audit_events", "event_id">>, <<"audit_events", "event_hash">>,
                 <<"idempotency_records", "operation, key">>}
      Outbox == <<"outbox_messages", "topic, idempotency_key">>
      Refers == {<<"flex_offers", "asset_id">>, <<"reservations", "offer_id">>,
                 <<"dispatches", "reservation_id">>,
                 <<"meter_readings", "asset_id">>,
                 <<"settlements", "reservation_id">>}
<1>1. ModelConstraints
        = ({"unique"} \X (Unique \cup {Outbox})) \cup ({"refers"} \X Refers)
  BY DEF ModelConstraints
<1>2. Constraints0001 = ({"unique"} \X Unique) \cup ({"refers"} \X Refers)
  BY DEF Constraints0001
<1>3. Constraints0002 = {<<"unique", Outbox>>}
  BY DEF Constraints0002
<1> HIDE DEF Unique, Outbox, Refers
<1>4. ASSUME NEW c \in {"unique"} \X (Unique \cup {Outbox})
      PROVE  c \in ({"unique"} \X Unique) \cup {<<"unique", Outbox>>}
  OBVIOUS
<1>5. ASSUME NEW c \in ({"unique"} \X Unique) \cup {<<"unique", Outbox>>}
      PROVE  c \in {"unique"} \X (Unique \cup {Outbox})
  OBVIOUS
<1> QED
  BY <1>1, <1>2, <1>3, <1>4, <1>5

\* The models constrain their own tables only.
LEMMA ConstraintsTyped == \A c \in ModelConstraints : c[2][1] \in Tables
<1>1. /\ "assets" \in Tables /\ "flex_offers" \in Tables
      /\ "reservations" \in Tables /\ "dispatches" \in Tables
      /\ "meter_readings" \in Tables /\ "settlements" \in Tables
      /\ "audit_events" \in Tables /\ "idempotency_records" \in Tables
      /\ "outbox_messages" \in Tables
  BY DEF Tables, Tables0001, Tables0002
<1> DEFINE
      Unique == {<<"assets", "external_id">>, <<"reservations", "offer_id">>,
                 <<"dispatches", "reservation_id">>,
                 <<"meter_readings", "fingerprint">>,
                 <<"settlements", "reservation_id">>,
                 <<"audit_events", "event_id">>, <<"audit_events", "event_hash">>,
                 <<"idempotency_records", "operation, key">>,
                 <<"outbox_messages", "topic, idempotency_key">>}
      Refers == {<<"flex_offers", "asset_id">>, <<"reservations", "offer_id">>,
                 <<"dispatches", "reservation_id">>,
                 <<"meter_readings", "asset_id">>,
                 <<"settlements", "reservation_id">>}
<1>2. \A u \in Unique : \E t \in Tables : \E column : u = <<t, column>>
  BY <1>1, Zenon
<1>3. \A u \in Refers : \E t \in Tables : \E column : u = <<t, column>>
  BY <1>1, Zenon
<1>4. ModelConstraints = ({"unique"} \X Unique) \cup ({"refers"} \X Refers)
  BY DEF ModelConstraints
<1> HIDE DEF Unique, Refers
<1>5. \A u \in Unique \cup Refers : u[1] \in Tables
  BY <1>2, <1>3
<1> QED
  BY <1>4, <1>5

\* alembic_version has no constraint of the models.
LEMMA VersionUnconstrained == On({Version}, ModelConstraints) = {}
BY ConstraintsTyped DEF On, Version, Tables, Tables0001, Tables0002

\* Constraints come and go with their tables.
LEMMA OnTables ==
  ASSUME NEW T, NEW U
  PROVE  /\ On(T \cup U, ModelConstraints)
              = On(T, ModelConstraints) \cup On(U, ModelConstraints)
         /\ On(T, ModelConstraints) \ On(U, On(T, ModelConstraints))
              = On(T \ U, ModelConstraints)
         /\ On(T, ModelConstraints) \subseteq ModelConstraints
BY DEF On

\* No table is called alembic_version, and revisions nest.
LEMMA RevisionsNest ==
  /\ Version \notin Tables
  /\ TablesAt(0) = {} /\ TablesAt(Head) = Tables
  /\ \A n \in Revisions : TablesAt(n) \subseteq Tables
  /\ \A n, m \in Revisions : n <= m => TablesAt(n) \subseteq TablesAt(m)
<1>1. Version \notin Tables
  BY DEF Version, Tables, Tables0001, Tables0002
<1>2. TablesAt(0) = {} /\ TablesAt(Head) = Tables
  BY DEF TablesAt, Head, Tables
<1>3. \A n \in Revisions : TablesAt(n) \subseteq Tables
  BY DEF TablesAt
<1>4. \A n, m \in Revisions : n <= m => TablesAt(n) \subseteq TablesAt(m)
  BY DEF TablesAt, Revisions, Head
<1> QED
  BY <1>1, <1>2, <1>3, <1>4

\* The grants name roles, tables of the schema and the three privileges.
LEMMA MatrixTyped == Matrix \subseteq Roles \X ((Tables \cup {Version}) \X Privileges)
<1>1. DeliveryGrants \subseteq Tables \X Privileges
  BY DEF DeliveryGrants, Change, Select, Insert, Tables, Tables0001, Tables0002, Privileges
<1>2. Select({"flex_offers", "assets"}) \subseteq Tables \X Privileges
  BY DEF Select, Tables, Tables0001, Tables0002, Privileges
<1>3. Select(Tables \cup {Version}) \subseteq (Tables \cup {Version}) \X Privileges
  BY DEF Select, Privileges
<1> QED
  BY <1>1, <1>2, <1>3 DEF Matrix, Roles

\* The empty database satisfies SchemaInv.
LEMMA SchemaInit == Init => SchemaInv
<1> SUFFICES ASSUME Init PROVE SchemaInv
  OBVIOUS
<1>1. On({}, ModelConstraints) = {}
  BY DEF On
<1>2. TypeOK
  <2>1. process \in [Kinds -> [pc : {"down", "inspected", "up"}, login : Logins]]
    BY DEF Init, Down, Logins
  <2>2. revision \in Revisions
    BY DEF Init, Revisions, Head
  <2> QED
    BY <2>1, <2>2 DEF Init, TypeOK
<1> QED
  BY <1>1, <1>2, RevisionsNest DEF Init, SchemaInv, SchemaIsVersioned

\* Migrations, grants and starts keep SchemaInv.
LEMMA SchemaStep ==
  ASSUME SchemaInv, [Next]_vars PROVE SchemaInv'
<1>1. ASSUME NEW to \in Revisions, Upgrade(to)
      PROVE  SchemaInv'
  <2> DEFINE new == TablesAt(to) \ TablesAt(revision)
  <2>1. tables' = tables \cup new \cup {Version}
    BY <1>1 DEF Upgrade, SchemaInv, SchemaIsVersioned
  <2>2. constraints' = On(tables', ModelConstraints)
    <3>1. constraints' = constraints \cup On(new, ModelConstraints)
      <4>1. constraints' = constraints \cup On(new, Constraints0001 \cup Constraints0002)
        BY <1>1 DEF Upgrade
      <4> QED
        BY <4>1, SameConstraints
    <3> HIDE DEF new
    <3>2. On(tables \cup new, ModelConstraints)
            = On(tables, ModelConstraints) \cup On(new, ModelConstraints)
      BY OnTables
    <3>3. On((tables \cup new) \cup {Version}, ModelConstraints)
            = On(tables \cup new, ModelConstraints)
      <4>1. On((tables \cup new) \cup {Version}, ModelConstraints)
              = On(tables \cup new, ModelConstraints) \cup On({Version}, ModelConstraints)
        BY OnTables
      <4> QED
        BY <4>1, VersionUnconstrained
    <3> QED
      BY <2>1, <3>1, <3>2, <3>3 DEF SchemaInv
  <2>3. TypeOK'
    BY <1>1, <2>1, <2>2, OnTables, RevisionsNest DEF Upgrade, SchemaInv, TypeOK
  <2>4. SchemaIsVersioned'
    <3>1. revision \in Revisions /\ revision < to /\ revision' = to
          /\ fromModels' = fromModels
      BY <1>1 DEF Upgrade, SchemaInv, TypeOK
    <3>2. TablesAt(revision) \subseteq TablesAt(to) /\ Version \notin TablesAt(to)
      BY <3>1, RevisionsNest DEF Revisions, Head
    <3> QED
      BY <2>1, <3>1, <3>2 DEF SchemaInv, SchemaIsVersioned
  <2> QED
    BY <1>1, <2>1, <2>2, <2>3, <2>4 DEF Upgrade, SchemaInv
<1>2. ASSUME NEW to \in Revisions, Downgrade(to)
      PROVE  SchemaInv'
  <2>1. constraints' = On(tables', ModelConstraints)
    BY <1>2, OnTables DEF Downgrade, SchemaInv
  <2>2. TypeOK'
    BY <1>2 DEF Downgrade, SchemaInv, TypeOK
  <2>3. SchemaIsVersioned' /\ (revision' > 0 => Version \in tables')
    <3>1. revision \in Revisions /\ to < revision /\ revision' = to
          /\ tables' = tables \ Dropped(to) /\ fromModels' = fromModels
      BY <1>2 DEF Downgrade, SchemaInv, TypeOK
    <3>2. /\ TablesAt(to) \subseteq TablesAt(revision)
          /\ Version \notin TablesAt(revision)
          /\ to > 0 => revision > 0
      BY <3>1, RevisionsNest DEF Revisions, Head
    <3> QED
      BY <3>1, <3>2 DEF Dropped, SchemaInv, SchemaIsVersioned
  <2> QED
    BY <1>2, <2>1, <2>2, <2>3 DEF Downgrade, SchemaInv
<1>3. CASE ApplyGrants
  <2>1. grants' \subseteq Matrix /\ UNCHANGED <<tables, constraints, revision, process, fromModels>>
    BY <1>3 DEF ApplyGrants, SchemaInv
  <2>2. Matrix \subseteq Roles \X (tables \X Privileges)
    BY <1>3, MatrixTyped DEF ApplyGrants
  <2> QED
    BY <2>1, <2>2 DEF SchemaInv, TypeOK, SchemaIsVersioned
<1>4. ASSUME NEW k \in Kinds, NEW login \in Logins, StartDevelopment(k, login)
      PROVE  SchemaInv'
  <2> DEFINE missing == Tables \ tables
  <2>1. /\ tables' = tables \cup missing
        /\ constraints' = constraints \cup On(missing, ModelConstraints)
        /\ fromModels' = (fromModels \/ missing # {})
        /\ process' = [process EXCEPT ![k] = [pc |-> "up", login |-> login]]
        /\ UNCHANGED <<revision, grants>>
    BY <1>4 DEF StartDevelopment
  <2>2. constraints' = On(tables', ModelConstraints)
    <3> HIDE DEF missing
    <3> QED
      BY <2>1, OnTables DEF SchemaInv
  <2>3. TypeOK'
    BY <2>1, <2>2, OnTables DEF SchemaInv, TypeOK
  <2> QED
    BY <2>1, <2>2, <2>3 DEF SchemaInv, SchemaIsVersioned
<1>5. ASSUME NEW k \in Kinds, NEW login \in Logins,
             Inspect(k, login) \/ CheckRevision(k) \/ Stop(k)
      PROVE  SchemaInv'
  BY <1>5 DEF Inspect, CheckRevision, Stop, Down, Logins, SchemaInv, TypeOK,
              SchemaIsVersioned
<1>6. CASE UNCHANGED vars
  BY <1>6 DEF vars, SchemaInv, TypeOK, SchemaIsVersioned
<1>7. Migrator \in Logins
  BY DEF Logins
<1> QED
  BY <1>1, <1>2, <1>3, <1>4, <1>5, <1>6, <1>7 DEF Next

\* SchemaInv holds throughout.
THEOREM SchemaCorrect == Spec => []SchemaInv
<1>1. SchemaInv /\ [Next]_vars => SchemaInv'
  BY SchemaStep
<1> QED
  BY SchemaInit, <1>1, PTL DEF Spec

\* Every variable keeps its type; grants name existing tables.
THEOREM DeploymentTypeCorrect == Spec => []TypeOK
<1>1. SchemaInv => TypeOK
  BY DEF SchemaInv
<1> QED
  BY SchemaCorrect, <1>1, PTL

\* The recorded revision tells the truth about the tables.
THEOREM RevisionIsTruthful == Spec => []SchemaIsVersioned
<1>1. SchemaInv => SchemaIsVersioned
  BY DEF SchemaInv
<1> QED
  BY SchemaCorrect, <1>1, PTL

\* No table is ever without a constraint the models declare.
THEOREM NoConstraintMissing == Spec => []ConstraintsComplete
<1>1. SchemaInv => ConstraintsComplete
  BY DEF SchemaInv, ConstraintsComplete
<1> QED
  BY SchemaCorrect, <1>1, PTL

\* Every operation excluded from a role other than the API's needs a privilege it
\* is not granted.
LEMMA MatrixExcludes ==
  ASSUME NEW r \in Roles \ {"api"}, NEW op \in Excluded(r)
  PROVE  \E p \in op \ Appends : <<r, p>> \notin Matrix
<1> DEFINE Lacks(role, t, kind) == <<role, <<t, kind>> >> \notin Matrix
<1> USE DEF Select, Insert, Change
<1>1. \A p \in Appends : p[1] = "audit_events"
  BY DEF Appends
<1>2. /\ <<"assets", "INSERT">> \in RegisterAsset
      /\ <<"flex_offers", "INSERT">> \in CreateOffer
      /\ <<"reservations", "INSERT">> \in ReserveOffer
      /\ <<"dispatches", "INSERT">> \in IssueDispatch
      /\ <<"meter_readings", "INSERT">> \in RecordReading
      /\ <<"settlements", "INSERT">> \in Settle
  BY DEF RegisterAsset, CreateOffer, ReserveOffer, IssueDispatch, RecordReading, Settle
<1>3. /\ <<"outbox_messages", "UPDATE">> \in Claim
      /\ <<"outbox_messages", "UPDATE">> \in Finalise
      /\ <<"outbox_messages", "UPDATE">> \in Redrive
  BY DEF Claim, Finalise, Redrive
<1>4. /\ Lacks("worker", "assets", "INSERT")
      /\ Lacks("worker", "flex_offers", "INSERT")
      /\ Lacks("worker", "meter_readings", "INSERT")
      /\ Lacks("worker", "settlements", "INSERT")
  BY DEF Matrix, DeliveryGrants
<1>5. \A t \in {"assets", "flex_offers", "reservations", "dispatches",
               "meter_readings", "settlements"} : Lacks("recovery", t, "INSERT")
  BY DEF Matrix, DeliveryGrants
<1>6. \A t, k : k # "SELECT" => Lacks("auditor", t, k)
  BY DEF Matrix
<1> HIDE DEF Lacks
<1>7. CASE r = "worker"
  <2>1. op \in {RegisterAsset, CreateOffer, RecordReading, Settle}
    BY <1>7 DEF Excluded
  <2> QED
    BY <1>1, <1>2, <1>4, <1>7, <2>1 DEF Lacks
<1>8. CASE r = "recovery"
  <2>1. op \in {RegisterAsset, CreateOffer, ReserveOffer, IssueDispatch,
                RecordReading, Settle}
    BY <1>8 DEF Excluded, Duties
  <2> QED
    BY <1>1, <1>2, <1>5, <1>8, <2>1 DEF Lacks
<1>9. CASE r = "auditor"
  <2>1. op \in {RegisterAsset, CreateOffer, ReserveOffer, IssueDispatch,
                RecordReading, Settle, Claim, Finalise, Redrive}
    BY <1>9 DEF Excluded, Duties
  <2> QED
    BY <1>1, <1>2, <1>3, <1>6, <1>9, <2>1 DEF Lacks
<1> QED
  BY <1>7, <1>8, <1>9 DEF Roles

\* Whatever is migrated and granted, a worker, the recovery command and an auditor
\* run nothing that their rows of LEAST_PRIVILEGE.md exclude.
THEOREM ExclusionHolds == Spec => []OthersAreExcluded
<1>1. Migrator \notin Roles
  BY DEF Migrator, Roles
<1>2. SchemaInv => OthersAreExcluded
  <2> SUFFICES ASSUME SchemaInv, NEW r \in Roles \ {"api"}, NEW op \in Excluded(r)
               PROVE  ~May(r, op \ Appends)
    BY DEF OthersAreExcluded, IsExcluded
  <2>1. PICK p \in op \ Appends : <<r, p>> \notin Matrix
    BY MatrixExcludes
  <2>2. <<r, p>> \in {r} \X (op \ Appends) /\ <<r, p>> \notin grants
    BY <2>1 DEF SchemaInv
  <2> QED
    BY <1>1, <2>2 DEF May
<1> QED
  BY SchemaCorrect, <1>2, PTL

\* The gate admits a process to a complete schema only, although migrations may
\* run between its two checks.
THEOREM GateIsSound == Spec => AdmittedFindsSchema
<1>1. ASSUME SchemaInv, [Next]_vars, NEW k \in Kinds,
             process[k].pc = "inspected", process'[k].pc = "up"
      PROVE  tables = Tables \cup {Version} /\ constraints = ModelConstraints
  <2>1. revision = Head
    <3>1. process \in [Kinds -> [pc : {"down", "inspected", "up"}, login : Logins]]
      BY <1>1 DEF SchemaInv, TypeOK
    <3>2. process' # process
      BY <1>1
    <3>3. ASSUME NEW j \in Kinds, NEW login \in Logins,
                 StartDevelopment(j, login) \/ Inspect(j, login) \/ Stop(j)
          PROVE  FALSE
      BY <1>1, <3>1, <3>3 DEF StartDevelopment, Inspect, Stop, Down
    <3>4. PICK j \in Kinds : CheckRevision(j)
      BY <1>1, <3>2, <3>3
      DEF Next, Upgrade, Downgrade, ApplyGrants, vars, Logins
    <3>5. j = k
      BY <1>1, <3>1, <3>4 DEF CheckRevision
    <3>6. revision # Head => process'[k].pc = "down"
      BY <3>1, <3>4, <3>5 DEF CheckRevision, Down
    <3> QED
      BY <1>1, <3>6
  <2>2. tables = Tables \cup {Version}
    BY <1>1, <2>1, RevisionsNest DEF SchemaInv, SchemaIsVersioned, TypeOK, Head
  <2>3. On(Tables \cup {Version}, ModelConstraints) = ModelConstraints
    BY ConstraintsTyped DEF On
  <2> QED
    BY <1>1, <2>2, <2>3 DEF SchemaInv
<1>2. SchemaInv /\ [Next]_vars =>
        [\A k \in Kinds :
           process[k].pc = "inspected" /\ process'[k].pc = "up" =>
             tables = Tables \cup {Version} /\ constraints = ModelConstraints]_vars
  BY <1>1
<1> QED
  BY SchemaCorrect, <1>2, PTL DEF Spec, AdmittedFindsSchema
=============================================================================
