----------------------------- MODULE Deployment -----------------------------
(***************************************************************************)
(* A PostgreSQL database under operation: migrations, the grants of        *)
(* least_privilege.sql, and API, worker and recovery processes that start  *)
(* against it in any order.                                                *)
(*                                                                         *)
(* Outside development a process passes the gate of database.py first.     *)
(* Its two checks, the names of the tables and the Alembic revision, are   *)
(* two statements: a migration may run in between.  In development (also   *)
(* what a process without APP_ENV believes) it creates what is missing.    *)
(***************************************************************************)
EXTENDS Integers

Tables0001 ==
  {"assets", "flex_offers", "reservations", "dispatches", "meter_readings",
   "settlements", "audit_events", "idempotency_records"}
Tables0002 == {"outbox_messages"}
Tables == Tables0001 \cup Tables0002
Version == "alembic_version"

\* A revision is the number of migrations applied; Head is the one expected.
Head == 2
Revisions == 0..Head
TablesAt(n) ==
  {t \in Tables : (n >= 1 /\ t \in Tables0001) \/ (n >= 2 /\ t \in Tables0002)}

\* The unique columns and the references the models declare ...
ModelConstraints ==
  {"unique"} \X {<<"assets", "external_id">>, <<"reservations", "offer_id">>,
                 <<"dispatches", "reservation_id">>,
                 <<"meter_readings", "fingerprint">>,
                 <<"settlements", "reservation_id">>,
                 <<"audit_events", "event_id">>, <<"audit_events", "event_hash">>,
                 <<"idempotency_records", "operation, key">>,
                 <<"outbox_messages", "topic, idempotency_key">>}
  \cup
  {"refers"} \X {<<"flex_offers", "asset_id">>, <<"reservations", "offer_id">>,
                 <<"dispatches", "reservation_id">>,
                 <<"meter_readings", "asset_id">>,
                 <<"settlements", "reservation_id">>}

\* ... and the ones the two migrations create.
Constraints0001 ==
  {"unique"} \X {<<"assets", "external_id">>, <<"reservations", "offer_id">>,
                 <<"dispatches", "reservation_id">>,
                 <<"meter_readings", "fingerprint">>,
                 <<"settlements", "reservation_id">>,
                 <<"audit_events", "event_id">>, <<"audit_events", "event_hash">>,
                 <<"idempotency_records", "operation, key">>}
  \cup
  {"refers"} \X {<<"flex_offers", "asset_id">>, <<"reservations", "offer_id">>,
                 <<"dispatches", "reservation_id">>,
                 <<"meter_readings", "asset_id">>,
                 <<"settlements", "reservation_id">>}

\* Mutant: 0002 gives the key of a message an ordinary index.
Constraints0002Indexed == {}

Constraints0002 == {<<"unique", <<"outbox_messages", "topic, idempotency_key">> >>}

On(T, cs) == {c \in cs : c[2][1] \in T}

Roles == {"api", "worker", "recovery", "auditor"}
Migrator == "migrator"      \* owns every table: no grant restricts it
Logins == Roles \cup {Migrator}
Privileges == {"SELECT", "INSERT", "UPDATE"}

Select(T) == T \X {"SELECT"}
Insert(T) == T \X {"INSERT"}
Change(T) == T \X {"SELECT", "UPDATE"}   \* SELECT FOR UPDATE, UPDATE ... WHERE

Appends    == Change({"audit_events"}) \cup Insert({"audit_events"})
Idempotent == Select({"idempotency_records"}) \cup Insert({"idempotency_records"})

\* The privileges each operation needs, statement by statement.  A dispatch and a
\* settlement are written twice: inserted by a flush, then completed.
RegisterAsset == Select({"assets"}) \cup Insert({"assets"}) \cup Appends
CreateOffer   == Change({"assets"}) \cup Insert({"flex_offers"}) \cup Appends
ReserveOffer  == Idempotent \cup Change({"flex_offers"})
                   \cup Insert({"reservations"}) \cup Appends
IssueDispatch == Idempotent \cup Change({"reservations"})
                   \cup Select({"flex_offers", "assets"})
                   \cup Insert({"dispatches", "outbox_messages"})
                   \cup Change({"dispatches"}) \cup Appends
RecordReading == Select({"assets", "meter_readings"})
                   \cup Insert({"meter_readings"}) \cup Appends
Settle        == Idempotent \cup Change({"reservations", "dispatches"})
                   \cup Select({"flex_offers", "meter_readings"})
                   \cup Insert({"settlements"}) \cup Change({"settlements"})
                   \cup Appends
Claim         == Change({"outbox_messages"})
Finalise      == Change({"outbox_messages", "dispatches", "reservations"})
                   \cup Appends
Redrive       == Change({"outbox_messages", "dispatches", "reservations"})
                   \cup Appends
VerifyChain   == Select({"audit_events"})

\* What the processes of an identity do: the routes that write, a run of the
\* worker, the recovery command, the verification of the audit trail.
Duties(r) ==
  CASE r = "api"      -> {RegisterAsset, CreateOffer, ReserveOffer,
                          IssueDispatch, RecordReading, Settle}
    [] r = "worker"   -> {Claim, Finalise}
    [] r = "recovery" -> {Redrive}
    [] r = "auditor"  -> {VerifyChain}

\* What its row of docs/LEAST_PRIVILEGE.md excludes, as far as the program does it.
Excluded(r) ==
  CASE r = "api"      -> {Redrive}
    [] r = "worker"   -> {RegisterAsset, CreateOffer, RecordReading, Settle}
    [] r = "recovery" -> Duties("api")
    [] r = "auditor"  -> Duties("api") \cup Duties("worker") \cup Duties("recovery")

\* The grants that a worker and the recovery command have in common.
DeliveryGrants ==
  Change({"outbox_messages", "dispatches", "reservations"})
    \cup Select({"audit_events"}) \cup Insert({"audit_events"})

\* Mutant: one GRANT serves every process.
MatrixShared ==
  {"api", "worker", "recovery"} \X (Tables \X Privileges)
  \cup {"auditor"} \X Select(Tables \cup {Version})

\* The grants of least_privilege.sql.
Matrix ==
  {"api"} \X (Tables \X Privileges)
  \cup {"worker", "recovery"} \X DeliveryGrants
  \cup {"worker"} \X Select({"flex_offers", "assets"})
  \cup {"auditor"} \X Select(Tables \cup {Version})

\* What verify_db_privileges.py demands of a deployment.
Expected ==
  {<<"api", <<"assets", "SELECT">> >>, <<"api", <<"outbox_messages", "INSERT">> >>,
   <<"worker", <<"outbox_messages", "UPDATE">> >>,
   <<"worker", <<"audit_events", "INSERT">> >>,
   <<"recovery", <<"outbox_messages", "UPDATE">> >>,
   <<"recovery", <<"audit_events", "INSERT">> >>,
   <<"auditor", <<"assets", "SELECT">> >>, <<"auditor", <<Version, "SELECT">> >>}
Denied ==
  {<<"worker", <<"assets", "INSERT">> >>, <<"worker", <<"settlements", "INSERT">> >>,
   <<"recovery", <<"assets", "UPDATE">> >>,
   <<"recovery", <<"settlements", "INSERT">> >>,
   <<"auditor", <<"assets", "UPDATE">> >>,
   <<"auditor", <<"audit_events", "INSERT">> >>}

-----------------------------------------------------------------------------
CONSTANT Kinds          \* the kinds of process that are started

ASSUME KindsAreKnown == Kinds \subseteq {"api", "worker", "recovery"}

VARIABLES
  tables,       \* the tables of the database
  constraints,  \* the constraints on them
  revision,     \* the row of alembic_version, 0 if there is none
  grants,       \* <<role, <<table, privilege>>>> in force
  process,      \* one process of each kind: [pc, login]
  fromModels    \* have tables been created from the models?

vars == <<tables, constraints, revision, grants, process, fromModels>>

Down == [pc |-> "down", login |-> Migrator]

Init ==
  /\ tables = {}
  /\ constraints = {}
  /\ revision = 0
  /\ grants = {}
  /\ process = [k \in Kinds |-> Down]
  /\ fromModels = FALSE

\* May login use these privileges?
May(login, privileges) ==
  /\ \A p \in privileges : p[1] \in tables
  /\ login = Migrator \/ {login} \X privileges \subseteq grants

\* alembic upgrade: one transaction, which fails if a table is there already.
Upgrade(to) ==
  /\ revision < to
  /\ (TablesAt(to) \ TablesAt(revision)) \cap tables = {}
  /\ tables' = tables \cup TablesAt(to) \cup {Version}
  /\ constraints' = constraints \cup
       On(TablesAt(to) \ TablesAt(revision), Constraints0001 \cup Constraints0002)
  /\ revision' = to
  /\ UNCHANGED <<grants, process, fromModels>>

\* Mutant: a downgrade to the base leaves the table of 0002 behind.
DroppedBy0001(to) ==
  IF to = 0 THEN Tables0001 ELSE TablesAt(revision) \ TablesAt(to)

\* The tables the downgrades from here to revision to drop.
Dropped(to) == TablesAt(revision) \ TablesAt(to)

\* Mutant: a table that is created again has the grants of the one dropped.
DowngradeKeepingGrants(to) ==
  /\ to < revision
  /\ tables' = tables \ Dropped(to)
  /\ constraints' = constraints \ On(Dropped(to), constraints)
  /\ revision' = to
  /\ UNCHANGED <<grants, process, fromModels>>

\* alembic downgrade: tables go with their constraints and their grants.
Downgrade(to) ==
  /\ to < revision
  /\ tables' = tables \ Dropped(to)
  /\ constraints' = constraints \ On(Dropped(to), constraints)
  /\ grants' = {g \in grants : g[2][1] \notin Dropped(to)}
  /\ revision' = to
  /\ UNCHANGED <<process, fromModels>>

\* least_privilege.sql: one transaction, which names every table.
ApplyGrants ==
  /\ Tables \cup {Version} \subseteq tables
  /\ grants' = grants \cup Matrix
  /\ UNCHANGED <<tables, constraints, revision, process, fromModels>>

\* The settings a process of kind k accepts.  Outside development it demands
\* OIDC, and a worker a publisher of the institution's; the recovery command
\* reads no settings and is always managed.
Accepted(k, s) ==
  CASE k = "api"      -> s.managed => s.oidc
    [] k = "worker"   -> s.managed => s.oidc /\ s.publisher
    [] k = "recovery" -> s.managed

Settings == [managed : BOOLEAN, oidc : BOOLEAN, publisher : BOOLEAN]

\* create_all: only the owner may create the tables that are missing.
StartDevelopment(k, login) ==
  LET missing == Tables \ tables IN
  /\ process[k] = Down
  /\ \E s \in Settings : ~s.managed /\ Accepted(k, s)
  /\ missing # {} => login = Migrator
  /\ tables' = tables \cup missing
  /\ constraints' = constraints \cup On(missing, ModelConstraints)
  /\ fromModels' = (fromModels \/ missing # {})
  /\ process' = [process EXCEPT ![k] = [pc |-> "up", login |-> login]]
  /\ UNCHANGED <<revision, grants>>

\* The gate's first check: every table of the models and alembic_version.
Inspect(k, login) ==
  /\ process[k] = Down
  /\ \E s \in Settings : s.managed /\ Accepted(k, s)
  /\ Tables \cup {Version} \subseteq tables
  /\ process' = [process EXCEPT ![k] = [pc |-> "inspected", login |-> login]]
  /\ UNCHANGED <<tables, constraints, revision, grants, fromModels>>

\* Mutant: any revision will do.
CheckRevisionPresent(k) ==
  /\ process[k].pc = "inspected"
  /\ process' = IF revision # 0 /\ May(process[k].login, Select({Version}))
                THEN [process EXCEPT ![k].pc = "up"]
                ELSE [process EXCEPT ![k] = Down]
  /\ UNCHANGED <<tables, constraints, revision, grants, fromModels>>

\* The gate's second check reads the revision, which it may be denied.
CheckRevision(k) ==
  /\ process[k].pc = "inspected"
  /\ process' = IF revision = Head /\ May(process[k].login, Select({Version}))
                THEN [process EXCEPT ![k].pc = "up"]
                ELSE [process EXCEPT ![k] = Down]
  /\ UNCHANGED <<tables, constraints, revision, grants, fromModels>>

\* A process ends: the recovery command and one run of the worker by themselves.
Stop(k) ==
  /\ process[k] # Down
  /\ process' = [process EXCEPT ![k] = Down]
  /\ UNCHANGED <<tables, constraints, revision, grants, fromModels>>

Next ==
  \/ \E to \in Revisions : Upgrade(to) \/ Downgrade(to)
  \/ ApplyGrants
  \/ \E k \in Kinds, login \in Logins :
       StartDevelopment(k, login) \/ Inspect(k, login)
  \/ \E k \in Kinds : CheckRevision(k) \/ Stop(k)

Spec == Init /\ [][Next]_vars
-----------------------------------------------------------------------------
\* The managed schema: grants in force name tables that exist.
TypeOK ==
  /\ tables \subseteq Tables \cup {Version}
  /\ constraints \subseteq ModelConstraints
  /\ revision \in Revisions
  /\ grants \subseteq Roles \X (tables \X Privileges)
  /\ process \in [Kinds -> [pc : {"down", "inspected", "up"}, login : Logins]]
  /\ fromModels \in BOOLEAN

\* The tables of the recorded revision are there, and unless tables were created
\* from the models nothing else is: up and down, migrations undo each other.
SchemaIsVersioned ==
  /\ TablesAt(revision) \subseteq tables
  /\ fromModels \/ tables \ {Version} = TablesAt(revision)

\* However a table came to be, by migration, from the models, dropped and created
\* again, it has every constraint the models declare: the commands rely on the
\* unique ones where their row locks do not reach.
ConstraintsComplete == On(tables, ModelConstraints) \subseteq constraints

\* Every operation that r's row excludes needs a privilege r does not have, even
\* if r could append to the audit trail.
IsExcluded(r) == \A op \in Excluded(r) : ~May(r, op \ Appends)

\* LEAST_PRIVILEGE.md, "Explicitly excluded": no sequence of migrations and grants
\* lets a role run an operation its row excludes.  The API's row excludes
\* "terminal re-drive authority".
ExcludedIsImpossible == \A r \in Roles : IsExcluded(r)

\* Workers, recovery and auditors stay within their rows of LEAST_PRIVILEGE.md,
\* whatever is migrated, granted, dropped and granted again.
OthersAreExcluded == \A r \in Roles \ {"api"} : IsExcluded(r)

\* A process that the gate of database.py lets in finds the complete schema at
\* that moment, although a migration may have run between the gate's two checks.
AdmittedFindsSchema ==
  [][\A k \in Kinds :
       process[k].pc = "inspected" /\ process'[k].pc = "up" =>
         tables = Tables \cup {Version} /\ constraints = ModelConstraints]_vars

\* verify_db_privileges.py accepts the grants.
Verified == Expected \subseteq grants /\ Denied \cap grants = {}

\* Grants that the verification accepts let every identity start and do its work.
RolesSuffice ==
  revision = Head /\ Verified =>
    \A r \in Roles :
      /\ r # "auditor" => May(r, Select({Version}))
      /\ \A op \in Duties(r) : May(r, op)
=============================================================================
