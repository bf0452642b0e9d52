# Verification of the Energy Flex Trust Platform

TLA+ models of the platform's coordination core, checked with TLC and proved with
TLAPS. The sources are `src/energy_flex_trust/*.py`; a model's comments name the
function they stand for, and `PROJECT.json` maps every definition to its lines.

## The system

| Component | State it keeps | Operations | Interacts with |
|---|---|---|---|
| Coordination service (`service.py`, `api.py`) | offers, reservations, dispatches, meter readings, settlements, idempotency records | register, offer, reserve, dispatch, record a reading, settle | enqueues outbox messages, appends audit events, all in one transaction |
| Outbox worker (`outbox.py`, `worker.py`) | `outbox_messages`: status, attempts, available_at, lease, claim token | claim, publish, finalise (success, retry, dead) | calls the destination between two transactions; moves dispatches and reservations |
| Recovery authorization (`redrive.py`, `recovery_cli.py`) | none of its own | re-arm one dead message with its dispatch and reservation | the rows the worker writes |
| Audit chain (`audit.py`) | `audit_events`, each with the hash of its predecessor | append, verify | every transaction of every process appends to it |
| Signed checkpoints (`checkpoints.py`), recovery drill (`scripts/recovery_drill.py`) | none; the caller keeps them | create, verify; compare a restored table with what was recorded | read the chain |
| Schema gate (`database.py`), migrations (`migrations/`) | the tables, `alembic_version` | upgrade, downgrade; create or verify the schema at start-up | every process passes the gate first |
| PostgreSQL role matrix (`deploy/postgres`, `scripts/verify_db_privileges.py`) | grants | apply, verify | what each process may do to each table |
| Settings, authentication (`config.py`, `auth.py`) | none | validate | decide how a process starts, and the actor and role of a request |
| OpenADR boundary (`openadr.py`), dashboard, release scripts | none | | leaf code around the core |

API processes, worker processes and recovery operators share nothing but the
database. What is hard: requests and workers overlap; a worker publishes outside
any transaction, under a lease nobody renews, and finalises without locking what
it reads; workers die, answers get lost and clients retry; every transaction
appends to the one audit chain; the transactions lock the same rows in different
orders; processes start while migrations and grants are being applied.

What makes each component correct:

* **Outbox**: no message is stranded, every queued dispatch is concluded, the
  destination can recognise a repeated delivery, the three rows of a dispatch agree,
  the audit trail explains them, nothing is settled that was not acknowledged.
* **Coordination**: a key takes effect once, an offer is reserved once, a reservation
  dispatched and settled once, by somebody else; a retry gets the first answer.
* **Locks**: what a command checked stays true until it commits, transactions do not
  wait for each other in a cycle, and each of them ends.
* **Audit**: the chain verifies unless it was altered, links never dangle, a signed
  checkpoint names a prefix of the chain for good, and a copy that agrees with it
  has lost nothing.
* **Evidence**: a reading is stored once; a settlement pays for nothing outside the
  offered window and forgets nothing it was told in time.
* **Deployment**: the recorded revision tells what is there, no constraint is missing,
  nobody enters an incomplete schema, no role can do what it is excluded from, and
  every role can do its work.

## Modules

| Module | Models |
|---|---|
| `DispatchDelivery` | `outbox.py`, `redrive.py`, and the two commands of `service.py` that start and end a delivery |
| `DispatchLifecycle` | abstract specification: what the platform promises of a dispatch |
| `CommandLedger` | abstract specification: what the API promises of its commands |
| `AuditLog` | abstract specification: what the audit trail promises |
| `LockOrder` | the row locks of `service.py`, `outbox.py` and `redrive.py`, transaction by transaction |
| `AuditChain` | `append_event` from many transactions, `verify_chain`, `create_checkpoint` |
| `AuditEvidence` | copies of the audit table with lost or altered rows, on top of `AuditChain` |
| `Commands` | `reserve_offer`, `issue_dispatch`, `settle_reservation` with their idempotency keys, run side by side |
| `MeterEvidence` | windows of `create_offer` and `issue_dispatch`, `record_meter_reading`, the evidence query of `settle_reservation` |
| `Deployment` | `database.py`, the migrations, `least_privilege.sql`, `verify_db_privileges.py`, the start of each process |
| `...Proofs` | theorems about the module of that name, and of its abstract specification: `DispatchDelivery` implements `DispatchLifecycle`, `Commands` implements `CommandLedger`, `AuditChain` implements `AuditLog` |
| `MC...` | symmetry and sets for the instances TLC checks |

### DispatchDelivery

A dispatch, its reservation and its message are 1:1 (unique constraints of
`models.py`), so one identifier names all three. `outbox[d]` is the message row;
`available_at` and `lease_expires_at` are kept as the seconds left (`wait`, `lease`),
which `Tick` counts down, one clock for all. The API's and the operator's
transactions lock the rows they read and are one action each. `ClaimOne` is one
action too: it locks its row with SKIP LOCKED. ORDER BY is left out because SKIP
LOCKED may hand out any due row. The finalising transaction is not one action: it
reads message, dispatch and reservation without locks (`LoadMessage`,
`LoadDispatch`, `LoadReservation`) and writes them later (`RecordSuccess`,
`RecordDead`, `RecordRetry`); `Flush` is SQLAlchemy's rule that an UPDATE carries
only the columns that differ from the loaded value. SQLAlchemy may flush earlier
than the model does; that gives fewer interleavings, never others. A process holds
one claim at a time, so the uuid of a claim token is represented by the process.
`Publish` may be accepted by the destination and still raise; `sent` and `acked`
record what the destination and the platform know. `Crash` is the end of a process,
and also a finalising transaction that raises and rolls back.

`PromptWorkers = TRUE` is the assumption under which the lease protocol is meant to
work: a live worker finalises before its lease expires. `FALSE` drops it.

### LockOrder

One dispatch with its reservation and message, and the audit head. A transaction is a
plan, the locks of its statements in their order, which it works off one lock at a
time and keeps until it ends (`End`). Commands and the re-drive lock with SELECT ...
FOR UPDATE and check what they locked (`Checks`); a worker reads without a lock and
meets the locks when its UPDATEs are flushed. The three UPDATEs of `_record_success`
are flushed together in an order that SQLAlchemy chooses, so its plan is any of the
six; `_record_failure` flushes one at a time. `settle_reservation` locks the
reservation, then the audit head, then, when it commits, the dispatch it has only
read. The audit head is a single lock, which every append takes: it can only add
waiting to the row locks of `AuditChain`. `Abort` is PostgreSQL's deadlock detector.
`overrun` remembers whether a lease ran out on a worker that was still at work, the
one thing `NoWaitCycle` and `NoLostUpdate` have to exclude: afterwards two workers can
finalise one message in opposite orders, and the detector has to resolve that, and the
later of them overwrites whole statuses with its own. `NoLostUpdate` says that up to
then a commit moves a reservation and its dispatch only from where they stand to where
`DispatchLifecycle` and `CommandLedger` let them go, and the message with them.
`TypeOK` says that each transaction holds the locks of a first part of one of its plans
and is waiting for the rest in order (`InOrder`). The plans are exact as long as the
three rows agree, which they do before an overrun: then every UPDATE of a finalisation
changes its row. After one, SQLAlchemy leaves out the UPDATE of a row that already stands
as the worker would write it, and with it a lock that the model takes; `NoWaitCycle` and
`NoLostUpdate` say nothing of that time, and the other properties hold with the lock or
without it. `DispatchDelivery` and `Commands`
take the API's transactions to be one step, which is what this justifies. The mutant of
`Checks` shows why `redrive.py:65` tests the message's status under its first lock: a
re-drive that tested it at the end would wait for the worker that finalises the
message, and that worker for it.

### AuditChain

A writer is a transaction: it reads the newest committed row FOR UPDATE, waits if
another transaction holds that row, inserts with the number the database hands out,
and commits or rolls back. `backend` is chosen once and never changes. On
`"postgresql"`, at READ COMMITTED, a statement sees what was committed when it started,
a row that was only locked comes back as first seen, an empty table has nothing to
lock, and a rolled back number is lost. On `"sqlite"` every caller has written before
it appends, so it holds the database's write lock (`SingleWriter`). A hash stands for
all history below an event, and collisions are excluded, so an event's number serves
as its hash.

`AuditLog` has neither writers nor locks: the log grows by one event, at its end and
linked to the newest, or it is broken for ever; where appends are serial it never is.
A checkpoint signs all there is, only while it verifies. `SingleWriter` maps to
`serial`, `events` to `log`, `ChainValid` to `intact` and `Below`, the rows up to the
head of the checkpoint, to `signed`: that is how a verifier finds what was signed.

### AuditEvidence

`Backup` copies what is committed; rows of the copy are then lost (`LoseRow`) or
altered (`AlterRow`) while the table itself goes on growing. An altered row no longer
has the hash stored in it. `Verified` is `verify_chain` on the copy; `Matches` adds
what `verify_fixture` of the recovery drill compares, count and head, taken from the
latest checkpoint. Rows lost at the end are invisible to the first
(`UndetectedIsTruncation`) and visible to the second (`MatchedCopyIsComplete`).
Rewriting a suffix of the chain with fresh hashes is left out.

### Commands

A request looks up its key (`Check`), locks its target row and validates it
(`LockTarget`), and commits (`Commit`), where the unique constraints bite. A retry is
another request with the same command and key. Resources are named by the request
that created them. `RowLocks = FALSE` is SQLite, which ignores FOR UPDATE. Checks of
quantities, windows and readings have either outcome. `Publish`, `Fail` and `Redrive`
are the outcomes of `DispatchDelivery`, in one step each.

`CommandLedger` is the same API without keys to look up, rows to lock or constraints to
run into: a command is asked, and then takes effect, repeats the answer of the request
that took effect under its key, or is refused, each in one step. `asked` is
`request`; answers, offers and statuses are the program's. Between arrival and commit,
`Commands` stutters.

### MeterEvidence

One asset; clocks show `0 .. Horizon`. Intervals are kept as they were spelled, the
clock's time and the offset from UTC it is written in; `UTC` is `_utc`, the instants
meant. `Stored` is what a query sees: PostgreSQL keeps the instant; SQLite's `DateTime`
keeps the clock's time, which `_utc` then takes for UTC. Which of the two it is,
`keepsZone`, is chosen once and never changes. `InsideOffer` compares the command's
window, converted, with the offer's row as it was read back; `InWindow` compares two rows
in the database. A submission looks its fingerprint up (`Lookup`) and inserts (`Insert`),
where UNIQUE(fingerprint) bites; the fingerprint is the whole command *as spelled*:
interval, energy and source, the last two being `details`. A settlement is asked for,
reads its rows and commits in three steps; the ghost `known` remembers what was
acknowledged when it was asked for. Amounts are left out because they are sums over the
manifest. Windows of an asset's offers may overlap, as `create_offer` lets them, and
readings may overlap each other.

`SteadyMeters` is an assumption about clients that the code does not enforce: a report
that is sent again is spelled as before. The same assumption for time zones is written
into `PaidInsideOffer` and `EvidenceIsComplete`, not made of the model: an interval
`Survives` if the database keeps zones or the interval is written in UTC.

### Deployment

The schema is a set of tables with their unique columns and references; the models and
the two migrations declare it independently, as in the source, and so does the model
(`ModelConstraints`, `Constraints0001`, `Constraints0002`). A migration is one
transaction. `Inspect` and `CheckRevision` are the two statements of the start-up gate;
`StartDevelopment` is `create_all`, which `config.py` makes the default. An operation
is the set of privileges its statements need: SELECT ... FOR UPDATE needs SELECT and
UPDATE. `Duties` are the operations the processes of an identity run; `Excluded` is the
last column of `docs/LEAST_PRIVILEGE.md`. DELETE, sequences and CREATE on the schema are
left out: no runtime operation uses the first, and PostgreSQL 15 and later give the last
to nobody but the owner. That leaves the re-drive as what the API's row excludes, and its
grants cover every statement of one: `ExcludedIsImpossible`, about all roles, is the
property of `deployment_exclusion`, `OthersAreExcluded` says what holds of the others.
A managed process gets up only as the migrator or the auditor, because only
they can read `alembic_version`: that is what `deployment_grants` reports.

## Runs

| Run | Bounds | Shows |
|---|---|---|
| `delivery_racing` | 2 dispatches, 2 keys, 2 workers, budget 2, 1 crash, 1 re-drive, 3 claims per message, leases may run out | `SettledWasAcknowledged`, `OneKeyPerEffect`, `ClaimIsLeased` hold even then |
| `delivery_prompt` | 2 dispatches, 2 keys, 2 workers, budget 3, 1 crash, 1 re-drive, prompt workers, fair | `RowsAgree`, `AuditExplainsRows`, `OverrunNeedsCrash`, `DeliveryConcludes`, `ImplementsLifecycle`, the backoff cap in `TypeOK` |
| `lock_order` | 2 sessions, 2 workers, 2 claims, fair | `NoWaitCycle`, `ChecksStayTrue`, `NoLostUpdate`, `TransactionsEnd`, and `TypeOK`: locks are held in the order of the statements and no longer than the transaction |
| `audit_evidence` | 3 writers, 3 events, both databases, 1 row lost or altered | `LinksAreCommitted`, `SerialChainValid`, `CheckpointIsPrefix`, `UndetectedIsTruncation`, `MatchedCopyIsComplete`, `ImplementsLog` |
| `commands_overlap` | 4 requests, 2 offers, 2 keys, 2 actors, no row locks | `OneEffectPerKey`, `NoDoubleUse`, `SettledByAnother`, `RetryIsAnswered`, `ImplementsLedger` |
| `evidence_paid` | 3 submissions, 1 offer, clocks 0..2, 2 zones, 2 details, both databases, steady meters | `ReadingOnce`, `PaidInsideOffer`, `EvidenceIsComplete` |
| `deployment` | one API, one worker, one recovery process, both migrations | `SchemaIsVersioned`, `ConstraintsComplete`, `OthersAreExcluded`, `AdmittedFindsSchema` |

Two workers are enough for every race on one message, because a finalisation
conflicts with at most one later claim at a time; a third adds only repetition, and
two dispatches and two keys are what `OneKeyPerEffect` compares. The claim bound
leaves room for the budget, one crash and one overrun. A cycle of waiting needs two
processes, a wait on a wait three, and `lock_order` has four: two workers overrun each
other while a re-drive and a settlement come in between. Reserve, dispatch and settle
take three requests; the fourth overlaps or retries any of them. Without row locks
more interleavings are possible than with them. Three audit writers let one wait, one
link and one roll back; three events are enough for a lost row at the start, in the
middle and at the end. Clocks that show 0..2 in two zones give windows that are equal,
touch and overlap, and one instant in two spellings; two submissions race and the third
repeats one of them or reports something else of the same time. The evidence properties
speak of one offer at a time, and no action of one offer reads another. `Deployment` has
no bound but one process of each kind.
`MaxCrashes`, `MaxRedrives`, `ClaimBound`, `MaxClaims`, `MaxSequence`, `MaxFaults` and
`Horizon` are bounds of the models only.

`DispatchDelivery`, `Commands` and `MeterEvidence` switch deadlock checking off: these
systems stop when all work is done. `LockOrder`, `AuditEvidence` and `Deployment` are
checked for deadlock; that no transaction waits for ever is more, and is what
`TransactionsEnd` says.

The other five runs are expected to fail, each with one statement of the
documentation that the code does not keep:

* `delivery_redrive` - "There is no unaudited automatic re-drive of dead messages"
  (`docs/API_WORKFLOW.md`): a worker whose lease expired between its unlocked read
  and its write makes a dead message pending again, or takes a settled dispatch out of
  `completed`.
* `audit_fork` - an untouched chain verifies (`docs/ARCHITECTURE.md`): two PostgreSQL
  transactions link to one predecessor.
* `commands_replay` - "same key + same canonical request → same resource"
  (`docs/API_WORKFLOW.md`): a retry that overlaps its original is refused.
* `deployment_exclusion` - "terminal re-drive authority" is explicitly excluded for
  `flextrust_api` (`docs/LEAST_PRIVILEGE.md`): the reference grants let that role run
  every statement of a re-drive, and only the API's code does not offer one.
* `deployment_grants` - "Claim/finalize outbox, update dispatch/reservation state, append
  audit" (`docs/LEAST_PRIVILEGE.md`): under the reference grants the runtime roles
  cannot read the revision at the gate, and worker and recovery cannot lock the newest
  audit row, although `verify_db_privileges.py` accepts the deployment.

Two more disagreements have no run of their own:

* "A message is never retried beyond `max_attempts`" (`docs/RELIABLE_INTEGRATION.md`).
  Attempts are counted at the claim and compared with the budget only when a publish
  fails, so each crash after a claim adds one. `OverrunNeedsCrash` states what holds
  instead.
* "deduplicated meter evidence with deterministic fingerprints" (`README.md`). One
  report sent in two time zones, or as 1.5 and 1.50 kWh, has two fingerprints and is
  stored and paid for twice; with `SteadyMeters = FALSE` in `MCEvidence_paid.cfg` TLC
  shows it as a violation of `ReadingOnce`. Two reports of one interval that differ in
  energy or source are two readings by intent or not, the document does not say; both
  are paid for. So is one reading in the windows of two overlapping offers, once by each.

## Fairness

* `DispatchDelivery`: time passes, and each worker process keeps taking the steps it
  can take: `worker.run_once` is run over and over by its supervisor and a publisher
  returns or raises. Commands, settlements and re-drives are not promised. Crashes
  are bounded; a worker that dies for ever delivers nothing.
* `LockOrder`: a transaction that has its locks commits (weak), PostgreSQL's lock queue
  does not overtake a waiter for ever (strong, on `Acquire`), and its deadlock detector
  runs (weak, on `Abort`). No request, claim or outcome is promised.

The other modules state safety only.

## Proofs

All proofs hold for every value of the constants that satisfies the named assumptions
of the module.

`DispatchDeliveryProofs` has two inductive invariants. `RacingInv` needs no
assumption about leases: types, `AckInv` (whoever is about to record a success, and
every dispatch that counts as issued, was acknowledged), `KeyInv` (what a worker
sends and what was sent carries the key of the row) and `ClaimIsLeased`. From it
follow `TypeCorrect`, `SettlementNeedsAck`, `KeyIdentifiesEffect` and
`NoStrandedClaim`. `ExclusiveInv` assumes `ExclusiveClaims`: workers are prompt, or
there is one. It adds `OwnerInv` (a busy worker still owns its row) and `LoadedInv`
(what it has read is still so), which the properties alone do not imply and without
which a finalisation could write over anything; from it follow `RowsAlwaysAgree`,
`AuditAlwaysExplains`, `OverrunIsCrashes` and the refinement
`OutboxImplementsLifecycle`. `delivery_redrive` shows that the assumption is needed.

`LockOrderProofs`: no order on the locks rules a cycle out, the plans contradict each
other. What each plan does give, and `TypeOK` keeps, is `PlanInv` (`PlansHold`): a
transaction holds the locks it needs or will still get them, and a command gets the one
of its first check first. `LockInv` adds to the properties what rules a cycle out:
`ClaimInv` (claims have a number each, and no message exists while the
reservation is `reserved`) and `CalmInv` (before an overrun whoever works on a claim
holds the one on the row, and an issued dispatch has a published message). Then
whoever waits in a cycle also holds a lock, so it has passed its first check or holds
the claim. Each of these is true of one message status only - `absent` for a
dispatch, `published` for a settlement, `dead` for a re-drive, `processing` for a
worker - and within a status of one process (`Exclusive`), so the cycle has one
member. That gives `CalmWithoutDeadlock`; `CommandsWorkOnWhatTheyChecked` needs no calm.
`CalmLosesNoUpdate` adds `AgreeInv`, the five combinations of statuses that occur before
an overrun: a transaction knows one row, from what it checked or from the claim it holds, and
`AgreeInv` tells it the others. A settlement reads the dispatch without a lock; it is
`ChecksStayTrue` that makes its commit a move.

`AuditChainProofs`: `ChainInv` (numbers grow, what a writer holds is older than what
it inserts, under SQLite one writer is active and owns the newest number) gives
`ChainTypeCorrect` and `NoDanglingLink` for both databases. `ValidInv` adds that the
active writer holds the head; it gives `ChainAlwaysValid` on SQLite, and `audit_fork`
shows that it needs it. `PinInv` keeps a witness, the rows a checkpoint counted: they
stay committed, and their links leave no room between them, so a chain with another
row below their head does not verify. It gives `CheckpointPinsPrefix` on either database.

`TableImplementsLog`, the refinement of `AuditLog`, needs all of it. That a chain verifies after a commit exactly
if it did before and the new event extends it (`ExtensionVerifies`, `VerifiedIsExtension`)
is about `ChainValid` alone; that the event links to a committed one comes from
`ChainInv`; that a late commit below the head of a checkpoint breaks the chain
(`SlippedIsNoExtension`) from `PinInv`; and that a serial append is an extension from
`ValidInv`, which is why the step is proved under `SingleWriter => ValidInv`.
`AuditEvidenceProofs` goes on from
there: every row of a copy is a committed row, altered or not (`CopyInv`), and two chains
that verify and share a row share all rows below it, which gives `OnlyTruncationIsMissed`
and, by counting, `MatchedCopyComplete`.

`CommandsProofs`: `CommandInv` says what each request knows in each state
(`RequestInv`), that a resource and its record come together, one
per key (`RecordInv`), that answers come from records (`AnswerInv`), that a resource is the only
one of its kind on its target (`UseInv`), and who has touched what is settled
(`SettleInv`). The five properties follow for any number of requests, with row locks or
without: the unique constraints alone suffice.

`CommandsImplementLedger` rests on `RowsInv`: `CommandInv` does not say how the rows
stand to each other, and a commit is a step of the ledger only because they do.
What a request validated at its lock may be stale without row locks. The constraints
make up for it: a target still free of a dispatch is still `reserved`, an offer free of a
reservation is still open, and an issued dispatch without a settlement has a reservation
that is still `dispatched`. So each commit does what the ledger's step does to the state it
finds (`CommitIsExecute`), a look-up that hits repeats the request that took effect under
the key (`CheckIsLedger`), and all other steps of a request are invisible or lose or
refuse its answer.

`MeterEvidenceProofs`: `EvidenceInv` is inductive without any assumption; its parts
are conditional on the premises they need. `RowInv` (one row per fingerprint,
answers name the row of their own fingerprint) with `SpellingInv` gives
`ReadingStoredOnce`, for steady meters. `OfferInv` and `ManifestInv` chain reading,
dispatch and offer, and `WindowMeansInside` says that the database compares instants
where both sides survive it: they give `SettlementPaysInsideOffer` and
`SettlementMissesNothing` on either database. That the intervals survive is needed: on
SQLite, the development database, a window offered in another zone moves by its offset.

`DeploymentProofs`: `SchemaInv` (the tables of the recorded revision are there, the
constraints are the models' on whatever is there, grants are of the matrix and on
existing tables) gives all five properties. It needs that the two migrations declare
the constraints the models declare (`SameConstraints`). `GateIsSound` turns on what the
gate reads last: a revision that is the head one tells of every table, whatever ran
since the first check.

Model-checked only: the liveness properties `DeliveryConcludes` and `TransactionsEnd`
(liveness under fairness and ENABLED are beyond the prover). Every other property of a
passing run, 34 of 36, is stated by a theorem.

## Not modelled

* The OpenADR mapping, the dashboard, the SBOM and advisory scripts, the verification of
  a token or a checkpoint's signature, and the command lines compute one result from one
  input and keep no state. Most of `schemas.py` and the read-only routes are of this kind.
* Quantities, prices and amounts: each is compared or computed once, from values that
  never change. The capacity of an asset is compared with one offer at a time, and
  no document promises more. Column widths and string lengths decide only whether
  the database refuses a transaction, which `Commands` has as a refusal.
* `outbox_snapshot` counts rows for people; nothing acts on it. The payloads that
  `dispatch_payload` and `dispatch_signal` convert do not change between the two.
* The recovery drill's comparison of one settlement and the number of outbox messages, and
  how it seeds its fixture.
* Connection pools, engine options and the isolation level of SQLite's transactions beyond
  that one of them writes at a time.
