-------------------------- MODULE DispatchDelivery --------------------------
(***************************************************************************)
(* Delivery of queued dispatches through the transactional outbox:         *)
(* outbox.py, redrive.py and the two commands of service.py that start     *)
(* and end a delivery.                                                     *)
(*                                                                         *)
(* A dispatch, its reservation and its outbox message are 1:1 (unique      *)
(* constraints of models.py), so one identifier names all three.  Times    *)
(* are kept as the seconds left until available_at and lease_expires_at.   *)
(* Every database transaction is one step, except that of a worker that    *)
(* finalises a claim: it reads its rows without locking them and writes    *)
(* them later, so each of its statements is a step.                        *)
(***************************************************************************)
EXTENDS Integers, FiniteSets

CONSTANTS
  Dispatches,     \* reservations that may be dispatched
  Keys,           \* Idempotency-Key values clients send
  Workers,        \* outbox worker processes
  None,           \* SQL NULL
  MaxAttempts, BaseRetry, MaxRetry, LeaseSeconds,  \* OutboxWorker.__init__
  PromptWorkers,  \* TRUE: a live worker finalises before its lease expires
  MaxCrashes,     \* bound on worker crashes
  MaxRedrives,    \* bound on authorised re-drives
  ClaimBound      \* bound on a message's attempts counter

\* The argument checks of OutboxWorker.__init__.
ASSUME WorkerParameters ==
  /\ MaxAttempts \in Nat \ {0}
  /\ BaseRetry \in Nat \ {0}
  /\ MaxRetry \in Nat /\ MaxRetry >= BaseRetry
  /\ LeaseSeconds \in Nat \ {0}

ASSUME Bounds ==
  /\ PromptWorkers \in BOOLEAN
  /\ MaxCrashes \in Nat /\ MaxRedrives \in Nat /\ ClaimBound \in Nat
  /\ None \notin Dispatches \cup Keys \cup Workers

VARIABLES
  outbox,       \* outbox_messages row of each dispatch
  dispatch,     \* dispatches.status
  reservation,  \* reservations.status
  settled,      \* reservations that have a settlement row
  lastEvent,    \* event_type of the dispatch's latest audit event
  worker,       \* local state of each worker process
  sent,         \* <<key, dispatch>> pairs the destination has accepted
  acked,        \* dispatches whose publisher returned a reference
  crashes, redrives

rows == <<dispatch, reservation, settled, lastEvent>>
external == <<sent, acked>>
vars == <<outbox, rows, worker, external, crashes, redrives>>

OutboxStatus == {"pending", "processing", "published", "dead"}
DispatchStatus == {"queued", "issued", "rejected", "completed"}
ReservationStatus ==
  {"reserved", "dispatch_pending", "dispatched", "completed", "cancelled"}
EventType ==
  {"dispatch.queued", "dispatch.published", "dispatch.delivery_failed",
   "dispatch.redrive_authorized", "settlement.calculated"}

NoLease == -1   \* lease_expires_at IS NULL

\* No row yet.
NoMessage == [status |-> "absent", attempts |-> 0, wait |-> 0,
              lease |-> NoLease, lockedBy |-> None, key |-> None]

\* A worker between two messages of run_once.
Idle == [pc |-> "idle", msg |-> None, key |-> None, ok |-> FALSE,
         attempts |-> 0, dispatch |-> "unread", reservation |-> "unread"]

Message == [status : OutboxStatus \cup {"absent"}, attempts : Nat,
            wait : 0..MaxRetry, lease : NoLease..LeaseSeconds,
            lockedBy : Workers \cup {None}, key : Keys \cup {None}]

Worker == [pc : {"idle", "publish", "message", "dispatch", "reservation",
                 "commit"},
           msg : Dispatches \cup {None}, key : Keys \cup {None}, ok : BOOLEAN,
           attempts : Nat, dispatch : DispatchStatus \cup {"unread", "absent"},
           reservation : ReservationStatus \cup {"unread"}]

Init ==
  /\ outbox = [d \in Dispatches |-> NoMessage]
  /\ dispatch = [d \in Dispatches |-> "absent"]
  /\ reservation = [d \in Dispatches |-> "reserved"]
  /\ settled = {}
  /\ lastEvent = [d \in Dispatches |-> "absent"]
  /\ worker = [w \in Workers |-> Idle]
  /\ sent = {} /\ acked = {}
  /\ crashes = 0 /\ redrives = 0

-----------------------------------------------------------------------------
(* The API process.                                                        *)

\* Mutant: the unique constraints are missing.
AnyKey(k) == TRUE

\* UNIQUE(topic, idempotency_key) and UNIQUE(operation, key).
KeyUnused(k) == \A e \in Dispatches : outbox[e].key # k

\* enqueue_dispatch: a pending row, available at once.
Enqueued(k) == [NoMessage EXCEPT !.status = "pending", !.key = k]

IssueDispatch(d, k) ==
  /\ reservation[d] = "reserved"
  /\ KeyUnused(k)
  /\ outbox' = [outbox EXCEPT ![d] = Enqueued(k)]
  /\ dispatch' = [dispatch EXCEPT ![d] = "queued"]
  /\ reservation' = [reservation EXCEPT ![d] = "dispatch_pending"]
  /\ lastEvent' = [lastEvent EXCEPT ![d] = "dispatch.queued"]
  /\ UNCHANGED <<settled, worker, external, crashes, redrives>>

\* Mutant: settlement accepts a dispatch nobody has acknowledged.
SettleUndelivered(d) ==
  /\ reservation[d] \in {"dispatch_pending", "dispatched"}
  /\ d \notin settled
  /\ settled' = settled \cup {d}
  /\ reservation' = [reservation EXCEPT ![d] = "completed"]
  /\ dispatch' = [dispatch EXCEPT ![d] = "completed"]
  /\ lastEvent' = [lastEvent EXCEPT ![d] = "settlement.calculated"]
  /\ UNCHANGED <<outbox, worker, external, crashes, redrives>>

\* UNIQUE(settlements.reservation_id) makes a second settlement fail.
SettleReservation(d) ==
  /\ reservation[d] = "dispatched"
  /\ dispatch[d] = "issued"
  /\ d \notin settled
  /\ settled' = settled \cup {d}
  /\ reservation' = [reservation EXCEPT ![d] = "completed"]
  /\ dispatch' = [dispatch EXCEPT ![d] = "completed"]
  /\ lastEvent' = [lastEvent EXCEPT ![d] = "settlement.calculated"]
  /\ UNCHANGED <<outbox, worker, external, crashes, redrives>>

\* Mutant: the re-drive re-arms the message and forgets its aggregate.
RedriveMessageOnly(d) ==
  /\ redrives < MaxRedrives
  /\ outbox[d].status = "dead"
  /\ outbox' = [outbox EXCEPT ![d].status = "pending", ![d].attempts = 0]
  /\ redrives' = redrives + 1
  /\ UNCHANGED <<rows, worker, external, crashes>>

(* The recovery operator.                                                  *)
AuthorizeRedrive(d) ==
  /\ redrives < MaxRedrives
  /\ outbox[d].status = "dead"
  /\ dispatch[d] = "rejected"
  /\ reservation[d] = "cancelled"
  /\ outbox' = [outbox EXCEPT ![d] =
                  [@ EXCEPT !.status = "pending", !.attempts = 0, !.wait = 0,
                            !.lease = NoLease, !.lockedBy = None]]
  /\ dispatch' = [dispatch EXCEPT ![d] = "queued"]
  /\ reservation' = [reservation EXCEPT ![d] = "dispatch_pending"]
  /\ lastEvent' = [lastEvent EXCEPT ![d] = "dispatch.redrive_authorized"]
  /\ redrives' = redrives + 1
  /\ UNCHANGED <<settled, worker, external, crashes>>

-----------------------------------------------------------------------------
(* The worker.                                                             *)

\* uuid4 makes each claim's token its own.  A process holds one claim at a
\* time, so "the row still carries my token" is "the row names this process".
ClaimToken(w) == w

\* Mutants: a claim ignores the lease; a claim never takes over a lease.
DueWithoutLease(d) ==
  outbox[d].wait = 0 /\ outbox[d].status \in {"pending", "processing"}
DuePendingOnly(d) == outbox[d].wait = 0 /\ outbox[d].status = "pending"

\* The WHERE clause of _claim_one.
Due(d) ==
  /\ outbox[d].wait = 0
  /\ \/ outbox[d].status = "pending"
     \/ outbox[d].status = "processing" /\ outbox[d].lease = 0

\* ORDER BY is left out: SKIP LOCKED may hand out any due row.
ClaimOne(w, d) ==
  /\ worker[w].pc = "idle"
  /\ Due(d)
  /\ outbox[d].attempts < ClaimBound
  /\ outbox' = [outbox EXCEPT ![d] =
                  [@ EXCEPT !.status = "processing",
                            !.attempts = outbox[d].attempts + 1,
                            !.lease = LeaseSeconds, !.lockedBy = ClaimToken(w)]]
  /\ worker' = [worker EXCEPT ![w] =
                  [Idle EXCEPT !.pc = "publish", !.msg = d,
                               !.key = outbox[d].key]]
  /\ UNCHANGED <<rows, external, crashes, redrives>>

\* publisher.publish returns (ok) or raises.  The destination may have accepted
\* the signal although the call raised; it has when the call returned.
Publish(w, ok, accepted) ==
  /\ worker[w].pc = "publish"
  /\ ok => accepted
  /\ sent' = IF accepted THEN sent \cup {<<worker[w].key, worker[w].msg>>}
                         ELSE sent
  /\ acked' = IF ok THEN acked \cup {worker[w].msg} ELSE acked
  /\ worker' = [worker EXCEPT ![w] = [@ EXCEPT !.pc = "message", !.ok = ok]]
  /\ UNCHANGED <<outbox, rows, crashes, redrives>>

\* Mutant: off by one in the budget check.
ExhaustedLate(attempts) == attempts > MaxAttempts

Exhausted(attempts) == attempts >= MaxAttempts

\* session.get(OutboxMessage): no lock, then the claim-token check.
LoadMessage(w) ==
  LET m == outbox[worker[w].msg]
      needsRows == worker[w].ok \/ Exhausted(m.attempts)
  IN /\ worker[w].pc = "message"
     /\ worker' = [worker EXCEPT ![w] =
                     IF m.lockedBy # ClaimToken(w) THEN Idle
                     ELSE [@ EXCEPT !.attempts = m.attempts,
                             !.pc = IF needsRows THEN "dispatch" ELSE "commit"]]
     /\ UNCHANGED <<outbox, rows, external, crashes, redrives>>

LoadDispatch(w) ==
  /\ worker[w].pc = "dispatch"
  /\ worker' = [worker EXCEPT ![w] =
                  [@ EXCEPT !.pc = "reservation",
                            !.dispatch = dispatch[worker[w].msg]]]
  /\ UNCHANGED <<outbox, rows, external, crashes, redrives>>

LoadReservation(w) ==
  /\ worker[w].pc = "reservation"
  /\ worker' = [worker EXCEPT ![w] =
                  [@ EXCEPT !.pc = "commit",
                            !.reservation = reservation[worker[w].msg]]]
  /\ UNCHANGED <<outbox, rows, external, crashes, redrives>>

\* The ORM writes a column only if it differs from the value it loaded.
Flush(current, loaded, new) == IF loaded = new THEN current ELSE new

\* Mutant: finalisation keeps the lease and the token.
ReleasedWithLease(d, status, wait) ==
  [outbox[d] EXCEPT !.status = status, !.wait = wait]

\* The row after the worker lets go of it.
Released(d, status, wait) ==
  [outbox[d] EXCEPT !.status = status, !.wait = wait,
                    !.lease = NoLease, !.lockedBy = None]

\* Mutant: the audit event is not appended.
FinaliseUnlogged(w, newDispatch, newReservation, event) ==
  LET d == worker[w].msg IN
  /\ dispatch' = [dispatch EXCEPT ![d] = newDispatch]
  /\ reservation' = [reservation EXCEPT ![d] = newReservation]
  /\ UNCHANGED <<settled, lastEvent>>

\* The dispatch and reservation UPDATEs and the audit event of a final outcome.
Finalise(w, newDispatch, newReservation, event) ==
  LET d == worker[w].msg IN
  /\ dispatch' = [dispatch EXCEPT ![d] =
                    Flush(@, worker[w].dispatch, newDispatch)]
  /\ reservation' = [reservation EXCEPT ![d] =
                       Flush(@, worker[w].reservation, newReservation)]
  /\ lastEvent' = [lastEvent EXCEPT ![d] = event]
  /\ UNCHANGED settled

RecordSuccess(w) ==
  LET d == worker[w].msg IN
  /\ worker[w].pc = "commit" /\ worker[w].ok
  /\ outbox' = [outbox EXCEPT ![d] = Released(d, "published", @.wait)]
  /\ Finalise(w, "issued", "dispatched", "dispatch.published")
  /\ worker' = [worker EXCEPT ![w] = Idle]
  /\ UNCHANGED <<external, crashes, redrives>>

RecordDead(w) ==
  LET d == worker[w].msg IN
  /\ worker[w].pc = "commit" /\ ~worker[w].ok
  /\ Exhausted(worker[w].attempts)
  /\ outbox' = [outbox EXCEPT ![d] = Released(d, "dead", @.wait)]
  /\ Finalise(w, "rejected", "cancelled", "dispatch.delivery_failed")
  /\ worker' = [worker EXCEPT ![w] = Idle]
  /\ UNCHANGED <<external, crashes, redrives>>

\* Mutant: the cap is missing.
UncappedDelay(attempts) == BaseRetry * 2^(attempts - 1)

\* min(base * 2^max(0, attempts - 1), max).
RetryDelay(attempts) ==
  LET doublings == IF attempts > 0 THEN attempts - 1 ELSE 0
      delay == BaseRetry * 2^doublings
  IN IF delay \in 0..MaxRetry THEN delay ELSE MaxRetry

RecordRetry(w) ==
  LET d == worker[w].msg IN
  /\ worker[w].pc = "commit" /\ ~worker[w].ok
  /\ ~Exhausted(worker[w].attempts)
  /\ outbox' = [outbox EXCEPT ![d] =
                  Released(d, "pending", RetryDelay(worker[w].attempts))]
  /\ worker' = [worker EXCEPT ![w] = Idle]
  /\ UNCHANGED <<rows, external, crashes, redrives>>

\* The process dies, or the finalising transaction raises and rolls back.
Crash(w) ==
  /\ worker[w].pc # "idle"
  /\ crashes < MaxCrashes
  /\ crashes' = crashes + 1
  /\ worker' = [worker EXCEPT ![w] = Idle]
  /\ UNCHANGED <<outbox, rows, external, redrives>>

Down(n) == IF n > 0 THEN n - 1 ELSE n

\* A second passes.  Nothing renews a lease while its worker publishes.
Tick ==
  /\ \E d \in Dispatches : outbox[d].wait > 0 \/ outbox[d].lease > 0
  /\ PromptWorkers =>
       \A w \in Workers :
         worker[w].pc # "idle" => outbox[worker[w].msg].lease > 1
  /\ outbox' = [d \in Dispatches |->
                  [outbox[d] EXCEPT !.wait = Down(@), !.lease = Down(@)]]
  /\ UNCHANGED <<rows, worker, external, crashes, redrives>>

-----------------------------------------------------------------------------
WorkerStep(w) ==
  \/ \E d \in Dispatches : ClaimOne(w, d)
  \/ \E ok, accepted \in BOOLEAN : Publish(w, ok, accepted)
  \/ LoadMessage(w) \/ LoadDispatch(w) \/ LoadReservation(w)
  \/ RecordSuccess(w) \/ RecordDead(w) \/ RecordRetry(w)

Next ==
  \/ \E d \in Dispatches, k \in Keys : IssueDispatch(d, k)
  \/ \E d \in Dispatches : SettleReservation(d)
  \/ \E d \in Dispatches : AuthorizeRedrive(d)
  \/ \E w \in Workers : WorkerStep(w)
  \/ \E w \in Workers : Crash(w)
  \/ Tick

Spec == Init /\ [][Next]_vars

\* A supervisor keeps running the worker, the publisher returns or raises, and
\* time passes.  Nobody owes a dispatch command, a settlement or a re-drive.
Fairness == WF_vars(Tick) /\ \A w \in Workers : WF_vars(WorkerStep(w))

FairSpec == Spec /\ Fairness

-----------------------------------------------------------------------------
(* Properties.                                                             *)

\* Every variable stays in its domain; in particular the backoff computed by
\* _retry_delay never leaves the configured maximum.
TypeOK ==
  /\ outbox \in [Dispatches -> Message]
  /\ \A d \in Dispatches : outbox[d].status # "absent" => outbox[d].key \in Keys
  /\ dispatch \in [Dispatches -> DispatchStatus \cup {"absent"}]
  /\ reservation \in [Dispatches -> ReservationStatus]
  /\ settled \subseteq Dispatches
  /\ lastEvent \in [Dispatches -> EventType \cup {"absent"}]
  /\ worker \in [Workers -> Worker]
  /\ \A w \in Workers : worker[w].pc # "idle" =>
       /\ worker[w].msg \in Dispatches /\ worker[w].key \in Keys
       /\ outbox[worker[w].msg].status # "absent"
  /\ sent \subseteq Keys \X Dispatches
  /\ acked \subseteq Dispatches
  /\ crashes \in Nat /\ redrives \in Nat

\* Nothing is settled unless its publisher acknowledged it, even when workers
\* whose leases ran out overwrite each other (settle_reservation, "only a
\* delivered dispatch can be settled").
SettledWasAcknowledged == settled \subseteq acked

\* A destination that deduplicates on the key executes every dispatch at most
\* once and never takes two dispatches for one: retries, reclaims after a crash
\* and re-drives all carry the key the dispatch was issued with.
OneKeyPerEffect ==
  \A p, q \in sent : p[1] = q[1] <=> p[2] = q[2]

\* No message is stranded: whatever workers raced on it, a row in processing
\* has a holder and a lease that will expire, and no other row has either.
ClaimIsLeased ==
  \A d \in Dispatches :
    /\ outbox[d].status = "processing" <=> outbox[d].lease # NoLease
    /\ outbox[d].status = "processing" <=> outbox[d].lockedBy # None

\* The message, the dispatch and the reservation tell the same story, although
\* three processes move them and the worker writes rows it did not lock.
RowsAgree ==
  \A d \in Dispatches :
    /\ reservation[d] = "reserved" <=> outbox[d].status = "absent"
    /\ dispatch[d] = "absent" <=> outbox[d].status = "absent"
    /\ dispatch[d] = "queued" <=> outbox[d].status \in {"pending", "processing"}
    /\ dispatch[d] = "queued" <=> reservation[d] = "dispatch_pending"
    /\ dispatch[d] = "rejected" <=> outbox[d].status = "dead"
    /\ dispatch[d] = "rejected" <=> reservation[d] = "cancelled"
    /\ dispatch[d] = "issued" <=> reservation[d] = "dispatched"
    /\ dispatch[d] = "completed" <=> reservation[d] = "completed"
    /\ dispatch[d] = "completed" <=> d \in settled

\* The state of a dispatch whose latest audit event is e.
EventStatus(e) ==
  CASE e = "dispatch.queued" -> "queued"
    [] e = "dispatch.redrive_authorized" -> "queued"
    [] e = "dispatch.published" -> "issued"
    [] e = "dispatch.delivery_failed" -> "rejected"
    [] e = "settlement.calculated" -> "completed"
    [] OTHER -> "absent"

\* The audit trail explains the rows: a dispatch is where its latest event says.
AuditExplainsRows ==
  \A d \in Dispatches : dispatch[d] = EventStatus(lastEvent[d])

\* Only a crashed claim can take a message past max_attempts: _claim_one counts
\* attempts but does not compare them with the budget.
OverrunNeedsCrash ==
  \A d \in Dispatches : outbox[d].attempts <= MaxAttempts + crashes

\* docs/API_WORKFLOW.md: "There is no unaudited automatic re-drive of dead
\* messages": after dispatch.delivery_failed the message stays dead until the
\* next event.
NoUnauditedRedrive ==
  \A d \in Dispatches :
    lastEvent[d] = "dispatch.delivery_failed" => outbox[d].status = "dead"

\* A queued dispatch is delivered or rejected, whatever crashes and whatever the
\* destination answers, as long as workers do not crash forever.
DeliveryConcludes ==
  \A d \in Dispatches : dispatch[d] = "queued" ~> dispatch[d] # "queued"

\* The outbox implements the lifecycle the platform promises.
Lifecycle ==
  INSTANCE DispatchLifecycle WITH
    phase <- dispatch, key <- [d \in Dispatches |-> outbox[d].key]

ImplementsLifecycle == Lifecycle!Spec
=============================================================================
