------------------------------ MODULE Commands ------------------------------
(***************************************************************************)
(* The idempotent commands of service.py - reserve_offer, issue_dispatch,  *)
(* settle_reservation - as API processes run them side by side.            *)
(*                                                                         *)
(* A command looks up its Idempotency-Key without a lock, locks its target *)
(* row (the offer, or the reservation) and validates it, then writes       *)
(* everything in one commit, where the unique constraints are enforced.    *)
(* The resource a command creates is named by the request that created it, *)
(* and the columns that never change are that request's command.           *)
(*                                                                         *)
(* Quantities, windows and meter readings decide whether a command is      *)
(* refused and nothing else here: their check has either outcome.          *)
(***************************************************************************)
EXTENDS Integers, FiniteSets

CONSTANTS
  Requests,   \* HTTP requests; a client's retry is a request of its own
  Offers,     \* offers that have been created
  Keys,       \* Idempotency-Key values
  Actors,     \* actor_ids; a token may give one actor_id any role
  RowLocks    \* TRUE: FOR UPDATE locks (PostgreSQL); FALSE: ignored (SQLite)

Answers == {"none", "refused", "lost"}

ASSUME NamesDiffer ==
  /\ Requests \cap (Offers \cup Answers) = {}
  /\ RowLocks \in BOOLEAN

VARIABLES
  request,    \* what each request asks: [op, target, actor], under which key
  pc,         \* each request: "new", "check", "lock", "commit", "done"
  answer,     \* the resource it was answered with, or one of Answers
  retry,      \* requests whose command was on record when they arrived
  offer,      \* flex_offers.status
  status,     \* status of the resource each request created
  records     \* idempotency_records: [op, key, request_hash, resource]

tables == <<offer, status, records>>
vars == <<request, pc, answer, retry, tables>>

Operation == {"reserve_offer", "issue_dispatch", "settle_reservation"}
ResourceStatus ==
  {"reserved", "dispatch_pending", "dispatched", "completed", "cancelled",
   "queued", "issued", "rejected", "settled"}

Command == [op : Operation, target : Offers \cup Requests, actor : Actors]
NoRequest ==
  [command |-> [op |-> "none", target |-> "none", actor |-> "none"],
   key |-> "none"]
Request == [command : Command, key : Keys]
IdempotencyRecord ==
  [op : Operation, key : Keys, request_hash : Command, resource : Requests]

Init ==
  /\ request = [r \in Requests |-> NoRequest]
  /\ pc = [r \in Requests |-> "new"]
  /\ answer = [r \in Requests |-> "none"]
  /\ retry = {}
  /\ offer = [o \in Offers |-> "open"]
  /\ status = [r \in Requests |-> "absent"]
  /\ records = {}

Op(r) == request[r].command.op
Target(r) == request[r].command.target
Actor(r) == request[r].command.actor
Key(r) == request[r].key

\* The resources of one kind, and those made for a target.
Created(op) == {r \in Requests : status[r] # "absent" /\ Op(r) = op}
For(op, target) == {r \in Created(op) : Target(r) = target}

\* A client names an offer, or a reservation it has been told of.
Targets(op) ==
  IF op = "reserve_offer" THEN Offers ELSE Created("reserve_offer")

Found(r) == {x \in records : x.op = Op(r) /\ x.key = Key(r)}

Arrive(r, c, k) ==
  /\ pc[r] = "new"
  /\ c.target \in Targets(c.op)
  /\ request' = [request EXCEPT ![r] = [command |-> c, key |-> k]]
  /\ pc' = [pc EXCEPT ![r] = "check"]
  /\ retry' = IF \E x \in records : x.request_hash = c /\ x.key = k
              THEN retry \cup {r} ELSE retry
  /\ UNCHANGED <<answer, tables>>

Reply(r, a) ==
  /\ pc' = [pc EXCEPT ![r] = "done"]
  /\ answer' = [answer EXCEPT ![r] = a]

\* Mutant: the key is not looked up.
CheckNothing(r) ==
  /\ pc[r] = "check"
  /\ pc' = [pc EXCEPT ![r] = "lock"]
  /\ UNCHANGED <<request, answer, retry, tables>>

\* _idempotent_resource: a record is compared with the request's hash.
Check(r) ==
  /\ pc[r] = "check"
  /\ \/ /\ Found(r) = {}
        /\ pc' = [pc EXCEPT ![r] = "lock"]
        /\ UNCHANGED answer
     \/ \E x \in Found(r) :
          Reply(r, IF x.request_hash = request[r].command THEN x.resource
                   ELSE "refused")
  /\ UNCHANGED <<request, retry, tables>>

\* SELECT ... FOR UPDATE of the target is held until the transaction ends.
Locked(target) ==
  RowLocks /\ \E r \in Requests : pc[r] = "commit" /\ Target(r) = target

\* The status checks that follow the lock.
MayReserve(r) == offer[Target(r)] = "open"
MayDispatch(r) == status[Target(r)] = "reserved"

\* Mutant: whoever reserved may settle.
MaySettleRequester(r) ==
  /\ status[Target(r)] = "dispatched"
  /\ \E d \in For("issue_dispatch", Target(r)) :
       status[d] = "issued" /\ Actor(r) # Actor(d)

MaySettle(r) ==
  /\ status[Target(r)] = "dispatched"
  /\ \E d \in For("issue_dispatch", Target(r)) :
       status[d] = "issued" /\ Actor(r) \notin {Actor(d), Actor(Target(r))}

Permitted(r) ==
  \/ Op(r) = "reserve_offer" /\ MayReserve(r)
  \/ Op(r) = "issue_dispatch" /\ MayDispatch(r)
  \/ Op(r) = "settle_reservation" /\ MaySettle(r)

LockTarget(r, dataFits) ==
  /\ pc[r] = "lock"
  /\ ~Locked(Target(r))
  /\ IF Permitted(r) /\ dataFits
     THEN pc' = [pc EXCEPT ![r] = "commit"] /\ UNCHANGED answer
     ELSE Reply(r, "refused")
  /\ UNCHANGED <<request, retry, tables>>

\* The rows each command writes.
WriteReservation(r) ==
  /\ Op(r) = "reserve_offer"
  /\ offer' = [offer EXCEPT ![Target(r)] = "reserved"]
  /\ status' = [status EXCEPT ![r] = "reserved"]

\* Mutant: the reservation is left as it was.
WriteDispatchOnly(r) ==
  /\ Op(r) = "issue_dispatch"
  /\ status' = [status EXCEPT ![r] = "queued"]
  /\ UNCHANGED offer

WriteDispatch(r) ==
  /\ Op(r) = "issue_dispatch"
  /\ status' = [status EXCEPT ![r] = "queued", ![Target(r)] = "dispatch_pending"]
  /\ UNCHANGED offer

WriteSettlement(r) ==
  LET ended == {Target(r)} \cup For("issue_dispatch", Target(r)) IN
  /\ Op(r) = "settle_reservation"
  /\ status' = [x \in Requests |->
                  IF x = r THEN "settled"
                  ELSE IF x \in ended THEN "completed" ELSE status[x]]
  /\ UNCHANGED offer

\* Mutant: the record names the target, not the resource.
RecordOfTarget(r) ==
  [op |-> Op(r), key |-> Key(r), request_hash |-> request[r].command,
   resource |-> Target(r)]

\* The idempotency record of a command.
Record(r) ==
  [op |-> Op(r), key |-> Key(r), request_hash |-> request[r].command,
   resource |-> r]

\* Mutants: one of the two unique constraints is missing.
UniqueKeyOnly(r) == Found(r) = {}
UniqueTargetOnly(r) == For(Op(r), Target(r)) = {}

\* UNIQUE(operation, key), and UNIQUE(offer_id) of reservations,
\* UNIQUE(reservation_id) of dispatches and of settlements.
Unique(r) == Found(r) = {} /\ For(Op(r), Target(r)) = {}

\* The commit.  The answer may be lost on its way to the client.
Commit(r, arrives) ==
  /\ pc[r] = "commit"
  /\ IF Unique(r)
     THEN /\ WriteReservation(r) \/ WriteDispatch(r) \/ WriteSettlement(r)
          /\ records' = records \cup {Record(r)}
          /\ Reply(r, IF arrives THEN r ELSE "lost")
     ELSE Reply(r, "refused") /\ UNCHANGED tables
  /\ UNCHANGED <<request, retry>>

\* The process dies: its transaction is rolled back, the client hears nothing.
Die(r) ==
  /\ pc[r] \in {"check", "lock", "commit"}
  /\ Reply(r, "lost")
  /\ UNCHANGED <<request, retry, tables>>

\* The outcome of a delivery, and a re-drive (see DispatchDelivery).
Move(d, from, to, reservationTo) ==
  /\ d \in Created("issue_dispatch") /\ status[d] = from
  /\ ~Locked(Target(d))
  /\ status' = [status EXCEPT ![d] = to, ![Target(d)] = reservationTo]
  /\ UNCHANGED <<request, pc, answer, retry, offer, records>>

Publish(d) == Move(d, "queued", "issued", "dispatched")
Fail(d) == Move(d, "queued", "rejected", "cancelled")
Redrive(d) == Move(d, "rejected", "queued", "dispatch_pending")

Serve(r) ==
  \/ Check(r)
  \/ \E dataFits \in BOOLEAN : LockTarget(r, dataFits)
  \/ \E arrives \in BOOLEAN : Commit(r, arrives)

Next ==
  \/ \E r \in Requests, c \in Command, k \in Keys : Arrive(r, c, k)
  \/ \E r \in Requests : Serve(r) \/ Die(r)
  \/ \E d \in Requests : Publish(d) \/ Fail(d) \/ Redrive(d)

Spec == Init /\ [][Next]_vars

-----------------------------------------------------------------------------
\* The variables keep their types; records name requests, never offers.
TypeOK ==
  /\ request \in [Requests -> Request \cup {NoRequest}]
  /\ pc \in [Requests -> {"new", "check", "lock", "commit", "done"}]
  /\ answer \in [Requests -> Requests \cup Answers]
  /\ retry \subseteq Requests
  /\ offer \in [Offers -> {"open", "reserved"}]
  /\ status \in [Requests -> ResourceStatus \cup {"absent"}]
  /\ records \subseteq IdempotencyRecord

Answered(r) == answer[r] \in Requests

\* A key takes effect once per operation, and all who are answered under it sent
\* one command and are told of one resource, however their requests overlapped
\* and whichever answers were lost.
OneEffectPerKey ==
  \A p, q \in Requests :
    pc[p] # "new" /\ pc[q] # "new" /\ Op(p) = Op(q) /\ Key(p) = Key(q) =>
      /\ status[p] # "absent" /\ status[q] # "absent" => p = q
      /\ Answered(p) /\ Answered(q) =>
           answer[p] = answer[q] /\ request[p] = request[q]

\* An offer is reserved once, a reservation dispatched once and settled once,
\* under whatever keys and by whoever races for it, row locks or not.
NoDoubleUse ==
  \A op \in Operation, t \in Offers \cup Requests :
    Cardinality(For(op, t)) <= 1

\* Who settles neither reserved nor dispatched, whatever roles an actor_id gets
\* from one request to the next; and what is settled was delivered and is over.
SettledByAnother ==
  \A s \in Created("settle_reservation") :
    /\ status[Target(s)] = "completed" /\ Actor(s) # Actor(Target(s))
    /\ \E d \in For("issue_dispatch", Target(s)) :
         status[d] = "completed" /\ Actor(s) # Actor(d)

\* A retry sent after its command was recorded is not refused, even when the
\* target has moved on since (docs/API_WORKFLOW.md, command idempotency).
RetryIsAnswered ==
  \A r \in retry : answer[r] # "refused"

\* docs/API_WORKFLOW.md: "same key + same canonical request -> same resource":
\* no request is refused while the record of its own command is there.
ReplayNeverRefused ==
  [][\A r \in Requests :
       answer'[r] = "refused" /\ answer[r] = "none" =>
         \A x \in records :
           ~(x.key = Key(r) /\ x.request_hash = request[r].command)]_vars

\* However commands overlap, they look like commands that take effect one at a
\* time, each allowed by the state it finds, answered and recorded in that step.
Ledger ==
  INSTANCE CommandLedger WITH
    Commands <- Command, None <- NoRequest, asked <- request
ImplementsLedger == Ledger!Spec
=============================================================================
