----------------------------- MODULE LockOrder -----------------------------
(***************************************************************************)
(* The transactions of service.py, outbox.py and redrive.py on the rows of *)
(* one dispatch, lock by lock, on PostgreSQL.                              *)
(*                                                                         *)
(* Each transaction takes its row locks in the order of its statements and *)
(* keeps them until it ends.  Commands lock with SELECT ... FOR UPDATE and *)
(* then check what they locked.  A worker that finalises reads its rows    *)
(* without a lock and meets the locks when its UPDATEs are flushed.  Every *)
(* append to the audit trail locks the newest audit row; a single lock     *)
(* stands for it, which can only add waiting.  A row nobody else can see   *)
(* yet needs no lock.                                                      *)
(***************************************************************************)
EXTENDS Integers, Sequences

CONSTANTS
  Clients,    \* API and recovery sessions, one transaction at a time
  Workers,    \* outbox workers
  MaxClaims   \* bound on the number of claims

ASSUME LockOrderParameters ==
  /\ Clients \cap Workers = {}
  /\ "nobody" \notin Clients \cup Workers
  /\ MaxClaims \in Nat

VARIABLES
  rows,       \* committed status of reservation, dispatch and message
  claim,      \* [token, expired]: OutboxMessage.locked_by and its lease
  claims,     \* number of claims so far
  token,      \* the claim each worker works on, 0 if none
  tx,         \* the transaction of each process: [op, todo, done]
  owner,      \* who holds each lock
  overrun     \* has a lease run out on a worker that was still at work?

vars == <<rows, claim, claims, token, tx, owner, overrun>>

Processes == Clients \cup Workers
Locks == {"message", "dispatch", "reservation", "head"}
ClientOps == {"append", "issue", "settle", "redrive"}
WorkerOps == {"success", "dead", "retry"}

Idle == [op |-> "none", todo |-> <<>>, done |-> {}]

Init ==
  /\ rows = [reservation |-> "reserved", dispatch |-> "absent",
             message |-> "absent"]
  /\ claim = [token |-> 0, expired |-> FALSE]
  /\ claims = 0
  /\ token = [w \in Workers |-> 0]
  /\ tx = [p \in Processes |-> Idle]
  /\ owner = [l \in Locks |-> "nobody"]
  /\ overrun = FALSE

Free(l) == owner[l] = "nobody"
Held(p) == {l \in Locks : owner[l] = p}

\* The locks of a transaction, in the order it takes them.  settle_reservation
\* updates the dispatch when it commits, after its audit event.  The three
\* UPDATEs of _record_success are flushed together, in an order of SQLAlchemy's;
\* those of _record_failure one by one, each before the next row is read.  All
\* three rows change, as long as they agree; after an overrun a row may already
\* stand as the worker would write it, which spares an UPDATE and so a lock that
\* is taken here.
Plans(op) ==
  CASE op = "append"  -> {<<"head">>}
    [] op = "issue"   -> {<<"reservation", "head">>}
    [] op = "settle"  -> {<<"reservation", "head", "dispatch">>}
    [] op \in {"redrive", "dead"} ->
         {<<"message", "dispatch", "reservation", "head">>}
    [] op = "retry"   -> {<<"message">>}
    [] op = "success" ->
         {<<"message", "dispatch", "reservation", "head">>,
          <<"message", "reservation", "dispatch", "head">>,
          <<"dispatch", "message", "reservation", "head">>,
          <<"dispatch", "reservation", "message", "head">>,
          <<"reservation", "message", "dispatch", "head">>,
          <<"reservation", "dispatch", "message", "head">>}

\* Mutant: a re-drive checks everything once it has all its locks.
ChecksLate(op, l) ==
  /\ op = "issue" /\ l = "reservation" => rows.reservation = "reserved"
  /\ op = "settle" /\ l = "reservation" =>
       rows.reservation = "dispatched" /\ rows.dispatch = "issued"
  /\ op = "redrive" /\ l = "reservation" =>
       /\ rows.message = "dead"
       /\ rows.dispatch = "rejected" /\ rows.reservation = "cancelled"

\* What a command checks once it has locked row l.
Checks(op, l) ==
  /\ op = "issue" /\ l = "reservation" => rows.reservation = "reserved"
  /\ op = "settle" /\ l = "reservation" =>
       rows.reservation = "dispatched" /\ rows.dispatch = "issued"
  /\ op = "redrive" /\ l = "message" => rows.message = "dead"
  /\ op = "redrive" /\ l = "reservation" =>
       rows.dispatch = "rejected" /\ rows.reservation = "cancelled"

\* Mutant: a transaction that is rolled back keeps its locks.
EndKeepingLocks(p) ==
  /\ tx' = [tx EXCEPT ![p] = Idle]
  /\ UNCHANGED owner

\* Every lock of a transaction is released when it ends.
End(p) ==
  /\ tx' = [tx EXCEPT ![p] = Idle]
  /\ owner' = [l \in Locks |-> IF owner[l] = p THEN "nobody" ELSE owner[l]]

Start(p, op) ==
  /\ tx[p] = Idle
  /\ \E plan \in Plans(op) :
       tx' = [tx EXCEPT ![p] = [op |-> op, todo |-> plan, done |-> {}]]
  /\ UNCHANGED owner

\* A request or the recovery command starts its transaction.
Begin(c, op) ==
  /\ Start(c, op)
  /\ UNCHANGED <<rows, claim, claims, token, overrun>>

\* Mutant: commands select the reservation without FOR UPDATE.
AcquireUnlocked(p) ==
  LET l == Head(tx[p].todo) IN
  /\ tx[p].todo # <<>>
  /\ Free(l)
  /\ IF Checks(tx[p].op, l)
     THEN /\ owner' = IF p \in Clients /\ l = "reservation" THEN owner
                      ELSE [owner EXCEPT ![l] = p]
          /\ tx' = [tx EXCEPT ![p].todo = Tail(@), ![p].done = @ \cup {l}]
     ELSE End(p)
  /\ UNCHANGED <<rows, claim, claims, token, overrun>>

\* Mutant: the statements of a transaction run in any order.
AcquireAny(p) ==
  \E i \in DOMAIN tx[p].todo :
    LET l == tx[p].todo[i] IN
    /\ Free(l)
    /\ IF Checks(tx[p].op, l)
       THEN /\ owner' = [owner EXCEPT ![l] = p]
            /\ tx' = [tx EXCEPT ![p].todo = SelectSeq(@, LAMBDA m : m # l),
                               ![p].done = @ \cup {l}]
       ELSE End(p)
    /\ UNCHANGED <<rows, claim, claims, token, overrun>>

\* The next statement gets its lock, once that is free.  A command that locked
\* something it must not work on is refused and rolled back.
Acquire(p) ==
  LET l == Head(tx[p].todo) IN
  /\ tx[p].todo # <<>>
  /\ Free(l)
  /\ IF Checks(tx[p].op, l)
     THEN /\ owner' = [owner EXCEPT ![l] = p]
          /\ tx' = [tx EXCEPT ![p].todo = Tail(@), ![p].done = @ \cup {l}]
     ELSE End(p)
  /\ UNCHANGED <<rows, claim, claims, token, overrun>>

\* What a transaction writes; none of it is visible before the commit.
Written(op) ==
  CASE op = "append"  -> rows
    [] op = "issue"   -> [reservation |-> "dispatch_pending",
                          dispatch |-> "queued", message |-> "pending"]
    [] op = "settle"  -> [rows EXCEPT !.reservation = "completed",
                                      !.dispatch = "completed"]
    [] op = "redrive" -> [reservation |-> "dispatch_pending",
                          dispatch |-> "queued", message |-> "pending"]
    [] op = "success" -> [reservation |-> "dispatched",
                          dispatch |-> "issued", message |-> "published"]
    [] op = "dead"    -> [reservation |-> "cancelled",
                          dispatch |-> "rejected", message |-> "dead"]
    [] op = "retry"   -> [rows EXCEPT !.message = "pending"]

WritesMessage(op) == op \in {"redrive", "success", "dead", "retry"}

Commit(p) ==
  /\ tx[p].op # "none" /\ tx[p].todo = <<>>
  /\ rows' = Written(tx[p].op)
  /\ claim' = IF WritesMessage(tx[p].op)
              THEN [token |-> 0, expired |-> FALSE] ELSE claim
  /\ token' = [w \in Workers |-> IF w = p THEN 0 ELSE token[w]]
  /\ End(p)
  /\ UNCHANGED <<claims, overrun>>

\* Mutant: a claim is taken over before its lease has run out.
ClaimUnexpired(w) ==
  /\ tx[w] = Idle /\ token[w] = 0 /\ claims < MaxClaims
  /\ Free("message")
  /\ rows.message \in {"pending", "processing"}
  /\ rows' = [rows EXCEPT !.message = "processing"]
  /\ claims' = claims + 1
  /\ claim' = [token |-> claims + 1, expired |-> FALSE]
  /\ token' = [token EXCEPT ![w] = claims + 1]
  /\ UNCHANGED <<tx, owner, overrun>>

\* _claim_one skips a locked row, so it never waits, and commits at once.
Claim(w) ==
  /\ tx[w] = Idle /\ token[w] = 0 /\ claims < MaxClaims
  /\ Free("message")
  /\ rows.message = "pending" \/ (rows.message = "processing" /\ claim.expired)
  /\ rows' = [rows EXCEPT !.message = "processing"]
  /\ claims' = claims + 1
  /\ claim' = [token |-> claims + 1, expired |-> FALSE]
  /\ token' = [token EXCEPT ![w] = claims + 1]
  /\ UNCHANGED <<tx, owner, overrun>>

\* The publish has returned or raised: the worker reads the message, without a
\* lock, and goes on if its claim is still the one on the row.
Finalise(w, op) ==
  /\ token[w] # 0 /\ claim.token = token[w]
  /\ Start(w, op)
  /\ UNCHANGED <<rows, claim, claims, token, overrun>>

\* The claim on the row is another one, or none: the worker gives up.
GiveUp(w) ==
  /\ tx[w] = Idle /\ token[w] # 0 /\ claim.token # token[w]
  /\ token' = [token EXCEPT ![w] = 0]
  /\ UNCHANGED <<rows, claim, claims, tx, owner, overrun>>

\* The lease runs out, whatever its holder is doing.
Expire ==
  /\ rows.message = "processing" /\ ~claim.expired
  /\ claim' = [claim EXCEPT !.expired = TRUE]
  /\ overrun' = (overrun \/ \E w \in Workers : token[w] = claim.token)
  /\ UNCHANGED <<rows, claims, token, tx, owner>>

\* p waits for a lock that q holds.
Waits(p, q) == p # q /\ tx[p].todo # <<>> /\ owner[Head(tx[p].todo)] = q

Blocked == {p \in Processes : tx[p].todo # <<>> /\ ~Free(Head(tx[p].todo))}

\* Processes that wait for each other in a circle.
WaitCycle(S) ==
  S # {} /\ \A p \in S : \E q, r \in S : Waits(p, q) /\ Waits(r, p)

\* PostgreSQL finds the cycle and rolls one transaction back; its process gets
\* an error and gives its claim up.
Abort(p) ==
  /\ \E S \in SUBSET Blocked : p \in S /\ WaitCycle(S)
  /\ token' = [w \in Workers |-> IF w = p THEN 0 ELSE token[w]]
  /\ End(p)
  /\ UNCHANGED <<rows, claim, claims, overrun>>

\* A process dies or loses its connection.
Die(p) ==
  /\ tx[p] # Idle \/ (p \in Workers /\ token[p] # 0)
  /\ token' = [w \in Workers |-> IF w = p THEN 0 ELSE token[w]]
  /\ End(p)
  /\ UNCHANGED <<rows, claim, claims, overrun>>

Next ==
  \/ \E c \in Clients, op \in ClientOps : Begin(c, op)
  \/ \E w \in Workers : Claim(w) \/ GiveUp(w)
  \/ \E w \in Workers, op \in WorkerOps : Finalise(w, op)
  \/ \E p \in Processes : Acquire(p) \/ Commit(p) \/ Abort(p) \/ Die(p)
  \/ Expire

Spec == Init /\ [][Next]_vars

\* A transaction that has what it needs goes on, the lock queue of PostgreSQL is
\* first come first served, and its deadlock detector runs.  Nobody owes a
\* request, a claim or an outcome.
FairSpec ==
  /\ Spec
  /\ \A p \in Processes : SF_vars(Acquire(p)) /\ WF_vars(Commit(p))
  /\ WF_vars(\E p \in Processes : Abort(p))

-----------------------------------------------------------------------------
\* A transaction has taken its locks one after the other as its plan says, and
\* what it still has to take is the rest of that plan.
InOrder(t) ==
  IF t.op = "none" THEN t = Idle
  ELSE \E plan \in Plans(t.op) : \E k \in 0..Len(plan) :
         /\ t.done = {plan[i] : i \in 1..k}
         /\ t.todo = SubSeq(plan, k + 1, Len(plan))

\* The types; whatever ends or refuses it, a process holds exactly the locks that
\* its transaction has taken, in the order of its statements.
TypeOK ==
  /\ rows \in [reservation : {"reserved", "dispatch_pending", "dispatched",
                              "completed", "cancelled"},
               dispatch : {"absent", "queued", "issued", "rejected", "completed"},
               message : {"absent", "pending", "processing", "published", "dead"}]
  /\ claim \in [token : 0..MaxClaims, expired : BOOLEAN]
  /\ claims \in 0..MaxClaims
  /\ token \in [Workers -> 0..MaxClaims]
  /\ tx \in [Processes -> [op : ClientOps \cup WorkerOps \cup {"none"},
                           todo : Seq(Locks), done : SUBSET Locks]]
  /\ owner \in [Locks -> Processes \cup {"nobody"}]
  /\ \A p \in Processes : Held(p) = tx[p].done /\ InOrder(tx[p])
  /\ overrun \in BOOLEAN

\* Settlements, re-drives, deliveries and appends take their locks in different
\* orders and never wait for each other in a cycle, because what they check
\* keeps them apart, as long as no lease runs out on a worker still at work.
NoWaitCycle ==
  overrun \/ \A S \in SUBSET Blocked : ~WaitCycle(S)

\* What a command has checked stays true until it commits, although workers
\* read and write without a lock of their own: settle_reservation never locks
\* the dispatch it checks, and a late worker may finalise it meanwhile.
ChecksStayTrue ==
  \A c \in Clients : \A l \in tx[c].done : Checks(tx[c].op, l)

\* How the three rows may move: a reservation and its dispatch as
\* DispatchLifecycle and CommandLedger take them to move in one step, and the
\* message with them, or by itself when it is claimed and when it is put back.
Moves ==
  LET reserved == <<"reserved", "absent", "absent">>
      queued == <<"dispatch_pending", "queued", "pending">>
      claimed == <<"dispatch_pending", "queued", "processing">>
      rejected == <<"cancelled", "rejected", "dead">>
      issued == <<"dispatched", "issued", "published">>
      completed == <<"completed", "completed", "published">>
  IN  {<<reserved, queued>>, <<queued, claimed>>, <<claimed, queued>>,
       <<claimed, issued>>, <<claimed, rejected>>, <<rejected, queued>>,
       <<issued, completed>>}

Stand == <<rows.reservation, rows.dispatch, rows.message>>

\* A commit writes whole statuses whatever it finds.  It finds what they follow
\* on, and overwrites nothing that another transaction has written since, as long
\* as no lease runs out on a worker still at work.
NoLostUpdate ==
  [][overrun' \/ Stand' = Stand \/ <<Stand, Stand'>> \in Moves]_vars

\* Every transaction ends: it commits, is refused or is rolled back.
TransactionsEnd == \A p \in Processes : tx[p] # Idle ~> tx[p] = Idle
=============================================================================
