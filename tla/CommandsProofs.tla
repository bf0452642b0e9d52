--------------------------- MODULE CommandsProofs ---------------------------
(***************************************************************************)
(* Theorems about Commands, for any number of requests, offers, keys and   *)
(* actors, with row locks or without them: the unique constraints and the  *)
(* order of the checks are what keeps the commands single.                 *)
(***************************************************************************)
EXTENDS Commands, FiniteSetTheorems, TLAPS

\* What a request has done by the time it gets somewhere.
RequestInv ==
  \A r \in Requests :
    /\ pc[r] = "new" => r \notin retry
    /\ pc[r] # "done" => answer[r] = "none" /\ status[r] = "absent"
    /\ pc[r] # "new" =>
         /\ request[r] \in Request
         /\ Op(r) = "reserve_offer" => Target(r) \in Offers
         /\ Op(r) # "reserve_offer" => Target(r) \in Created("reserve_offer")

\* A resource and its idempotency record come together, one per key.
RecordInv ==
  /\ \A x \in records :
       x.resource \in Requests /\ status[x.resource] # "absent"
         /\ x = Record(x.resource)
  /\ \A r \in Requests : status[r] # "absent" => Record(r) \in records
  /\ \A x, y \in records : x.op = y.op /\ x.key = y.key => x = y

\* The record that makes a request a repetition.
Recorded(r, x) ==
  x \in records /\ x.key = Key(r) /\ x.request_hash = request[r].command

\* Whoever is answered is answered from a record; a retry never gets past one.
AnswerInv ==
  \A r \in Requests :
    /\ answer[r] \in Requests => \E x \in records :
         Recorded(r, x) /\ x.resource = answer[r]
    /\ r \in retry =>
         /\ \E x \in records : Recorded(r, x)
         /\ pc[r] \in {"check", "done"} /\ answer[r] # "refused"

\* One resource of a kind per target.
UseInv ==
  \A p, q \in Requests :
    status[p] # "absent" /\ status[q] # "absent"
      /\ Op(p) = Op(q) /\ Target(p) = Target(q) => p = q

\* A settlement that may be committed, or is, has other people behind it.
Separated(s, d) ==
  /\ Op(d) = "issue_dispatch" /\ Target(d) = Target(s)
  /\ Actor(s) \notin {Actor(d), Actor(Target(s))}

SettleInv ==
  \A s \in Requests :
    Op(s) = "settle_reservation" =>
      /\ pc[s] = "commit" =>
           \E d \in Requests :
             Separated(s, d) /\ status[d] \in {"issued", "completed"}
      /\ status[s] # "absent" =>
           /\ status[Target(s)] = "completed"
           /\ \E d \in Requests : Separated(s, d) /\ status[d] = "completed"

CommandInv ==
  TypeOK /\ RequestInv /\ RecordInv /\ AnswerInv /\ UseInv /\ SettleInv

-----------------------------------------------------------------------------
\* What a request asked for is as old as the request.
LEMMA RequestsStay ==
  ASSUME UNCHANGED request
  PROVE  \A s, d \in Requests :
           /\ Op(s)' = Op(s) /\ Target(s)' = Target(s)
           /\ Separated(s, d)' <=> Separated(s, d)
BY DEF Op, Target, Actor, Separated

\* Nothing has been asked or recorded.
LEMMA CommandInit == Init => CommandInv
<1> SUFFICES ASSUME Init PROVE CommandInv
  OBVIOUS
<1>1. TypeOK
  BY DEF Init, TypeOK, Answers
<1>2. RequestInv /\ RecordInv /\ UseInv /\ SettleInv
  BY DEF Init, RequestInv, RecordInv, UseInv, SettleInv
<1>3. AnswerInv
  BY NamesDiffer DEF Init, AnswerInv, Answers
<1> QED
  BY <1>1, <1>2, <1>3 DEF CommandInv

\* A record is what Record builds.
LEMMA RecordFields ==
  ASSUME NEW r \in Requests
  PROVE  /\ Record(r).op = Op(r) /\ Record(r).key = Key(r)
         /\ Record(r).request_hash = request[r].command
         /\ Record(r).resource = r
BY DEF Record

\* A client sends a request.
LEMMA ArriveKeeps ==
  ASSUME CommandInv, NEW r \in Requests, NEW c \in Command, NEW k \in Keys,
         Arrive(r, c, k)
  PROVE  CommandInv'
<1> DEFINE asked == [command |-> c, key |-> k]
<1>1. /\ pc[r] = "new" /\ status[r] = "absent" /\ answer[r] = "none" /\ r \notin retry
      /\ request' = [request EXCEPT ![r] = asked]
      /\ pc' = [pc EXCEPT ![r] = "check"]
      /\ UNCHANGED <<answer, offer, status, records>>
      /\ c.target \in Targets(c.op)
  BY DEF Arrive, CommandInv, RequestInv, tables
<1>2. asked \in Request /\ asked.command = c /\ asked.key = k
  BY DEF Request
<1>3. c.op \in Operation
  BY DEF Command
<1>4. \/ retry' = retry
      \/ /\ retry' = retry \cup {r}
         /\ \E x \in records : x.request_hash = c /\ x.key = k
  BY DEF Arrive
<1> HIDE DEF asked
<1>5. /\ request \in [Requests -> Request \cup {NoRequest}]
      /\ pc \in [Requests -> {"new", "check", "lock", "commit", "done"}]
  BY DEF CommandInv, TypeOK
<1>6. /\ Op(r)' = c.op /\ Target(r)' = c.target /\ Key(r)' = k
      /\ request'[r].command = c
      /\ \A q \in Requests \ {r} : request'[q] = request[q] /\ pc'[q] = pc[q]
      /\ pc'[r] = "check"
  BY <1>1, <1>2, <1>5 DEF Op, Target, Key
<1>7. \A q \in Requests \ {r} :
        /\ Op(q)' = Op(q) /\ Target(q)' = Target(q) /\ Key(q)' = Key(q)
        /\ Actor(q)' = Actor(q)
        /\ Record(q)' = Record(q)
  BY <1>6 DEF Op, Target, Key, Actor, Record
<1>8. TypeOK'
  BY <1>1, <1>2, <1>4, <1>5 DEF CommandInv, TypeOK
<1>9. \A op : Created(op)' = Created(op)
  BY <1>1, <1>7 DEF Created
<1>10. RequestInv'
  BY <1>1, <1>2, <1>3, <1>4, <1>5, <1>6, <1>7, <1>9
  DEF CommandInv, RequestInv, Targets
<1>11. RecordInv' /\ UseInv'
  BY <1>1, <1>7 DEF CommandInv, RecordInv, UseInv
<1>12. AnswerInv'
  BY <1>1, <1>4, <1>6, <1>7, NamesDiffer DEF CommandInv, AnswerInv, Recorded, Answers
<1>13. SettleInv'
  BY <1>1, <1>6, <1>7 DEF CommandInv, SettleInv, Separated, RequestInv, Created
<1> QED
  BY <1>8, <1>10, <1>11, <1>12, <1>13 DEF CommandInv

\* A request is answered and nothing else happens: from a record of its own, or
\* otherwise, and then it is no retry that is refused.
LEMMA ReplyKeeps ==
  ASSUME CommandInv, NEW r \in Requests, NEW a \in Requests \cup Answers,
         pc[r] \notin {"new", "done"}, Reply(r, a),
         UNCHANGED <<request, retry, tables>>,
         a \in Requests => \E x \in records : Recorded(r, x) /\ x.resource = a,
         r \in retry => a # "refused"
  PROVE  CommandInv'
<1>1. /\ pc' = [pc EXCEPT ![r] = "done"] /\ answer' = [answer EXCEPT ![r] = a]
      /\ UNCHANGED <<request, retry, offer, status, records>>
  BY DEF Reply, tables
<1>2. /\ pc \in [Requests -> {"new", "check", "lock", "commit", "done"}]
      /\ answer \in [Requests -> Requests \cup Answers]
  BY DEF CommandInv, TypeOK
<1>3. /\ pc'[r] = "done" /\ answer'[r] = a
      /\ \A q \in Requests \ {r} : pc'[q] = pc[q] /\ answer'[q] = answer[q]
  BY <1>1, <1>2
<1>4. TypeOK'
  BY <1>1, <1>2 DEF CommandInv, TypeOK
<1>5. RequestInv'
  BY <1>1, <1>3 DEF CommandInv, RequestInv, Op, Target, Created
<1>6. RecordInv' /\ UseInv'
  BY <1>1 DEF CommandInv, RecordInv, UseInv, Record, Op, Target, Key
<1>7. AnswerInv'
  <2> SUFFICES ASSUME NEW q \in Requests
               PROVE  /\ answer'[q] \in Requests => \E x \in records :
                           Recorded(q, x) /\ x.resource = answer'[q]
                      /\ q \in retry =>
                           /\ \E x \in records : Recorded(q, x)
                           /\ pc'[q] \in {"check", "done"} /\ answer'[q] # "refused"
    BY <1>1 DEF AnswerInv, Recorded, Key
  <2>1. CASE q = r
    BY <1>3, <2>1 DEF CommandInv, AnswerInv
  <2>2. CASE q # r
    BY <1>3, <2>2 DEF CommandInv, AnswerInv
  <2> QED
    BY <2>1, <2>2
<1>8. SettleInv'
  BY <1>1, <1>3, RequestsStay DEF CommandInv, SettleInv
<1> QED
  BY <1>4, <1>5, <1>6, <1>7, <1>8 DEF CommandInv

\* A request that repeats nothing goes on to the next step.
LEMMA GoOnKeeps ==
  ASSUME CommandInv, NEW r \in Requests, NEW s \in {"lock", "commit"},
         pc[r] \notin {"new", "done"}, pc' = [pc EXCEPT ![r] = s],
         UNCHANGED <<request, answer, retry, tables>>,
         r \notin retry,
         Op(r) = "settle_reservation" /\ s = "commit" =>
           \E d \in Requests :
             Separated(r, d) /\ status[d] \in {"issued", "completed"}
  PROVE  CommandInv'
<1>1. UNCHANGED <<request, answer, retry, offer, status, records>>
  BY DEF tables
<1>2. pc \in [Requests -> {"new", "check", "lock", "commit", "done"}]
  BY DEF CommandInv, TypeOK
<1>3. pc'[r] = s /\ \A q \in Requests \ {r} : pc'[q] = pc[q]
  BY <1>2
<1>4. TypeOK'
  BY <1>1, <1>2 DEF CommandInv, TypeOK
<1>5. RequestInv'
  BY <1>1, <1>3 DEF CommandInv, RequestInv, Op, Target, Created
<1>6. RecordInv' /\ UseInv'
  BY <1>1 DEF CommandInv, RecordInv, UseInv, Record, Op, Target, Key
<1>7. AnswerInv'
  BY <1>1, <1>3 DEF CommandInv, AnswerInv, Recorded, Key
<1>8. SettleInv'
  <2> SUFFICES ASSUME NEW q \in Requests, Op(q) = "settle_reservation"
               PROVE  /\ pc'[q] = "commit" => \E d \in Requests :
                           Separated(q, d) /\ status[d] \in {"issued", "completed"}
                      /\ status[q] # "absent" =>
                           /\ status[Target(q)] = "completed"
                           /\ \E d \in Requests :
                                Separated(q, d) /\ status[d] = "completed"
    BY <1>1, RequestsStay DEF SettleInv
  <2>1. CASE q = r
    BY <1>3, <2>1 DEF CommandInv, SettleInv
  <2>2. CASE q # r
    BY <1>3, <2>2 DEF CommandInv, SettleInv
  <2> QED
    BY <2>1, <2>2
<1> QED
  BY <1>4, <1>5, <1>6, <1>7, <1>8 DEF CommandInv

\* A command that finds no record of its key is no retry.
LEMMA RetryIsFound ==
  ASSUME CommandInv, NEW r \in Requests, pc[r] # "new"
  PROVE  /\ r \in retry => \E x \in Found(r) : x.request_hash = request[r].command
         /\ \A x \in Found(r) : x \in records /\ x.resource \in Requests
                                  /\ x.key = Key(r) /\ x.op = Op(r)
         /\ \A x, y \in Found(r) : x = y
<1>1. \A x \in records : x.op = x.request_hash.op
  BY RecordFields DEF CommandInv, RecordInv, Op
<1>2. r \in retry => \E x \in records : Recorded(r, x)
  BY DEF CommandInv, AnswerInv
<1> QED
  BY <1>1, <1>2 DEF Found, Recorded, CommandInv, RecordInv, Op

\* The look-up of the key, without a lock.
LEMMA CheckKeeps ==
  ASSUME CommandInv, NEW r \in Requests, Check(r)
  PROVE  CommandInv'
<1>1. pc[r] = "check" /\ UNCHANGED <<request, retry, tables>>
  BY DEF Check
<1>2. CASE /\ Found(r) = {} /\ pc' = [pc EXCEPT ![r] = "lock"] /\ UNCHANGED answer
  <2>1. r \notin retry
    BY <1>1, <1>2, RetryIsFound
  <2> QED
    BY <1>1, <1>2, <2>1, GoOnKeeps
<1>3. ASSUME NEW x \in Found(r),
             Reply(r, IF x.request_hash = request[r].command THEN x.resource
                      ELSE "refused")
      PROVE  CommandInv'
  <2>1. /\ x \in records /\ x.resource \in Requests /\ x.key = Key(r)
        /\ r \in retry => x.request_hash = request[r].command
    BY <1>1, RetryIsFound
  <2>2. CASE x.request_hash = request[r].command
    <3>1. Reply(r, x.resource) /\ Recorded(r, x)
      BY <1>3, <2>1, <2>2 DEF Recorded
    <3>2. x.resource # "refused"
      BY <2>1, NamesDiffer DEF Answers
    <3> QED
      BY <1>1, <2>1, <3>1, <3>2, ReplyKeeps
  <2>3. CASE x.request_hash # request[r].command
    <3>1. Reply(r, "refused") /\ r \notin retry
      BY <1>3, <2>1, <2>3
    <3>2. "refused" \in Answers /\ "refused" \notin Requests
      BY NamesDiffer DEF Answers
    <3> QED
      BY <1>1, <3>1, <3>2, ReplyKeeps
  <2> QED
    BY <2>2, <2>3
<1> QED
  BY <1>2, <1>3 DEF Check

\* A request that got past the look-up is no retry.
LEMMA PastCheck ==
  ASSUME CommandInv, NEW r \in Requests, pc[r] \in {"lock", "commit"}
  PROVE  r \notin retry
BY DEF CommandInv, AnswerInv

\* The lock and the checks behind it.
LEMMA LockKeeps ==
  ASSUME CommandInv, NEW r \in Requests, NEW dataFits, LockTarget(r, dataFits)
  PROVE  CommandInv'
<1>1. pc[r] = "lock" /\ UNCHANGED <<request, retry, tables>> /\ r \notin retry
  BY PastCheck DEF LockTarget
<1>2. CASE Permitted(r) /\ dataFits
  <2>1. pc' = [pc EXCEPT ![r] = "commit"] /\ UNCHANGED answer
    BY <1>2 DEF LockTarget
  <2>2. Op(r) = "settle_reservation" =>
          \E d \in Requests : Separated(r, d) /\ status[d] = "issued"
    BY <1>2 DEF Permitted, MaySettle, For, Created, Separated
  <2> QED
    BY <1>1, <2>1, <2>2, GoOnKeeps
<1>3. CASE ~(Permitted(r) /\ dataFits)
  <2>1. Reply(r, "refused")
    BY <1>3 DEF LockTarget
  <2>2. "refused" \in Answers /\ "refused" \notin Requests
    BY NamesDiffer DEF Answers
  <2> QED
    BY <1>1, <2>1, <2>2, ReplyKeeps
<1> QED
  BY <1>2, <1>3

\* The process of a request dies.
LEMMA DieKeeps ==
  ASSUME CommandInv, NEW r \in Requests, Die(r)
  PROVE  CommandInv'
<1>1. /\ pc[r] \notin {"new", "done"} /\ Reply(r, "lost")
      /\ UNCHANGED <<request, retry, tables>>
  BY DEF Die
<1>2. "lost" \in Answers /\ "lost" \notin Requests
  BY NamesDiffer DEF Answers
<1> QED
  BY <1>1, <1>2, ReplyKeeps

\* The request that commits writes its own row, and touches no row that is not
\* there.
LEMMA RowsOfCommit ==
  ASSUME CommandInv, NEW r \in Requests, pc[r] = "commit",
         WriteReservation(r) \/ WriteDispatch(r) \/ WriteSettlement(r)
  PROVE  /\ \A q \in Requests :
              status'[q] # "absent" <=> status[q] # "absent" \/ q = r
         /\ status' \in [Requests -> ResourceStatus \cup {"absent"}]
         /\ offer' \in [Offers -> {"open", "reserved"}]
<1>1. /\ status \in [Requests -> ResourceStatus \cup {"absent"}]
      /\ offer \in [Offers -> {"open", "reserved"}]
      /\ request[r] \in Request
      /\ Op(r) = "reserve_offer" => Target(r) \in Offers
      /\ Op(r) # "reserve_offer" =>
           Target(r) \in Requests /\ status[Target(r)] # "absent"
  BY DEF CommandInv, TypeOK, RequestInv, Created
<1>2. CASE WriteReservation(r)
  BY <1>1, <1>2 DEF WriteReservation, ResourceStatus
<1>3. CASE WriteDispatch(r)
  BY <1>1, <1>3 DEF WriteDispatch, ResourceStatus
<1>4. CASE WriteSettlement(r)
  <2> DEFINE ended == {Target(r)} \cup For("issue_dispatch", Target(r))
  <2>1. \A x \in ended : x \in Requests /\ status[x] # "absent"
    BY <1>1, <1>4 DEF WriteSettlement, For, Created
  <2>2. status' = [x \in Requests |->
                     IF x = r THEN "settled"
                     ELSE IF x \in ended THEN "completed" ELSE status[x]]
    BY <1>4 DEF WriteSettlement
  <2> HIDE DEF ended
  <2> QED
    BY <1>1, <1>4, <2>1, <2>2 DEF WriteSettlement, ResourceStatus
<1> QED
  BY <1>2, <1>3, <1>4

\* A commit that the unique constraints let through, settlements apart.
LEMMA CommitKeepsRecords ==
  ASSUME CommandInv, NEW r \in Requests, NEW a \in {r, "lost"}, pc[r] = "commit",
         Unique(r), WriteReservation(r) \/ WriteDispatch(r) \/ WriteSettlement(r),
         records' = records \cup {Record(r)}, Reply(r, a),
         UNCHANGED <<request, retry>>
  PROVE  TypeOK' /\ RequestInv' /\ RecordInv' /\ AnswerInv' /\ UseInv'
<1>1. /\ \A q \in Requests :
           status'[q] # "absent" <=> status[q] # "absent" \/ q = r
      /\ status' \in [Requests -> ResourceStatus \cup {"absent"}]
      /\ offer' \in [Offers -> {"open", "reserved"}]
  BY RowsOfCommit
<1>2. /\ pc \in [Requests -> {"new", "check", "lock", "commit", "done"}]
      /\ answer \in [Requests -> Requests \cup Answers]
      /\ request \in [Requests -> Request \cup {NoRequest}]
      /\ records \subseteq IdempotencyRecord /\ retry \subseteq Requests
      /\ request[r] \in Request /\ r \notin retry
  BY PastCheck DEF CommandInv, TypeOK, RequestInv
<1>3. a \in Requests \cup Answers /\ a # "refused"
  BY NamesDiffer DEF Answers
<1>4. /\ pc' = [pc EXCEPT ![r] = "done"] /\ answer' = [answer EXCEPT ![r] = a]
  BY DEF Reply
<1>5. /\ pc'[r] = "done" /\ answer'[r] = a
      /\ \A q \in Requests \ {r} : pc'[q] = pc[q] /\ answer'[q] = answer[q]
  BY <1>2, <1>4
<1>6. \A q \in Requests : /\ Op(q)' = Op(q) /\ Target(q)' = Target(q)
                          /\ Key(q)' = Key(q) /\ Record(q)' = Record(q)
  BY DEF Op, Target, Key, Record
<1>7. TypeOK'
  <2>1. Record(r) \in IdempotencyRecord
    BY <1>2 DEF Record, IdempotencyRecord, Op, Key, Request, Command
  <2> QED
    BY <1>1, <1>2, <1>3, <1>4, <2>1 DEF TypeOK
<1>8. RequestInv'
  <2>1. \A q \in Created("reserve_offer") : q \in Created("reserve_offer")'
    BY <1>1, <1>6 DEF Created
  <2> QED
    BY <1>1, <1>2, <1>5, <1>6, <2>1 DEF CommandInv, RequestInv
<1>9. RecordInv'
  <2>1. \A x \in records' :
          x.resource \in Requests /\ status'[x.resource] # "absent"
            /\ x = Record(x.resource)'
    BY <1>1, <1>6, RecordFields DEF CommandInv, RecordInv
  <2>2. \A q \in Requests : status'[q] # "absent" => Record(q)' \in records'
    BY <1>1, <1>6 DEF CommandInv, RecordInv
  <2>3. \A x \in records : ~(x.op = Record(r).op /\ x.key = Record(r).key)
    BY RecordFields DEF Unique, Found
  <2>4. \A x, y \in records' : x.op = y.op /\ x.key = y.key => x = y
    BY <2>3 DEF CommandInv, RecordInv
  <2> QED
    BY <2>1, <2>2, <2>4 DEF RecordInv
<1>10. AnswerInv'
  <2> SUFFICES ASSUME NEW q \in Requests
               PROVE  /\ answer'[q] \in Requests => \E x \in records' :
                           Recorded(q, x)' /\ x.resource = answer'[q]
                      /\ q \in retry =>
                           /\ \E x \in records' : Recorded(q, x)'
                           /\ pc'[q] \in {"check", "done"} /\ answer'[q] # "refused"
    BY DEF AnswerInv
  <2>1. \A x \in records : Recorded(q, x) => Recorded(q, x)'
    BY DEF Recorded, Key
  <2>2. CASE q = r
    <3>1. \E x \in records' : Recorded(r, x)' /\ x.resource = r
      BY RecordFields DEF Recorded, Key
    <3> QED
      BY <1>2, <1>5, <2>2, <3>1, NamesDiffer DEF Answers
  <2>3. CASE q # r
    <3>1. /\ answer'[q] \in Requests => \E x \in records :
               Recorded(q, x) /\ x.resource = answer'[q]
          /\ q \in retry =>
               /\ \E x \in records : Recorded(q, x)
               /\ pc'[q] \in {"check", "done"} /\ answer'[q] # "refused"
      BY <1>5, <2>3 DEF CommandInv, AnswerInv
    <3> QED
      BY <2>1, <3>1
  <2> QED
    BY <2>2, <2>3
<1>11. UseInv'
  <2>1. \A q \in Requests :
          status[q] # "absent" => ~(Op(q) = Op(r) /\ Target(q) = Target(r))
    BY DEF Unique, For, Created
  <2> QED
    BY <1>1, <1>6, <2>1 DEF CommandInv, UseInv
<1> QED
  BY <1>7, <1>8, <1>9, <1>10, <1>11

\* A reservation that is settled, and its dispatch, stay completed, and what may
\* be settled stays so, under every change that leaves these rows alone.
LEMMA SettledStays ==
  ASSUME CommandInv, UNCHANGED request,
         \A q \in Requests : pc'[q] = "commit" => pc[q] = "commit",
         \A q \in Requests : Op(q) = "settle_reservation" =>
           (status'[q] = "absent" <=> status[q] = "absent"),
         \A q \in Requests :
           status[q] \in {"issued", "completed"} /\ Op(q) = "issue_dispatch" =>
             status'[q] = status[q],
         \A s \in Requests :
           Op(s) = "settle_reservation" /\ status[s] # "absent" =>
             status'[Target(s)] = status[Target(s)]
  PROVE  SettleInv'
<1> SUFFICES ASSUME NEW s \in Requests, Op(s) = "settle_reservation"
             PROVE  /\ pc'[s] = "commit" => \E d \in Requests :
                         Separated(s, d) /\ status'[d] \in {"issued", "completed"}
                    /\ status'[s] # "absent" =>
                         /\ status'[Target(s)] = "completed"
                         /\ \E d \in Requests :
                              Separated(s, d) /\ status'[d] = "completed"
  BY RequestsStay DEF SettleInv
<1>1. \A d \in Requests : Separated(s, d) => Op(d) = "issue_dispatch"
  BY DEF Separated
<1>2. pc[s] = "commit" => \E d \in Requests :
        Separated(s, d) /\ status[d] \in {"issued", "completed"}
  BY DEF CommandInv, SettleInv
<1>3. status[s] # "absent" =>
        /\ status[Target(s)] = "completed"
        /\ \E d \in Requests : Separated(s, d) /\ status[d] = "completed"
  BY DEF CommandInv, SettleInv
<1> QED
  BY <1>1, <1>2, <1>3

\* A settlement completes its reservation and the dispatch behind it, and leaves
\* the others as they are.
LEMMA SettlementSettles ==
  ASSUME CommandInv, NEW r \in Requests, pc[r] = "commit", WriteSettlement(r),
         UNCHANGED request,
         \A q \in Requests : pc'[q] = "commit" => pc[q] = "commit" /\ q # r
  PROVE  SettleInv'
<1> DEFINE ended == {Target(r)} \cup For("issue_dispatch", Target(r))
<1>1. /\ Op(r) = "settle_reservation"
      /\ status' = [x \in Requests |->
                      IF x = r THEN "settled"
                      ELSE IF x \in ended THEN "completed" ELSE status[x]]
  BY DEF WriteSettlement
<1>2. /\ Target(r) \in Requests /\ Op(Target(r)) = "reserve_offer"
      /\ status[Target(r)] # "absent" /\ status[r] = "absent"
  BY <1>1 DEF CommandInv, RequestInv, Created
<1>3. \A d \in Requests :
        Op(d) = "issue_dispatch" /\ Target(d) = Target(r)
          /\ status[d] # "absent" => d \in ended
  BY DEF For, Created
<1>4. \A x \in ended : x \in Requests /\ x # r /\ status[x] # "absent"
                         /\ Op(x) # "settle_reservation"
  BY <1>1, <1>2 DEF For, Created
<1> HIDE DEF ended
<1> SUFFICES ASSUME NEW s \in Requests, Op(s) = "settle_reservation"
             PROVE  /\ pc'[s] = "commit" => \E d \in Requests :
                         Separated(s, d) /\ status'[d] \in {"issued", "completed"}
                    /\ status'[s] # "absent" =>
                         /\ status'[Target(s)] = "completed"
                         /\ \E d \in Requests :
                              Separated(s, d) /\ status'[d] = "completed"
  BY RequestsStay DEF SettleInv
<1>5. \A d \in Requests : Separated(s, d) =>
        Op(d) = "issue_dispatch" /\ Target(d) = Target(s)
  BY DEF Separated
<1>6. \A d \in Requests : Separated(s, d) /\ status[d] \in {"issued", "completed"} =>
        status'[d] \in {status[d], "completed"}
  BY <1>1, <1>5
<1>7. pc[s] = "commit" => \E d \in Requests :
        Separated(s, d) /\ status[d] \in {"issued", "completed"}
  BY DEF CommandInv, SettleInv
<1>8. status[s] # "absent" =>
        /\ status[Target(s)] = "completed"
        /\ \E d \in Requests : Separated(s, d) /\ status[d] = "completed"
  BY DEF CommandInv, SettleInv
<1>9. CASE s = r
  <2>1. PICK d \in Requests :
          Separated(r, d) /\ status[d] \in {"issued", "completed"}
    BY <1>7, <1>9
  <2>2. d \in ended
    BY <1>3, <1>5, <1>9, <2>1
  <2>3. Target(r) \in ended
    BY DEF ended
  <2>4. status'[d] = "completed" /\ status'[Target(r)] = "completed"
    BY <1>1, <1>2, <1>4, <2>2, <2>3
  <2> QED
    BY <1>9, <2>1, <2>4
<1>10. CASE s # r
  <2>1. status'[s] = status[s]
    BY <1>1, <1>4, <1>10
  <2>2. status[s] # "absent" =>
          Target(s) \in Requests /\ Target(s) # r
    BY <1>2, <1>10 DEF CommandInv, RequestInv, Created
  <2>3. status[s] # "absent" => status'[Target(s)] = "completed"
    BY <1>1, <1>8, <2>2
  <2> QED
    BY <1>6, <1>7, <1>8, <1>10, <2>1, <2>3
<1> QED
  BY <1>9, <1>10

\* A command is committed.
LEMMA CommitKeeps ==
  ASSUME CommandInv, NEW r \in Requests, NEW arrives \in BOOLEAN,
         Commit(r, arrives)
  PROVE  CommandInv'
<1> DEFINE a == IF arrives THEN r ELSE "lost"
<1>1. /\ pc[r] = "commit" /\ UNCHANGED <<request, retry>> /\ r \notin retry
      /\ UNCHANGED request
  BY PastCheck DEF Commit
<1>2. CASE ~Unique(r)
  <2>1. Reply(r, "refused") /\ UNCHANGED tables
    BY <1>2 DEF Commit
  <2>2. "refused" \in Answers /\ "refused" \notin Requests
    BY NamesDiffer DEF Answers
  <2> QED
    BY <1>1, <2>1, <2>2, ReplyKeeps
<1>3. CASE Unique(r)
  <2>1. /\ WriteReservation(r) \/ WriteDispatch(r) \/ WriteSettlement(r)
        /\ records' = records \cup {Record(r)} /\ Reply(r, a)
    BY <1>3 DEF Commit
  <2>2. a \in {r, "lost"}
    OBVIOUS
  <2> HIDE DEF a
  <2>3. TypeOK' /\ RequestInv' /\ RecordInv' /\ AnswerInv' /\ UseInv'
    BY <1>1, <1>3, <2>1, <2>2, CommitKeepsRecords
  <2> SUFFICES SettleInv'
    BY <2>3 DEF CommandInv
  <2>4. \A q \in Requests : pc'[q] = "commit" => pc[q] = "commit" /\ q # r
    BY <2>1 DEF Reply, CommandInv, TypeOK
  <2>5. /\ status \in [Requests -> ResourceStatus \cup {"absent"}]
        /\ status[r] = "absent"
        /\ \A q \in Requests : Op(q) # "reserve_offer" /\ pc[q] # "new" =>
             Target(q) \in Requests /\ status[Target(q)] # "absent"
               /\ Op(Target(q)) = "reserve_offer"
        /\ \A q \in Requests : pc[q] = "new" => status[q] = "absent"
    BY <1>1 DEF CommandInv, RequestInv, TypeOK, Created
  <2>6. \A s \in Requests :
          Op(s) = "settle_reservation" /\ status[s] # "absent" =>
            /\ status[Target(s)] = "completed"
            /\ \E d \in Requests :
                 /\ Op(d) = "issue_dispatch" /\ Target(d) = Target(s)
                 /\ status[d] = "completed"
    BY DEF CommandInv, SettleInv, Separated
  <2>7. \A q \in Requests : status[q] # "absent" =>
          ~(Op(q) = Op(r) /\ Target(q) = Target(r))
    BY <1>3 DEF Unique, For, Created
  <2>8. CASE WriteReservation(r)
    <3>1. status' = [status EXCEPT ![r] = "reserved"] /\ Op(r) = "reserve_offer"
      BY <2>8 DEF WriteReservation
    <3>2. \A q \in Requests : q # r => status'[q] = status[q]
      BY <2>5, <3>1
    <3>3. \A s \in Requests :
            Op(s) = "settle_reservation" /\ status[s] # "absent" =>
              status'[Target(s)] = status[Target(s)]
      BY <2>5, <2>6, <3>2
    <3>4. \A s \in Requests : Op(s) # "reserve_offer" => status'[s] = status[s]
      BY <3>1, <3>2
    <3> QED
      BY <1>1, <2>4, <3>3, <3>4, SettledStays
  <2>9. CASE WriteDispatch(r)
    <3>1. /\ status' = [status EXCEPT ![r] = "queued",
                                      ![Target(r)] = "dispatch_pending"]
          /\ Op(r) = "issue_dispatch"
      BY <2>9 DEF WriteDispatch
    <3>2. \A q \in Requests : q \notin {r, Target(r)} => status'[q] = status[q]
      BY <2>5, <3>1
    <3>3. Op(Target(r)) = "reserve_offer" /\ status[Target(r)] # "absent"
      BY <1>1, <2>5, <3>1
    <3>4. \A q \in Requests : Op(q) # "reserve_offer" /\ status[q] # "absent" =>
            status'[q] = status[q]
      BY <2>5, <3>2, <3>3
    <3>5. \A s \in Requests :
            Op(s) = "settle_reservation" /\ status[s] # "absent" =>
              Target(s) \notin {r, Target(r)}
      BY <2>5, <2>6, <2>7, <3>1
    <3>6. \A s \in Requests :
            Op(s) = "settle_reservation" /\ status[s] # "absent" =>
              status'[Target(s)] = status[Target(s)]
      BY <2>5, <3>2, <3>5
    <3>7. \A s \in Requests : Op(s) = "settle_reservation" =>
            (status'[s] = "absent" <=> status[s] = "absent")
      BY <2>5, <3>1, <3>2, <3>3
    <3>8. \A q \in Requests :
            status[q] \in {"issued", "completed"} /\ Op(q) = "issue_dispatch" =>
              status'[q] = status[q]
      BY <3>4
    <3> QED
      BY <1>1, <2>4, <3>6, <3>7, <3>8, SettledStays
  <2>10. CASE WriteSettlement(r)
    BY <1>1, <2>4, <2>10, SettlementSettles
  <2> QED
    BY <2>1, <2>8, <2>9, <2>10
<1> QED
  BY <1>2, <1>3

\* A delivery ends, or is taken up again: the dispatch of no settled
\* reservation, for it is the only one of its reservation, and completed.
LEMMA MoveKeeps ==
  ASSUME CommandInv, NEW d \in Requests,
         NEW from \in {"queued", "rejected"},
         NEW to \in {"queued", "issued", "rejected"},
         NEW reservationTo \in {"dispatched", "cancelled", "dispatch_pending"},
         Move(d, from, to, reservationTo)
  PROVE  CommandInv'
<1>1. /\ status[d] = from /\ Op(d) = "issue_dispatch"
      /\ status' = [status EXCEPT ![d] = to, ![Target(d)] = reservationTo]
      /\ UNCHANGED <<request, pc, answer, retry, offer, records>>
  BY DEF Move, Created
<1>2. /\ status \in [Requests -> ResourceStatus \cup {"absent"}]
      /\ Target(d) \in Requests /\ status[Target(d)] # "absent"
      /\ Op(Target(d)) = "reserve_offer"
  BY <1>1 DEF CommandInv, TypeOK, RequestInv, Created
<1>3. /\ status' \in [Requests -> ResourceStatus \cup {"absent"}]
      /\ \A q \in Requests : status'[q] = "absent" <=> status[q] = "absent"
      /\ \A q \in Requests : q \notin {d, Target(d)} => status'[q] = status[q]
  BY <1>1, <1>2 DEF ResourceStatus
<1>4. \A q \in Requests : /\ Op(q)' = Op(q) /\ Target(q)' = Target(q)
                          /\ Key(q)' = Key(q) /\ Record(q)' = Record(q)
  BY <1>1 DEF Op, Target, Key, Record
<1>5. TypeOK'
  BY <1>1, <1>3 DEF CommandInv, TypeOK
<1>6. RequestInv'
  <2>1. Created("reserve_offer")' = Created("reserve_offer")
    BY <1>3, <1>4 DEF Created
  <2> QED
    BY <1>1, <1>3, <1>4, <2>1 DEF CommandInv, RequestInv
<1>7. RecordInv' /\ UseInv'
  BY <1>1, <1>3, <1>4 DEF CommandInv, RecordInv, UseInv
<1>8. AnswerInv'
  BY <1>1 DEF CommandInv, AnswerInv, Recorded, Key
<1>9. SettleInv'
  <2>1. \A s \in Requests :
          Op(s) = "settle_reservation" /\ status[s] # "absent" =>
            Target(s) \notin {d, Target(d)}
    <3> SUFFICES ASSUME NEW s \in Requests, Op(s) = "settle_reservation",
                        status[s] # "absent", Target(s) \in {d, Target(d)}
                 PROVE  FALSE
      OBVIOUS
    <3>1. /\ status[Target(s)] = "completed"
          /\ \E e \in Requests : /\ Op(e) = "issue_dispatch" /\ Target(e) = Target(s)
                                 /\ status[e] = "completed"
      BY DEF CommandInv, SettleInv, Separated
    <3>2. \A e \in Requests : Op(e) = "issue_dispatch" /\ Target(e) = Target(d)
            /\ status[e] # "absent" => e = d
      BY <1>1 DEF CommandInv, UseInv
    <3> QED
      BY <1>1, <3>1, <3>2
  <2>2. \A s \in Requests :
          Op(s) = "settle_reservation" /\ status[s] # "absent" =>
            Target(s) \in Requests /\ status'[Target(s)] = status[Target(s)]
    BY <1>3, <2>1 DEF CommandInv, RequestInv, Created
  <2>3. \A q \in Requests :
          status[q] \in {"issued", "completed"} /\ Op(q) = "issue_dispatch" =>
            status'[q] = status[q]
    BY <1>1, <1>2, <1>3
  <2> QED
    BY <1>1, <1>3, <2>2, <2>3, SettledStays
<1> QED
  BY <1>5, <1>6, <1>7, <1>8, <1>9 DEF CommandInv

-----------------------------------------------------------------------------
\* Every step keeps the invariant.
LEMMA CommandStep == CommandInv /\ [Next]_vars => CommandInv'
<1> SUFFICES ASSUME CommandInv, [Next]_vars PROVE CommandInv'
  OBVIOUS
<1>1. ASSUME NEW r \in Requests, NEW c \in Command, NEW k \in Keys, Arrive(r, c, k)
      PROVE  CommandInv'
  BY <1>1, ArriveKeeps
<1>2. ASSUME NEW r \in Requests, Check(r) PROVE CommandInv'
  BY <1>2, CheckKeeps
<1>3. ASSUME NEW r \in Requests, NEW dataFits \in BOOLEAN, LockTarget(r, dataFits)
      PROVE  CommandInv'
  BY <1>3, LockKeeps
<1>4. ASSUME NEW r \in Requests, NEW arrives \in BOOLEAN, Commit(r, arrives)
      PROVE  CommandInv'
  BY <1>4, CommitKeeps
<1>5. ASSUME NEW r \in Requests, Die(r) PROVE CommandInv'
  BY <1>5, DieKeeps
<1>6. ASSUME NEW d \in Requests, Publish(d) PROVE CommandInv'
  BY <1>6, MoveKeeps DEF Publish
<1>7. ASSUME NEW d \in Requests, Fail(d) PROVE CommandInv'
  BY <1>7, MoveKeeps DEF Fail
<1>8. ASSUME NEW d \in Requests, Redrive(d) PROVE CommandInv'
  BY <1>8, MoveKeeps DEF Redrive
<1>9. CASE UNCHANGED vars
  <2>1. UNCHANGED <<request, pc, answer, retry, offer, status, records>>
    BY <1>9 DEF vars, tables
  <2>2. TypeOK' /\ RequestInv'
    BY <2>1 DEF CommandInv, TypeOK, RequestInv, Op, Target, Created
  <2>3. RecordInv' /\ UseInv'
    BY <2>1 DEF CommandInv, RecordInv, UseInv, Record, Op, Target, Key
  <2>4. AnswerInv'
    BY <2>1 DEF CommandInv, AnswerInv, Recorded, Key
  <2>5. SettleInv'
    BY <2>1, RequestsStay DEF CommandInv, SettleInv
  <2> QED
    BY <2>2, <2>3, <2>4, <2>5 DEF CommandInv
<1> QED
  BY <1>1, <1>2, <1>3, <1>4, <1>5, <1>6, <1>7, <1>8, <1>9 DEF Next, Serve

\* The invariant holds in every reachable state.
THEOREM CommandCorrect == Spec => []CommandInv
<1>1. Init => CommandInv
  BY CommandInit
<1>2. CommandInv /\ [Next]_vars => CommandInv'
  BY CommandStep
<1> QED
  BY <1>1, <1>2, PTL DEF Spec

\* The variables keep their types.
THEOREM CommandTypeCorrect == Spec => []TypeOK
<1>1. CommandInv => TypeOK
  BY DEF CommandInv
<1> QED
  BY <1>1, CommandCorrect, PTL

\* service.py 527-570: a key takes effect once, and everyone answered under it
\* is told of the same resource.
THEOREM KeysTakeEffectOnce == Spec => []OneEffectPerKey
<1>1. CommandInv => OneEffectPerKey
  <2> SUFFICES ASSUME CommandInv, NEW p \in Requests, NEW q \in Requests,
                      pc[p] # "new", pc[q] # "new", Op(p) = Op(q), Key(p) = Key(q)
               PROVE  /\ status[p] # "absent" /\ status[q] # "absent" => p = q
                      /\ Answered(p) /\ Answered(q) =>
                           answer[p] = answer[q] /\ request[p] = request[q]
    BY DEF OneEffectPerKey
  <2>1. \A x, y \in records : x.op = y.op /\ x.key = y.key => x = y
    BY DEF CommandInv, RecordInv
  <2>2. status[p] # "absent" /\ status[q] # "absent" => p = q
    <3>1. status[p] # "absent" /\ status[q] # "absent" => Record(p) = Record(q)
      BY <2>1, RecordFields DEF CommandInv, RecordInv
    <3> QED
      BY <3>1, RecordFields
  <2>3. ASSUME Answered(p), Answered(q)
        PROVE  answer[p] = answer[q] /\ request[p] = request[q]
    <3>1. PICK x \in records : Recorded(p, x) /\ x.resource = answer[p]
      BY <2>3 DEF CommandInv, AnswerInv, Answered
    <3>2. PICK y \in records : Recorded(q, y) /\ y.resource = answer[q]
      BY <2>3 DEF CommandInv, AnswerInv, Answered
    <3>3. x.op = x.request_hash.op /\ y.op = y.request_hash.op
      BY RecordFields DEF CommandInv, RecordInv, Op
    <3>4. x = y
      BY <2>1, <3>1, <3>2, <3>3 DEF Recorded, Op
    <3>5. request[p] \in Request /\ request[q] \in Request
      BY DEF CommandInv, RequestInv
    <3> QED
      BY <3>1, <3>2, <3>4, <3>5 DEF Recorded, Request, Key
  <2> QED
    BY <2>2, <2>3
<1> QED
  BY <1>1, CommandCorrect, PTL

\* models.py 97, 126, 147: one reservation per offer, one dispatch and one
\* settlement per reservation.
THEOREM NothingIsUsedTwice == Spec => []NoDoubleUse
<1>1. CommandInv => NoDoubleUse
  <2> SUFFICES ASSUME CommandInv, NEW op \in Operation,
                      NEW t \in Offers \cup Requests
               PROVE  Cardinality(For(op, t)) <= 1
    BY DEF NoDoubleUse
  <2>1. \A p, q \in For(op, t) : p = q
    BY DEF CommandInv, UseInv, For, Created
  <2>2. CASE For(op, t) = {}
    BY <2>2, FS_EmptySet
  <2>3. CASE For(op, t) # {}
    <3>1. PICK p \in For(op, t) : TRUE
      BY <2>3
    <3>2. For(op, t) = {p}
      BY <2>1, <3>1
    <3> QED
      BY <3>2, FS_Singleton
  <2> QED
    BY <2>2, <2>3
<1> QED
  BY <1>1, CommandCorrect, PTL

\* service.py 359-378: a third person settles what was delivered.
THEOREM SettlementIsSeparate == Spec => []SettledByAnother
<1>1. CommandInv => SettledByAnother
  <2> SUFFICES ASSUME CommandInv, NEW s \in Requests, status[s] # "absent",
                      Op(s) = "settle_reservation"
               PROVE  /\ status[Target(s)] = "completed"
                      /\ Actor(s) # Actor(Target(s))
                      /\ \E d \in For("issue_dispatch", Target(s)) :
                           status[d] = "completed" /\ Actor(s) # Actor(d)
    BY DEF SettledByAnother, Created
  <2>1. /\ status[Target(s)] = "completed"
        /\ \E d \in Requests : Separated(s, d) /\ status[d] = "completed"
    BY DEF CommandInv, SettleInv
  <2> QED
    BY <2>1 DEF Separated, For, Created
<1> QED
  BY <1>1, CommandCorrect, PTL

\* service.py 527-570: what was on record when the request arrived answers it.
THEOREM RetriesAreAnswered == Spec => []RetryIsAnswered
<1>1. CommandInv => RetryIsAnswered
  BY DEF CommandInv, AnswerInv, RetryIsAnswered, TypeOK
<1> QED
  BY <1>1, CommandCorrect, PTL

-----------------------------------------------------------------------------
(* The commands implement CommandLedger.                                   *)

\* The row of a dispatch and the row of its reservation, between two commits.
InStep(d) ==
  \/ status[d] = "queued" /\ status[Target(d)] = "dispatch_pending"
  \/ status[d] = "issued" /\ status[Target(d)] = "dispatched"
  \/ status[d] = "rejected" /\ status[Target(d)] = "cancelled"
  \/ /\ status[d] = "completed"
     /\ \E s \in Created("settle_reservation") : Target(s) = Target(d)

\* Why an offer, a reservation or a dispatch is no longer as it was made: so what
\* the unique constraints find unused is as the status checks found it.
RowsInv ==
  /\ \A r \in Requests : pc[r] = "new" => request[r] = NoRequest
  /\ \A o \in Offers : offer[o] = "reserved" => For("reserve_offer", o) # {}
  /\ \A v \in Created("reserve_offer") :
       status[v] # "reserved" => For("issue_dispatch", v) # {}
  /\ \A d \in Created("issue_dispatch") : InStep(d)

\* Two rows that agree still do when neither is written.
LEMMA StaysInStep ==
  ASSUME NEW d \in Requests, InStep(d), UNCHANGED request,
         status'[d] = status[d], status'[Target(d)] = status[Target(d)],
         \A s \in Created("settle_reservation") : s \in Created("settle_reservation")'
  PROVE  InStep(d)'
<1>1. Target(d)' = Target(d)
  BY DEF Target
<1>2. \A s : Target(s)' = Target(s)
  BY DEF Target
<1> QED
  BY <1>1, <1>2 DEF InStep

\* A step that writes none of the tables and names no other request anew.
LEMMA QuietKeepsRows ==
  ASSUME CommandInv, RowsInv, UNCHANGED tables,
         \A q \in Requests :
           /\ status[q] # "absent" => request'[q] = request[q]
           /\ pc'[q] = "new" => pc[q] = "new" /\ request'[q] = request[q]
  PROVE  RowsInv'
<1>1. UNCHANGED <<offer, status, records>>
  BY DEF tables
<1>2. \A q \in Requests : status[q] # "absent" =>
        Op(q)' = Op(q) /\ Target(q)' = Target(q)
  BY DEF Op, Target
<1>3. \A op, t : Created(op)' = Created(op) /\ For(op, t)' = For(op, t)
  BY <1>1, <1>2 DEF For, Created
<1>4. \A d \in Created("issue_dispatch") : InStep(d)'
  BY <1>1, <1>2, <1>3 DEF RowsInv, InStep, Created
<1> QED
  BY <1>1, <1>3, <1>4 DEF RowsInv

\* What a commit adds to the resources, and that nothing is taken from them.
LEMMA CommitAdds ==
  ASSUME CommandInv, NEW r \in Requests, pc[r] = "commit", UNCHANGED request,
         WriteReservation(r) \/ WriteDispatch(r) \/ WriteSettlement(r)
  PROVE  /\ status[r] = "absent" /\ request[r] \in Request
         /\ \A op : Created(op)' = Created(op) \cup {q \in {r} : Op(r) = op}
         /\ \A op, t : For(op, t)' =
              For(op, t) \cup {q \in {r} : Op(r) = op /\ Target(r) = t}
         /\ \A q \in Created("issue_dispatch") \cup Created("settle_reservation") :
              Target(q) \in Created("reserve_offer") /\ Target(q) # q
         /\ Op(r) # "reserve_offer" => Target(r) \in Created("reserve_offer")
<1>1. \A q \in Requests : Op(q)' = Op(q) /\ Target(q)' = Target(q)
  BY RequestsStay
<1>2. \A q \in Requests :
        status'[q] # "absent" <=> status[q] # "absent" \/ q = r
  BY RowsOfCommit
<1>3. \A op : Created(op)' = Created(op) \cup {q \in {r} : Op(r) = op}
  BY <1>1, <1>2 DEF Created
<1>4. \A op, t : For(op, t)' =
        For(op, t) \cup {q \in {r} : Op(r) = op /\ Target(r) = t}
  BY <1>1, <1>3 DEF For, Created
<1>5. \A q \in Requests : pc[q] # "new" /\ Op(q) # "reserve_offer" =>
        Target(q) \in Created("reserve_offer")
  BY DEF CommandInv, RequestInv
<1>6. \A q \in Requests : status[q] # "absent" => pc[q] # "new"
  BY DEF CommandInv, RequestInv
<1>7. status[r] = "absent" /\ request[r] \in Request
  BY DEF CommandInv, RequestInv
<1> QED
  BY <1>3, <1>4, <1>5, <1>6, <1>7 DEF Created

\* A commit that the unique constraints let through.
LEMMA CommitKeepsRows ==
  ASSUME CommandInv, RowsInv, NEW r \in Requests, pc[r] = "commit", Unique(r),
         WriteReservation(r) \/ WriteDispatch(r) \/ WriteSettlement(r),
         UNCHANGED request, pc' = [pc EXCEPT ![r] = "done"]
  PROVE  RowsInv'
<1>1. /\ status \in [Requests -> ResourceStatus \cup {"absent"}]
      /\ offer \in [Offers -> {"open", "reserved"}]
      /\ pc \in [Requests -> {"new", "check", "lock", "commit", "done"}]
  BY DEF CommandInv, TypeOK
<1>2. \A q \in Requests : Op(q)' = Op(q) /\ Target(q)' = Target(q)
  BY RequestsStay
<1>3. \A q \in Requests : pc'[q] = "new" => request'[q] = NoRequest
  BY <1>1 DEF RowsInv
<1>4. /\ status[r] = "absent"
      /\ \A op : Created(op)' = Created(op) \cup {q \in {r} : Op(r) = op}
      /\ \A op, t : For(op, t)' =
           For(op, t) \cup {q \in {r} : Op(r) = op /\ Target(r) = t}
      /\ \A q \in Created("issue_dispatch") \cup Created("settle_reservation") :
           Target(q) \in Created("reserve_offer") /\ Target(q) # q
      /\ Op(r) # "reserve_offer" => Target(r) \in Created("reserve_offer")
  BY CommitAdds
<1>5. CASE WriteReservation(r)
  <2>1. /\ Op(r) = "reserve_offer"
        /\ offer' = [offer EXCEPT ![Target(r)] = "reserved"]
        /\ status' = [status EXCEPT ![r] = "reserved"]
    BY <1>5 DEF WriteReservation
  <2>2. \A o \in Offers : offer'[o] = "reserved" => For("reserve_offer", o)' # {}
    BY <1>1, <1>4, <2>1 DEF RowsInv
  <2>3. \A v \in Created("reserve_offer")' :
          status'[v] # "reserved" => For("issue_dispatch", v)' # {}
    BY <1>1, <1>4, <2>1 DEF RowsInv, Created
  <2>4. ASSUME NEW d \in Created("issue_dispatch")' PROVE InStep(d)'
    <3>1. /\ d \in Created("issue_dispatch") /\ d \in Requests \ {r}
          /\ Target(d) \in Requests \ {r}
      BY <1>4, <2>1 DEF Created
    <3> QED
      BY <1>1, <1>4, <2>1, <3>1, StaysInStep DEF RowsInv
  <2> QED
    BY <1>3, <2>2, <2>3, <2>4 DEF RowsInv
<1>6. CASE WriteDispatch(r)
  <2> DEFINE t == Target(r)
  <2>1. /\ Op(r) = "issue_dispatch" /\ t \in Created("reserve_offer")
        /\ status' = [status EXCEPT ![r] = "queued", ![t] = "dispatch_pending"]
        /\ offer' = offer /\ For("issue_dispatch", t) = {}
    BY <1>4, <1>6 DEF WriteDispatch, Unique
  <2>2. t \in Requests /\ t # r /\ Op(t) = "reserve_offer"
    BY <1>4, <2>1 DEF Created
  <2>3. /\ status'[r] = "queued" /\ status'[t] = "dispatch_pending"
        /\ \A q \in Requests \ {r, t} : status'[q] = status[q]
    BY <1>1, <2>1, <2>2
  <2>4. \A d \in Created("issue_dispatch") : Target(d) # t /\ d # t
    BY <2>1, <2>2 DEF For, Created
  <2> HIDE DEF t
  <2>5. \A v \in Created("reserve_offer")' :
          status'[v] # "reserved" => For("issue_dispatch", v)' # {}
    BY <1>4, <2>1, <2>3 DEF RowsInv, Created, t
  <2>6. ASSUME NEW d \in Created("issue_dispatch")' PROVE InStep(d)'
    <3>1. CASE d = r
      BY <1>2, <2>3, <3>1 DEF InStep, t
    <3>2. CASE d # r
      <4>1. /\ d \in Created("issue_dispatch") /\ d \in Requests \ {r, t}
            /\ Target(d) \in Requests \ {r, t}
        BY <1>4, <2>4, <3>2 DEF Created
      <4> QED
        BY <1>4, <2>3, <4>1, StaysInStep DEF RowsInv
    <3> QED
      BY <3>1, <3>2
  <2> QED
    BY <1>3, <1>4, <2>1, <2>5, <2>6 DEF RowsInv
<1>7. CASE WriteSettlement(r)
  <2> DEFINE t == Target(r)
             ended == {t} \cup For("issue_dispatch", t)
  <2>1. /\ Op(r) = "settle_reservation" /\ t \in Created("reserve_offer")
        /\ status' = [x \in Requests |->
                        IF x = r THEN "settled"
                        ELSE IF x \in ended THEN "completed" ELSE status[x]]
        /\ offer' = offer
    BY <1>4, <1>7 DEF WriteSettlement
  <2>2. For("issue_dispatch", t) # {}
    BY <2>1 DEF CommandInv, SettleInv, Separated, For, Created
  <2>3. r \in Created("settle_reservation")' /\ r \notin Created("issue_dispatch")
    BY <1>4, <2>1 DEF Created
  <2> HIDE DEF t, ended
  <2>4. \A v \in Created("reserve_offer")' :
          status'[v] # "reserved" => For("issue_dispatch", v)' # {}
    <3>1. \A v \in Created("reserve_offer") \ {t} : v \notin ended
      BY DEF ended, For, Created
    <3> QED
      BY <1>4, <2>1, <2>2, <3>1 DEF RowsInv, Created
  <2>5. ASSUME NEW d \in Created("issue_dispatch")' PROVE InStep(d)'
    <3>1. d \in Created("issue_dispatch") /\ d \in Requests \ {r} /\ Target(d) # r
          /\ Target(d) \in Requests /\ Op(Target(d)) = "reserve_offer"
      BY <1>4, <2>1 DEF Created
    <3>2. CASE Target(d) = t
      <4>1. status'[d] = "completed"
        BY <2>1, <3>1, <3>2 DEF ended, For
      <4> QED
        BY <1>2, <2>3, <3>1, <3>2, <4>1 DEF InStep, t
    <3>3. CASE Target(d) # t
      <4>1. d \notin ended /\ Target(d) \notin ended
        BY <2>1, <3>1, <3>3 DEF ended, For, Created
      <4>2. status'[d] = status[d] /\ status'[Target(d)] = status[Target(d)]
        BY <2>1, <3>1, <4>1
      <4> QED
        BY <1>4, <3>1, <4>2, StaysInStep DEF RowsInv
    <3> QED
      BY <3>2, <3>3
  <2> QED
    BY <1>3, <1>4, <2>1, <2>4, <2>5 DEF RowsInv
<1> QED
  BY <1>5, <1>6, <1>7

\* The end of a delivery, or a re-drive, moves a dispatch and its reservation.
LEMMA MoveKeepsRows ==
  ASSUME CommandInv, RowsInv, NEW d \in Requests,
         NEW from \in {"queued", "rejected"}, NEW to, NEW reservationTo,
         Move(d, from, to, reservationTo),
         <<to, reservationTo>> \in {<<"issued", "dispatched">>,
           <<"rejected", "cancelled">>, <<"queued", "dispatch_pending">>}
  PROVE  RowsInv'
<1> DEFINE v == Target(d)
<1>1. /\ d \in Created("issue_dispatch") /\ status[d] = from
      /\ status' = [status EXCEPT ![d] = to, ![v] = reservationTo]
      /\ UNCHANGED <<request, pc, offer>>
  BY DEF Move
<1>2. /\ status \in [Requests -> ResourceStatus \cup {"absent"}]
      /\ v \in Requests /\ v # d /\ v \in Created("reserve_offer")
  BY <1>1 DEF CommandInv, TypeOK, RequestInv, Created
<1>3. /\ status'[d] = to /\ status'[v] = reservationTo
      /\ \A q \in Requests \ {d, v} : status'[q] = status[q]
      /\ status'[d] # "absent" /\ status'[v] # "absent"
  BY <1>1, <1>2
<1>4. \A q \in Requests : Op(q)' = Op(q) /\ Target(q)' = Target(q)
  BY <1>1, RequestsStay
<1>5. \A op, t : Created(op)' = Created(op) /\ For(op, t)' = For(op, t)
  BY <1>1, <1>2, <1>3, <1>4 DEF For, Created
<1>6. d \in For("issue_dispatch", v)
  BY <1>1 DEF For
<1>7. \A e \in Created("issue_dispatch") : e # d => Target(e) # v /\ e # v
  BY <1>1, <1>2 DEF CommandInv, UseInv, Created
<1>8. \A e \in Created("issue_dispatch") :
        e \in Requests /\ Target(e) \in Created("reserve_offer")
  BY DEF CommandInv, RequestInv, Created
<1> HIDE DEF v
<1>9. ASSUME NEW e \in Created("issue_dispatch") PROVE InStep(e)'
  <2>1. CASE e = d
    BY <1>1, <1>3, <1>4, <2>1 DEF InStep, v
  <2>2. CASE e # d
    <3>1. /\ e \in Requests \ {d, v} /\ Target(e) \in Requests \ {d, v}
      BY <1>1, <1>7, <1>8, <2>2 DEF Created
    <3> QED
      BY <1>1, <1>3, <1>5, <3>1, StaysInStep DEF RowsInv
  <2> QED
    BY <2>1, <2>2
<1>10. \A q \in Created("reserve_offer") :
         status'[q] # "reserved" => For("issue_dispatch", q)' # {}
  BY <1>1, <1>3, <1>5, <1>6 DEF RowsInv, Created
<1> QED
  BY <1>1, <1>5, <1>9, <1>10 DEF RowsInv

\* The ledger sees the resources and the requests of the tables.
LEMMA LedgerSees ==
  /\ \A r : Ledger!Cmd(r) = request[r].command
  /\ \A op : Ledger!Made(op) = Created(op)
BY DEF Ledger!Cmd, Ledger!Made, Created, Op

\* A request that arrives is asked of the ledger; it is a repetition in the one
\* exactly if it is in the other.
LEMMA ArriveIsAsk ==
  ASSUME CommandInv, RowsInv, NEW r \in Requests, NEW c \in Command, NEW k \in Keys,
         Arrive(r, c, k)
  PROVE  Ledger!Ask(r)
<1> DEFINE asked == [command |-> c, key |-> k]
           known == \E x \in records : x.request_hash = c /\ x.key = k
<1>1. /\ request[r] = NoRequest
      /\ request' = [request EXCEPT ![r] = asked]
      /\ retry' = IF known THEN retry \cup {r} ELSE retry
      /\ c.target \in Targets(c.op)
      /\ UNCHANGED <<answer, offer, status>>
  BY DEF Arrive, tables, RowsInv
<1>2. request'[r] = asked
  BY <1>1 DEF CommandInv, TypeOK
<1>3. known <=> \E q \in Created(c.op) : request[q] = asked
  <2>1. ASSUME NEW x \in records, x.request_hash = c, x.key = k
        PROVE  \E q \in Created(c.op) : request[q] = asked
    <3>1. /\ x.resource \in Requests /\ status[x.resource] # "absent"
          /\ x = Record(x.resource)
      BY DEF CommandInv, RecordInv
    <3>2. request[x.resource].command = c /\ request[x.resource].key = k
      BY <2>1, <3>1, RecordFields DEF Key
    <3>3. request[x.resource] \in Request
      BY <3>1 DEF CommandInv, RequestInv
    <3>4. request[x.resource] = asked
      BY <3>2, <3>3 DEF Request
    <3> QED
      BY <3>1, <3>2, <3>4 DEF Created, Op
  <2>2. ASSUME NEW q \in Created(c.op), request[q] = asked PROVE known
    <3>1. q \in Requests /\ Record(q) \in records
      BY DEF CommandInv, RecordInv, Created
    <3>2. Record(q).request_hash = c /\ Record(q).key = k
      BY <2>2, <3>1, RecordFields DEF Key
    <3> QED
      BY <3>1, <3>2
  <2> QED
    BY <2>1, <2>2
<1>4. retry' = retry \cup
        {x \in {r} : \E q \in Created(c.op) : request[q] = request'[r]}
  BY <1>1, <1>2, <1>3
<1> HIDE DEF asked, known
<1>5. c.target \in IF c.op = "reserve_offer" THEN Offers
                                             ELSE Created("reserve_offer")
  BY <1>1 DEF Targets
<1>6. /\ c.target \in IF c.op = "reserve_offer" THEN Offers
                                                ELSE Ledger!Made("reserve_offer")
      /\ retry' = retry \cup
           {x \in {r} : \E q \in Ledger!Made(c.op) : request[q] = request'[r]}
  BY <1>4, <1>5, LedgerSees
<1> QED
  BY <1>1, <1>6 DEF Ledger!Ask, asked

\* A request that is under way is unanswered in the ledger.
LEMMA ReplyIsAnswer ==
  ASSUME CommandInv, NEW r \in Requests, NEW a, pc[r] \notin {"new", "done"},
         Reply(r, a), UNCHANGED <<request, retry>>
  PROVE  Ledger!Answer(r, a)
<1>1. request[r] \in Request /\ answer[r] = "none"
  BY DEF CommandInv, RequestInv
<1>2. request[r] # NoRequest
  BY <1>1 DEF Request, Command, Operation, NoRequest
<1> QED
  BY <1>1, <1>2 DEF Reply, Ledger!Answer

\* What the look-up finds is what the ledger did under the key.
LEMMA FoundIsBefore ==
  ASSUME CommandInv, NEW r \in Requests
  PROVE  /\ \A x \in Found(r) : x.resource \in Ledger!Before(r) /\ x.resource \in Requests
                                  /\ x = Record(x.resource)
         /\ Found(r) = {} => Ledger!Before(r) = {}
<1>1. Ledger!Before(r) = {q \in Created(Op(r)) : Key(q) = Key(r)}
  BY LedgerSees DEF Ledger!Before, Op, Key
<1>2. \A x \in Found(r) :
        /\ x.resource \in Requests /\ status[x.resource] # "absent"
        /\ x = Record(x.resource) /\ x.op = Op(r) /\ x.key = Key(r)
  BY DEF Found, CommandInv, RecordInv
<1>3. \A q \in Created(Op(r)) : Key(q) = Key(r) => Record(q) \in Found(r)
  BY RecordFields DEF Found, CommandInv, RecordInv, Created
<1> QED
  BY <1>1, <1>2, <1>3, RecordFields DEF Created

\* The look-up passes the request on, repeats an answer or refuses.
LEMMA CheckIsLedger ==
  ASSUME CommandInv, NEW r \in Requests, Check(r)
  PROVE  \/ \E q \in Requests : Ledger!Repeat(r, q)
         \/ Ledger!Refuse(r)
         \/ UNCHANGED Ledger!vars
<1>1. pc[r] = "check" /\ UNCHANGED <<request, retry, offer, status>>
  BY DEF Check, tables
<1>2. CASE UNCHANGED answer
  BY <1>1, <1>2 DEF Ledger!vars
<1>3. ASSUME NEW x \in Found(r),
             Reply(r, IF x.request_hash = request[r].command THEN x.resource
                      ELSE "refused")
      PROVE  (\E q \in Requests : Ledger!Repeat(r, q)) \/ Ledger!Refuse(r)
  <2> DEFINE q == x.resource
  <2>1. /\ q \in Ledger!Before(r) /\ q \in Requests /\ x = Record(q)
        /\ status[q] # "absent" /\ x.key = Key(r)
    BY FoundIsBefore, RetryIsFound, <1>1 DEF CommandInv, RecordInv
  <2>2. CASE x.request_hash = request[r].command
    <3>1. request[q].command = request[r].command /\ request[q].key = request[r].key
      BY <2>1, <2>2, RecordFields DEF Key
    <3>2. request[q] \in Request /\ request[r] \in Request
      BY <1>1, <2>1 DEF CommandInv, RequestInv
    <3>3. request[q] = request[r]
      BY <3>1, <3>2 DEF Request
    <3>4. Ledger!Answer(r, q)
      BY <1>1, <1>3, <2>2, ReplyIsAnswer
    <3> QED
      BY <1>1, <2>1, <3>3, <3>4 DEF Ledger!Repeat
  <2>3. CASE x.request_hash # request[r].command
    <3>1. r \notin retry
      BY <1>1, <2>3, RetryIsFound
    <3>2. Ledger!Answer(r, "refused")
      BY <1>1, <1>3, <2>3, ReplyIsAnswer
    <3> QED
      BY <1>1, <3>1, <3>2 DEF Ledger!Refuse
  <2> QED
    BY <2>2, <2>3
<1> QED
  BY <1>2, <1>3 DEF Check

\* Whatever the status checks found before, the commit finds it still: what the
\* unique constraints let through is executed by the ledger.
LEMMA CommitIsExecute ==
  ASSUME CommandInv, RowsInv, NEW r \in Requests, NEW a \in {r, "lost"},
         pc[r] = "commit", Unique(r),
         WriteReservation(r) \/ WriteDispatch(r) \/ WriteSettlement(r),
         Reply(r, a), UNCHANGED <<request, retry>>
  PROVE  Ledger!Execute(r)
<1> DEFINE t == Target(r)
<1>1. Ledger!Answer(r, r) \/ Ledger!Answer(r, "lost")
  BY ReplyIsAnswer
<1>2. Ledger!Before(r) = {} /\ For(Op(r), t) = {}
  BY FoundIsBefore DEF Unique
<1>3. /\ status \in [Requests -> ResourceStatus \cup {"absent"}]
      /\ offer \in [Offers -> {"open", "reserved"}]
      /\ status[r] = "absent"
      /\ Op(r) = "reserve_offer" => t \in Offers
      /\ Op(r) # "reserve_offer" => t \in Created("reserve_offer")
  BY DEF CommandInv, TypeOK, RequestInv
<1>4. Ledger!Cmd(r).op = Op(r) /\ Ledger!Cmd(r).target = t
  BY LedgerSees DEF Op, Target
<1>5. CASE WriteReservation(r)
  <2>1. Op(r) = "reserve_offer" /\ offer[t] = "open"
    BY <1>2, <1>3, <1>5 DEF WriteReservation, RowsInv
  <2>2. Ledger!Reserve(r, t)
    BY <1>5, <2>1 DEF WriteReservation, Ledger!Reserve
  <2> QED
    BY <1>1, <1>2, <1>4, <2>1, <2>2 DEF Ledger!Execute
<1>6. CASE WriteDispatch(r)
  <2>1. Op(r) = "issue_dispatch" /\ status[t] = "reserved"
    BY <1>2, <1>3, <1>6 DEF WriteDispatch, RowsInv
  <2>2. Ledger!Dispatch(r, t)
    BY <1>6, <2>1 DEF WriteDispatch, Ledger!Dispatch
  <2> QED
    BY <1>1, <1>2, <1>4, <2>1, <2>2 DEF Ledger!Execute
<1>7. CASE WriteSettlement(r)
  <2>1. Op(r) = "settle_reservation"
    BY <1>7 DEF WriteSettlement
  <2>2. PICK d \in Requests : Separated(r, d) /\ status[d] \in {"issued", "completed"}
    BY <2>1 DEF CommandInv, SettleInv
  <2>3. d \in Created("issue_dispatch") /\ Target(d) = t
    BY <2>2 DEF Separated, Created
  <2>4. status[d] = "issued" /\ status[t] = "dispatched"
    <3>1. InStep(d) /\ ~\E s \in Created("settle_reservation") : Target(s) = Target(d)
      BY <1>2, <2>1, <2>3 DEF RowsInv, For
    <3> QED
      BY <2>2, <2>3, <3>1 DEF InStep
  <2>5. \A e \in For("issue_dispatch", t) : e = d
    BY <2>3 DEF CommandInv, UseInv, For, Created
  <2>6. d \in For("issue_dispatch", t)
    BY <2>3 DEF For
  <2>7. t \in Requests /\ t # d /\ t # r /\ d # r
    BY <1>3, <2>1, <2>3 DEF Created
  <2>8. status' = [x \in Requests |->
                     IF x = r THEN "settled"
                     ELSE IF x \in {t} \cup For("issue_dispatch", t)
                          THEN "completed" ELSE status[x]]
        /\ UNCHANGED offer
    BY <1>7 DEF WriteSettlement
  <2> HIDE DEF t
  <2>9. status' = [status EXCEPT ![r] = "settled", ![t] = "completed",
                                 ![d] = "completed"]
    BY <1>3, <2>5, <2>6, <2>7, <2>8
  <2>10. Actor(r) \notin {Actor(d), Actor(t)}
    BY <2>2 DEF Separated, t
  <2>11. /\ Ledger!Cmd(d).target = t /\ Ledger!Cmd(r).actor = Actor(r)
         /\ Ledger!Cmd(d).actor = Actor(d) /\ Ledger!Cmd(t).actor = Actor(t)
         /\ d \in Ledger!Made("issue_dispatch")
    BY <2>3, LedgerSees DEF Target, Actor
  <2>12. Ledger!Settle(r, t)
    BY <2>4, <2>8, <2>9, <2>10, <2>11 DEF Ledger!Settle
  <2> QED
    BY <1>1, <1>2, <1>4, <2>1, <2>12 DEF Ledger!Execute
<1> QED
  BY <1>5, <1>6, <1>7

\* A delivery that ends, or is re-driven, does so in the ledger.
LEMMA MoveIsDeliver ==
  ASSUME NEW d \in Requests, NEW from, NEW to, NEW reservationTo,
         Move(d, from, to, reservationTo)
  PROVE  Ledger!Deliver(d, from, to, reservationTo)
BY LedgerSees DEF Move, Ledger!Deliver, Target

\* Every step keeps the rows in step and is a step of the ledger, or none.
LEMMA LedgerStep ==
  ASSUME CommandInv, RowsInv, [Next]_vars
  PROVE  RowsInv' /\ [Ledger!Next]_(Ledger!vars)
<1>0. /\ pc \in [Requests -> {"new", "check", "lock", "commit", "done"}]
      /\ request \in [Requests -> Request \cup {NoRequest}]
      /\ \A r \in Requests : status[r] # "absent" => pc[r] = "done"
  BY DEF CommandInv, TypeOK, RequestInv
<1>1. ASSUME NEW r \in Requests, NEW c \in Command, NEW k \in Keys, Arrive(r, c, k)
      PROVE  RowsInv' /\ Ledger!Next
  <2>1. RowsInv'
    BY <1>0, <1>1, QuietKeepsRows DEF Arrive
  <2> QED
    BY <1>1, <2>1, ArriveIsAsk DEF Ledger!Next
<1>2. ASSUME NEW r \in Requests, Check(r)
      PROVE  RowsInv' /\ [Ledger!Next]_(Ledger!vars)
  <2>1. \A q \in Requests : pc'[q] = "new" => pc[q] = "new"
    BY <1>0, <1>2 DEF Check, Reply
  <2>2. RowsInv'
    BY <1>2, <2>1, QuietKeepsRows DEF Check
  <2> QED
    BY <1>2, <2>2, CheckIsLedger DEF Ledger!Next
<1>3. ASSUME NEW r \in Requests, NEW dataFits \in BOOLEAN, LockTarget(r, dataFits)
      PROVE  RowsInv' /\ [Ledger!Next]_(Ledger!vars)
  <2>1. \A q \in Requests : pc'[q] = "new" => pc[q] = "new"
    BY <1>0, <1>3 DEF LockTarget, Reply
  <2>2. RowsInv'
    BY <1>3, <2>1, QuietKeepsRows DEF LockTarget
  <2>3. /\ pc[r] = "lock" /\ r \notin retry
        /\ UNCHANGED <<request, retry, offer, status>>
        /\ UNCHANGED answer \/ Reply(r, "refused")
    BY <1>3, PastCheck DEF LockTarget, tables
  <2>4. UNCHANGED answer => UNCHANGED Ledger!vars
    BY <2>3 DEF Ledger!vars
  <2>5. Reply(r, "refused") => Ledger!Refuse(r)
    BY <2>3, ReplyIsAnswer DEF Ledger!Refuse
  <2> QED
    BY <2>2, <2>3, <2>4, <2>5 DEF Ledger!Next
<1>4. ASSUME NEW r \in Requests, NEW arrives \in BOOLEAN, Commit(r, arrives)
      PROVE  RowsInv' /\ Ledger!Next
  <2>1. pc[r] = "commit" /\ r \notin retry /\ UNCHANGED <<request, retry>>
    BY <1>4, PastCheck DEF Commit
  <2>2. CASE Unique(r)
    <3>1. /\ WriteReservation(r) \/ WriteDispatch(r) \/ WriteSettlement(r)
          /\ Reply(r, IF arrives THEN r ELSE "lost")
      BY <1>4, <2>2 DEF Commit
    <3>2. RowsInv'
      BY <2>1, <2>2, <3>1, CommitKeepsRows DEF Reply
    <3>3. Ledger!Execute(r)
      BY <2>1, <2>2, <3>1, CommitIsExecute
    <3> QED
      BY <3>2, <3>3 DEF Ledger!Next
  <2>3. CASE ~Unique(r)
    <3>1. Reply(r, "refused") /\ UNCHANGED tables
      BY <1>4, <2>3 DEF Commit
    <3>2. \A q \in Requests : pc'[q] = "new" => pc[q] = "new"
      BY <1>0, <3>1 DEF Reply
    <3>3. RowsInv'
      BY <2>1, <3>1, <3>2, QuietKeepsRows
    <3>4. Ledger!Refuse(r)
      BY <2>1, <3>1, ReplyIsAnswer DEF Ledger!Refuse, tables
    <3> QED
      BY <3>3, <3>4 DEF Ledger!Next
  <2> QED
    BY <2>2, <2>3
<1>5. ASSUME NEW r \in Requests, Die(r)
      PROVE  RowsInv' /\ Ledger!Next
  <2>1. /\ pc[r] \notin {"new", "done"} /\ Reply(r, "lost")
        /\ UNCHANGED <<request, retry, tables, offer, status>>
    BY <1>5 DEF Die, tables
  <2>2. \A q \in Requests : pc'[q] = "new" => pc[q] = "new"
    BY <1>0, <2>1 DEF Reply
  <2>3. RowsInv'
    BY <2>1, <2>2, QuietKeepsRows
  <2>4. Ledger!Lose(r)
    BY <2>1, ReplyIsAnswer DEF Ledger!Lose
  <2> QED
    BY <2>3, <2>4 DEF Ledger!Next
<1>6. ASSUME NEW d \in Requests, Publish(d)
      PROVE  RowsInv' /\ Ledger!Next
  BY <1>6, MoveKeepsRows, MoveIsDeliver DEF Publish, Ledger!Next
<1>7. ASSUME NEW d \in Requests, Fail(d)
      PROVE  RowsInv' /\ Ledger!Next
  BY <1>7, MoveKeepsRows, MoveIsDeliver DEF Fail, Ledger!Next
<1>8. ASSUME NEW d \in Requests, Redrive(d)
      PROVE  RowsInv' /\ Ledger!Next
  BY <1>8, MoveKeepsRows, MoveIsDeliver DEF Redrive, Ledger!Next
<1>9. CASE UNCHANGED vars
  <2>1. RowsInv'
    BY <1>9, QuietKeepsRows DEF vars
  <2> QED
    BY <1>9, <2>1 DEF vars, tables, Ledger!vars
<1> QED
  BY <1>1, <1>2, <1>3, <1>4, <1>5, <1>6, <1>7, <1>8, <1>9 DEF Next, Serve

\* Commands that overlap, with row locks or without, that race for a key or a
\* target, die and lose answers look to their clients like commands that take
\* effect one at a time: what the status checks saw is still true at the commit.
THEOREM CommandsImplementLedger == Spec => ImplementsLedger
<1>1. Init => RowsInv /\ Ledger!Init
  BY DEF Init, RowsInv, Created, Ledger!Init
<1>2. CommandInv /\ RowsInv /\ [Next]_vars
        => RowsInv' /\ [Ledger!Next]_(Ledger!vars)
  BY LedgerStep
<1> QED
  BY <1>1, <1>2, CommandCorrect, PTL DEF Spec, ImplementsLedger, Ledger!Spec
=============================================================================
