----------------------- MODULE DispatchDeliveryProofs -----------------------
(* Theorems about DispatchDelivery, for every value of its constants.       *)
EXTENDS DispatchDelivery, TLAPS

\* _retry_delay stays within the configured maximum.
LEMMA RetryDelayBounded ==
  ASSUME NEW n \in Nat PROVE RetryDelay(n) \in 0..MaxRetry
<1> DEFINE delay == BaseRetry * 2^(IF n > 0 THEN n - 1 ELSE 0)
<1>1. MaxRetry \in 0..MaxRetry
  BY WorkerParameters
<1>2. RetryDelay(n) = IF delay \in 0..MaxRetry THEN delay ELSE MaxRetry
  BY Zenon DEF RetryDelay
<1> HIDE DEF delay
<1> QED
  BY <1>1, <1>2, Zenon

\* The fields of a row, and the values the actions put there.
LEMMA RowFields ==
  ASSUME TypeOK, NEW d \in Dispatches
  PROVE  /\ outbox[d] \in Message
         /\ outbox[d].attempts \in Nat
         /\ outbox[d].wait \in 0..MaxRetry
         /\ outbox[d].lease \in NoLease..LeaseSeconds
BY DEF TypeOK, Message

\* The timer values the actions write are in range.
LEMMA TimerValues ==
  /\ 0 \in 0..MaxRetry
  /\ NoLease \in NoLease..LeaseSeconds
  /\ LeaseSeconds \in NoLease..LeaseSeconds
BY WorkerParameters DEF NoLease

\* Replacing fields of a row by values of their domains gives a row.
LEMMA RowUpdate ==
  ASSUME NEW m \in Message, NEW s \in OutboxStatus, NEW a \in Nat,
         NEW t \in 0..MaxRetry, NEW l \in NoLease..LeaseSeconds,
         NEW b \in Workers \cup {None}
  PROVE  /\ [m EXCEPT !.status = s, !.wait = t, !.lease = l, !.lockedBy = b]
              \in Message
         /\ [m EXCEPT !.status = s, !.attempts = a, !.wait = t, !.lease = l,
                      !.lockedBy = b] \in Message
         /\ [m EXCEPT !.status = s, !.attempts = a, !.lease = l,
                      !.lockedBy = b] \in Message
         /\ [m EXCEPT !.wait = t, !.lease = l] \in Message
BY DEF Message

\* What a worker remembers stays of the right kind when it reads a row.
LEMMA WorkerReadsMessage ==
  ASSUME NEW m \in Worker, NEW a \in Nat, NEW pc \in {"dispatch", "commit"}
  PROVE  /\ [m EXCEPT !.attempts = a, !.pc = pc] \in Worker
         /\ [m EXCEPT !.attempts = a, !.pc = pc].msg = m.msg
         /\ [m EXCEPT !.attempts = a, !.pc = pc].key = m.key
         /\ [m EXCEPT !.attempts = a, !.pc = pc].ok = m.ok
BY DEF Worker

\* What reading a dispatch leaves of a worker's state.
LEMMA WorkerReadsDispatch ==
  ASSUME NEW m \in Worker, NEW d \in DispatchStatus \cup {"absent"}
  PROVE  /\ [m EXCEPT !.pc = "reservation", !.dispatch = d] \in Worker
         /\ [m EXCEPT !.pc = "reservation", !.dispatch = d].msg = m.msg
         /\ [m EXCEPT !.pc = "reservation", !.dispatch = d].key = m.key
         /\ [m EXCEPT !.pc = "reservation", !.dispatch = d].ok = m.ok
BY DEF Worker

\* What reading a reservation leaves of a worker's state.
LEMMA WorkerReadsReservation ==
  ASSUME NEW m \in Worker, NEW r \in ReservationStatus
  PROVE  /\ [m EXCEPT !.pc = "commit", !.reservation = r] \in Worker
         /\ [m EXCEPT !.pc = "commit", !.reservation = r].msg = m.msg
         /\ [m EXCEPT !.pc = "commit", !.reservation = r].key = m.key
         /\ [m EXCEPT !.pc = "commit", !.reservation = r].ok = m.ok
BY DEF Worker

\* A released row is a well-formed row.
LEMMA ReleasedTyped ==
  ASSUME TypeOK, NEW d \in Dispatches, NEW status \in OutboxStatus,
         NEW wait \in 0..MaxRetry
  PROVE  Released(d, status, wait) \in Message
BY RowFields, TimerValues, RowUpdate, Zenon DEF Released

\* A second less on a timer leaves it in its range.
LEMMA DownTyped ==
  ASSUME NEW lo \in {NoLease, 0}, NEW hi \in Nat, NEW n \in lo..hi
  PROVE  Down(n) \in lo..hi
BY DEF Down, NoLease

\* Finalise writes statuses of the right kind.
LEMMA FinaliseTyped ==
  ASSUME TypeOK, NEW w \in Workers, worker[w].pc = "commit",
         NEW nd \in DispatchStatus, NEW nr \in ReservationStatus,
         NEW e \in EventType, Finalise(w, nd, nr, e)
  PROVE  /\ dispatch' \in [Dispatches -> DispatchStatus \cup {"absent"}]
         /\ reservation' \in [Dispatches -> ReservationStatus]
         /\ lastEvent' \in [Dispatches -> EventType \cup {"absent"}]
         /\ settled' = settled
BY DEF TypeOK, Finalise, Flush

\* What replacing the row of one message by a row that is used leaves typed.
LEMMA RowWritten ==
  ASSUME TypeOK, NEW d \in Dispatches, NEW row \in Message,
         row.status # "absent", row.key \in Keys,
         outbox' = [outbox EXCEPT ![d] = row]
  PROVE  /\ outbox' \in [Dispatches -> Message]
         /\ \A e \in Dispatches :
              outbox'[e].status # "absent" => outbox'[e].key \in Keys
         /\ \A e \in Dispatches :
              outbox[e].status # "absent" => outbox'[e].status # "absent"
BY DEF TypeOK

\* What replacing the state of one worker leaves typed, if no message is lost.
LEMMA WorkerWritten ==
  ASSUME TypeOK, NEW w \in Workers, NEW m \in Worker,
         m.pc # "idle" => /\ m.msg \in Dispatches /\ m.key \in Keys
                          /\ outbox'[m.msg].status # "absent",
         \A e \in Dispatches :
           outbox[e].status # "absent" => outbox'[e].status # "absent",
         worker' = [worker EXCEPT ![w] = m]
  PROVE  /\ worker' \in [Workers -> Worker]
         /\ \A v \in Workers :
              worker'[v].pc # "idle" =>
                /\ worker'[v].msg \in Dispatches /\ worker'[v].key \in Keys
                /\ outbox'[worker'[v].msg].status # "absent"
BY DEF TypeOK

\* A step that changes nothing but what one worker remembers.
LEMMA WorkerTyped ==
  ASSUME TypeOK, NEW w \in Workers, NEW m \in Worker,
         m.pc # "idle" => /\ m.msg \in Dispatches /\ m.key \in Keys
                          /\ outbox[m.msg].status # "absent",
         worker' = [worker EXCEPT ![w] = m],
         UNCHANGED <<outbox, rows, external, crashes, redrives>>
  PROVE  TypeOK'
BY DEF TypeOK, rows, external

\* A worker that has read its message row is well typed (_record_success, _record_failure).
LEMMA LoadMessageTyped ==
  ASSUME TypeOK, NEW w \in Workers, LoadMessage(w) PROVE TypeOK'
<1> DEFINE read(pc) == [worker[w] EXCEPT !.attempts = outbox[worker[w].msg].attempts,
                                         !.pc = pc]
<1>1. /\ worker[w] \in Worker /\ worker[w].msg \in Dispatches
      /\ worker[w].key \in Keys /\ outbox[worker[w].msg].status # "absent"
      /\ UNCHANGED <<outbox, rows, external, crashes, redrives>>
  BY DEF LoadMessage, TypeOK
<1>2. outbox[worker[w].msg].attempts \in Nat
  BY <1>1, RowFields
<1>3. ASSUME NEW pc \in {"dispatch", "commit"}
      PROVE  /\ read(pc) \in Worker
             /\ read(pc).msg = worker[w].msg /\ read(pc).key = worker[w].key
  BY <1>1, <1>2, WorkerReadsMessage
<1>4. Idle \in Worker /\ Idle.pc = "idle"
  BY DEF Idle, Worker
<1>5. \E pc \in {"dispatch", "commit"} :
        \/ worker' = [worker EXCEPT ![w] = Idle]
        \/ worker' = [worker EXCEPT ![w] = read(pc)]
  BY DEF LoadMessage
<1> HIDE DEF read
<1> QED
  BY <1>1, <1>3, <1>4, <1>5, WorkerTyped

\* A worker that has read the dispatch row of its message is well typed.
LEMMA LoadDispatchTyped ==
  ASSUME TypeOK, NEW w \in Workers, LoadDispatch(w) PROVE TypeOK'
<1> DEFINE m == [worker[w] EXCEPT !.pc = "reservation",
                                  !.dispatch = dispatch[worker[w].msg]]
<1>1. /\ worker[w] \in Worker /\ worker[w].msg \in Dispatches
      /\ worker[w].key \in Keys /\ outbox[worker[w].msg].status # "absent"
      /\ dispatch[worker[w].msg] \in DispatchStatus \cup {"absent"}
      /\ UNCHANGED <<outbox, rows, external, crashes, redrives>>
  BY DEF LoadDispatch, TypeOK
<1>2. m \in Worker /\ m.msg = worker[w].msg /\ m.key = worker[w].key
  BY <1>1, WorkerReadsDispatch
<1>3. worker' = [worker EXCEPT ![w] = m]
  BY DEF LoadDispatch
<1> HIDE DEF m
<1> QED
  BY <1>1, <1>2, <1>3, WorkerTyped

\* A worker that has read the reservation row of its message is well typed.
LEMMA LoadReservationTyped ==
  ASSUME TypeOK, NEW w \in Workers, LoadReservation(w) PROVE TypeOK'
<1> DEFINE m == [worker[w] EXCEPT !.pc = "commit",
                                  !.reservation = reservation[worker[w].msg]]
<1>1. /\ worker[w] \in Worker /\ worker[w].msg \in Dispatches
      /\ worker[w].key \in Keys /\ outbox[worker[w].msg].status # "absent"
      /\ reservation[worker[w].msg] \in ReservationStatus
      /\ UNCHANGED <<outbox, rows, external, crashes, redrives>>
  BY DEF LoadReservation, TypeOK
<1>2. m \in Worker /\ m.msg = worker[w].msg /\ m.key = worker[w].key
  BY <1>1, WorkerReadsReservation
<1>3. worker' = [worker EXCEPT ![w] = m]
  BY DEF LoadReservation
<1> HIDE DEF m
<1> QED
  BY <1>1, <1>2, <1>3, WorkerTyped

\* Initially every variable is well typed.
LEMMA InitTyped == Init => TypeOK
<1> SUFFICES ASSUME Init PROVE TypeOK
  OBVIOUS
<1>1. NoMessage \in Message
  BY WorkerParameters DEF NoMessage, Message, NoLease
<1>2. Idle \in Worker
  BY DEF Idle, Worker
<1> QED
  BY <1>1, <1>2 DEF Init, TypeOK, Idle, NoMessage, ReservationStatus

\* Every step keeps the types; the backoff of a retry is the interesting one.
LEMMA NextTyped == TypeOK /\ [Next]_vars => TypeOK'
<1> SUFFICES ASSUME TypeOK, [Next]_vars PROVE TypeOK'
  OBVIOUS
<1> USE DEF TypeOK, rows, external
<1>1. ASSUME NEW d \in Dispatches, NEW k \in Keys, IssueDispatch(d, k)
      PROVE  TypeOK'
  <2>1. /\ Enqueued(k) \in Message /\ Enqueued(k).key = k
        /\ Enqueued(k).status = "pending"
    BY WorkerParameters, TimerValues
    DEF Enqueued, NoMessage, Message, OutboxStatus, NoLease
  <2> QED
    BY <1>1, <2>1
    DEF IssueDispatch, DispatchStatus, ReservationStatus, EventType
<1>2. ASSUME NEW d \in Dispatches, SettleReservation(d) PROVE TypeOK'
  BY <1>2 DEF SettleReservation, DispatchStatus, ReservationStatus, EventType
<1>3. ASSUME NEW d \in Dispatches, AuthorizeRedrive(d) PROVE TypeOK'
  <2> DEFINE row == [outbox[d] EXCEPT !.status = "pending", !.attempts = 0,
                       !.wait = 0, !.lease = NoLease, !.lockedBy = None]
  <2>1. row \in Message
    <3>1. "pending" \in OutboxStatus /\ None \in Workers \cup {None} /\ 0 \in Nat
      BY DEF OutboxStatus
    <3> QED
      BY <3>1, RowFields, TimerValues, RowUpdate, Zenon
  <2>2. /\ row.key = outbox[d].key /\ row.status = "pending"
        /\ outbox[d].status # "absent"
    BY <1>3, RowFields DEF Message, AuthorizeRedrive
  <2>3. outbox' = [outbox EXCEPT ![d] = row]
    BY <1>3 DEF AuthorizeRedrive
  <2> HIDE DEF row
  <2> QED
    BY <1>3, <2>1, <2>2, <2>3
    DEF AuthorizeRedrive, DispatchStatus, ReservationStatus, EventType
<1>4. ASSUME NEW w \in Workers, NEW d \in Dispatches, ClaimOne(w, d)
      PROVE  TypeOK'
  <2> DEFINE row == [outbox[d] EXCEPT !.status = "processing",
                       !.attempts = outbox[d].attempts + 1,
                       !.lease = LeaseSeconds, !.lockedBy = ClaimToken(w)]
             me == [Idle EXCEPT !.pc = "publish", !.msg = d,
                                !.key = outbox[d].key]
  <2>1. row \in Message
    <3>1. /\ "processing" \in OutboxStatus
          /\ ClaimToken(w) \in Workers \cup {None}
          /\ outbox[d].attempts + 1 \in Nat
      BY RowFields DEF OutboxStatus, ClaimToken
    <3>2. outbox[d] \in Message
      BY RowFields
    <3>3. LeaseSeconds \in NoLease..LeaseSeconds
      BY TimerValues
    <3> HIDE DEF TypeOK
    <3> QED
      BY <3>1, <3>2, <3>3, TimerValues, RowUpdate, Zenon
  <2>2. /\ row.key = outbox[d].key /\ row.status = "processing"
        /\ outbox[d].key \in Keys
    BY <1>4, RowFields DEF Message, ClaimOne, Due
  <2>3. me \in Worker /\ me.msg = d /\ me.key \in Keys
    BY <2>2 DEF Idle, Worker
  <2>4. /\ outbox' = [outbox EXCEPT ![d] = row]
        /\ worker' = [worker EXCEPT ![w] = me]
    BY <1>4, Zenon DEF ClaimOne
  <2> HIDE DEF row, me
  <2>5. /\ outbox' \in [Dispatches -> Message]
        /\ \A e \in Dispatches :
             outbox'[e].status # "absent" => outbox'[e].key \in Keys
        /\ \A e \in Dispatches :
             outbox[e].status # "absent" => outbox'[e].status # "absent"
    BY <2>1, <2>2, <2>4, RowWritten
  <2>6. outbox'[d].status # "absent"
    BY <2>2, <2>4
  <2>7. /\ worker' \in [Workers -> Worker]
        /\ \A v \in Workers :
             worker'[v].pc # "idle" =>
               /\ worker'[v].msg \in Dispatches /\ worker'[v].key \in Keys
               /\ outbox'[worker'[v].msg].status # "absent"
    BY <2>3, <2>4, <2>5, <2>6, WorkerWritten
  <2>8. UNCHANGED <<rows, external, crashes, redrives>>
    BY <1>4 DEF ClaimOne
  <2> QED
    BY <2>5, <2>7, <2>8
<1>5. ASSUME NEW w \in Workers, NEW ok \in BOOLEAN, NEW acc \in BOOLEAN,
             Publish(w, ok, acc)
      PROVE  TypeOK'
  <2> DEFINE me == [worker[w] EXCEPT !.pc = "message", !.ok = ok]
  <2>1. me \in Worker /\ me.msg \in Dispatches /\ me.key \in Keys
    <3>1. /\ worker[w] \in Worker /\ worker[w].msg \in Dispatches
          /\ worker[w].key \in Keys
      BY <1>5 DEF Publish
    <3> HIDE DEF TypeOK
    <3> QED
      BY <3>1 DEF Worker
  <2>2. worker' = [worker EXCEPT ![w] = me]
    BY <1>5 DEF Publish
  <2> HIDE DEF me
  <2>3. sent' \subseteq Keys \X Dispatches /\ acked' \subseteq Dispatches
    BY <1>5 DEF Publish
  <2> QED
    BY <1>5, <2>1, <2>2, <2>3 DEF Publish
<1>6. ASSUME NEW w \in Workers, LoadMessage(w) PROVE TypeOK'
  BY <1>6, LoadMessageTyped
<1>7. ASSUME NEW w \in Workers, LoadDispatch(w) PROVE TypeOK'
  BY <1>7, LoadDispatchTyped
<1>8. ASSUME NEW w \in Workers, LoadReservation(w) PROVE TypeOK'
  BY <1>8, LoadReservationTyped
<1>9. ASSUME NEW w \in Workers, Crash(w) PROVE TypeOK'
  BY <1>9 DEF Crash, Worker, Idle
<1>10. ASSUME NEW w \in Workers, RecordSuccess(w) \/ RecordDead(w) \/ RecordRetry(w)
       PROVE  TypeOK'
  <2> DEFINE d == worker[w].msg
  <2>1. d \in Dispatches /\ worker[w].attempts \in Nat /\ worker[w].pc = "commit"
    BY <1>10 DEF RecordSuccess, RecordDead, RecordRetry, Worker
  <2>2. PICK s \in OutboxStatus, t \in 0..MaxRetry :
          outbox' = [outbox EXCEPT ![d] = Released(d, s, t)]
    <3>1. RetryDelay(worker[w].attempts) \in 0..MaxRetry
      BY <2>1, RetryDelayBounded
    <3>2. outbox[d].wait \in 0..MaxRetry
      BY <2>1, RowFields
    <3> QED
      BY <1>10, <3>1, <3>2
      DEF RecordSuccess, RecordDead, RecordRetry, OutboxStatus
  <2>3. /\ Released(d, s, t) \in Message
        /\ Released(d, s, t).key = outbox[d].key
        /\ outbox[d].status # "absent"
    <3>1. outbox[d].status # "absent" /\ outbox[d] \in Message
      BY <2>1
    <3>2. Released(d, s, t) \in Message
      BY <2>1, ReleasedTyped
    <3>3. Released(d, s, t).key = outbox[d].key
      BY <3>1 DEF Released, Message
    <3> QED
      BY <3>1, <3>2, <3>3
  <2>4. \A e \in Dispatches : outbox'[e].status # "absent" \/ outbox[e].status = "absent"
    <3>1. Released(d, s, t).status = s /\ s # "absent"
      BY <2>1, RowFields DEF Released, Message, OutboxStatus
    <3> QED
      BY <2>1, <2>2, <3>1
  <2>5. worker' = [worker EXCEPT ![w] = Idle] /\ Idle \in Worker /\ Idle.pc = "idle"
    BY <1>10 DEF RecordSuccess, RecordDead, RecordRetry, Idle, Worker
  <2>6. /\ dispatch' \in [Dispatches -> DispatchStatus \cup {"absent"}]
        /\ reservation' \in [Dispatches -> ReservationStatus]
        /\ lastEvent' \in [Dispatches -> EventType \cup {"absent"}]
        /\ settled' = settled
    BY <1>10, <2>1, FinaliseTyped
    DEF RecordSuccess, RecordDead, RecordRetry, DispatchStatus,
        ReservationStatus, EventType
  <2>7. UNCHANGED <<external, crashes, redrives>>
    BY <1>10 DEF RecordSuccess, RecordDead, RecordRetry
  <2>8. /\ outbox' \in [Dispatches -> Message]
        /\ \A e \in Dispatches :
             outbox'[e].status # "absent" => outbox'[e].key \in Keys
        /\ \A e \in Dispatches :
             outbox[e].status # "absent" => outbox'[e].status # "absent"
    <3>1. Released(d, s, t).key \in Keys /\ Released(d, s, t).status # "absent"
      BY <2>1, <2>3, <2>4, <2>2
    <3> QED
      BY <2>1, <2>2, <2>3, <3>1, RowWritten
  <2>9. /\ worker' \in [Workers -> Worker]
        /\ \A v \in Workers :
             worker'[v].pc # "idle" =>
               /\ worker'[v].msg \in Dispatches /\ worker'[v].key \in Keys
               /\ outbox'[worker'[v].msg].status # "absent"
    BY <2>5, <2>8, WorkerWritten
  <2> QED
    BY <2>6, <2>7, <2>8, <2>9
<1>11. ASSUME Tick PROVE TypeOK'
  <2>1. ASSUME NEW d \in Dispatches
        PROVE  /\ outbox'[d] \in Message
               /\ outbox'[d].status = outbox[d].status
               /\ outbox'[d].key = outbox[d].key
    <3>1. /\ Down(outbox[d].wait) \in 0..MaxRetry
          /\ Down(outbox[d].lease) \in NoLease..LeaseSeconds
      BY DownTyped, RowFields, WorkerParameters
    <3>2. outbox'[d] = [outbox[d] EXCEPT !.wait = Down(outbox[d].wait),
                                         !.lease = Down(outbox[d].lease)]
      BY <1>11 DEF Tick
    <3>3. outbox'[d] \in Message
      BY <3>1, <3>2, RowFields DEF Message
    <3> QED
      BY <3>2, <3>3, RowFields DEF Message
  <2>2. outbox' \in [Dispatches -> Message]
    <3>1. outbox' = [d \in Dispatches |-> outbox'[d]]
      BY <1>11 DEF Tick
    <3> QED
      BY <2>1, <3>1
  <2>3. UNCHANGED <<rows, worker, external, crashes, redrives>>
    BY <1>11 DEF Tick
  <2> QED
    BY <2>1, <2>2, <2>3
<1>12. CASE UNCHANGED vars
  BY <1>12 DEF vars
<1> QED
  BY <1>1, <1>2, <1>3, <1>4, <1>5, <1>6, <1>7, <1>8, <1>9, <1>10, <1>11, <1>12
  DEF Next, WorkerStep

\* Type correctness of the delivery protocol: every column and every local
\* variable keeps its domain in every behaviour, whatever the constants.
THEOREM TypeCorrect == Spec => []TypeOK
<1> QED
  BY InitTyped, NextTyped, PTL DEF Spec

-----------------------------------------------------------------------------
(* What holds however workers overtake each other.                         *)

\* A status that stands for delivery was preceded by an acknowledgement.
AckInv ==
  /\ \A d \in Dispatches :
       \/ dispatch[d] \in {"issued", "completed"}
       \/ reservation[d] \in {"dispatched", "completed"}
       \/ d \in settled
       => d \in acked
  /\ \A w \in Workers : worker[w].ok => worker[w].msg \in acked

\* Keys are handed out once and travel unchanged.
KeyInv ==
  /\ \A d \in Dispatches : reservation[d] = "reserved" => outbox[d].status = "absent"
  /\ \A d \in Dispatches : outbox[d].status = "absent" => outbox[d].key = None
  /\ \A d, e \in Dispatches :
       outbox[d].key = outbox[e].key /\ outbox[d].key # None => d = e
  /\ \A w \in Workers :
       worker[w].pc # "idle" => outbox[worker[w].msg].key = worker[w].key
  /\ \A p \in sent : outbox[p[2]].key = p[1]

RacingInv == TypeOK /\ AckInv /\ KeyInv /\ ClaimIsLeased

\* RacingInv holds before anything is dispatched.
LEMMA InitRacing == Init => RacingInv
<1> SUFFICES ASSUME Init PROVE RacingInv
  OBVIOUS
<1>1. TypeOK
  BY InitTyped
<1>2. AckInv
  BY DEF Init, AckInv, Idle
<1>3. KeyInv
  BY DEF Init, KeyInv, Idle, NoMessage
<1>4. ClaimIsLeased
  BY DEF Init, ClaimIsLeased, NoMessage
<1> QED
  BY <1>1, <1>2, <1>3, <1>4 DEF RacingInv

\* Every step keeps AckInv: run_once records a success only after publish returned.
LEMMA AckStep == TypeOK /\ AckInv /\ [Next]_vars => AckInv'
<1> SUFFICES ASSUME TypeOK, AckInv, [Next]_vars PROVE AckInv'
  OBVIOUS
<1> USE DEF TypeOK, AckInv, rows, external
<1>1. ASSUME NEW d \in Dispatches, NEW k \in Keys, IssueDispatch(d, k)
      PROVE  AckInv'
  BY <1>1 DEF IssueDispatch
<1>2. ASSUME NEW d \in Dispatches, SettleReservation(d) PROVE AckInv'
  BY <1>2 DEF SettleReservation
<1>3. ASSUME NEW d \in Dispatches, AuthorizeRedrive(d) PROVE AckInv'
  BY <1>3 DEF AuthorizeRedrive
<1>4. ASSUME NEW w \in Workers, NEW d \in Dispatches, ClaimOne(w, d)
      PROVE  AckInv'
  BY <1>4 DEF ClaimOne, Idle
<1>5. ASSUME NEW w \in Workers, NEW ok \in BOOLEAN, NEW acc \in BOOLEAN,
             Publish(w, ok, acc)
      PROVE  AckInv'
  <2>1. /\ worker'[w].msg = worker[w].msg /\ worker'[w].ok = ok
        /\ \A v \in Workers \ {w} : worker'[v] = worker[v]
    BY <1>5 DEF Publish, Worker
  <2>2. acked \subseteq acked' /\ (ok => worker[w].msg \in acked')
    BY <1>5 DEF Publish
  <2> QED
    BY <1>5, <2>1, <2>2 DEF Publish
<1>6. ASSUME NEW w \in Workers, LoadMessage(w) PROVE AckInv'
  <2>1. \/ worker'[w] = Idle
        \/ worker'[w].ok = worker[w].ok /\ worker'[w].msg = worker[w].msg
    BY <1>6 DEF LoadMessage, Worker
  <2>2. /\ \A v \in Workers \ {w} : worker'[v] = worker[v]
        /\ UNCHANGED <<rows, external>>
    BY <1>6 DEF LoadMessage
  <2>3. ~Idle.ok /\ Idle.pc = "idle"
    BY DEF Idle
  <2> QED
    BY <1>6, <2>1, <2>2, <2>3 DEF LoadMessage
<1>7. ASSUME NEW w \in Workers, LoadDispatch(w) \/ LoadReservation(w)
      PROVE  AckInv'
  <2>1. worker'[w].ok = worker[w].ok /\ worker'[w].msg = worker[w].msg
    <3>1. CASE LoadDispatch(w)
      BY <3>1 DEF LoadDispatch, Worker
    <3>2. CASE LoadReservation(w)
      BY <3>2 DEF LoadReservation, Worker
    <3> QED
      BY <1>7, <3>1, <3>2
  <2> QED
    BY <1>7, <2>1 DEF LoadDispatch, LoadReservation
<1>8. ASSUME NEW w \in Workers, RecordSuccess(w) PROVE AckInv'
  BY <1>8 DEF RecordSuccess, Finalise, Flush, Idle
<1>9. ASSUME NEW w \in Workers, RecordDead(w) PROVE AckInv'
  BY <1>9 DEF RecordDead, Finalise, Flush, Idle
<1>10. ASSUME NEW w \in Workers, RecordRetry(w) \/ Crash(w) PROVE AckInv'
  BY <1>10 DEF RecordRetry, Crash, Idle
<1>11. CASE Tick \/ UNCHANGED vars
  BY <1>11 DEF Tick, vars
<1> QED
  BY <1>1, <1>2, <1>3, <1>4, <1>5, <1>6, <1>7, <1>8, <1>9, <1>10, <1>11
  DEF Next, WorkerStep

-----------------------------------------------------------------------------
(* What each kind of step does to the message rows and to the workers.     *)

\* What issue_dispatch does to the outbox.
LEMMA IssueEffect ==
  ASSUME TypeOK, NEW d \in Dispatches, NEW k \in Keys, IssueDispatch(d, k)
  PROVE  /\ \A e \in Dispatches \ {d} : outbox'[e] = outbox[e]
         /\ outbox'[d].status = "pending" /\ outbox'[d].attempts = 0
         /\ outbox'[d].lease = NoLease /\ outbox'[d].lockedBy = None
         /\ outbox'[d].key = k
         /\ worker' = worker
BY DEF TypeOK, IssueDispatch, Enqueued, NoMessage

\* What an authorised re-drive does to the outbox.
LEMMA RedriveEffect ==
  ASSUME TypeOK, NEW d \in Dispatches, AuthorizeRedrive(d)
  PROVE  /\ \A e \in Dispatches \ {d} : outbox'[e] = outbox[e]
         /\ outbox'[d].status = "pending" /\ outbox'[d].attempts = 0
         /\ outbox'[d].lease = NoLease /\ outbox'[d].lockedBy = None
         /\ outbox'[d].key = outbox[d].key
         /\ worker' = worker
BY RowFields DEF TypeOK, AuthorizeRedrive, Message

\* What _claim_one does to the outbox.
LEMMA ClaimEffect ==
  ASSUME TypeOK, NEW w \in Workers, NEW d \in Dispatches, ClaimOne(w, d)
  PROVE  /\ \A e \in Dispatches \ {d} : outbox'[e] = outbox[e]
         /\ outbox'[d].status = "processing"
         /\ outbox'[d].lockedBy = w
         /\ outbox'[d].key = outbox[d].key
         /\ \A v \in Workers \ {w} : worker'[v] = worker[v]
         /\ worker'[w].pc = "publish" /\ worker'[w].msg = d
         /\ worker'[w].key = outbox[d].key
<1>1. outbox[d] \in Message
  BY RowFields
<1>2. outbox'[d] = [outbox[d] EXCEPT !.status = "processing",
                      !.attempts = outbox[d].attempts + 1,
                      !.lease = LeaseSeconds, !.lockedBy = w]
  BY DEF ClaimOne, ClaimToken, TypeOK
<1>3. /\ outbox'[d].status = "processing" /\ outbox'[d].lockedBy = w
      /\ outbox'[d].key = outbox[d].key
  BY <1>1, <1>2 DEF Message
<1>4. /\ \A e \in Dispatches \ {d} : outbox'[e] = outbox[e]
      /\ \A v \in Workers \ {w} : worker'[v] = worker[v]
  BY DEF TypeOK, ClaimOne
<1>5. worker'[w] = [Idle EXCEPT !.pc = "publish", !.msg = d, !.key = outbox[d].key]
  BY DEF TypeOK, ClaimOne
<1> QED
  BY <1>3, <1>4, <1>5 DEF Idle

\* _claim_one adds one attempt to the row it claims and to no other.
LEMMA ClaimCounts ==
  ASSUME TypeOK, NEW w \in Workers, NEW d \in Dispatches, ClaimOne(w, d)
  PROVE  /\ outbox'[d].attempts = outbox[d].attempts + 1
         /\ outbox'[d].lease = LeaseSeconds
<1>1. outbox[d] \in Message
  BY RowFields
<1>2. outbox'[d] = [outbox[d] EXCEPT !.status = "processing",
                      !.attempts = outbox[d].attempts + 1,
                      !.lease = LeaseSeconds, !.lockedBy = w]
  BY DEF ClaimOne, ClaimToken, TypeOK
<1> QED
  BY <1>1, <1>2 DEF Message

\* Between its claim and its commit a worker changes no row.
LEMMA ProgressEffect ==
  ASSUME TypeOK, NEW w \in Workers,
         \/ \E ok, acc \in BOOLEAN : Publish(w, ok, acc)
         \/ LoadMessage(w) \/ LoadDispatch(w) \/ LoadReservation(w)
  PROVE  /\ outbox' = outbox
         /\ \A v \in Workers \ {w} : worker'[v] = worker[v]
         /\ worker[w].pc # "idle"
         /\ \/ worker'[w] = Idle
            \/ /\ worker'[w].msg = worker[w].msg
               /\ worker'[w].key = worker[w].key
<1>1. worker \in [Workers -> Worker] /\ worker[w] \in Worker
  BY DEF TypeOK
<1>2. ASSUME NEW ok \in BOOLEAN, NEW acc \in BOOLEAN, Publish(w, ok, acc)
      PROVE  /\ outbox' = outbox /\ worker[w].pc # "idle"
             /\ \A v \in Workers \ {w} : worker'[v] = worker[v]
             /\ worker'[w].msg = worker[w].msg /\ worker'[w].key = worker[w].key
  <2>1. /\ outbox' = outbox /\ worker[w].pc # "idle"
        /\ worker' = [worker EXCEPT ![w] =
                        [worker[w] EXCEPT !.pc = "message", !.ok = ok]]
    BY <1>2 DEF Publish
  <2> QED BY <1>1, <2>1 DEF Worker
<1>3. CASE \E ok, acc \in BOOLEAN : Publish(w, ok, acc)
  BY <1>2, <1>3
<1>4. CASE LoadMessage(w)
  <2>1. /\ outbox' = outbox /\ worker[w].pc # "idle"
        /\ \A v \in Workers \ {w} : worker'[v] = worker[v]
    BY <1>1, <1>4 DEF LoadMessage
  <2>2. CASE outbox[worker[w].msg].lockedBy # ClaimToken(w)
    <3>1. worker' = [worker EXCEPT ![w] = Idle]
      BY <1>4, <2>2 DEF LoadMessage
    <3> QED BY <1>1, <2>1, <3>1
  <2>3. CASE outbox[worker[w].msg].lockedBy = ClaimToken(w)
    <3>1. PICK p : worker' = [worker EXCEPT ![w] =
                      [worker[w] EXCEPT
                         !.attempts = outbox[worker[w].msg].attempts, !.pc = p]]
      BY <1>4, <2>3 DEF LoadMessage
    <3> QED BY <1>1, <2>1, <3>1 DEF Worker
  <2> QED BY <2>2, <2>3
<1>5. CASE LoadDispatch(w)
  BY <1>1, <1>5 DEF LoadDispatch, Worker
<1>6. CASE LoadReservation(w)
  BY <1>1, <1>6 DEF LoadReservation, Worker
<1> QED
  BY <1>3, <1>4, <1>5, <1>6

\* What a finalising worker does to the outbox.
LEMMA ReleaseEffect ==
  ASSUME TypeOK, NEW w \in Workers,
         RecordSuccess(w) \/ RecordDead(w) \/ RecordRetry(w),
         NEW d, d = worker[w].msg
  PROVE  /\ d \in Dispatches
         /\ \A e \in Dispatches \ {d} : outbox'[e] = outbox[e]
         /\ outbox'[d].status \in {"pending", "published", "dead"}
         /\ RecordSuccess(w) => outbox'[d].status = "published"
         /\ RecordDead(w) => outbox'[d].status = "dead"
         /\ RecordRetry(w) => outbox'[d].status = "pending"
         /\ outbox'[d].lease = NoLease /\ outbox'[d].lockedBy = None
         /\ outbox'[d].attempts = outbox[d].attempts
         /\ outbox'[d].key = outbox[d].key
         /\ worker' = [worker EXCEPT ![w] = Idle]
<1>1. d \in Dispatches /\ worker' = [worker EXCEPT ![w] = Idle]
  BY DEF TypeOK, RecordSuccess, RecordDead, RecordRetry
<1>2. ASSUME NEW st, NEW t, outbox' = [outbox EXCEPT ![d] = Released(d, st, t)]
      PROVE  /\ \A e \in Dispatches \ {d} : outbox'[e] = outbox[e]
             /\ outbox'[d].status = st
             /\ outbox'[d].lease = NoLease /\ outbox'[d].lockedBy = None
             /\ outbox'[d].attempts = outbox[d].attempts
             /\ outbox'[d].key = outbox[d].key
  BY <1>1, <1>2, RowFields DEF TypeOK, Released, Message
<1>3. CASE RecordSuccess(w)
  BY <1>1, <1>2, <1>3 DEF RecordSuccess, RecordDead, RecordRetry
<1>4. CASE RecordDead(w)
  BY <1>1, <1>2, <1>4 DEF RecordSuccess, RecordDead, RecordRetry
<1>5. CASE RecordRetry(w)
  BY <1>1, <1>2, <1>5 DEF RecordSuccess, RecordDead, RecordRetry
<1> QED
  BY <1>3, <1>4, <1>5

\* A second changes timers only.
LEMMA TickEffect ==
  ASSUME TypeOK, Tick, NEW d \in Dispatches
  PROVE  /\ outbox'[d].status = outbox[d].status
         /\ outbox'[d].attempts = outbox[d].attempts
         /\ outbox'[d].lockedBy = outbox[d].lockedBy
         /\ outbox'[d].key = outbox[d].key
         /\ outbox'[d].lease = Down(outbox[d].lease)
         /\ worker' = worker
<1>1. outbox[d] \in Message
  BY RowFields
<1>2. outbox'[d] = [outbox[d] EXCEPT !.wait = Down(outbox[d].wait),
                                     !.lease = Down(outbox[d].lease)]
  BY DEF Tick
<1> QED
  BY <1>1, <1>2 DEF Message, Tick

\* KeyInv survives a step that keeps the keys and who is used, and gives no worker
\* another message.
LEMMA KeyFrame ==
  ASSUME TypeOK, KeyInv,
         \A e \in Dispatches :
           /\ outbox'[e].key = outbox[e].key
           /\ outbox'[e].status = "absent" <=> outbox[e].status = "absent"
           /\ reservation'[e] = "reserved" => reservation[e] = "reserved",
         \A v \in Workers :
           worker'[v].pc # "idle" =>
             /\ worker[v].pc # "idle"
             /\ worker'[v].msg = worker[v].msg /\ worker'[v].key = worker[v].key,
         sent' = sent
  PROVE  KeyInv'
<1>1. \A v \in Workers : worker[v].pc # "idle" => worker[v].msg \in Dispatches
  BY DEF TypeOK
<1>2. \A p \in sent : p[2] \in Dispatches
  BY DEF TypeOK
<1> QED
  BY <1>1, <1>2 DEF KeyInv

-----------------------------------------------------------------------------
\* Every step keeps KeyInv: a key, once given to a dispatch, travels with it.
LEMMA KeyStep == TypeOK /\ KeyInv /\ [Next]_vars => KeyInv'
<1> SUFFICES ASSUME TypeOK, KeyInv, [Next]_vars PROVE KeyInv'
  OBVIOUS
<1> USE Bounds DEF TypeOK, KeyInv, rows, external
<1>1. ASSUME NEW d \in Dispatches, NEW k \in Keys, IssueDispatch(d, k)
      PROVE  KeyInv'
  <2>1. /\ outbox[d].status = "absent" /\ outbox[d].key = None /\ k # None
        /\ \A e \in Dispatches : outbox[e].key # k
        /\ sent' = sent
    BY <1>1 DEF IssueDispatch, KeyUnused
  <2>2. reservation'[d] = "dispatch_pending"
        /\ \A e \in Dispatches \ {d} : reservation'[e] = reservation[e]
    BY <1>1 DEF IssueDispatch
  <2> QED
    BY <1>1, <2>1, <2>2, IssueEffect
<1>2. ASSUME NEW d \in Dispatches, SettleReservation(d) PROVE KeyInv'
  BY <1>2 DEF SettleReservation
<1>3. ASSUME NEW d \in Dispatches, AuthorizeRedrive(d) PROVE KeyInv'
  <2>1. /\ outbox[d].status # "absent" /\ sent' = sent
        /\ \A e \in Dispatches : reservation'[e] = "reserved" =>
             reservation[e] = "reserved" /\ e # d
    BY <1>3 DEF AuthorizeRedrive
  <2> QED
    BY <1>3, <2>1, RedriveEffect
<1>4. ASSUME NEW w \in Workers, NEW d \in Dispatches, ClaimOne(w, d)
      PROVE  KeyInv'
  <2>1. /\ outbox[d].status # "absent" /\ sent' = sent
        /\ reservation' = reservation
    BY <1>4 DEF ClaimOne, Due
  <2>2. /\ \A e \in Dispatches \ {d} : outbox'[e] = outbox[e]
        /\ outbox'[d].key = outbox[d].key /\ outbox'[d].status = "processing"
        /\ \A v \in Workers \ {w} : worker'[v] = worker[v]
        /\ worker'[w].msg = d /\ worker'[w].key = outbox[d].key
    BY <1>4, ClaimEffect
  <2>3. \A e \in Dispatches : outbox'[e].key = outbox[e].key
                              /\ (outbox'[e].status = "absent" <=>
                                  outbox[e].status = "absent")
    BY <2>1, <2>2
  <2> QED
    BY <2>1, <2>2, <2>3
<1>5. ASSUME NEW w \in Workers, NEW ok \in BOOLEAN, NEW acc \in BOOLEAN,
             Publish(w, ok, acc)
      PROVE  KeyInv'
  <2>1. reservation' = reservation
        /\ \A p \in sent' : p \in sent \/ p = <<worker[w].key, worker[w].msg>>
    BY <1>5 DEF Publish
  <2>2. worker[w].pc # "idle"
    BY <1>5 DEF Publish
  <2> QED
    BY <1>5, <2>1, <2>2, ProgressEffect DEF Idle
<1>6. ASSUME NEW w \in Workers,
             LoadMessage(w) \/ LoadDispatch(w) \/ LoadReservation(w)
      PROVE  KeyInv'
  <2>1. reservation' = reservation /\ sent' = sent
    BY <1>6 DEF LoadMessage, LoadDispatch, LoadReservation
  <2>2. Idle.pc = "idle"
    BY DEF Idle
  <2> HIDE DEF TypeOK, KeyInv
  <2>3. /\ outbox' = outbox
        /\ \A v \in Workers \ {w} : worker'[v] = worker[v]
        /\ worker[w].pc # "idle"
        /\ \/ worker'[w] = Idle
           \/ worker'[w].msg = worker[w].msg /\ worker'[w].key = worker[w].key
    BY <1>6, ProgressEffect
  <2> QED
    BY <2>1, <2>2, <2>3, KeyFrame
<1>7. ASSUME NEW w \in Workers, RecordSuccess(w) \/ RecordDead(w) \/ RecordRetry(w)
      PROVE  KeyInv'
  <2>1. /\ sent' = sent
        /\ \A e \in Dispatches : reservation'[e] = "reserved" =>
             reservation[e] = "reserved"
    BY <1>7 DEF RecordSuccess, RecordDead, RecordRetry, Finalise, Flush
  <2>2. worker[w].pc # "idle"
    BY <1>7 DEF RecordSuccess, RecordDead, RecordRetry
  <2> DEFINE d == worker[w].msg
  <2>3. d \in Dispatches /\ outbox[d].status # "absent"
    BY <2>2
  <2>4. \A e \in Dispatches : outbox'[e].key = outbox[e].key
                              /\ (outbox'[e].status = "absent" <=>
                                  outbox[e].status = "absent")
    BY <1>7, <2>3, ReleaseEffect
  <2>5. worker' = [worker EXCEPT ![w] = Idle] /\ Idle.pc = "idle"
    BY <1>7 DEF RecordSuccess, RecordDead, RecordRetry, Idle
  <2>6. \A v \in Workers : worker'[v].pc # "idle" => worker'[v] = worker[v]
    BY <2>5
  <2> HIDE DEF TypeOK, KeyInv
  <2> QED
    BY <2>1, <2>4, <2>6, KeyFrame
<1>8. ASSUME NEW w \in Workers, Crash(w) PROVE KeyInv'
  BY <1>8 DEF Crash, Idle
<1>9. CASE Tick
  <2>1. sent' = sent /\ reservation' = reservation
    BY <1>9 DEF Tick
  <2>2. /\ worker' = worker
        /\ \A d \in Dispatches : outbox'[d].key = outbox[d].key
                                 /\ outbox'[d].status = outbox[d].status
    <3>1. ASSUME NEW d \in Dispatches
          PROVE  /\ outbox'[d].key = outbox[d].key
                 /\ outbox'[d].status = outbox[d].status
      BY <1>9, TickEffect, Zenon
    <3> QED
      BY <1>9, <3>1 DEF Tick
  <2> QED
    BY <2>1, <2>2
<1>10. CASE UNCHANGED vars
  BY <1>10 DEF vars
<1> HIDE DEF TypeOK, KeyInv, rows, external
<1> QED
  BY <1>1, <1>2, <1>3, <1>4, <1>5, <1>6, <1>7, <1>8, <1>9, <1>10
  DEF Next, WorkerStep

\* Every step keeps ClaimIsLeased, stale finalisations included.
LEMMA LeaseStep == TypeOK /\ ClaimIsLeased /\ [Next]_vars => ClaimIsLeased'
<1> SUFFICES ASSUME TypeOK, ClaimIsLeased, [Next]_vars PROVE ClaimIsLeased'
  OBVIOUS
<1> USE DEF ClaimIsLeased
<1>1. ASSUME NEW d \in Dispatches, NEW k \in Keys, IssueDispatch(d, k)
      PROVE  ClaimIsLeased'
  BY <1>1, IssueEffect
<1>2. ASSUME NEW d \in Dispatches, AuthorizeRedrive(d) PROVE ClaimIsLeased'
  BY <1>2, RedriveEffect
<1>3. ASSUME NEW w \in Workers, NEW d \in Dispatches, ClaimOne(w, d)
      PROVE  ClaimIsLeased'
  <2>1. LeaseSeconds # NoLease /\ w # None
    BY WorkerParameters, Bounds DEF NoLease
  <2>2. /\ \A e \in Dispatches \ {d} : outbox'[e] = outbox[e]
        /\ outbox'[d].status = "processing"
        /\ outbox'[d].lockedBy = w
    BY <1>3, ClaimEffect
  <2>3. outbox'[d].lease # NoLease /\ outbox'[d].lockedBy # None
    BY <1>3, <2>1, <2>2, ClaimCounts
  <2> QED
    BY <2>2, <2>3
<1>4. ASSUME NEW w \in Workers, RecordSuccess(w) \/ RecordDead(w) \/ RecordRetry(w)
      PROVE  ClaimIsLeased'
  BY <1>4, ReleaseEffect
<1>5. CASE Tick
  <2>1. \A d \in Dispatches : Down(outbox[d].lease) = NoLease <=>
                              outbox[d].lease = NoLease
    BY RowFields DEF Down, NoLease
  <2> QED
    BY <1>5, <2>1, TickEffect
<1>6. CASE outbox' = outbox
  BY <1>6
<1> QED
  BY <1>1, <1>2, <1>3, <1>4, <1>5, <1>6
  DEF Next, WorkerStep, SettleReservation, Publish, LoadMessage, LoadDispatch,
      LoadReservation, Crash, vars

\* RacingInv is invariant, whatever the leases do.
LEMMA RacingCorrect == Spec => []RacingInv
<1>1. RacingInv /\ [Next]_vars => RacingInv'
  BY NextTyped, AckStep, KeyStep, LeaseStep DEF RacingInv
<1> QED
  BY <1>1, InitRacing, PTL DEF Spec

\* With any number of workers, of any speed, crashing at any point: what is
\* settled was acknowledged by its publisher.
THEOREM SettlementNeedsAck == Spec => []SettledWasAcknowledged
<1>1. RacingInv => SettledWasAcknowledged
  BY DEF RacingInv, AckInv, TypeOK, SettledWasAcknowledged
<1> QED
  BY <1>1, RacingCorrect, PTL

\* With any number of workers, of any speed: downstream, key and dispatch
\* determine each other, so a destination that deduplicates on the key executes
\* each dispatch at most once.
THEOREM KeyIdentifiesEffect == Spec => []OneKeyPerEffect
<1>1. RacingInv => OneKeyPerEffect
  <2> SUFFICES ASSUME RacingInv, NEW p \in sent, NEW q \in sent
               PROVE  p[1] = q[1] <=> p[2] = q[2]
    BY DEF OneKeyPerEffect
  <2>1. /\ p[2] \in Dispatches /\ q[2] \in Dispatches
        /\ p[1] \in Keys /\ q[1] \in Keys
    BY DEF RacingInv, TypeOK
  <2> QED
    BY <2>1, Bounds DEF RacingInv, KeyInv
<1> QED
  BY <1>1, RacingCorrect, PTL

\* With any number of workers, of any speed: every row in processing has a
\* holder and a lease, so it becomes claimable again, and no other row has.
THEOREM NoStrandedClaim == Spec => []ClaimIsLeased
<1>1. RacingInv => ClaimIsLeased
  BY DEF RacingInv
<1> QED
  BY <1>1, RacingCorrect, PTL

-----------------------------------------------------------------------------
(* What holds when claims are exclusive: workers finish before their lease  *)
(* runs out, or there is only one.                                          *)

ExclusiveClaims == PromptWorkers \/ \A v, w \in Workers : v = w

Busy(w) == worker[w].pc # "idle"

\* A busy worker still owns the row it claimed, and its lease runs.
OwnerInv ==
  \A w \in Workers : Busy(w) =>
    /\ outbox[worker[w].msg].status = "processing"
    /\ outbox[worker[w].msg].lockedBy = w
    /\ PromptWorkers => outbox[worker[w].msg].lease > 0

\* What a worker has loaded is still what the rows say.
LoadedInv ==
  \A w \in Workers :
    /\ worker[w].pc \in {"dispatch", "reservation", "commit"} =>
         worker[w].attempts = outbox[worker[w].msg].attempts
    /\ worker[w].pc \in {"reservation", "commit"}
         /\ (worker[w].ok \/ Exhausted(worker[w].attempts)) =>
           worker[w].dispatch = "queued"
    /\ worker[w].pc = "commit"
         /\ (worker[w].ok \/ Exhausted(worker[w].attempts)) =>
           worker[w].reservation = "dispatch_pending"

ExclusiveInv ==
  /\ RacingInv
  /\ OwnerInv
  /\ LoadedInv
  /\ RowsAgree
  /\ AuditExplainsRows

\* A row that may be claimed has no busy worker.
LEMMA DueIsUnowned ==
  ASSUME ExclusiveClaims, TypeOK, OwnerInv,
         NEW w \in Workers, NEW d \in Dispatches, ClaimOne(w, d),
         NEW v \in Workers, Busy(v)
  PROVE  worker[v].msg # d /\ v # w
<1>1. v # w
  BY DEF ClaimOne, Busy
<1>2. PromptWorkers
  BY <1>1 DEF ExclusiveClaims
<1>3. ASSUME worker[v].msg = d PROVE FALSE
  <2>1. outbox[d].status = "processing" /\ outbox[d].lease > 0
    BY <1>2, <1>3 DEF OwnerInv
  <2>2. outbox[d].lease = 0
    BY <2>1 DEF ClaimOne, Due
  <2> QED
    BY <2>1, <2>2
<1> QED
  BY <1>1, <1>3

\* The worker that moves leaves the others, and other rows, alone: a row that a
\* step of someone else changes has no busy worker.
LEMMA OwnerStep ==
  ASSUME ExclusiveClaims, ExclusiveInv, [Next]_vars
  PROVE  OwnerInv'
<1> USE DEF ExclusiveInv, RacingInv, OwnerInv, Busy
<1>0. \A w \in Workers : Busy(w) => worker[w].msg \in Dispatches
  BY DEF TypeOK
<1>1. ASSUME NEW d \in Dispatches, NEW k \in Keys, IssueDispatch(d, k)
      PROVE  OwnerInv'
  <2>1. \A w \in Workers : Busy(w) => worker[w].msg # d
    BY <1>1 DEF IssueDispatch, KeyInv
  <2> QED
    BY <1>0, <1>1, <2>1, IssueEffect
<1>2. ASSUME NEW d \in Dispatches, AuthorizeRedrive(d) PROVE OwnerInv'
  <2>1. \A w \in Workers : Busy(w) => worker[w].msg # d
    BY <1>2 DEF AuthorizeRedrive
  <2> QED
    BY <1>0, <1>2, <2>1, RedriveEffect
<1>3. ASSUME NEW w \in Workers, NEW d \in Dispatches, ClaimOne(w, d)
      PROVE  OwnerInv'
  <2>1. ASSUME NEW v \in Workers, Busy(v)
        PROVE  worker[v].msg # d /\ v # w
    BY <1>3, <2>1, DueIsUnowned
  <2>2. outbox'[d].lease > 0
    BY <1>3, ClaimCounts, WorkerParameters
  <2> QED
    BY <1>0, <1>3, <2>1, <2>2, ClaimEffect
<1>4. ASSUME NEW w \in Workers,
             \/ \E ok, acc \in BOOLEAN : Publish(w, ok, acc)
             \/ LoadMessage(w) \/ LoadDispatch(w) \/ LoadReservation(w)
      PROVE  OwnerInv'
  BY <1>4, ProgressEffect DEF Idle
<1>5. ASSUME NEW w \in Workers, RecordSuccess(w) \/ RecordDead(w) \/ RecordRetry(w)
      PROVE  OwnerInv'
  <2>1. Busy(w)
    BY <1>5 DEF RecordSuccess, RecordDead, RecordRetry
  <2>2. ASSUME NEW v \in Workers, Busy(v), v # w
        PROVE  worker[v].msg # worker[w].msg
    BY <2>1, <2>2
  <2>3. worker' = [worker EXCEPT ![w] = Idle]
        /\ \A e \in Dispatches \ {worker[w].msg} : outbox'[e] = outbox[e]
    BY <1>5, ReleaseEffect
  <2> QED
    BY <1>0, <2>2, <2>3 DEF Idle, TypeOK
<1>6. ASSUME NEW w \in Workers, Crash(w) PROVE OwnerInv'
  BY <1>6 DEF Crash, Idle, TypeOK
<1>7. CASE Tick
  <2>1. ASSUME NEW w \in Workers, Busy(w)
        PROVE  /\ outbox'[worker[w].msg].status = "processing"
               /\ outbox'[worker[w].msg].lockedBy = w
               /\ PromptWorkers => outbox'[worker[w].msg].lease > 0
    <3>1. PromptWorkers => outbox[worker[w].msg].lease > 1
      BY <1>7, <2>1 DEF Tick
    <3>2. outbox[worker[w].msg].lease \in NoLease..LeaseSeconds
      BY <1>0, <2>1, RowFields
    <3>3. PromptWorkers => Down(outbox[worker[w].msg].lease) > 0
      BY <3>1, <3>2, WorkerParameters DEF Down, NoLease
    <3> QED
      BY <1>0, <1>7, <2>1, <3>3, TickEffect
  <2>2. worker' = worker
    BY <1>7 DEF Tick
  <2> QED
    BY <2>1, <2>2
<1>8. CASE outbox' = outbox /\ worker' = worker
  BY <1>8
<1> QED
  BY <1>1, <1>2, <1>3, <1>4, <1>5, <1>6, <1>7, <1>8
  DEF Next, WorkerStep, SettleReservation, vars

\* Nobody but its worker touches the rows of a claimed dispatch, so what the
\* worker loaded stays true until it commits.
LEMMA LoadedStep ==
  ASSUME ExclusiveClaims, ExclusiveInv, [Next]_vars
  PROVE  LoadedInv'
<1> USE DEF ExclusiveInv, RacingInv, LoadedInv
<1>0. \A w \in Workers : Busy(w) => worker[w].msg \in Dispatches
  BY DEF TypeOK, Busy
<1>1. ASSUME NEW d \in Dispatches, NEW k \in Keys, IssueDispatch(d, k)
      PROVE  LoadedInv'
  <2>1. \A w \in Workers : Busy(w) => worker[w].msg # d
    BY <1>1 DEF IssueDispatch, KeyInv, OwnerInv
  <2> QED
    BY <1>0, <1>1, <2>1, IssueEffect DEF Busy
<1>2. ASSUME NEW d \in Dispatches, AuthorizeRedrive(d) PROVE LoadedInv'
  <2>1. \A w \in Workers : Busy(w) => worker[w].msg # d
    BY <1>2 DEF AuthorizeRedrive, OwnerInv
  <2> QED
    BY <1>0, <1>2, <2>1, RedriveEffect DEF Busy
<1>3. ASSUME NEW w \in Workers, NEW d \in Dispatches, ClaimOne(w, d)
      PROVE  LoadedInv'
  <2>1. ASSUME NEW v \in Workers, Busy(v)
        PROVE  worker[v].msg # d /\ v # w
    BY <1>3, <2>1, DueIsUnowned
  <2> QED
    BY <1>0, <1>3, <2>1, ClaimEffect DEF Busy
<1>4. ASSUME NEW w \in Workers, NEW ok \in BOOLEAN, NEW acc \in BOOLEAN,
             Publish(w, ok, acc)
      PROVE  LoadedInv'
  <2>1. worker'[w].pc = "message" /\ outbox' = outbox
        /\ \A v \in Workers \ {w} : worker'[v] = worker[v]
    BY <1>4 DEF Publish, TypeOK, Worker
  <2> QED
    BY <2>1
<1>5. ASSUME NEW w \in Workers, LoadMessage(w) PROVE LoadedInv'
  <2>1. \/ worker'[w].pc = "idle"
        \/ /\ worker'[w].pc = "dispatch"
           /\ worker'[w].msg = worker[w].msg
           /\ worker'[w].attempts = outbox[worker[w].msg].attempts
        \/ /\ worker'[w].pc = "commit"
           /\ worker'[w].msg = worker[w].msg
           /\ worker'[w].attempts = outbox[worker[w].msg].attempts
           /\ ~worker'[w].ok /\ ~Exhausted(worker'[w].attempts)
    BY <1>5 DEF LoadMessage, TypeOK, Worker, Idle
  <2>2. outbox' = outbox /\ \A v \in Workers \ {w} : worker'[v] = worker[v]
    BY <1>5 DEF LoadMessage, TypeOK
  <2> QED
    BY <2>1, <2>2
<1>6. ASSUME NEW w \in Workers, LoadDispatch(w) \/ LoadReservation(w)
      PROVE  LoadedInv'
  <2>1. Busy(w) /\ worker[w].msg \in Dispatches
    BY <1>0, <1>6 DEF LoadDispatch, LoadReservation, Busy
  <2>2. dispatch[worker[w].msg] = "queued"
        /\ reservation[worker[w].msg] = "dispatch_pending"
    BY <2>1 DEF OwnerInv, RowsAgree
  <2>3. /\ worker'[w].msg = worker[w].msg /\ worker'[w].ok = worker[w].ok
        /\ worker'[w].attempts = worker[w].attempts
        /\ \/ /\ worker'[w].pc = "reservation" /\ worker[w].pc = "dispatch"
              /\ worker'[w].dispatch = "queued"
           \/ /\ worker'[w].pc = "commit" /\ worker[w].pc = "reservation"
              /\ worker'[w].dispatch = worker[w].dispatch
              /\ worker'[w].reservation = "dispatch_pending"
    <3>1. worker[w] \in Worker
      BY DEF TypeOK
    <3>2. CASE LoadDispatch(w)
      <4>1. worker'[w] = [worker[w] EXCEPT !.pc = "reservation",
                                           !.dispatch = "queued"]
        BY <2>2, <3>2 DEF LoadDispatch, TypeOK
      <4>2. worker'[w].msg = worker[w].msg /\ worker'[w].ok = worker[w].ok
        BY <3>1, <4>1 DEF Worker
      <4>3. worker'[w].attempts = worker[w].attempts
        BY <3>1, <4>1 DEF Worker
      <4>4. worker'[w].pc = "reservation" /\ worker'[w].dispatch = "queued"
        BY <3>1, <4>1 DEF Worker
      <4> QED
        BY <3>2, <4>2, <4>3, <4>4 DEF LoadDispatch
    <3>3. CASE LoadReservation(w)
      <4>1. worker'[w] = [worker[w] EXCEPT !.pc = "commit",
                                           !.reservation = "dispatch_pending"]
        BY <2>2, <3>3 DEF LoadReservation, TypeOK
      <4>2. worker'[w].msg = worker[w].msg /\ worker'[w].ok = worker[w].ok
        BY <3>1, <4>1 DEF Worker
      <4>3. worker'[w].attempts = worker[w].attempts
        BY <3>1, <4>1 DEF Worker
      <4>4. /\ worker'[w].pc = "commit"
            /\ worker'[w].dispatch = worker[w].dispatch
            /\ worker'[w].reservation = "dispatch_pending"
        BY <3>1, <4>1 DEF Worker
      <4> QED
        BY <3>3, <4>2, <4>3, <4>4 DEF LoadReservation
    <3> QED
      BY <1>6, <3>2, <3>3
  <2>4. outbox' = outbox /\ \A v \in Workers \ {w} : worker'[v] = worker[v]
    BY <1>6 DEF LoadDispatch, LoadReservation, TypeOK
  <2> QED
    BY <2>3, <2>4
<1>7. ASSUME NEW w \in Workers, RecordSuccess(w) \/ RecordDead(w) \/ RecordRetry(w)
      PROVE  LoadedInv'
  <2>1. worker' = [worker EXCEPT ![w] = Idle]
        /\ \A e \in Dispatches : outbox'[e].attempts = outbox[e].attempts
    BY <1>7, ReleaseEffect
  <2> QED
    BY <1>0, <2>1 DEF Idle, TypeOK, Busy
<1>8. ASSUME NEW w \in Workers, Crash(w) PROVE LoadedInv'
  BY <1>8 DEF Crash, Idle, TypeOK
<1>9. CASE Tick
  <2>1. \A d \in Dispatches : outbox'[d].attempts = outbox[d].attempts
    BY <1>9, TickEffect
  <2>2. worker' = worker
    BY <1>9 DEF Tick
  <2> QED
    BY <1>0, <2>1, <2>2 DEF Busy
<1>10. CASE outbox' = outbox /\ worker' = worker
  BY <1>10
<1> QED
  BY <1>1, <1>2, <1>3, <1>4, <1>5, <1>6, <1>7, <1>8, <1>9, <1>10
  DEF Next, WorkerStep, SettleReservation, vars

\* The legal combinations of message, dispatch, reservation and latest event.
Stage(d, m, x, r) ==
  outbox[d].status \in m /\ dispatch[d] = x /\ reservation[d] = r

Staged(d) ==
  /\ d \in settled <=> dispatch[d] = "completed"
  /\ \/ Stage(d, {"absent"}, "absent", "reserved")
     \/ Stage(d, {"pending", "processing"}, "queued", "dispatch_pending")
     \/ Stage(d, {"published"}, "issued", "dispatched")
     \/ Stage(d, {"published"}, "completed", "completed")
     \/ Stage(d, {"dead"}, "rejected", "cancelled")

\* Rows agree exactly when each delivery is in one of its stages.
LEMMA AgreeIsStaged ==
  ASSUME TypeOK PROVE RowsAgree <=> \A d \in Dispatches : Staged(d)
<1>1. ASSUME NEW d \in Dispatches
      PROVE  /\ outbox[d].status \in OutboxStatus \cup {"absent"}
             /\ dispatch[d] \in DispatchStatus \cup {"absent"}
             /\ reservation[d] \in ReservationStatus
  BY DEF TypeOK, Message
<1> QED
  BY <1>1
  DEF RowsAgree, Staged, Stage, OutboxStatus, DispatchStatus, ReservationStatus

\* Rows in one stage of a delivery agree.
LEMMA StagedIsAgreement ==
  (\A d \in Dispatches : Staged(d))' => RowsAgree'
BY DEF RowsAgree, Staged, Stage

\* A step that touches the rows of one dispatch only.
LEMMA StagedFrame ==
  ASSUME TypeOK, TypeOK', RowsAgree, NEW d \in Dispatches, Staged(d)',
         \A e \in Dispatches \ {d} :
           /\ outbox'[e].status = outbox[e].status
           /\ dispatch'[e] = dispatch[e] /\ reservation'[e] = reservation[e]
           /\ e \in settled' <=> e \in settled
  PROVE  RowsAgree'
<1>1. ASSUME NEW e \in Dispatches PROVE Staged(e)'
  <2>1. CASE e = d
    BY <2>1
  <2>2. CASE e # d
    BY <2>2, AgreeIsStaged DEF Staged, Stage
  <2> QED
    BY <2>1, <2>2
<1> QED
  BY <1>1, StagedIsAgreement

\* The message, the dispatch and the reservation move together.
LEMMA RowsStep ==
  ASSUME ExclusiveClaims, ExclusiveInv, [Next]_vars
  PROVE  RowsAgree'
<1> USE DEF rows
<1>0. TypeOK /\ TypeOK' /\ OwnerInv /\ LoadedInv /\ RowsAgree
  BY NextTyped DEF ExclusiveInv, RacingInv
<1>1. ASSUME NEW d \in Dispatches, NEW k \in Keys, IssueDispatch(d, k)
      PROVE  RowsAgree'
  <2>1. d \notin settled
    BY <1>0, <1>1 DEF IssueDispatch, RowsAgree
  <2>2. Staged(d)'
    BY <1>0, <1>1, <2>1, IssueEffect
    DEF IssueDispatch, TypeOK, Staged, Stage
  <2> QED
    BY <1>0, <1>1, <2>2, StagedFrame, IssueEffect DEF IssueDispatch, TypeOK
<1>2. ASSUME NEW d \in Dispatches, SettleReservation(d)
      PROVE  RowsAgree'
  <2>1. Staged(d)
    BY <1>0, AgreeIsStaged
  <2>2. Staged(d)'
    BY <1>0, <1>2, <2>1 DEF SettleReservation, TypeOK, Staged, Stage
  <2> QED
    BY <1>0, <1>2, <2>2, StagedFrame DEF SettleReservation, TypeOK
<1>3. ASSUME NEW d \in Dispatches, AuthorizeRedrive(d)
      PROVE  RowsAgree'
  <2>1. Staged(d)
    BY <1>0, AgreeIsStaged
  <2>2. Staged(d)'
    <3>1. d \notin settled
      BY <1>3, <2>1 DEF AuthorizeRedrive, Staged
    <3>2. outbox'[d].status = "pending"
      BY <1>0, <1>3, RedriveEffect
    <3> QED
      BY <1>0, <1>3, <3>1, <3>2 DEF AuthorizeRedrive, TypeOK, Staged, Stage
  <2> QED
    BY <1>0, <1>3, <2>2, StagedFrame, RedriveEffect DEF AuthorizeRedrive, TypeOK
<1>4. ASSUME NEW w \in Workers, NEW d \in Dispatches, ClaimOne(w, d)
      PROVE  RowsAgree'
  <2>1. Staged(d) /\ outbox[d].status \in {"pending", "processing"}
    BY <1>0, <1>4, AgreeIsStaged DEF ClaimOne, Due
  <2>2. outbox'[d].status = "processing" /\ UNCHANGED rows
    BY <1>0, <1>4, ClaimEffect DEF ClaimOne
  <2>3. Staged(d)'
    BY <2>1, <2>2 DEF Staged, Stage
  <2> QED
    BY <1>0, <1>4, <2>2, <2>3, StagedFrame, ClaimEffect
<1>5. ASSUME NEW w \in Workers, RecordSuccess(w) \/ RecordDead(w)
      PROVE  RowsAgree'
  <2> PICK d : d = worker[w].msg
    OBVIOUS
  <2>1. /\ worker[w].pc = "commit"
        /\ worker[w].ok \/ Exhausted(worker[w].attempts)
    BY <1>5 DEF RecordSuccess, RecordDead
  <2>2. /\ d \in Dispatches
        /\ outbox[d].status = "processing"
        /\ worker[w].dispatch = "queued"
        /\ worker[w].reservation = "dispatch_pending"
    BY <1>0, <2>1 DEF TypeOK, OwnerInv, LoadedInv, Busy
  <2>3. /\ settled' = settled /\ d \notin settled
        /\ \/ /\ dispatch' = [dispatch EXCEPT ![d] = "issued"]
              /\ reservation' = [reservation EXCEPT ![d] = "dispatched"]
              /\ outbox'[d].status = "published"
           \/ /\ dispatch' = [dispatch EXCEPT ![d] = "rejected"]
              /\ reservation' = [reservation EXCEPT ![d] = "cancelled"]
              /\ outbox'[d].status = "dead"
    <3>1. d \notin settled
      BY <1>0, <2>2 DEF RowsAgree
    <3>2. CASE RecordSuccess(w)
      <4>1. outbox'[d].status = "published"
        BY <1>0, <3>2, ReleaseEffect
      <4> QED
        BY <2>2, <3>1, <3>2, <4>1 DEF RecordSuccess, Finalise, Flush
    <3>3. CASE RecordDead(w)
      <4>1. outbox'[d].status = "dead"
        BY <1>0, <3>3, ReleaseEffect
      <4> QED
        BY <2>2, <3>1, <3>3, <4>1 DEF RecordDead, Finalise, Flush
    <3> QED
      BY <1>5, <3>1, <3>2, <3>3
  <2>4. Staged(d)'
    BY <1>0, <2>2, <2>3 DEF TypeOK, Staged, Stage
  <2>5. \A e \in Dispatches \ {d} : outbox'[e] = outbox[e]
    BY <1>0, <1>5, ReleaseEffect
  <2> QED
    BY <1>0, <2>2, <2>3, <2>4, <2>5, StagedFrame DEF TypeOK
<1>6. ASSUME NEW w \in Workers, RecordRetry(w)
      PROVE  RowsAgree'
  <2> PICK d : d = worker[w].msg
    OBVIOUS
  <2>1. d \in Dispatches /\ outbox[d].status = "processing"
    BY <1>0, <1>6 DEF TypeOK, OwnerInv, Busy, RecordRetry
  <2>2. /\ \A e \in Dispatches \ {d} : outbox'[e] = outbox[e]
        /\ outbox'[d].status = "pending"
    BY <1>0, <1>6, ReleaseEffect
  <2>4. UNCHANGED rows
    BY <1>6 DEF RecordRetry
  <2>5. Staged(d)'
    BY <1>0, <2>1, <2>2, <2>4, AgreeIsStaged DEF Staged, Stage
  <2> QED
    BY <1>0, <2>1, <2>2, <2>4, <2>5, StagedFrame
<1>7. CASE UNCHANGED rows /\ \A d \in Dispatches : outbox'[d].status = outbox[d].status
  BY <1>0, <1>7 DEF RowsAgree
<1>8. CASE Tick
  <2>1. \A d \in Dispatches : outbox'[d].status = outbox[d].status
    BY <1>0, <1>8, TickEffect
  <2> QED
    BY <1>7, <1>8, <2>1 DEF Tick
<1> QED
  BY <1>1, <1>2, <1>3, <1>4, <1>5, <1>6, <1>7, <1>8
  DEF Next, WorkerStep, Publish, LoadMessage, LoadDispatch, LoadReservation,
      Crash, vars

\* Every step that moves a dispatch appends the event that says so.
LEMMA AuditStep ==
  ASSUME ExclusiveClaims, ExclusiveInv, [Next]_vars
  PROVE  AuditExplainsRows'
<1> USE DEF rows
<1>0. TypeOK /\ OwnerInv /\ LoadedInv /\ AuditExplainsRows
  BY DEF ExclusiveInv, RacingInv
<1>1. ASSUME NEW d \in Dispatches, NEW x, NEW e,
             dispatch' = [dispatch EXCEPT ![d] = x],
             lastEvent' = [lastEvent EXCEPT ![d] = e],
             x = EventStatus(e)
      PROVE  AuditExplainsRows'
  BY <1>0, <1>1 DEF AuditExplainsRows, TypeOK
<1>2. ASSUME NEW w \in Workers, RecordSuccess(w) \/ RecordDead(w)
      PROVE  AuditExplainsRows'
  <2>1. worker[w].pc = "commit" /\ (worker[w].ok \/ Exhausted(worker[w].attempts))
    BY <1>2 DEF RecordSuccess, RecordDead
  <2>2. worker[w].dispatch = "queued" /\ worker[w].msg \in Dispatches
    BY <1>0, <2>1 DEF LoadedInv, TypeOK
  <2>3. CASE RecordSuccess(w)
    <3>1. /\ dispatch' = [dispatch EXCEPT ![worker[w].msg] = "issued"]
          /\ lastEvent' = [lastEvent EXCEPT ![worker[w].msg] = "dispatch.published"]
      BY <2>2, <2>3 DEF RecordSuccess, Finalise, Flush
    <3> QED
      BY <1>1, <2>2, <3>1 DEF EventStatus
  <2>4. CASE RecordDead(w)
    <3>1. /\ dispatch' = [dispatch EXCEPT ![worker[w].msg] = "rejected"]
          /\ lastEvent' =
               [lastEvent EXCEPT ![worker[w].msg] = "dispatch.delivery_failed"]
      BY <2>2, <2>4 DEF RecordDead, Finalise, Flush
    <3> QED
      BY <1>1, <2>2, <3>1 DEF EventStatus
  <2> QED
    BY <1>2, <2>3, <2>4
<1>3. CASE dispatch' = dispatch /\ lastEvent' = lastEvent
  BY <1>0, <1>3 DEF AuditExplainsRows
<1>4. ASSUME NEW d \in Dispatches, NEW k \in Keys, IssueDispatch(d, k)
      PROVE  AuditExplainsRows'
  BY <1>1, <1>4 DEF IssueDispatch, EventStatus
<1>5. ASSUME NEW d \in Dispatches, SettleReservation(d) \/ AuthorizeRedrive(d)
      PROVE  AuditExplainsRows'
  BY <1>1, <1>5 DEF SettleReservation, AuthorizeRedrive, EventStatus
<1>6. ASSUME NEW w \in Workers,
             \/ \E d \in Dispatches : ClaimOne(w, d)
             \/ \E ok, acc \in BOOLEAN : Publish(w, ok, acc)
             \/ LoadMessage(w) \/ LoadDispatch(w) \/ LoadReservation(w)
             \/ RecordRetry(w) \/ Crash(w)
      PROVE  UNCHANGED rows
  BY <1>6 DEF ClaimOne, Publish, LoadMessage, LoadDispatch, LoadReservation,
              RecordRetry, Crash
<1>7. CASE Tick \/ UNCHANGED vars
  BY <1>3, <1>7 DEF Tick, vars
<1> QED
  BY <1>2, <1>3, <1>4, <1>5, <1>6, <1>7 DEF Next, WorkerStep

\* ExclusiveInv is invariant when claims are exclusive.
LEMMA ExclusiveCorrect ==
  ASSUME ExclusiveClaims PROVE Spec => []ExclusiveInv
<1>1. Init => ExclusiveInv
  <2> SUFFICES ASSUME Init PROVE ExclusiveInv
    OBVIOUS
  <2>1. RacingInv
    BY InitRacing
  <2>2. OwnerInv /\ LoadedInv
    BY DEF Init, OwnerInv, LoadedInv, Busy, Idle
  <2>3. RowsAgree /\ AuditExplainsRows
    BY DEF Init, RowsAgree, AuditExplainsRows, EventStatus, NoMessage
  <2> QED
    BY <2>1, <2>2, <2>3 DEF ExclusiveInv
<1>2. ExclusiveInv /\ [Next]_vars => ExclusiveInv'
  <2> SUFFICES ASSUME ExclusiveInv, [Next]_vars PROVE ExclusiveInv'
    OBVIOUS
  <2>1. RacingInv'
    BY NextTyped, AckStep, KeyStep, LeaseStep DEF ExclusiveInv, RacingInv
  <2> QED
    BY <2>1, OwnerStep, LoadedStep, RowsStep, AuditStep DEF ExclusiveInv
<1> QED
  BY <1>1, <1>2, PTL DEF Spec

\* When every live worker finalises before its lease expires, or there is one
\* worker: message, dispatch, reservation and settlement always agree.
THEOREM RowsAlwaysAgree ==
  ASSUME ExclusiveClaims PROVE Spec => []RowsAgree
<1>1. ExclusiveInv => RowsAgree
  BY DEF ExclusiveInv
<1> QED
  BY <1>1, ExclusiveCorrect, PTL

\* Under the same condition the latest audit event of a dispatch names the
\* state it is in.
THEOREM AuditAlwaysExplains ==
  ASSUME ExclusiveClaims PROVE Spec => []AuditExplainsRows
<1>1. ExclusiveInv => AuditExplainsRows
  BY DEF ExclusiveInv
<1> QED
  BY <1>1, ExclusiveCorrect, PTL

-----------------------------------------------------------------------------
(* The retry budget.                                                       *)

\* A pending message has attempts left; only a claim orphaned by a crash lets
\* the next claim go past the budget.
BudgetInv ==
  \A d \in Dispatches :
    /\ outbox[d].status = "pending" => outbox[d].attempts < MaxAttempts
    /\ outbox[d].attempts <= MaxAttempts + crashes
    /\ outbox[d].status = "processing"
         /\ (\A w \in Workers : Busy(w) => worker[w].msg # d) =>
           outbox[d].attempts < MaxAttempts + crashes

\* Every step keeps BudgetInv: only a claim that crashed escapes the budget check.
LEMMA BudgetStep ==
  ASSUME ExclusiveClaims, ExclusiveInv, BudgetInv, [Next]_vars
  PROVE  BudgetInv'
<1> USE WorkerParameters DEF BudgetInv
<1>0. TypeOK /\ OwnerInv /\ LoadedInv /\ KeyInv /\ crashes \in Nat
  BY DEF ExclusiveInv, RacingInv, TypeOK
<1>0a. \A d \in Dispatches : outbox[d].attempts \in Nat
  BY <1>0, RowFields
<1>1. ASSUME NEW d \in Dispatches, NEW k \in Keys, IssueDispatch(d, k)
      PROVE  BudgetInv'
  <2>1. worker' = worker /\ crashes' = crashes
    BY <1>1 DEF IssueDispatch
  <2>2. ASSUME NEW e \in Dispatches, e # d PROVE outbox'[e] = outbox[e]
    BY <1>0, <1>1, <2>2, IssueEffect
  <2>3. outbox'[d].attempts = 0 /\ outbox'[d].status = "pending"
    BY <1>0, <1>1, IssueEffect
  <2> QED
    BY <1>0, <1>0a, <2>1, <2>2, <2>3 DEF Busy
<1>2. ASSUME NEW d \in Dispatches, AuthorizeRedrive(d) PROVE BudgetInv'
  <2>1. worker' = worker /\ crashes' = crashes
    BY <1>2 DEF AuthorizeRedrive
  <2>2. ASSUME NEW e \in Dispatches, e # d PROVE outbox'[e] = outbox[e]
    BY <1>0, <1>2, <2>2, RedriveEffect
  <2>3. outbox'[d].attempts = 0 /\ outbox'[d].status = "pending"
    BY <1>0, <1>2, RedriveEffect
  <2> QED
    BY <1>0, <1>0a, <2>1, <2>2, <2>3 DEF Busy
<1>3. ASSUME NEW w \in Workers, NEW d \in Dispatches, ClaimOne(w, d)
      PROVE  BudgetInv'
  <2>1. \A v \in Workers : Busy(v) => worker[v].msg # d /\ v # w
    BY <1>0, <1>3, DueIsUnowned
  <2>2. outbox[d].attempts < MaxAttempts + crashes
    BY <1>0, <1>0a, <1>3, <2>1 DEF ClaimOne, Due
  <2>3. outbox'[d].attempts = outbox[d].attempts + 1 /\ crashes' = crashes
    BY <1>0, <1>3, ClaimCounts DEF ClaimOne
  <2>4. outbox'[d].attempts <= MaxAttempts + crashes'
    BY <1>0, <1>0a, <2>2, <2>3
  <2>5. /\ outbox'[d].status = "processing"
        /\ worker'[w].pc = "publish" /\ worker'[w].msg = d
    BY <1>0, <1>3, ClaimEffect
  <2>6. ASSUME NEW e \in Dispatches, e # d
        PROVE  /\ outbox'[e] = outbox[e]
               /\ (\A v \in Workers : Busy(v) => worker[v].msg # e)' =>
                    \A v \in Workers : Busy(v) => worker[v].msg # e
    <3>1. outbox'[e] = outbox[e] /\ \A v \in Workers \ {w} : worker'[v] = worker[v]
      BY <1>0, <1>3, <2>6, ClaimEffect
    <3> QED
      BY <2>1, <3>1 DEF Busy
  <2>7. ~(\A v \in Workers : Busy(v) => worker[v].msg # d)'
    BY <2>5 DEF Busy
  <2> QED
    BY <2>3, <2>4, <2>5, <2>6, <2>7
<1>4. ASSUME NEW w \in Workers, RecordSuccess(w) \/ RecordDead(w) \/ RecordRetry(w)
      PROVE  BudgetInv'
  <2> PICK d : d = worker[w].msg
    OBVIOUS
  <2>1. d \in Dispatches /\ outbox'[d].attempts = outbox[d].attempts
    BY <1>0, <1>4, ReleaseEffect
  <2>2. outbox'[d].status \in {"pending", "published", "dead"}
        /\ \A e \in Dispatches \ {d} : outbox'[e] = outbox[e]
    BY <1>0, <1>4, ReleaseEffect
  <2>3. outbox'[d].status = "pending" => outbox[d].attempts < MaxAttempts
    <3>1. RecordSuccess(w) => outbox'[d].status = "published"
      BY <1>0, <1>4, ReleaseEffect
    <3>2. RecordDead(w) => outbox'[d].status = "dead"
      BY <1>0, <1>4, ReleaseEffect
    <3>3. RecordRetry(w) => ~Exhausted(outbox[d].attempts)
      BY <1>0 DEF RecordRetry, LoadedInv
    <3> QED
      BY <1>0a, <1>4, <2>1, <3>1, <3>2, <3>3 DEF Exhausted
  <2>4. worker' = [worker EXCEPT ![w] = Idle] /\ crashes' = crashes
    BY <1>0, <1>4, ReleaseEffect DEF RecordSuccess, RecordDead, RecordRetry
  <2>5. ASSUME NEW e \in Dispatches, e # d,
               (\A v \in Workers : Busy(v) => worker[v].msg # e)'
        PROVE  \A v \in Workers : Busy(v) => worker[v].msg # e
    BY <1>0, <2>4, <2>5 DEF Busy, TypeOK
  <2> QED
    BY <2>1, <2>2, <2>3, <2>4, <2>5
<1>5. ASSUME NEW w \in Workers, Crash(w) PROVE BudgetInv'
  <2>1. /\ outbox' = outbox /\ crashes' = crashes + 1
    BY <1>5 DEF Crash
  <2> QED
    BY <1>0, <1>0a, <2>1
<1>6. CASE Tick
  <2>1. worker' = worker /\ crashes' = crashes
    BY <1>6 DEF Tick
  <2>2. \A d \in Dispatches : outbox'[d].attempts = outbox[d].attempts
                              /\ outbox'[d].status = outbox[d].status
    BY <1>0, <1>6, TickEffect
  <2> QED
    BY <2>1, <2>2 DEF Busy
<1>7. ASSUME NEW w \in Workers,
             \/ \E ok, acc \in BOOLEAN : Publish(w, ok, acc)
             \/ LoadMessage(w) \/ LoadDispatch(w) \/ LoadReservation(w)
      PROVE  BudgetInv'
  <2>1. crashes' = crashes
    BY <1>7 DEF Publish, LoadMessage, LoadDispatch, LoadReservation
  <2>2. /\ outbox' = outbox
        /\ \A v \in Workers \ {w} : worker'[v] = worker[v]
        /\ worker'[w] = Idle \/ worker'[w].msg = worker[w].msg
    BY <1>0, <1>7, ProgressEffect
  <2>3. worker'[w].pc # "idle"
    <3>1. worker[w] \in Worker
      BY <1>0 DEF TypeOK
    <3>2. ASSUME NEW ok \in BOOLEAN, NEW acc \in BOOLEAN, Publish(w, ok, acc)
          PROVE  worker'[w].pc = "message"
      BY <1>0, <3>1, <3>2 DEF Publish, TypeOK, Worker
    <3>3. ASSUME LoadMessage(w) PROVE worker'[w].pc \in {"dispatch", "commit"}
      <4>1. outbox[worker[w].msg].lockedBy = ClaimToken(w)
        BY <1>0, <3>3 DEF LoadMessage, OwnerInv, Busy, ClaimToken
      <4>2. outbox[worker[w].msg].attempts \in Nat
        BY <1>0, <1>0a, <3>3 DEF LoadMessage, TypeOK
      <4>3. PICK pc \in {"dispatch", "commit"}, n \in Nat :
              worker' = [worker EXCEPT ![w] =
                           [worker[w] EXCEPT !.attempts = n, !.pc = pc]]
        BY <3>3, <4>1, <4>2 DEF LoadMessage
      <4>4. worker'[w] = [worker[w] EXCEPT !.attempts = n, !.pc = pc]
        BY <1>0, <4>3 DEF TypeOK
      <4>5. [worker[w] EXCEPT !.attempts = n, !.pc = pc].pc = pc
        BY <3>1 DEF Worker
      <4> QED
        BY <4>4, <4>5
    <3>4. ASSUME LoadDispatch(w) PROVE worker'[w].pc = "reservation"
      <4>1. worker'[w] = [worker[w] EXCEPT !.pc = "reservation",
                                           !.dispatch = dispatch[worker[w].msg]]
        BY <1>0, <3>4 DEF LoadDispatch, TypeOK
      <4> QED
        BY <3>1, <4>1 DEF Worker
    <3>5. ASSUME LoadReservation(w) PROVE worker'[w].pc = "commit"
      <4>1. worker'[w] = [worker[w] EXCEPT !.pc = "commit",
                            !.reservation = reservation[worker[w].msg]]
        BY <1>0, <3>5 DEF LoadReservation, TypeOK
      <4> QED
        BY <3>1, <4>1 DEF Worker
    <3> QED
      BY <1>7, <3>2, <3>3, <3>4, <3>5
  <2>4. worker'[w] # Idle
    BY <2>3 DEF Idle
  <2>5. ASSUME NEW e \in Dispatches,
               (\A v \in Workers : Busy(v) => worker[v].msg # e)'
        PROVE  \A v \in Workers : Busy(v) => worker[v].msg # e
    BY <2>2, <2>3, <2>4, <2>5 DEF Busy
  <2> QED
    BY <2>1, <2>2, <2>5
<1>8. CASE outbox' = outbox /\ worker' = worker /\ crashes' = crashes
  BY <1>8 DEF Busy
<1> QED
  BY <1>1, <1>2, <1>3, <1>4, <1>5, <1>6, <1>7, <1>8
  DEF Next, WorkerStep, SettleReservation, vars

\* With exclusive claims a message exceeds max_attempts by no more than the
\* number of crashes: the budget is enforced when an attempt fails, not when it
\* starts.
THEOREM OverrunIsCrashes ==
  ASSUME ExclusiveClaims PROVE Spec => []OverrunNeedsCrash
<1>1. Init => BudgetInv
  BY WorkerParameters DEF Init, BudgetInv, NoMessage
<1>2. ExclusiveInv /\ BudgetInv /\ [Next]_vars => BudgetInv'
  BY BudgetStep
<1>3. BudgetInv => OverrunNeedsCrash
  BY DEF BudgetInv, OverrunNeedsCrash
<1> QED
  BY <1>1, <1>2, <1>3, ExclusiveCorrect, PTL DEF Spec

-----------------------------------------------------------------------------
(* The outbox implements DispatchLifecycle.                                *)

\* Every step of the outbox is a step of the lifecycle or leaves it as it is.
LEMMA LifecycleStep ==
  ASSUME ExclusiveClaims, ExclusiveInv, [Next]_vars
  PROVE  [Lifecycle!Next]_(Lifecycle!vars)
<1> DEFINE keys == [d \in Dispatches |-> outbox[d].key]
<1> USE DEF Lifecycle!Next, Lifecycle!Move, Lifecycle!vars, rows, external
<1>0. TypeOK /\ OwnerInv /\ LoadedInv /\ RowsAgree /\ AckInv
  BY DEF ExclusiveInv, RacingInv
<1>1. ASSUME NEW d \in Dispatches, NEW k \in Keys, IssueDispatch(d, k)
      PROVE  Lifecycle!Queue(d, k)
  <2>1. dispatch[d] = "absent" /\ dispatch' = [dispatch EXCEPT ![d] = "queued"]
        /\ acked' = acked
    BY <1>0, <1>1 DEF IssueDispatch, RowsAgree
  <2>2. \A e \in Dispatches : keys[e] # k
    BY <1>1 DEF IssueDispatch, KeyUnused
  <2>3. keys' = [keys EXCEPT ![d] = k]
    BY <1>0, <1>1, IssueEffect
  <2> QED
    BY <2>1, <2>2, <2>3 DEF Lifecycle!Queue
<1>2. ASSUME NEW d \in Dispatches, SettleReservation(d)
      PROVE  Lifecycle!Settle(d)
  BY <1>2 DEF SettleReservation, Lifecycle!Settle
<1>3. ASSUME NEW d \in Dispatches, AuthorizeRedrive(d)
      PROVE  Lifecycle!Redrive(d)
  <2>1. keys' = keys
    BY <1>0, <1>3, RedriveEffect
  <2> QED
    BY <1>3, <2>1 DEF AuthorizeRedrive, Lifecycle!Redrive
<1>4. ASSUME NEW w \in Workers, NEW d \in Dispatches, ClaimOne(w, d)
      PROVE  UNCHANGED Lifecycle!vars
  <2>1. keys' = keys
    BY <1>0, <1>4, ClaimEffect
  <2> QED
    BY <1>4, <2>1 DEF ClaimOne
<1>5. ASSUME NEW w \in Workers, NEW ok \in BOOLEAN, NEW acc \in BOOLEAN,
             Publish(w, ok, acc)
      PROVE  Lifecycle!Acknowledge(worker[w].msg) \/ UNCHANGED Lifecycle!vars
  <2>1. dispatch[worker[w].msg] = "queued"
    BY <1>0, <1>5 DEF Publish, OwnerInv, RowsAgree, Busy, TypeOK
  <2> QED
    BY <1>5, <2>1 DEF Publish, Lifecycle!Acknowledge
<1>6. ASSUME NEW w \in Workers, RecordSuccess(w) \/ RecordDead(w)
      PROVE  Lifecycle!Issue(worker[w].msg) \/ Lifecycle!Reject(worker[w].msg)
  <2> PICK d : d = worker[w].msg
    OBVIOUS
  <2>1. worker[w].pc = "commit" /\ (worker[w].ok \/ Exhausted(worker[w].attempts))
    BY <1>6 DEF RecordSuccess, RecordDead
  <2>2. d \in Dispatches /\ dispatch[d] = "queued" /\ worker[w].dispatch = "queued"
    BY <1>0, <2>1 DEF TypeOK, OwnerInv, LoadedInv, RowsAgree, Busy
  <2>3. keys' = keys
    BY <1>0, <1>6, ReleaseEffect
  <2>4. acked' = acked
    BY <1>6 DEF RecordSuccess, RecordDead
  <2>5. CASE RecordSuccess(w)
    BY <1>0, <2>2, <2>3, <2>4, <2>5
    DEF RecordSuccess, Finalise, Flush, AckInv, Lifecycle!Issue
  <2>6. CASE RecordDead(w)
    BY <1>0, <2>2, <2>3, <2>4, <2>6
    DEF RecordDead, Finalise, Flush, Lifecycle!Reject
  <2> QED
    BY <1>6, <2>5, <2>6
<1>7. ASSUME NEW w \in Workers, RecordRetry(w)
      PROVE  UNCHANGED Lifecycle!vars
  <2>1. keys' = keys
    BY <1>0, <1>7, ReleaseEffect
  <2> QED
    BY <1>7, <2>1 DEF RecordRetry
<1>8. CASE Tick
  <2>1. keys' = keys
    BY <1>0, <1>8, TickEffect
  <2> QED
    BY <1>8, <2>1 DEF Tick
<1>9. CASE UNCHANGED <<outbox, dispatch, acked>>
  BY <1>9
<1>10. \A w \in Workers : Busy(w) => worker[w].msg \in Dispatches
  BY <1>0 DEF TypeOK, Busy
<1>11. ASSUME NEW w \in Workers, ~Busy(w)
       PROVE  /\ \A ok, acc \in BOOLEAN : ~Publish(w, ok, acc)
              /\ ~RecordSuccess(w) /\ ~RecordDead(w)
  BY <1>11 DEF Busy, Publish, RecordSuccess, RecordDead
<1> HIDE DEF keys
<1> QED
  BY <1>1, <1>2, <1>3, <1>4, <1>5, <1>6, <1>7, <1>8, <1>9, <1>10, <1>11
  DEF Next, WorkerStep, LoadMessage, LoadDispatch, LoadReservation, Crash, vars

\* With exclusive claims the outbox implements the promised lifecycle: queued
\* for one key, issued only after an acknowledgement, rejected, re-driven and
\* settled by the operations named for that and by nothing else.
THEOREM OutboxImplementsLifecycle ==
  ASSUME ExclusiveClaims PROVE Spec => ImplementsLifecycle
<1>1. Init => Lifecycle!Init
  BY DEF Init, Lifecycle!Init, NoMessage
<1>2. ExclusiveInv /\ [Next]_vars => [Lifecycle!Next]_(Lifecycle!vars)
  BY LifecycleStep
<1> QED
  BY <1>1, <1>2, ExclusiveCorrect, PTL DEF Spec, ImplementsLifecycle, Lifecycle!Spec
=============================================================================
