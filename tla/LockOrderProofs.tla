--------------------------- MODULE LockOrderProofs ---------------------------
(***************************************************************************)
(* Theorems about LockOrder, for any number of sessions and workers.       *)
(*                                                                         *)
(* No lock order keeps these transactions out of a cycle: the six plans of *)
(* a success alone contradict each other.  What does is the status of the  *)
(* message.  Whoever waits in a cycle also holds a lock, so it has passed  *)
(* its first check or holds the claim; each of these is true of one        *)
(* message status only, and within one status of one process.              *)
(***************************************************************************)
EXTENDS LockOrder, SequenceTheorems, TLAPS

\* The locks a transaction needs before it may write what it writes.
Needs(op) ==
  {l \in {"message", "reservation"} :
     \/ l = "reservation" /\ op \in {"issue", "settle", "redrive", "dead", "success"}
     \/ l = "message" /\ op \in {"redrive", "dead", "success", "retry"}}

First(op) == IF op = "redrive" THEN "message" ELSE "reservation"

\* A transaction has the locks it needs or is still going to get them; a command
\* gets the one its first check is about before any other.
Planned(t) ==
  /\ t.op = "none" => t = Idle
  /\ \A l \in Needs(t.op) : l \in t.done \/ \E i \in 1..Len(t.todo) : t.todo[i] = l
  /\ t.op \in {"issue", "settle", "redrive"} =>
       \/ First(t.op) \in t.done
       \/ t.done = {} /\ t.todo # <<>> /\ t.todo[1] = First(t.op)
  /\ t.op = "append" => \/ t.done = {} /\ Len(t.todo) = 1
                        \/ t.todo = <<>>

PlanInv == \A p \in Processes : Planned(tx[p])

\* Claims have a number each; what is finalised was claimed, what was claimed was
\* enqueued, and nothing is enqueued while the reservation is "reserved".
ClaimInv ==
  /\ rows.reservation = "reserved" => rows.message = "absent"
  /\ \A w \in Workers :
       /\ token[w] <= claims
       /\ token[w] # 0 => rows.message # "absent"
       /\ tx[w].op # "none" => token[w] # 0
  /\ \A v, w \in Workers : token[v] = token[w] /\ token[w] # 0 => v = w
  /\ \A c \in Clients : tx[c].op \in ClientOps \cup {"none"}
  /\ \A w \in Workers : tx[w].op \in WorkerOps \cup {"none"}

\* Before any lease has run out on its worker.
CalmInv ==
  ~overrun =>
    /\ rows.dispatch = "issued" => rows.message = "published"
    /\ \A w \in Workers : token[w] # 0 =>
         rows.message = "processing" /\ claim.token = token[w] /\ ~claim.expired

LockInv == TypeOK /\ ClaimInv /\ CalmInv /\ ChecksStayTrue

-----------------------------------------------------------------------------
\* Plans are sequences of locks with the ones that are needed, in order.
LEMMA PlanFacts ==
  ASSUME NEW op \in ClientOps \cup WorkerOps, NEW plan \in Plans(op)
  PROVE  /\ plan \in Seq(Locks) /\ plan # <<>>
         /\ \A l \in Needs(op) : \E i \in 1..Len(plan) : plan[i] = l
         /\ op \in {"issue", "settle", "redrive"} => plan[1] = First(op)
         /\ op = "append" => Len(plan) = 1
<1>1. CASE op \in {"append", "issue", "settle", "redrive", "dead", "retry"}
  <2>1. plan \in {<<"head">>, <<"reservation", "head">>,
                  <<"reservation", "head", "dispatch">>,
                  <<"message", "dispatch", "reservation", "head">>, <<"message">>}
    BY <1>1 DEF Plans
  <2>2. plan \in Seq(Locks) /\ plan # <<>>
    <3>1. {<<"head">>, <<"reservation", "head">>,
           <<"reservation", "head", "dispatch">>,
           <<"message", "dispatch", "reservation", "head">>, <<"message">>}
            \subseteq Seq(Locks)
      BY DEF Locks
    <3>2. plan \in Seq(Locks)
      BY <2>1, <3>1, Zenon
    <3>3. plan # <<>>
      BY <2>1
    <3> QED
      BY <3>2, <3>3
  <2>3. op \in {"issue", "settle"} =>
          /\ plan[1] = "reservation" /\ Len(plan) >= 1
          /\ First(op) = "reservation" /\ Needs(op) = {"reservation"}
    BY DEF Plans, First, Needs
  <2>4. op = "redrive" => plan[1] = "message" /\ First(op) = "message"
    BY DEF Plans, First
  <2>5. op \in {"redrive", "dead"} =>
          /\ plan[1] = "message" /\ plan[3] = "reservation" /\ Len(plan) >= 3
          /\ Needs(op) = {"message", "reservation"}
    BY DEF Plans, Needs
  <2>6. op = "retry" => plan[1] = "message" /\ Len(plan) >= 1 /\ Needs(op) = {"message"}
    BY DEF Plans, Needs
  <2>7. op = "append" => Needs(op) = {} /\ Len(plan) = 1
    BY DEF Needs, Plans
  <2>8. \A l \in Needs(op) : \E i \in 1..Len(plan) : plan[i] = l
    BY <1>1, <2>2, <2>3, <2>5, <2>6, <2>7
  <2> QED
    BY <1>1, <2>2, <2>3, <2>4, <2>7, <2>8
<1>2. CASE op = "success"
  <2>1. PICK a, b, c \in {"message", "dispatch", "reservation"} :
          /\ plan = <<a, b, c, "head">>
          /\ "message" \in {a, b, c} /\ "reservation" \in {a, b, c}
    BY <1>2 DEF Plans
  <2>2. /\ plan \in Seq(Locks) /\ plan # <<>> /\ Len(plan) = 4
        /\ plan[1] = a /\ plan[2] = b /\ plan[3] = c
    BY <2>1 DEF Locks
  <2>3. \A l \in {"message", "reservation"} : \E i \in 1..Len(plan) : plan[i] = l
    <3>1. \A l \in {"message", "reservation"} : l = a \/ l = b \/ l = c
      BY <2>1
    <3>2. 1 \in 1..Len(plan) /\ 2 \in 1..Len(plan) /\ 3 \in 1..Len(plan)
      BY <2>2
    <3> QED
      BY <2>2, <3>1, <3>2
  <2> QED
    BY <1>2, <2>2, <2>3 DEF Needs
<1> QED
  BY <1>1, <1>2 DEF ClientOps, WorkerOps

\* Where a transaction stands in its plan tells what it has or will get.
LEMMA PlannedInOrder ==
  ASSUME NEW t \in [op : ClientOps \cup WorkerOps \cup {"none"},
                    todo : Seq(Locks), done : SUBSET Locks], InOrder(t)
  PROVE  Planned(t)
<1>1. CASE t.op = "none"
  <2>1. t = Idle
    BY <1>1 DEF InOrder
  <2> QED
    BY <2>1 DEF Planned, Needs, Idle
<1>2. CASE t.op # "none"
  <2>1. t.op \in ClientOps \cup WorkerOps
    BY <1>2
  <2>1a. PICK plan \in Plans(t.op) : \E k \in 0..Len(plan) :
            /\ t.done = {plan[i] : i \in 1..k}
            /\ t.todo = SubSeq(plan, k + 1, Len(plan))
    BY <1>2 DEF InOrder
  <2>2. PICK k \in 0..Len(plan) :
          /\ t.done = {plan[i] : i \in 1..k}
          /\ t.todo = SubSeq(plan, k + 1, Len(plan))
    BY <2>1a
  <2>3. /\ plan \in Seq(Locks) /\ plan # <<>>
        /\ \A l \in Needs(t.op) : \E i \in 1..Len(plan) : plan[i] = l
        /\ t.op \in {"issue", "settle", "redrive"} => plan[1] = First(t.op)
        /\ t.op = "append" => Len(plan) = 1
    BY <2>1, PlanFacts
  <2>4. Len(plan) \in Nat /\ Len(plan) >= 1
    BY <2>3, EmptySeq
  <2>5. k \in Nat /\ k <= Len(plan)
    BY <2>4
  <2>6. /\ Len(t.todo) = Len(plan) - k
        /\ \A i \in 1..(Len(plan) - k) : t.todo[i] = plan[k + i]
    <3>1. \A i \in (k + 1)..Len(plan) : plan[i] \in Locks
      BY <2>3, <2>4, <2>5, ElementOfSeq
    <3>2. /\ Len(t.todo) = IF k + 1 <= Len(plan) THEN Len(plan) - (k + 1) + 1 ELSE 0
          /\ \A i \in 1..(Len(plan) - (k + 1) + 1) : t.todo[i] = plan[(k + 1) + i - 1]
      BY <2>2, <2>4, <2>5, <3>1, SubSeqProperties
    <3> QED
      BY <2>4, <2>5, <3>2
  <2>7. \A i \in 1..Len(plan) :
          plan[i] \in t.done \/ \E j \in 1..Len(t.todo) : t.todo[j] = plan[i]
    <3> TAKE i \in 1..Len(plan)
    <3>1. CASE i \in 1..k
      BY <2>2, <3>1
    <3>2. CASE i \notin 1..k
      <4>1. i - k \in 1..(Len(plan) - k) /\ k + (i - k) = i
        BY <2>4, <2>5, <3>2
      <4> QED
        BY <2>6, <4>1
    <3> QED
      BY <3>1, <3>2
  <2>8. \A l \in Needs(t.op) : l \in t.done \/ \E j \in 1..Len(t.todo) : t.todo[j] = l
    BY <2>3, <2>7
  <2>9. \/ plan[1] \in t.done
        \/ t.done = {} /\ t.todo # <<>> /\ t.todo[1] = plan[1] /\ Len(t.todo) = Len(plan)
    <3>1. CASE k = 0
      <4>1. t.done = {} /\ Len(t.todo) = Len(plan) /\ t.todo[1] = plan[1]
        BY <2>2, <2>4, <2>6, <3>1
      <4> QED
        BY <2>4, <4>1, EmptySeq
    <3>2. CASE k > 0
      <4>1. 1 \in 1..k
        BY <2>5, <3>2
      <4> QED
        BY <2>2, <4>1
    <3> QED
      BY <2>5, <3>1, <3>2
  <2>10. t.op = "append" => \/ t.done = {} /\ Len(t.todo) = 1
                            \/ t.todo = <<>>
    <3>1. CASE k = 0
      BY <2>2, <2>3, <2>6, <3>1
    <3>2. CASE k > 0
      <4>1. t.op = "append" => Len(t.todo) = 0
        BY <2>3, <2>5, <2>6, <3>2
      <4> QED
        BY <4>1, EmptySeq
    <3> QED
      BY <2>5, <3>1, <3>2
  <2> QED
    BY <1>2, <2>3, <2>8, <2>9, <2>10 DEF Planned
<1> QED
  BY <1>1, <1>2

\* So it is with every transaction.
LEMMA PlansHold == TypeOK => PlanInv
  BY PlannedInOrder DEF TypeOK, PlanInv

\* A lock has one holder.
LEMMA OneHolder ==
  ASSUME TypeOK, NEW p \in Processes, NEW q \in Processes, NEW l,
         l \in tx[p].done, l \in tx[q].done
  PROVE  p = q
<1>1. Held(p) = tx[p].done /\ Held(q) = tx[q].done
  BY DEF TypeOK
<1> QED
  BY <1>1 DEF Held

\* What has been locked is not free.
LEMMA DoneIsHeld ==
  ASSUME TypeOK, NEW p \in Processes, NEW l \in tx[p].done
  PROVE  ~Free(l)
<1>1. Held(p) = tx[p].done
  BY DEF TypeOK
<1> QED
  BY <1>1, LockOrderParameters DEF Held, Free, Processes

\* A transaction ends: its process is idle, its locks are free.
LEMMA EndFacts ==
  ASSUME TypeOK, NEW p \in Processes, End(p)
  PROVE  /\ tx' \in [Processes -> [op : ClientOps \cup WorkerOps \cup {"none"},
                                   todo : Seq(Locks), done : SUBSET Locks]]
         /\ owner' \in [Locks -> Processes \cup {"nobody"}]
         /\ \A q \in Processes : Held(q)' = tx'[q].done
         /\ \A q \in Processes : InOrder(tx'[q])
         /\ tx'[p] = Idle
         /\ \A q \in Processes \ {p} : tx'[q] = tx[q]
<1>1. /\ tx \in [Processes -> [op : ClientOps \cup WorkerOps \cup {"none"},
                               todo : Seq(Locks), done : SUBSET Locks]]
      /\ owner \in [Locks -> Processes \cup {"nobody"}]
      /\ \A q \in Processes : Held(q) = tx[q].done /\ InOrder(tx[q])
  BY DEF TypeOK
<1>2. Idle \in [op : ClientOps \cup WorkerOps \cup {"none"},
                todo : Seq(Locks), done : SUBSET Locks]
  BY DEF Idle
<1>3. /\ tx' = [tx EXCEPT ![p] = Idle]
      /\ owner' = [l \in Locks |-> IF owner[l] = p THEN "nobody" ELSE owner[l]]
  BY DEF End
<1>4. tx'[p] = Idle /\ \A q \in Processes \ {p} : tx'[q] = tx[q]
  BY <1>1, <1>3
<1>5. Held(p)' = {} /\ \A q \in Processes \ {p} : Held(q)' = Held(q)
  BY <1>1, <1>3, LockOrderParameters DEF Held, Processes
<1>6. \A q \in Processes : Held(q)' = tx'[q].done
  <2>1. tx'[p].done = {}
    BY <1>4 DEF Idle
  <2>2. \A q \in Processes \ {p} : Held(q)' = tx'[q].done
    BY <1>1, <1>4, <1>5
  <2> QED
    BY <1>5, <2>1, <2>2
<1>7. owner' \in [Locks -> Processes \cup {"nobody"}]
  BY <1>1, <1>3
<1>8. tx' \in [Processes -> [op : ClientOps \cup WorkerOps \cup {"none"},
                             todo : Seq(Locks), done : SUBSET Locks]]
  BY <1>1, <1>2, <1>3
<1>9. \A q \in Processes : InOrder(tx'[q])
  <2>1. InOrder(Idle)
    BY DEF InOrder, Idle
  <2> QED
    BY <1>1, <1>4, <2>1
<1> QED
  BY <1>4, <1>6, <1>7, <1>8, <1>9

\* A transaction begins with a plan and no lock.
LEMMA StartFacts ==
  ASSUME TypeOK, NEW p \in Processes, NEW op \in ClientOps \cup WorkerOps,
         Start(p, op)
  PROVE  /\ tx' \in [Processes -> [op : ClientOps \cup WorkerOps \cup {"none"},
                                   todo : Seq(Locks), done : SUBSET Locks]]
         /\ \A q \in Processes : Held(q)' = tx'[q].done
         /\ \A q \in Processes : InOrder(tx'[q])
         /\ tx'[p].op = op /\ tx'[p].done = {}
         /\ \A q \in Processes \ {p} : tx'[q] = tx[q]
<1>1. /\ tx \in [Processes -> [op : ClientOps \cup WorkerOps \cup {"none"},
                               todo : Seq(Locks), done : SUBSET Locks]]
      /\ \A q \in Processes : Held(q) = tx[q].done /\ InOrder(tx[q])
  BY DEF TypeOK
<1>2. PICK plan \in Plans(op) :
        tx' = [tx EXCEPT ![p] = [op |-> op, todo |-> plan, done |-> {}]]
  BY DEF Start
<1>3. plan \in Seq(Locks)
  BY PlanFacts
<1>4. /\ tx'[p] = [op |-> op, todo |-> plan, done |-> {}]
      /\ \A q \in Processes \ {p} : tx'[q] = tx[q]
  BY <1>1, <1>2
<1>5. tx[p].done = {} /\ UNCHANGED owner
  BY DEF Start, Idle
<1>6. \A q \in Processes : Held(q)' = tx'[q].done
  BY <1>1, <1>4, <1>5 DEF Held
<1>7. tx' \in [Processes -> [op : ClientOps \cup WorkerOps \cup {"none"},
                             todo : Seq(Locks), done : SUBSET Locks]]
  BY <1>1, <1>2, <1>3
<1>8. InOrder(tx'[p])
  <2>1. /\ op # "none" /\ tx'[p].op = op
        /\ tx'[p].todo = plan /\ tx'[p].done = {}
    BY <1>4 DEF ClientOps, WorkerOps
  <2>2. plan = SubSeq(plan, 0 + 1, Len(plan)) /\ 0 \in 0..Len(plan)
    BY <1>3, SubSeqFull, LenProperties
  <2>3. {plan[i] : i \in 1..0} = {}
    OBVIOUS
  <2> QED
    BY <2>1, <2>2, <2>3 DEF InOrder
<1>9. \A q \in Processes : InOrder(tx'[q])
  BY <1>1, <1>4, <1>8
<1> QED
  BY <1>4, <1>6, <1>7, <1>9

-----------------------------------------------------------------------------
\* A step that ends one transaction without writing a row.
LEMMA ReleaseKeeps ==
  ASSUME LockInv, NEW p \in Processes, End(p),
         UNCHANGED <<rows, claim, claims, overrun>>,
         \/ UNCHANGED token
         \/ token' = [w \in Workers |-> IF w = p THEN 0 ELSE token[w]]
  PROVE  LockInv'
<1>1. TypeOK
  BY DEF LockInv
<1>2. /\ tx' \in [Processes -> [op : ClientOps \cup WorkerOps \cup {"none"},
                                todo : Seq(Locks), done : SUBSET Locks]]
      /\ owner' \in [Locks -> Processes \cup {"nobody"}]
      /\ \A q \in Processes : Held(q)' = tx'[q].done /\ InOrder(tx'[q])
      /\ tx'[p] = Idle
      /\ \A q \in Processes \ {p} : tx'[q] = tx[q]
  BY <1>1, EndFacts
<1>3. /\ token \in [Workers -> 0..MaxClaims] /\ token' \in [Workers -> 0..MaxClaims]
      /\ \A w \in Workers : token'[w] = token[w] \/ (token'[w] = 0 /\ w = p)
  <2>1. token \in [Workers -> 0..MaxClaims] /\ 0 \in 0..MaxClaims
    BY <1>1, LockOrderParameters DEF TypeOK
  <2> QED
    BY <2>1
<1>4. /\ Idle.op = "none" /\ Idle.todo = <<>> /\ Idle.done = {}
      /\ claims \in Nat
  BY <1>1 DEF Idle, TypeOK
<1>5. TypeOK'
  BY <1>1, <1>2, <1>3 DEF TypeOK
<1>6. ClaimInv'
  <2>1. /\ \A c \in Clients : tx'[c].op \in ClientOps \cup {"none"}
        /\ \A w \in Workers : tx'[w].op \in WorkerOps \cup {"none"}
    BY <1>2, <1>4 DEF LockInv, ClaimInv, Processes
  <2>2. \A w \in Workers : tx'[w].op # "none" => token'[w] # 0
    BY <1>2, <1>3, <1>4 DEF LockInv, ClaimInv, Processes
  <2>3. \A w \in Workers : token'[w] <= claims /\ (token'[w] # 0 => token'[w] = token[w])
    BY <1>3, <1>4 DEF LockInv, ClaimInv
  <2> QED
    BY <2>1, <2>2, <2>3 DEF LockInv, ClaimInv
<1>7. CalmInv'
  BY <1>3 DEF LockInv, CalmInv
<1>8. ChecksStayTrue'
  BY <1>2, <1>4 DEF LockInv, ChecksStayTrue, Checks, Processes
<1> QED
  BY <1>5, <1>6, <1>7, <1>8 DEF LockInv

\* A transaction begins.
LEMMA StartKeeps ==
  ASSUME LockInv, NEW p \in Processes, NEW op \in ClientOps \cup WorkerOps,
         Start(p, op), UNCHANGED <<rows, claim, claims, token, overrun>>,
         \/ p \in Clients /\ op \in ClientOps
         \/ p \in Workers /\ op \in WorkerOps /\ token[p] # 0
  PROVE  LockInv'
<1>1. /\ tx' \in [Processes -> [op : ClientOps \cup WorkerOps \cup {"none"},
                                todo : Seq(Locks), done : SUBSET Locks]]
      /\ \A q \in Processes : Held(q)' = tx'[q].done /\ InOrder(tx'[q])
      /\ tx'[p].op = op /\ tx'[p].done = {}
      /\ \A q \in Processes \ {p} : tx'[q] = tx[q]
  BY StartFacts DEF LockInv
<1>2. TypeOK'
  BY <1>1 DEF LockInv, TypeOK, Start
<1>3. ClaimInv'
  <2>1. /\ \A c \in Clients : tx'[c].op \in ClientOps \cup {"none"}
        /\ \A w \in Workers : tx'[w].op \in WorkerOps \cup {"none"}
    BY <1>1, LockOrderParameters DEF LockInv, ClaimInv, Processes
  <2>2. \A w \in Workers : tx'[w].op # "none" => token[w] # 0
    BY <1>1, LockOrderParameters DEF LockInv, ClaimInv, Processes
  <2> QED
    BY <2>1, <2>2 DEF LockInv, ClaimInv
<1>4. CalmInv'
  BY DEF LockInv, CalmInv
<1>5. ChecksStayTrue'
  BY <1>1 DEF LockInv, ChecksStayTrue, Checks, Processes
<1> QED
  BY <1>2, <1>3, <1>4, <1>5 DEF LockInv

\* The next lock of a plan is taken in order.
LEMMA NextLock ==
  ASSUME NEW t \in [op : ClientOps \cup WorkerOps \cup {"none"},
                    todo : Seq(Locks), done : SUBSET Locks],
         InOrder(t), t.todo # <<>>,
         NEW u, u.op = t.op, u.todo = Tail(t.todo), u.done = t.done \cup {Head(t.todo)}
  PROVE  InOrder(u)
<1>1. t.op # "none" /\ t.op \in ClientOps \cup WorkerOps
  BY DEF InOrder, Idle
<1>2a. PICK plan \in Plans(t.op) : \E k \in 0..Len(plan) :
          /\ t.done = {plan[i] : i \in 1..k}
          /\ t.todo = SubSeq(plan, k + 1, Len(plan))
  BY <1>1 DEF InOrder
<1>2. PICK k \in 0..Len(plan) :
        /\ t.done = {plan[i] : i \in 1..k}
        /\ t.todo = SubSeq(plan, k + 1, Len(plan))
  BY <1>2a
<1>3. plan \in Seq(Locks) /\ Len(plan) \in Nat
  BY <1>1, PlanFacts
<1>4. k \in Nat /\ k + 1 <= Len(plan)
  <2>1. CASE k = Len(plan)
    BY <1>2, <1>3, <2>1, SubSeqEmpty
  <2> QED
    BY <1>3, <2>1
<1>5. k + 1 \in 1..Len(plan) /\ Len(plan) \in (k + 1)..Len(plan)
  BY <1>3, <1>4
<1>6. /\ Head(t.todo) = plan[k + 1]
      /\ Tail(t.todo) = SubSeq(plan, (k + 1) + 1, Len(plan))
  BY <1>2, <1>3, <1>5, HeadTailOfSubSeq
<1>7. {plan[i] : i \in 1..(k + 1)} = {plan[i] : i \in 1..k} \cup {plan[k + 1]}
  <2>1. 1..(k + 1) = (1..k) \cup {k + 1}
    BY <1>4
  <2> QED
    BY <2>1
<1>8. /\ u.done = {plan[i] : i \in 1..(k + 1)}
      /\ u.todo = SubSeq(plan, (k + 1) + 1, Len(plan))
  BY <1>2, <1>6, <1>7
<1>9. k + 1 \in 0..Len(plan)
  BY <1>3, <1>4
<1> QED
  BY <1>1, <1>2, <1>8, <1>9 DEF InOrder

\* A statement gets its lock, and the check behind it is passed or not.
LEMMA AcquireKeeps ==
  ASSUME LockInv, NEW p \in Processes, Acquire(p)
  PROVE  LockInv'
<1> DEFINE l == Head(tx[p].todo)
<1>1. /\ tx[p].todo # <<>> /\ Free(l)
      /\ UNCHANGED <<rows, claim, claims, token, overrun>>
  BY DEF Acquire
<1>2. CASE ~Checks(tx[p].op, l)
  <2>1. End(p)
    BY <1>2 DEF Acquire
  <2> QED
    BY <1>1, <2>1, ReleaseKeeps
<1>3. CASE Checks(tx[p].op, l)
  <2>1. /\ owner' = [owner EXCEPT ![l] = p]
        /\ tx' = [tx EXCEPT ![p].todo = Tail(@), ![p].done = @ \cup {l}]
    BY <1>3 DEF Acquire
  <2>2. /\ tx \in [Processes -> [op : ClientOps \cup WorkerOps \cup {"none"},
                                 todo : Seq(Locks), done : SUBSET Locks]]
        /\ owner \in [Locks -> Processes \cup {"nobody"}]
        /\ \A q \in Processes : Held(q) = tx[q].done /\ InOrder(tx[q])
    BY DEF LockInv, TypeOK
  <2>3. l \in Locks /\ Tail(tx[p].todo) \in Seq(Locks)
    BY <1>1, <2>2, HeadTailProperties
  <2> HIDE DEF l
  <2>4. /\ tx'[p].op = tx[p].op /\ tx'[p].todo = Tail(tx[p].todo)
        /\ tx'[p].done = tx[p].done \cup {l}
        /\ \A q \in Processes \ {p} : tx'[q] = tx[q]
    BY <2>1, <2>2
  <2>5. /\ tx' \in [Processes -> [op : ClientOps \cup WorkerOps \cup {"none"},
                                  todo : Seq(Locks), done : SUBSET Locks]]
        /\ owner' \in [Locks -> Processes \cup {"nobody"}]
    <3> DEFINE t == [tx[p] EXCEPT !.todo = Tail(tx[p].todo), !.done = @ \cup {l}]
    <3>1. t \in [op : ClientOps \cup WorkerOps \cup {"none"},
                todo : Seq(Locks), done : SUBSET Locks]
      BY <2>2, <2>3
    <3>2. tx' = [tx EXCEPT ![p] = t]
      BY <2>1, <2>2
    <3> HIDE DEF t
    <3>3. tx' \in [Processes -> [op : ClientOps \cup WorkerOps \cup {"none"},
                                 todo : Seq(Locks), done : SUBSET Locks]]
      BY <2>2, <3>1, <3>2
    <3>4. owner' \in [Locks -> Processes \cup {"nobody"}]
      BY <2>1, <2>2, <2>3
    <3> QED
      BY <3>3, <3>4
  <2>6. \A q \in Processes : Held(q)' = tx'[q].done
    <3>1. owner[l] = "nobody" /\ \A q \in Processes : q # "nobody"
      BY <1>1, LockOrderParameters DEF Free, Processes
    <3>2. Held(p)' = Held(p) \cup {l}
      BY <2>1, <2>2, <2>3 DEF Held
    <3>3. \A q \in Processes \ {p} : Held(q)' = Held(q)
      BY <2>1, <2>2, <2>3, <3>1 DEF Held
    <3> QED
      BY <2>2, <2>4, <3>2, <3>3
  <2>7. \A q \in Processes : InOrder(tx'[q])
    <3>1. InOrder(tx'[p])
      BY <1>1, <2>2, <2>4, NextLock DEF l
    <3> QED
      BY <2>2, <2>4, <3>1
  <2>8. TypeOK'
    BY <1>1, <2>5, <2>6, <2>7 DEF LockInv, TypeOK
  <2>9. ClaimInv'
    <3>1. \A q \in Processes : tx'[q].op = tx[q].op
      BY <2>4
    <3> QED
      BY <1>1, <3>1 DEF LockInv, ClaimInv, Processes
  <2>10. CalmInv'
    BY <1>1 DEF LockInv, CalmInv
  <2>11. ChecksStayTrue'
    <3>1. \A op, m : Checks(op, m)' <=> Checks(op, m)
      BY <1>1 DEF Checks
    <3>2. \A c \in Clients : \A m \in tx'[c].done : Checks(tx'[c].op, m)
      BY <1>3, <2>4 DEF LockInv, ChecksStayTrue, Processes
    <3> QED
      BY <1>1, <3>2 DEF ChecksStayTrue, Checks
  <2> QED
    BY <2>8, <2>9, <2>10, <2>11 DEF LockInv
<1> QED
  BY <1>2, <1>3

-----------------------------------------------------------------------------
\* What each transaction leaves in the rows.
LEMMA WrittenRows ==
  ASSUME TypeOK
  PROVE  /\ Written("append") = rows
         /\ Written("issue") = [reservation |-> "dispatch_pending",
                               dispatch |-> "queued", message |-> "pending"]
         /\ Written("settle") = [rows EXCEPT !.reservation = "completed",
                                            !.dispatch = "completed"]
         /\ Written("redrive") = [reservation |-> "dispatch_pending",
                                 dispatch |-> "queued", message |-> "pending"]
         /\ Written("success") = [reservation |-> "dispatched",
                                 dispatch |-> "issued", message |-> "published"]
         /\ Written("dead") = [reservation |-> "cancelled",
                              dispatch |-> "rejected", message |-> "dead"]
         /\ Written("retry") = [rows EXCEPT !.message = "pending"]
<1>1. Written("append") = rows
  BY Zenon DEF Written
<1>2. Written("issue") = [reservation |-> "dispatch_pending",
                          dispatch |-> "queued", message |-> "pending"]
  BY Zenon DEF Written
<1>3. Written("settle") = [rows EXCEPT !.reservation = "completed",
                                       !.dispatch = "completed"]
  BY Zenon DEF Written
<1>4. Written("redrive") = [reservation |-> "dispatch_pending",
                            dispatch |-> "queued", message |-> "pending"]
  BY Zenon DEF Written
<1>5. Written("success") = [reservation |-> "dispatched",
                            dispatch |-> "issued", message |-> "published"]
  BY Zenon DEF Written
<1>6. Written("dead") = [reservation |-> "cancelled",
                         dispatch |-> "rejected", message |-> "dead"]
  BY Zenon DEF Written
<1>7. Written("retry") = [rows EXCEPT !.message = "pending"]
  BY Zenon DEF Written
<1> QED
  BY <1>1, <1>2, <1>3, <1>4, <1>5, <1>6, <1>7

\* Who can run a transaction, and what it has locked when it commits.
LEMMA CommitFacts ==
  ASSUME LockInv, NEW p \in Processes, tx[p].op # "none", tx[p].todo = <<>>
  PROVE  /\ tx[p].op \in ClientOps => p \in Clients
         /\ tx[p].op \in WorkerOps => p \in Workers /\ token[p] # 0
         /\ tx[p].op \in ClientOps \cup WorkerOps
         /\ Needs(tx[p].op) \subseteq tx[p].done
         /\ tx[p].op = "issue" => rows.reservation = "reserved"
         /\ tx[p].op = "redrive" => rows.message = "dead"
<1>1. /\ tx[p].op \in ClientOps => p \in Clients
      /\ tx[p].op \in WorkerOps => p \in Workers /\ token[p] # 0
      /\ tx[p].op \in ClientOps \cup WorkerOps
  BY DEF LockInv, ClaimInv, Processes, ClientOps, WorkerOps
<1>2. Needs(tx[p].op) \subseteq tx[p].done
  <2>1. Planned(tx[p]) /\ Len(tx[p].todo) = 0
    BY PlansHold DEF LockInv, PlanInv
  <2> QED
    BY <2>1 DEF Planned
<1>3. tx[p].op = "issue" => rows.reservation = "reserved"
  <2>1. tx[p].op = "issue" => "reservation" \in tx[p].done
    BY <1>2 DEF Needs
  <2> QED
    BY <1>1, <2>1 DEF LockInv, ChecksStayTrue, Checks, ClientOps
<1>4. tx[p].op = "redrive" => rows.message = "dead"
  <2>1. tx[p].op = "redrive" => "message" \in tx[p].done
    BY <1>2 DEF Needs
  <2> QED
    BY <1>1, <2>1 DEF LockInv, ChecksStayTrue, Checks, ClientOps
<1> QED
  BY <1>1, <1>2, <1>3, <1>4

\* A transaction commits: whoever else relies on a row it writes would need a
\* lock that it holds.
LEMMA CommitKeeps ==
  ASSUME LockInv, NEW p \in Processes, Commit(p)
  PROVE  LockInv'
<1> DEFINE op == tx[p].op
<1>1. /\ op # "none" /\ tx[p].todo = <<>> /\ End(p) /\ TypeOK
      /\ rows' = Written(op) /\ UNCHANGED <<claims, overrun>>
      /\ claim' = IF WritesMessage(op) THEN [token |-> 0, expired |-> FALSE] ELSE claim
      /\ token' = [w \in Workers |-> IF w = p THEN 0 ELSE token[w]]
  BY DEF Commit, LockInv
<1>2. /\ op \in ClientOps => p \in Clients
      /\ op \in WorkerOps => p \in Workers /\ token[p] # 0
      /\ op \in {"append", "issue", "settle", "redrive", "success", "dead", "retry"}
      /\ Needs(op) \subseteq tx[p].done
      /\ op = "issue" => rows.reservation = "reserved"
      /\ op = "redrive" => rows.message = "dead"
  BY <1>1, CommitFacts DEF ClientOps, WorkerOps
<1>3. /\ tx' \in [Processes -> [op : ClientOps \cup WorkerOps \cup {"none"},
                                todo : Seq(Locks), done : SUBSET Locks]]
      /\ owner' \in [Locks -> Processes \cup {"nobody"}]
      /\ \A q \in Processes : Held(q)' = tx'[q].done /\ InOrder(tx'[q])
      /\ tx'[p] = Idle
      /\ \A q \in Processes \ {p} : tx'[q] = tx[q]
  BY <1>1, EndFacts
<1>4. /\ op = "append" => rows' = rows
      /\ op \in {"issue", "redrive"} =>
           rows' = [reservation |-> "dispatch_pending", dispatch |-> "queued",
                    message |-> "pending"]
      /\ op = "settle" => rows' = [rows EXCEPT !.reservation = "completed",
                                              !.dispatch = "completed"]
      /\ op = "success" => rows' = [reservation |-> "dispatched",
                                   dispatch |-> "issued", message |-> "published"]
      /\ op = "dead" => rows' = [reservation |-> "cancelled",
                                dispatch |-> "rejected", message |-> "dead"]
      /\ op = "retry" => rows' = [rows EXCEPT !.message = "pending"]
  BY <1>1, WrittenRows
<1>5. /\ token \in [Workers -> 0..MaxClaims] /\ token' \in [Workers -> 0..MaxClaims]
      /\ \A w \in Workers : token'[w] = IF w = p THEN 0 ELSE token[w]
  <2>1. token \in [Workers -> 0..MaxClaims] /\ 0 \in 0..MaxClaims
    BY <1>1, LockOrderParameters DEF TypeOK
  <2> QED
    BY <1>1, <2>1
<1>6. rows \in [reservation : {"reserved", "dispatch_pending", "dispatched",
                               "completed", "cancelled"},
                dispatch : {"absent", "queued", "issued", "rejected", "completed"},
                message : {"absent", "pending", "processing", "published", "dead"}]
  BY <1>1 DEF TypeOK
<1> HIDE DEF op
<1>7. /\ op = "append" => /\ rows'.reservation = rows.reservation
                          /\ rows'.dispatch = rows.dispatch
                          /\ rows'.message = rows.message
      /\ op \in {"issue", "redrive"} => /\ rows'.reservation = "dispatch_pending"
                                        /\ rows'.dispatch = "queued"
                                        /\ rows'.message = "pending"
      /\ op = "settle" => /\ rows'.reservation = "completed"
                          /\ rows'.dispatch = "completed"
                          /\ rows'.message = rows.message
      /\ op = "success" => /\ rows'.reservation = "dispatched"
                           /\ rows'.dispatch = "issued"
                           /\ rows'.message = "published"
      /\ op = "dead" => /\ rows'.reservation = "cancelled"
                        /\ rows'.dispatch = "rejected"
                        /\ rows'.message = "dead"
      /\ op = "retry" => /\ rows'.reservation = rows.reservation
                         /\ rows'.dispatch = rows.dispatch
                         /\ rows'.message = "pending"
  <2>1. CASE op \in {"append", "issue", "redrive", "success", "dead"}
    BY <1>4, <2>1
  <2>2. CASE op = "settle"
    BY <1>4, <1>6, <2>2
  <2>3. CASE op = "retry"
    BY <1>4, <1>6, <2>3
  <2> QED
    BY <1>2, <2>1, <2>2, <2>3
<1>8. TypeOK'
  <2>1. rows' \in [reservation : {"reserved", "dispatch_pending", "dispatched",
                                  "completed", "cancelled"},
                   dispatch : {"absent", "queued", "issued", "rejected", "completed"},
                   message : {"absent", "pending", "processing", "published", "dead"}]
    <3>1. CASE op \in {"append", "issue", "redrive"}
      BY <1>4, <1>6, <3>1
    <3>2. CASE op \in {"success", "dead"}
      BY <1>4, <3>2
    <3>3. CASE op = "settle"
      BY <1>4, <1>6, <3>3
    <3>4. CASE op = "retry"
      BY <1>4, <1>6, <3>4
    <3> QED
      BY <1>2, <3>1, <3>2, <3>3, <3>4
  <2>2. claim' \in [token : 0..MaxClaims, expired : BOOLEAN]
    BY <1>1, LockOrderParameters DEF TypeOK
  <2> QED
    BY <1>1, <1>3, <1>5, <2>1, <2>2 DEF TypeOK
<1>9. ClaimInv'
  <2>1. rows'.reservation = "reserved" => rows'.message = "absent"
    <3>1. op = "retry" => rows.message # "absent"
      BY <1>2 DEF LockInv, ClaimInv, WorkerOps
    <3> QED
      BY <1>2, <1>7, <3>1 DEF LockInv, ClaimInv
  <2>2. rows'.message = "absent" => rows.message = "absent"
    BY <1>2, <1>7
  <2>3. /\ \A c \in Clients : tx'[c].op \in ClientOps \cup {"none"}
        /\ \A w \in Workers : tx'[w].op \in WorkerOps \cup {"none"}
    <3>1. tx'[p].op = "none" /\ \A q \in Processes \ {p} : tx'[q].op = tx[q].op
      BY <1>3 DEF Idle
    <3> QED
      BY <3>1 DEF LockInv, ClaimInv, Processes
  <2>4. \A w \in Workers : tx'[w].op # "none" => token'[w] # 0
    <3>1. p \in Workers => tx'[p].op = "none"
      BY <1>3 DEF Idle
    <3>2. \A w \in Workers \ {p} : tx'[w].op = tx[w].op /\ token'[w] = token[w]
      BY <1>3, <1>5 DEF Processes
    <3> QED
      BY <3>1, <3>2 DEF LockInv, ClaimInv
  <2>5. claims \in Nat
    BY <1>1 DEF TypeOK
  <2>6. \A w \in Workers : token'[w] <= claims /\ (token'[w] # 0 => token'[w] = token[w])
    BY <1>5, <2>5 DEF LockInv, ClaimInv
  <2> QED
    BY <1>1, <2>1, <2>2, <2>3, <2>4, <2>6 DEF LockInv, ClaimInv
<1>10. CalmInv'
  <2> SUFFICES ASSUME ~overrun
               PROVE  /\ rows'.dispatch = "issued" => rows'.message = "published"
                      /\ \A w \in Workers : token'[w] # 0 =>
                           /\ rows'.message = "processing"
                           /\ claim'.token = token'[w] /\ ~claim'.expired
    BY <1>1 DEF CalmInv
  <2>1. /\ rows.dispatch = "issued" => rows.message = "published"
        /\ \A w \in Workers : token[w] # 0 =>
             rows.message = "processing" /\ claim.token = token[w] /\ ~claim.expired
    BY DEF LockInv, CalmInv
  <2>2. rows'.dispatch = "issued" => rows'.message = "published"
    <3>1. op = "retry" => rows.message = "processing"
      BY <1>2, <2>1 DEF WorkerOps
    <3> QED
      BY <1>2, <1>7, <2>1, <3>1
  <2>3. ASSUME NEW w \in Workers, token'[w] # 0
        PROVE  /\ rows'.message = "processing"
               /\ claim'.token = token'[w] /\ ~claim'.expired
    <3>1. /\ w # p /\ token'[w] = token[w] /\ rows.message = "processing"
          /\ claim.token = token[w] /\ ~claim.expired
      BY <1>5, <2>1, <2>3
    <3>2. op # "issue" /\ op # "redrive"
      BY <1>2, <3>1 DEF LockInv, ClaimInv
    <3>3. op \notin WorkerOps
      BY <1>2, <2>1, <2>3, <3>1 DEF LockInv, ClaimInv
    <3>4. op \in {"append", "settle"}
      BY <1>2, <3>2, <3>3 DEF WorkerOps
    <3> QED
      BY <1>1, <1>7, <3>1, <3>4 DEF WritesMessage
  <2> QED
    BY <2>2, <2>3
<1>11. ChecksStayTrue'
  <2> SUFFICES ASSUME NEW c \in Clients, NEW l \in tx'[c].done
               PROVE  Checks(tx[c].op, l)' /\ tx'[c].op = tx[c].op
    BY DEF ChecksStayTrue, Checks
  <2>1. c \in Processes /\ c # p /\ tx'[c] = tx[c] /\ Checks(tx[c].op, l)
    BY <1>3 DEF LockInv, ChecksStayTrue, Processes, Idle
  <2>2. CASE l = "reservation"
    <3>1. op \in {"append", "retry"}
      <4>1. "reservation" \notin tx[p].done
        BY <1>1, <2>1, <2>2, OneHolder
      <4> QED
        BY <1>2, <4>1 DEF Needs
    <3>2. rows'.reservation = rows.reservation /\ rows'.dispatch = rows.dispatch
      BY <1>7, <3>1
    <3> QED
      BY <2>1, <2>2, <3>2 DEF Checks
  <2>3. CASE l = "message" /\ tx[c].op = "redrive"
    <3>1. rows.message = "dead"
      BY <2>1, <2>3 DEF Checks
    <3>2. op \in {"append", "settle", "issue"}
      <4>1. "message" \notin tx[p].done
        BY <1>1, <2>1, <2>3, OneHolder
      <4> QED
        BY <1>2, <4>1 DEF Needs
    <3>3. op # "issue"
      BY <1>2, <3>1 DEF LockInv, ClaimInv
    <3>4. rows'.message = rows.message
      BY <1>7, <3>2, <3>3
    <3> QED
      BY <2>1, <2>3, <3>1, <3>4 DEF Checks
  <2>4. CASE ~(l = "reservation") /\ ~(l = "message" /\ tx[c].op = "redrive")
    BY <2>1, <2>4 DEF Checks
  <2> QED
    BY <2>1, <2>2, <2>3, <2>4
<1> QED
  BY <1>8, <1>9, <1>10, <1>11 DEF LockInv

\* A worker claims the message: nobody who relies on its status holds it.
LEMMA ClaimKeeps ==
  ASSUME LockInv, NEW w \in Workers, Claim(w)
  PROVE  LockInv'
<1>1. /\ tx[w] = Idle /\ token[w] = 0 /\ claims < MaxClaims /\ Free("message")
      /\ rows.message = "pending" \/ (rows.message = "processing" /\ claim.expired)
      /\ rows' = [rows EXCEPT !.message = "processing"]
      /\ claims' = claims + 1
      /\ claim' = [token |-> claims + 1, expired |-> FALSE]
      /\ token' = [token EXCEPT ![w] = claims + 1]
      /\ UNCHANGED <<tx, owner, overrun>>
  BY DEF Claim
<1>2. /\ TypeOK /\ MaxClaims \in Nat /\ claims \in Nat
      /\ token \in [Workers -> 0..MaxClaims]
      /\ rows'.message = "processing" /\ rows'.dispatch = rows.dispatch
      /\ rows'.reservation = rows.reservation
      /\ claim'.token = claims + 1 /\ ~claim'.expired
      /\ rows.reservation # "reserved"
  BY <1>1, LockOrderParameters DEF LockInv, TypeOK, ClaimInv
<1>3. /\ token'[w] = claims + 1
      /\ \A v \in Workers \ {w} : token'[v] = token[v]
      /\ \A v \in Workers : token[v] \in Nat /\ token[v] <= claims
  BY <1>1, <1>2 DEF LockInv, ClaimInv
<1>4. TypeOK'
  <2>1. rows' \in [reservation : {"reserved", "dispatch_pending", "dispatched",
                                 "completed", "cancelled"},
                  dispatch : {"absent", "queued", "issued", "rejected", "completed"},
                  message : {"absent", "pending", "processing", "published", "dead"}]
    BY <1>1, <1>2 DEF TypeOK
  <2>2. /\ claim' \in [token : 0..MaxClaims, expired : BOOLEAN]
        /\ claims' \in 0..MaxClaims /\ token' \in [Workers -> 0..MaxClaims]
    BY <1>1, <1>2
  <2> QED
    BY <1>1, <1>2, <2>1, <2>2 DEF TypeOK, Held
<1>5. ClaimInv'
  <2>1. \A u, v \in Workers : token'[u] = token'[v] /\ token'[u] # 0 => u = v
    BY <1>2, <1>3 DEF LockInv, ClaimInv
  <2>2. \A v \in Workers : token'[v] <= claims'
    BY <1>1, <1>2, <1>3
  <2>3. \A v \in Workers : tx'[v].op # "none" => token'[v] # 0
    BY <1>1, <1>2, <1>3 DEF LockInv, ClaimInv
  <2> QED
    BY <1>1, <1>2, <2>1, <2>2, <2>3 DEF LockInv, ClaimInv
<1>6. CalmInv'
  BY <1>1, <1>2, <1>3 DEF LockInv, CalmInv
<1>7. ChecksStayTrue'
  <2> SUFFICES ASSUME NEW c \in Clients, NEW l \in tx[c].done
               PROVE  Checks(tx[c].op, l)'
    BY <1>1 DEF ChecksStayTrue, Checks
  <2>1. Checks(tx[c].op, l)
    BY DEF LockInv, ChecksStayTrue
  <2>2. l # "message"
    BY <1>1, <1>2, DoneIsHeld DEF Processes
  <2> QED
    BY <1>1, <1>2, <2>1, <2>2 DEF Checks
<1> QED
  BY <1>4, <1>5, <1>6, <1>7 DEF LockInv

\* A worker finds its claim taken over, or a lease runs out.
LEMMA LeaseKeeps ==
  ASSUME LockInv, (\E w \in Workers : GiveUp(w)) \/ Expire
  PROVE  LockInv'
<1>1. ASSUME NEW w \in Workers, GiveUp(w)
      PROVE  LockInv'
  <2>1. /\ tx[w] = Idle /\ token' = [token EXCEPT ![w] = 0]
        /\ UNCHANGED <<rows, claim, claims, tx, owner, overrun>>
    BY <1>1 DEF GiveUp
  <2>2. /\ token \in [Workers -> 0..MaxClaims] /\ claims \in Nat
        /\ token' \in [Workers -> 0..MaxClaims]
        /\ \A v \in Workers : token'[v] = IF v = w THEN 0 ELSE token[v]
    BY <2>1, LockOrderParameters DEF LockInv, TypeOK
  <2>3. TypeOK'
    BY <2>1, <2>2 DEF LockInv, TypeOK, Held
  <2>4. ClaimInv' /\ CalmInv'
    BY <2>1, <2>2 DEF LockInv, ClaimInv, CalmInv, Idle
  <2>5. ChecksStayTrue'
    BY <2>1 DEF LockInv, ChecksStayTrue, Checks
  <2> QED
    BY <2>3, <2>4, <2>5 DEF LockInv
<1>2. CASE Expire
  <2>1. /\ claim' = [claim EXCEPT !.expired = TRUE]
        /\ overrun' = (overrun \/ \E w \in Workers : token[w] = claim.token)
        /\ UNCHANGED <<rows, claims, token, tx, owner>>
    BY <1>2 DEF Expire
  <2>2. TypeOK'
    <3>1. claim' \in [token : 0..MaxClaims, expired : BOOLEAN] /\ overrun' \in BOOLEAN
      BY <2>1 DEF LockInv, TypeOK
    <3> QED
      BY <2>1, <3>1 DEF LockInv, TypeOK, Held
  <2>3. ClaimInv'
    BY <2>1 DEF LockInv, ClaimInv
  <2>4. CalmInv'
    BY <2>1 DEF LockInv, CalmInv
  <2>5. ChecksStayTrue'
    BY <2>1 DEF LockInv, ChecksStayTrue, Checks
  <2> QED
    BY <2>2, <2>3, <2>4, <2>5 DEF LockInv
<1> QED
  BY <1>1, <1>2

-----------------------------------------------------------------------------
\* The invariant holds before anything has happened to the offer.
LEMMA LockInit == Init => LockInv
<1> SUFFICES ASSUME Init PROVE LockInv
  OBVIOUS
<1>1. /\ rows = [reservation |-> "reserved", dispatch |-> "absent",
                 message |-> "absent"]
      /\ claim = [token |-> 0, expired |-> FALSE]
      /\ claims = 0
      /\ token = [w \in Workers |-> 0]
      /\ tx = [p \in Processes |-> Idle]
      /\ owner = [l \in Locks |-> "nobody"]
      /\ overrun = FALSE
  BY DEF Init
<1>2. /\ Idle \in [op : ClientOps \cup WorkerOps \cup {"none"},
                   todo : Seq(Locks), done : SUBSET Locks]
      /\ Idle.op = "none" /\ Idle.done = {} /\ InOrder(Idle)
  BY DEF Idle, InOrder
<1>3. TypeOK
  <2>1. \A p \in Processes : Held(p) = tx[p].done /\ InOrder(tx[p])
    BY <1>1, <1>2, LockOrderParameters DEF Held, Processes
  <2>2. tx \in [Processes -> [op : ClientOps \cup WorkerOps \cup {"none"},
                             todo : Seq(Locks), done : SUBSET Locks]]
    BY <1>1, <1>2
  <2>3. /\ claim \in [token : 0..MaxClaims, expired : BOOLEAN]
        /\ claims \in 0..MaxClaims /\ token \in [Workers -> 0..MaxClaims]
        /\ owner \in [Locks -> Processes \cup {"nobody"}] /\ overrun \in BOOLEAN
    <3>1. 0 \in 0..MaxClaims
      BY LockOrderParameters
    <3> QED
      BY <1>1, <3>1
  <2>4. rows \in [reservation : {"reserved", "dispatch_pending", "dispatched",
                                "completed", "cancelled"},
                 dispatch : {"absent", "queued", "issued", "rejected", "completed"},
                 message : {"absent", "pending", "processing", "published", "dead"}]
    BY <1>1
  <2> QED
    BY <2>1, <2>2, <2>3, <2>4 DEF TypeOK
<1>4. ClaimInv /\ CalmInv /\ ChecksStayTrue
  BY <1>1, <1>2 DEF ClaimInv, CalmInv, ChecksStayTrue, Processes
<1> QED
  BY <1>3, <1>4 DEF LockInv

\* Every step of every process preserves it.
LEMMA LockStep == LockInv /\ [Next]_vars => LockInv'
<1> SUFFICES ASSUME LockInv, [Next]_vars PROVE LockInv'
  OBVIOUS
<1>1. ASSUME NEW c \in Clients, NEW op \in ClientOps, Begin(c, op)
      PROVE  LockInv'
  <2>1. c \in Processes /\ op \in ClientOps \cup WorkerOps
    BY DEF Processes
  <2> QED
    BY <1>1, <2>1, StartKeeps DEF Begin
<1>2. ASSUME NEW w \in Workers, Claim(w)
      PROVE  LockInv'
  BY <1>2, ClaimKeeps
<1>3. ASSUME NEW w \in Workers, GiveUp(w)
      PROVE  LockInv'
  BY <1>3, LeaseKeeps
<1>4. ASSUME NEW w \in Workers, NEW op \in WorkerOps, Finalise(w, op)
      PROVE  LockInv'
  <2>1. w \in Processes /\ op \in ClientOps \cup WorkerOps
    BY DEF Processes
  <2> QED
    BY <1>4, <2>1, StartKeeps DEF Finalise
<1>5. ASSUME NEW p \in Processes, Acquire(p)
      PROVE  LockInv'
  BY <1>5, AcquireKeeps
<1>6. ASSUME NEW p \in Processes, Commit(p)
      PROVE  LockInv'
  BY <1>6, CommitKeeps
<1>7. ASSUME NEW p \in Processes, Abort(p) \/ Die(p)
      PROVE  LockInv'
  BY <1>7, ReleaseKeeps DEF Abort, Die
<1>8. CASE Expire
  BY <1>8, LeaseKeeps
<1>9. CASE UNCHANGED vars
  <2>1. TypeOK' /\ ClaimInv' /\ CalmInv'
    BY <1>9 DEF vars, LockInv, TypeOK, Held, ClaimInv, CalmInv
  <2>2. ChecksStayTrue'
    BY <1>9 DEF vars, LockInv, ChecksStayTrue, Checks
  <2> QED
    BY <2>1, <2>2 DEF LockInv
<1> QED
  BY <1>1, <1>2, <1>3, <1>4, <1>5, <1>6, <1>7, <1>8, <1>9 DEF Next

\* What the transactions of service.py, outbox.py and redrive.py rely on always
\* holds: plans, claims, the calm before an overrun, and the passed checks.
THEOREM LocksCorrect == Spec => []LockInv
  BY LockInit, LockStep, PTL DEF Spec

-----------------------------------------------------------------------------
\* Transactions other than an append that have a lock: what they have checked, or
\* the claim they hold, is true of one message status, and so of one process.
LEMMA Exclusive ==
  ASSUME LockInv, ~overrun,
         NEW p \in Processes, tx[p].op \notin {"none", "append"}, tx[p].done # {},
         NEW q \in Processes, tx[q].op \notin {"none", "append"}, tx[q].done # {}
  PROVE  p = q
<1>1. ASSUME NEW x \in Processes, tx[x].op \notin {"none", "append"}, tx[x].done # {}
      PROVE  /\ tx[x].op \in {"issue", "settle", "redrive"} \cup WorkerOps
             /\ tx[x].op = "issue" =>
                  "reservation" \in tx[x].done /\ rows.message = "absent"
             /\ tx[x].op = "settle" =>
                  "reservation" \in tx[x].done /\ rows.message = "published"
             /\ tx[x].op = "redrive" =>
                  "message" \in tx[x].done /\ rows.message = "dead"
             /\ tx[x].op \in WorkerOps =>
                  /\ x \in Workers /\ rows.message = "processing"
                  /\ token[x] # 0 /\ token[x] = claim.token
  <2>1. /\ tx[x].op \in ClientOps => x \in Clients
        /\ tx[x].op \in WorkerOps => x \in Workers /\ token[x] # 0
        /\ tx[x].op \in {"issue", "settle", "redrive"} \cup WorkerOps
    BY <1>1 DEF LockInv, ClaimInv, Processes, ClientOps, WorkerOps
  <2>2. tx[x].op \in {"issue", "settle", "redrive"} => First(tx[x].op) \in tx[x].done
    BY <1>1, PlansHold DEF LockInv, PlanInv, Planned
  <2>3. \A l \in tx[x].done : x \in Clients => Checks(tx[x].op, l)
    BY DEF LockInv, ChecksStayTrue
  <2>4. CASE tx[x].op = "issue"
    BY <2>1, <2>2, <2>3, <2>4 DEF First, Checks, ClientOps, WorkerOps, LockInv, ClaimInv
  <2>5. CASE tx[x].op = "settle"
    BY <2>1, <2>2, <2>3, <2>5 DEF First, Checks, ClientOps, WorkerOps, LockInv, CalmInv
  <2>6. CASE tx[x].op = "redrive"
    BY <2>1, <2>2, <2>3, <2>6 DEF First, Checks, ClientOps, WorkerOps
  <2>7. CASE tx[x].op \in WorkerOps
    BY <2>1, <2>7 DEF LockInv, CalmInv, WorkerOps
  <2> QED
    BY <2>1, <2>4, <2>5, <2>6, <2>7
<1>2. CASE tx[p].op \in {"issue", "settle"}
  <2>1. "reservation" \in tx[p].done /\ "reservation" \in tx[q].done
    BY <1>1, <1>2 DEF WorkerOps
  <2> QED
    BY <2>1, OneHolder DEF LockInv
<1>3. CASE tx[p].op = "redrive"
  <2>1. "message" \in tx[p].done /\ "message" \in tx[q].done
    BY <1>1, <1>3 DEF WorkerOps
  <2> QED
    BY <2>1, OneHolder DEF LockInv
<1>4. CASE tx[p].op \in WorkerOps
  <2>1. /\ p \in Workers /\ q \in Workers
        /\ token[p] # 0 /\ token[p] = claim.token /\ token[q] = claim.token
    BY <1>1, <1>4 DEF WorkerOps
  <2> QED
    BY <2>1 DEF LockInv, ClaimInv
<1> QED
  BY <1>1, <1>2, <1>3, <1>4

\* Who is waited for, while waiting itself, is no append and holds a lock.
LEMMA WaitedFor ==
  ASSUME LockInv, NEW p \in Processes, NEW r \in Processes,
         tx[p].todo # <<>>, Waits(r, p)
  PROVE  tx[p].op \notin {"none", "append"} /\ tx[p].done # {}
<1>1. /\ Held(p) = tx[p].done /\ tx[r].todo \in Seq(Locks)
  BY DEF LockInv, TypeOK
<1>2. tx[r].todo # <<>> /\ owner[Head(tx[r].todo)] = p
  BY DEF Waits
<1>3. Head(tx[r].todo) \in Locks
  BY <1>1, <1>2, HeadTailProperties
<1>4. tx[p].done # {}
  BY <1>1, <1>2, <1>3 DEF Held
<1> QED
  BY <1>4, PlansHold DEF LockInv, PlanInv, Planned, Idle

\* Two processes of a cycle would be one and the same.
LEMMA NoCycle == LockInv => NoWaitCycle
<1> SUFFICES ASSUME LockInv, ~overrun, NEW S \in SUBSET Blocked, WaitCycle(S)
             PROVE  FALSE
  BY DEF NoWaitCycle
<1>1. \A p \in S : p \in Processes /\ tx[p].todo # <<>>
  BY DEF Blocked
<1>2. \A p \in S : tx[p].op \notin {"none", "append"} /\ tx[p].done # {}
  BY <1>1, WaitedFor DEF WaitCycle
<1>3. PICK p \in S, q \in S : p # q
  BY DEF WaitCycle, Waits
<1> QED
  BY <1>1, <1>2, <1>3, Exclusive

\* Every transaction holds its locks by taking them in the order of one of its
\* plans, and no lock outlives it, for any number of sessions and workers
\* (service.py, outbox.py, redrive.py).
THEOREM LockTypeCorrect == Spec => []TypeOK
<1>1. LockInv => TypeOK
  BY DEF LockInv
<1> QED
  BY <1>1, LocksCorrect, PTL

\* What issue_dispatch, settle_reservation and the re-drive have checked stays
\* true until they commit, however many workers finalise without a lock.
THEOREM CommandsWorkOnWhatTheyChecked == Spec => []ChecksStayTrue
<1>1. LockInv => ChecksStayTrue
  BY DEF LockInv
<1> QED
  BY <1>1, LocksCorrect, PTL

\* Transactions of any number of sessions and workers on one dispatch never wait
\* for each other in a cycle before a lease runs out on a worker still at work.
THEOREM CalmWithoutDeadlock == Spec => []NoWaitCycle
  BY NoCycle, LocksCorrect, PTL

-----------------------------------------------------------------------------
(* No update is lost before an overrun.                                    *)

\* The rows stand at these statuses, the message at one of m.
At(r, d, m) ==
  rows.reservation = r /\ rows.dispatch = d /\ rows.message \in m

\* The rows agree before any lease has run out on its worker.
AgreeInv ==
  ~overrun =>
    \/ At("reserved", "absent", {"absent"})
    \/ At("dispatch_pending", "queued", {"pending", "processing"})
    \/ At("cancelled", "rejected", {"dead"})
    \/ At("dispatched", "issued", {"published"})
    \/ At("completed", "completed", {"published"})

\* Each of the moves is a move.
LEMMA MovesAre ==
  ASSUME \/ At("reserved", "absent", {"absent"})
              /\ At("dispatch_pending", "queued", {"pending"})'
         \/ At("dispatch_pending", "queued", {"pending"})
              /\ At("dispatch_pending", "queued", {"processing"})'
         \/ At("dispatch_pending", "queued", {"processing"})
              /\ At("dispatch_pending", "queued", {"pending"})'
         \/ At("dispatch_pending", "queued", {"processing"})
              /\ At("dispatched", "issued", {"published"})'
         \/ At("dispatch_pending", "queued", {"processing"})
              /\ At("cancelled", "rejected", {"dead"})'
         \/ At("cancelled", "rejected", {"dead"})
              /\ At("dispatch_pending", "queued", {"pending"})'
         \/ At("dispatched", "issued", {"published"})
              /\ At("completed", "completed", {"published"})'
  PROVE  <<Stand, Stand'>> \in Moves
BY DEF At, Moves, Stand

\* A commit before an overrun finds the rows as its operation expects them.
LEMMA CalmCommit ==
  ASSUME LockInv, AgreeInv, ~overrun, NEW p \in Processes, Commit(p)
  PROVE  /\ AgreeInv'
         /\ Stand' = Stand \/ <<Stand, Stand'>> \in Moves
<1> DEFINE op == tx[p].op
<1>1. /\ op # "none" /\ tx[p].todo = <<>> /\ TypeOK
      /\ rows' = Written(op) /\ overrun' = overrun
  BY DEF Commit, LockInv
<1>2. rows \in [reservation : {"reserved", "dispatch_pending", "dispatched",
                               "completed", "cancelled"},
                dispatch : {"absent", "queued", "issued", "rejected", "completed"},
                message : {"absent", "pending", "processing", "published", "dead"}]
  BY <1>1 DEF TypeOK
<1>3. /\ op \in ClientOps => p \in Clients
      /\ op \in WorkerOps => p \in Workers /\ token[p] # 0
      /\ op \in ClientOps \cup WorkerOps
      /\ Needs(op) \subseteq tx[p].done
      /\ op = "issue" => rows.reservation = "reserved"
      /\ op = "redrive" => rows.message = "dead"
  BY <1>1, CommitFacts
<1>4. op \in WorkerOps => At("dispatch_pending", "queued", {"processing"})
  <2>1. op \in WorkerOps => rows.message = "processing"
    BY <1>3 DEF LockInv, CalmInv
  <2> QED
    BY <2>1 DEF AgreeInv, At
<1>5. op = "issue" => At("reserved", "absent", {"absent"})
  BY <1>3 DEF AgreeInv, At
<1>6. op = "redrive" => At("cancelled", "rejected", {"dead"})
  BY <1>3 DEF AgreeInv, At
<1>7. op = "settle" => At("dispatched", "issued", {"published"})
  <2>1. op = "settle" => "reservation" \in tx[p].done /\ p \in Clients
    BY <1>3 DEF Needs, ClientOps
  <2>2. op = "settle" => rows.dispatch = "issued"
    BY <2>1 DEF LockInv, ChecksStayTrue, Checks
  <2> QED
    BY <2>2 DEF AgreeInv, At
<1> HIDE DEF op
<1>8. CASE op = "append"
  BY <1>1, <1>8, WrittenRows DEF AgreeInv, At, Stand
<1>9. CASE op = "retry"
  <2>1. rows' = [rows EXCEPT !.message = "pending"]
    BY <1>1, <1>9, WrittenRows
  <2>2. /\ rows'.reservation = rows.reservation /\ rows'.dispatch = rows.dispatch
        /\ rows'.message = "pending"
    BY <1>2, <2>1
  <2>3. At("dispatch_pending", "queued", {"pending"})'
    BY <1>4, <1>9, <2>2 DEF At, WorkerOps
  <2> QED
    BY <1>4, <1>9, <2>3, MovesAre DEF AgreeInv, At, WorkerOps
<1>10. CASE op \in {"issue", "redrive"}
  <2>1. At("dispatch_pending", "queued", {"pending"})'
    BY <1>1, <1>10, WrittenRows DEF At
  <2> QED
    BY <1>5, <1>6, <1>10, <2>1, MovesAre DEF AgreeInv, At
<1>11. CASE op = "settle"
  <2>1. rows' = [rows EXCEPT !.reservation = "completed", !.dispatch = "completed"]
    BY <1>1, <1>11, WrittenRows
  <2>2. At("completed", "completed", {"published"})'
    BY <1>2, <1>7, <1>11, <2>1 DEF At
  <2> QED
    BY <1>7, <1>11, <2>2, MovesAre DEF AgreeInv
<1>12. CASE op = "success"
  <2>1. At("dispatched", "issued", {"published"})'
    BY <1>1, <1>12, WrittenRows DEF At
  <2> QED
    BY <1>4, <1>12, <2>1, MovesAre DEF AgreeInv, WorkerOps
<1>13. CASE op = "dead"
  <2>1. At("cancelled", "rejected", {"dead"})'
    BY <1>1, <1>13, WrittenRows DEF At
  <2> QED
    BY <1>4, <1>13, <2>1, MovesAre DEF AgreeInv, WorkerOps
<1> QED
  BY <1>3, <1>8, <1>9, <1>10, <1>11, <1>12, <1>13 DEF ClientOps, WorkerOps

\* Every step keeps the rows in agreement and moves them as it may.
LEMMA AgreeStep ==
  ASSUME LockInv, AgreeInv, [Next]_vars
  PROVE  /\ AgreeInv'
         /\ overrun' \/ Stand' = Stand \/ <<Stand, Stand'>> \in Moves
<1>1. ASSUME NEW p \in Processes, Commit(p), ~overrun
      PROVE  AgreeInv' /\ (Stand' = Stand \/ <<Stand, Stand'>> \in Moves)
  BY <1>1, CalmCommit
<1>2. ASSUME NEW w \in Workers, Claim(w), ~overrun
      PROVE  AgreeInv' /\ (Stand' = Stand \/ <<Stand, Stand'>> \in Moves)
  <2>1. /\ rows.message \in {"pending", "processing"}
        /\ rows' = [rows EXCEPT !.message = "processing"] /\ overrun' = overrun
    BY <1>2 DEF Claim
  <2>2. /\ rows'.reservation = rows.reservation /\ rows'.dispatch = rows.dispatch
        /\ rows'.message = "processing"
    BY <2>1 DEF LockInv, TypeOK
  <2>3. /\ At("dispatch_pending", "queued", {"pending", "processing"})
        /\ At("dispatch_pending", "queued", {"processing"})'
    BY <1>2, <2>1, <2>2 DEF AgreeInv, At
  <2>4. AgreeInv'
    BY <2>3 DEF AgreeInv, At
  <2>5. rows.message = "processing" => Stand' = Stand
    BY <2>2 DEF Stand
  <2>6. rows.message = "pending" => <<Stand, Stand'>> \in Moves
    <3>1. rows.message = "pending" => At("dispatch_pending", "queued", {"pending"})
      BY <2>3 DEF At
    <3> QED
      BY <2>3, <3>1, MovesAre
  <2> QED
    BY <2>1, <2>4, <2>5, <2>6
<1>3. ASSUME rows' = rows, overrun => overrun'
      PROVE  AgreeInv' /\ Stand' = Stand
  BY <1>3 DEF AgreeInv, At, Stand
<1>4. overrun => overrun'
  BY DEF Next, Begin, Claim, GiveUp, Finalise, Acquire, Commit, Abort, Die, Expire,
         vars
<1>5. CASE overrun
  BY <1>4, <1>5 DEF AgreeInv
<1>6. CASE ~overrun
  BY <1>1, <1>2, <1>3, <1>6
  DEF Next, Begin, GiveUp, Finalise, Acquire, Abort, Die, Expire, vars
<1> QED
  BY <1>5, <1>6

\* However many sessions and workers there are, a commit before an overrun moves
\* reservation, dispatch and message from where they stand to where they may go:
\* no transaction overwrites what another has written since it looked.
THEOREM CalmLosesNoUpdate == Spec => NoLostUpdate
<1>1. Init => AgreeInv
  BY DEF Init, AgreeInv, At
<1>2. LockInv /\ AgreeInv /\ [Next]_vars =>
        /\ AgreeInv'
        /\ [overrun' \/ Stand' = Stand \/ <<Stand, Stand'>> \in Moves]_vars
  BY AgreeStep
<1> QED
  BY <1>1, <1>2, LocksCorrect, PTL DEF Spec, NoLostUpdate
=============================================================================
