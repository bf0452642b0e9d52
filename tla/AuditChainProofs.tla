-------------------------- MODULE AuditChainProofs --------------------------
(***************************************************************************)
(* Theorems about AuditChain: type correctness and LinksAreCommitted for   *)
(* both databases, checkpoints that stay prefixes of every chain that      *)
(* verifies on both, and a valid chain only where one transaction writes   *)
(* at a time (MCAudit_fork.cfg shows the chain of two PostgreSQL writers   *)
(* breaking).                                                              *)
(***************************************************************************)
EXTENDS AuditChain, FiniteSetTheorems, WellFoundedInduction, TLAPS

\* Numbers are handed out upwards, and what a writer holds is older than what
\* it inserts.
NumberInv ==
  /\ IsFiniteSet(events)
  /\ \A e \in events : e.sequence <= sequence
  /\ \A w \in Writers :
       latest[w] = Genesis \/ \E f \in events : f.sequence = latest[w]
  /\ \A w \in Writers : pc[w] = "commit" =>
       /\ inserted[w] \in Row
       /\ inserted[w].previous = latest[w]
       /\ latest[w] < inserted[w].sequence
       /\ inserted[w].sequence <= sequence

\* Under SQLite one writer is active and its number is the newest.
ExclusiveInv ==
  /\ \A v, w \in Writers : pc[v] # "idle" /\ pc[w] # "idle" => v = w
  /\ \A w \in Writers : pc[w] = "commit" =>
       /\ inserted[w].sequence = sequence
       /\ \A e \in events : e.sequence < sequence

ChainInv == TypeOK /\ NumberInv /\ LinksAreCommitted /\ (SingleWriter => ExclusiveInv)

\* Under SQLite an active writer has locked the head.
HeadInv == \A w \in Writers : pc[w] # "idle" => IsHead(latest[w])

ValidInv == ChainInv /\ HeadInv /\ ChainValid

-----------------------------------------------------------------------------
\* The records the actions build are rows.
LEMMA RowTyped ==
  /\ NoRow.sequence = 0 /\ NoRow.previous = 0
  /\ \A e \in Row : e.sequence \in Nat \ {0} /\ e.previous \in Nat
  /\ \A n \in Nat \ {0}, p \in Nat :
       /\ [sequence |-> n, previous |-> p] \in Row
       /\ [sequence |-> n, previous |-> p].sequence = n
       /\ [sequence |-> n, previous |-> p].previous = p
BY DEF NoRow, Row

\* The newest committed row is committed.
LEMMA HeadCommitted ==
  ASSUME NEW h, IsHead(h)
  PROVE  h = Genesis \/ \E f \in events : f.sequence = h
BY DEF IsHead

\* The empty table satisfies ChainInv.
LEMMA ChainInit == Init => ChainInv
BY FS_EmptySet, RowTyped, ChainParameters
  DEF Init, ChainInv, TypeOK, NumberInv, LinksAreCommitted, ExclusiveInv,
      Genesis, Row, NoRow

\* No step changes the database in use.
LEMMA BackendFixed ==
  ASSUME [Next]_vars PROVE backend' = backend /\ SingleWriter' = SingleWriter
BY DEF Next, Append, ReadLatest, GetLock, Insert, Commit, Rollback,
       TakeCheckpoint, vars, SingleWriter

\* Every step keeps the numbering, the links and SQLite's exclusion.
LEMMA ChainStep ==
  ASSUME ChainInv, [Next]_vars
  PROVE  ChainInv'
<1>0. backend' = backend /\ SingleWriter' = SingleWriter
  BY BackendFixed
<1> USE <1>0 DEF Genesis
<1>1. ASSUME NEW w \in Writers, NEW h \in 0..sequence, ReadLatest(w, h)
      PROVE  ChainInv'
  <2>1. h \in Nat /\ (h = Genesis \/ \E f \in events : f.sequence = h)
    BY <1>1, HeadCommitted DEF ReadLatest, ChainInv, TypeOK
  <2>2. TypeOK' /\ LinksAreCommitted'
    BY <1>1, <2>1 DEF ReadLatest, ChainInv, TypeOK, LinksAreCommitted
  <2>3. NumberInv'
    BY <1>1, <2>1 DEF ReadLatest, ChainInv, TypeOK, NumberInv
  <2>4. SingleWriter => ExclusiveInv'
    BY <1>1 DEF ReadLatest, ChainInv, TypeOK, ExclusiveInv, MayWrite
  <2> QED
    BY <2>2, <2>3, <2>4 DEF ChainInv
<1>2. ASSUME NEW w \in Writers, GetLock(w)
      PROVE  ChainInv'
  <2>1. TypeOK' /\ LinksAreCommitted'
    BY <1>2 DEF GetLock, ChainInv, TypeOK, LinksAreCommitted
  <2>2. NumberInv'
    BY <1>2 DEF GetLock, ChainInv, TypeOK, NumberInv
  <2>3. SingleWriter => ExclusiveInv'
    BY <1>2 DEF GetLock, ChainInv, TypeOK, ExclusiveInv
  <2> QED
    BY <2>1, <2>2, <2>3 DEF ChainInv
<1>3. ASSUME NEW w \in Writers, Insert(w)
      PROVE  ChainInv'
  <2> DEFINE row == [sequence |-> sequence + 1, previous |-> latest[w]]
  <2>1. latest[w] \in Nat /\ sequence + 1 \in Nat \ {0} /\ latest[w] < sequence + 1
    BY DEF ChainInv, TypeOK, NumberInv, Row
  <2>2. row \in Row /\ row.sequence = sequence + 1 /\ row.previous = latest[w]
    BY <2>1, RowTyped
  <2>3. /\ inserted' = [inserted EXCEPT ![w] = row]
        /\ pc' = [pc EXCEPT ![w] = "commit"] /\ pc[w] = "link"
        /\ sequence' = sequence + 1
        /\ UNCHANGED <<events, latest, checkpoint>>
    BY <1>3 DEF Insert
  <2> HIDE DEF row
  <2>4. TypeOK' /\ LinksAreCommitted'
    BY <2>1, <2>2, <2>3 DEF ChainInv, TypeOK, LinksAreCommitted
  <2>5. NumberInv'
    <3>1. \A v \in Writers : pc[v] = "commit" => inserted[v].sequence \in Nat
      BY RowTyped DEF ChainInv, NumberInv
    <3>2. \A e \in events : e.sequence \in Nat
      BY RowTyped DEF ChainInv, TypeOK
    <3> QED
      BY <2>1, <2>2, <2>3, <3>1, <3>2 DEF ChainInv, TypeOK, NumberInv
  <2>6. SingleWriter => ExclusiveInv'
    <3>1. \A e \in events : e.sequence < sequence + 1
      BY RowTyped DEF ChainInv, TypeOK, NumberInv
    <3> QED
      BY <2>2, <2>3, <3>1 DEF ChainInv, TypeOK, ExclusiveInv
  <2> QED
    BY <2>4, <2>5, <2>6 DEF ChainInv
<1>4. ASSUME NEW w \in Writers, Commit(w)
      PROVE  ChainInv'
  <2> DEFINE row == inserted[w]
  <2>1. /\ row \in Row /\ row.previous = latest[w]
        /\ latest[w] < row.sequence /\ row.sequence <= sequence
        /\ latest[w] = Genesis \/ \E f \in events : f.sequence = latest[w]
    BY <1>4 DEF Commit, ChainInv, NumberInv
  <2>2. events' = events \cup {row} /\ UNCHANGED <<sequence, checkpoint>>
    BY <1>4 DEF Commit
  <2>3. /\ pc' = [pc EXCEPT ![w] = "idle"] /\ pc[w] = "commit"
        /\ latest' = [latest EXCEPT ![w] = Genesis]
        /\ inserted' = [inserted EXCEPT ![w] = NoRow]
    BY <1>4 DEF Commit, Ended
  <2> HIDE DEF row
  <2>4. TypeOK'
    BY <2>1, <2>2, <2>3 DEF ChainInv, TypeOK
  <2>5. LinksAreCommitted'
    BY <2>1, <2>2 DEF ChainInv, LinksAreCommitted
  <2>6. NumberInv'
    <3>1. IsFiniteSet(events')
      BY <2>2, FS_AddElement DEF ChainInv, NumberInv
    <3> QED
      BY <2>1, <2>2, <2>3, <3>1 DEF ChainInv, TypeOK, NumberInv
  <2>7. SingleWriter => ExclusiveInv'
    BY <2>2, <2>3 DEF ChainInv, TypeOK, ExclusiveInv
  <2> QED
    BY <2>4, <2>5, <2>6, <2>7 DEF ChainInv
<1>5. ASSUME NEW w \in Writers, Rollback(w)
      PROVE  ChainInv'
  <2>1. /\ pc' = [pc EXCEPT ![w] = "idle"] /\ pc[w] # "idle"
        /\ latest' = [latest EXCEPT ![w] = Genesis]
        /\ inserted' = [inserted EXCEPT ![w] = NoRow]
        /\ UNCHANGED <<events, checkpoint>>
    BY <1>5 DEF Rollback, Ended
  <2>2. CASE SingleWriter /\ pc[w] = "commit"
    <3>1. sequence' = sequence - 1
      BY <1>5, <2>2 DEF Rollback
    <3>2. sequence \in Nat \ {0}
      BY <2>2, RowTyped DEF ChainInv, TypeOK, NumberInv, ExclusiveInv
    <3>3. \A v \in Writers \ {w} : pc[v] = "idle"
      BY <2>2 DEF ChainInv, ExclusiveInv
    <3>4. \A e \in events : e.sequence \in Nat /\ e.sequence <= sequence - 1
      BY <2>2, <3>2, RowTyped DEF ChainInv, TypeOK, ExclusiveInv
    <3>5. TypeOK' /\ LinksAreCommitted'
      BY <2>1, <3>1, <3>2 DEF ChainInv, TypeOK, LinksAreCommitted
    <3>6. NumberInv'
      BY <2>1, <3>1, <3>3, <3>4 DEF ChainInv, TypeOK, NumberInv
    <3>7. ExclusiveInv'
      BY <2>1, <3>3 DEF ChainInv, TypeOK, ExclusiveInv
    <3> QED
      BY <3>5, <3>6, <3>7 DEF ChainInv
  <2>3. CASE ~(SingleWriter /\ pc[w] = "commit")
    <3>1. sequence' = sequence
      BY <1>5, <2>3 DEF Rollback
    <3>2. TypeOK' /\ LinksAreCommitted'
      BY <2>1, <3>1 DEF ChainInv, TypeOK, LinksAreCommitted
    <3>3. NumberInv'
      BY <2>1, <3>1 DEF ChainInv, TypeOK, NumberInv
    <3>4. SingleWriter => ExclusiveInv'
      BY <2>1, <3>1 DEF ChainInv, TypeOK, ExclusiveInv
    <3> QED
      BY <3>2, <3>3, <3>4 DEF ChainInv
  <2> QED
    BY <2>2, <2>3
<1>6. ASSUME NEW h \in 0..sequence, TakeCheckpoint(h)
      PROVE  ChainInv'
  <2>1. Cardinality(events) \in Nat /\ h \in Nat
    BY FS_CardinalityType DEF ChainInv, TypeOK, NumberInv
  <2>2. TypeOK'
    BY <1>6, <2>1 DEF TakeCheckpoint, ChainInv, TypeOK
  <2> QED
    BY <1>6, <2>2
    DEF TakeCheckpoint, ChainInv, NumberInv, LinksAreCommitted, ExclusiveInv
<1>7. CASE UNCHANGED vars
  BY <1>7 DEF vars, ChainInv, TypeOK, NumberInv, LinksAreCommitted, ExclusiveInv
<1> QED
  BY <1>1, <1>2, <1>3, <1>4, <1>5, <1>6, <1>7 DEF Next, Append

\* The numbering and the links hold throughout, for either database.
THEOREM ChainCorrect == Spec => []ChainInv
<1>1. ChainInv /\ [Next]_vars => ChainInv'
  BY ChainStep
<1> QED
  BY ChainInit, <1>1, PTL DEF Spec

\* Every variable of the chain keeps its type.
THEOREM ChainTypeCorrect == Spec => []TypeOK
<1>1. ChainInv => TypeOK
  BY DEF ChainInv
<1> QED
  BY ChainCorrect, <1>1, PTL

\* append_event never links to an event that was rolled back.
THEOREM NoDanglingLink == Spec => []LinksAreCommitted
<1>1. ChainInv => LinksAreCommitted
  BY DEF ChainInv
<1> QED
  BY ChainCorrect, <1>1, PTL

-----------------------------------------------------------------------------
(* One transaction at a time: SQLite.                                      *)

\* A committed event of the newest number extends a valid chain.
LEMMA ValidExtends ==
  ASSUME SingleWriter, ValidInv, NEW w \in Writers, Commit(w)
  PROVE  ChainValid'
<1> DEFINE row == inserted[w]
<1>1. /\ row \in Row /\ row.previous = latest[w]
      /\ latest[w] < row.sequence /\ IsHead(latest[w])
      /\ \A e \in events : e.sequence < row.sequence
  BY DEF Commit, ValidInv, ChainInv, NumberInv, ExclusiveInv, HeadInv
<1>2. row.sequence \in Nat \ {0} /\ row.previous \in Nat
      /\ \A e \in events : e.sequence \in Nat \ {0} /\ e.previous \in Nat
  BY <1>1, RowTyped DEF ValidInv, ChainInv, TypeOK
<1>3. events' = events \cup {row} /\ checkpoint' = checkpoint
  BY DEF Commit
<1> HIDE DEF row
<1> SUFFICES ASSUME NEW e \in events' PROVE LinksTo(events, e, e.previous)'
  BY DEF ChainValid
<1>4. CASE e \in events
  BY <1>1, <1>2, <1>3, <1>4 DEF ValidInv, ChainValid, LinksTo, Genesis
<1>5. CASE e = row
  BY <1>1, <1>2, <1>3, <1>5 DEF LinksTo, IsHead, Genesis
<1> QED
  BY <1>3, <1>4, <1>5

\* The empty chain is valid.
LEMMA ValidInit == Init => ValidInv
BY ChainInit DEF Init, ValidInv, HeadInv, ChainValid, Genesis

\* SQLite's exclusion keeps the chain valid.
LEMMA ValidStep ==
  ASSUME SingleWriter, ValidInv, [Next]_vars
  PROVE  ValidInv'
<1>0. ChainInv' /\ ChainInv /\ ExclusiveInv /\ TypeOK
  BY ChainStep DEF ValidInv, ChainInv
<1>1. ASSUME NEW w \in Writers, NEW h \in 0..sequence, ReadLatest(w, h)
      PROVE  ValidInv'
  <2>1. HeadInv'
    BY <1>1, <1>0 DEF ReadLatest, MayWrite, ValidInv, HeadInv, IsHead, TypeOK
  <2>2. ChainValid'
    BY <1>1 DEF ReadLatest, ValidInv, ChainValid, LinksTo
  <2> QED
    BY <1>0, <2>1, <2>2 DEF ValidInv
<1>2. ASSUME NEW w \in Writers, GetLock(w) \/ Insert(w)
      PROVE  ValidInv'
  <2>1. UNCHANGED <<events, latest, checkpoint>> /\ pc[w] # "idle"
        /\ \E p \in {"link", "commit"} : pc' = [pc EXCEPT ![w] = p]
    BY <1>2 DEF GetLock, Insert
  <2>2. HeadInv'
    BY <2>1, <1>0 DEF ValidInv, HeadInv, IsHead, TypeOK
  <2>3. ChainValid'
    BY <2>1 DEF ValidInv, ChainValid, LinksTo
  <2> QED
    BY <1>0, <2>2, <2>3 DEF ValidInv
<1>3. ASSUME NEW w \in Writers, Commit(w)
      PROVE  ValidInv'
  <2>1. /\ pc' = [pc EXCEPT ![w] = "idle"] /\ pc[w] # "idle"
        /\ checkpoint' = checkpoint /\ events \subseteq events'
    BY <1>3 DEF Commit, Ended
  <2>2. HeadInv'
    BY <2>1, <1>0 DEF ValidInv, HeadInv, ExclusiveInv, TypeOK
  <2> QED
    BY <1>0, <1>3, <2>2, ValidExtends DEF ValidInv
<1>4. ASSUME NEW w \in Writers, Rollback(w)
      PROVE  ValidInv'
  <2>1. /\ pc' = [pc EXCEPT ![w] = "idle"]
        /\ latest' = [latest EXCEPT ![w] = Genesis]
        /\ UNCHANGED <<events, checkpoint>>
    BY <1>4 DEF Rollback, Ended
  <2>2. HeadInv'
    BY <2>1, <1>0 DEF ValidInv, HeadInv, IsHead, TypeOK
  <2>3. ChainValid'
    BY <2>1 DEF ValidInv, ChainValid, LinksTo
  <2> QED
    BY <1>0, <2>2, <2>3 DEF ValidInv
<1>5. ASSUME NEW h \in 0..sequence, TakeCheckpoint(h)
      PROVE  ValidInv'
  <2>1. UNCHANGED <<events, pc, latest>> /\ IsHead(h) /\ checkpoint'.head = h
    BY <1>5 DEF TakeCheckpoint
  <2>2. HeadInv'
    BY <2>1, HeadCommitted DEF ValidInv, HeadInv, IsHead
  <2>3. ChainValid'
    BY <2>1 DEF ValidInv, ChainValid, LinksTo
  <2> QED
    BY <1>0, <1>5, <2>2, <2>3 DEF ValidInv
<1>6. CASE UNCHANGED vars
  BY <1>0, <1>6 DEF vars, ValidInv, HeadInv, IsHead, ChainValid, LinksTo
<1> QED
  BY <1>1, <1>2, <1>3, <1>4, <1>5, <1>6 DEF Next, Append

\* Where one transaction writes at a time ValidInv holds throughout.
THEOREM SingleWriterCorrect == Spec => [](SingleWriter => ValidInv)
<1>1. Init => (SingleWriter => ValidInv)
  BY ValidInit
<1>2. (SingleWriter => ValidInv) /\ [Next]_vars => (SingleWriter => ValidInv)'
  BY ValidStep, BackendFixed
<1> QED
  BY <1>1, <1>2, PTL DEF Spec

\* verify_chain accepts whatever append_event wrote under SQLite's lock.
THEOREM ChainAlwaysValid == Spec => []SerialChainValid
<1>1. (SingleWriter => ValidInv) => SerialChainValid
  BY DEF ValidInv, SerialChainValid
<1> QED
  BY SingleWriterCorrect, <1>1, PTL

-----------------------------------------------------------------------------
(* Checkpoints on either database.  What was signed stays in the table.  The *)
(* links of those rows leave no room between them, so a row that is          *)
(* committed late, with a number below the head, breaks the chain.           *)

\* No two rows, committed or not, have one number.
DistinctInv ==
  /\ \A e, f \in events : e.sequence = f.sequence => e = f
  /\ \A w \in Writers : pc[w] = "commit" =>
       /\ \A e \in events : e.sequence # inserted[w].sequence
       /\ \A v \in Writers : pc[v] = "commit" /\ v # w =>
            inserted[v].sequence # inserted[w].sequence

\* Every number up to h is one of rows or is skipped by a link of rows.
Covers(rows, h) ==
  \A n \in 1..h : \E f \in rows :
    f.sequence = n \/ (f.previous < n /\ n < f.sequence)

\* The rows a checkpoint signed.
Signed(rows) ==
  /\ Cardinality(rows) = checkpoint.count
  /\ \A e \in rows : e.sequence <= checkpoint.head
  /\ Covers(rows, checkpoint.head)

PinInv == ChainInv /\ DistinctInv /\ \E rows \in SUBSET events : Signed(rows)

\* A set of natural numbers that is not empty has a smallest element.
LEMMA SmallestNat ==
  ASSUME NEW T \in SUBSET Nat, T # {}
  PROVE  \E n \in T : \A m \in T : n <= m
<1> DEFINE R == OpToRel(<, Nat)
<1>1. IsWellFoundedOn(R, Nat)
  BY NatLessThanWellFounded
<1>2. PICK n \in T : \A m \in T : ~(<<m, n>> \in R)
  <2> HIDE DEF R
  <2> QED
    BY <1>1, WFMin
<1>3. \A m \in T : ~(m < n)
  BY <1>2 DEF OpToRel
<1> QED
  BY <1>3

\* Rows that link to each other, or to Genesis, up to h leave no gap below h.
LEMMA LinkedRowsCover ==
  ASSUME NEW rows,
         \A e \in rows : e.sequence \in Nat \ {0} /\ e.previous \in Nat
                         /\ LinksTo(rows, e, e.previous),
         NEW h \in Nat, h = Genesis \/ \E f \in rows : f.sequence = h
  PROVE  Covers(rows, h)
<1> SUFFICES ASSUME NEW n \in 1..h, \A f \in rows : f.sequence # n
             PROVE  \E f \in rows : f.previous < n /\ n < f.sequence
  BY DEF Covers
<1> DEFINE above == {k \in Nat : n < k /\ \E f \in rows : f.sequence = k}
<1>1. h \in above
  BY DEF Genesis
<1>2. PICK k \in above : \A m \in above : k <= m
  BY <1>1, SmallestNat
<1>3. PICK f \in rows : f.sequence = k
  BY <1>2
<1>4. CASE f.previous = Genesis
  BY <1>2, <1>3, <1>4 DEF Genesis
<1>5. CASE f.previous # Genesis
  <2>1. PICK g \in rows : g.sequence = f.previous /\ f.previous < f.sequence
    BY <1>5 DEF LinksTo
  <2>2. f.previous \notin above
    BY <1>2, <1>3, <2>1
  <2> QED
    BY <1>2, <1>3, <2>1, <2>2
<1> QED
  BY <1>4, <1>5

\* In a valid chain that contains signed rows nothing else is below their head.
LEMMA SignedIsPrefix ==
  ASSUME TypeOK, DistinctInv, ChainValid, NEW rows \in SUBSET events, Signed(rows)
  PROVE  {e \in events : e.sequence <= checkpoint.head} = rows
<1>1. \A e \in events : e.sequence \in Nat \ {0} /\ e.previous \in Nat
  BY RowTyped DEF TypeOK
<1>2. ASSUME NEW e \in events, e.sequence <= checkpoint.head
      PROVE  e \in rows
  <2>1. e.sequence \in 1..checkpoint.head
    BY <1>1, <1>2 DEF TypeOK
  <2>2. PICK f \in rows : f.sequence = e.sequence
                         \/ (f.previous < e.sequence /\ e.sequence < f.sequence)
    BY <2>1 DEF Signed, Covers
  <2>3. LinksTo(events, f, f.previous)
    BY DEF ChainValid
  <2>4. f.sequence = e.sequence
    BY <1>1, <2>2, <2>3 DEF LinksTo, Genesis
  <2> QED
    BY <2>4 DEF DistinctInv
<1> QED
  BY <1>2 DEF Signed

\* Numbers stay distinct.
LEMMA DistinctStep ==
  ASSUME ChainInv, DistinctInv, [Next]_vars
  PROVE  DistinctInv'
<1>0. /\ \A e \in events : e.sequence \in Nat /\ e.sequence <= sequence
      /\ \A w \in Writers : pc[w] = "commit" =>
           inserted[w].sequence \in Nat /\ inserted[w].sequence <= sequence
      /\ sequence \in Nat
  BY RowTyped DEF ChainInv, TypeOK, NumberInv
<1>1. ASSUME NEW w \in Writers,
             (\E h \in 0..sequence : ReadLatest(w, h)) \/ GetLock(w)
      PROVE  DistinctInv'
  BY <1>1 DEF ReadLatest, GetLock, DistinctInv, ChainInv, TypeOK
<1>2. ASSUME NEW w \in Writers, Insert(w)
      PROVE  DistinctInv'
  <2> DEFINE row == [sequence |-> sequence + 1, previous |-> latest[w]]
  <2>1. row.sequence = sequence + 1
    OBVIOUS
  <2>2. /\ inserted' = [inserted EXCEPT ![w] = row]
        /\ pc' = [pc EXCEPT ![w] = "commit"]
        /\ UNCHANGED events
    BY <1>2 DEF Insert
  <2> HIDE DEF row
  <2> QED
    BY <1>0, <2>1, <2>2 DEF DistinctInv, ChainInv, TypeOK
<1>3. ASSUME NEW w \in Writers, Commit(w) \/ Rollback(w)
      PROVE  DistinctInv'
  <2>1. /\ pc' = [pc EXCEPT ![w] = "idle"]
        /\ inserted' = [inserted EXCEPT ![w] = NoRow]
        /\ events' = events \/ (pc[w] = "commit" /\ events' = events \cup {inserted[w]})
    BY <1>3 DEF Commit, Rollback, Ended
  <2> QED
    BY <2>1 DEF DistinctInv, ChainInv, TypeOK
<1>4. ASSUME NEW h \in 0..sequence, TakeCheckpoint(h)
      PROVE  DistinctInv'
  BY <1>4 DEF TakeCheckpoint, DistinctInv
<1>5. CASE UNCHANGED vars
  BY <1>5 DEF vars, DistinctInv
<1> QED
  BY <1>1, <1>2, <1>3, <1>4, <1>5 DEF Next, Append

\* What was signed stays in the table, and a new checkpoint signs all of it.
LEMMA SignedStep ==
  ASSUME ChainInv, NEW rows \in SUBSET events, Signed(rows), [Next]_vars
  PROVE  \E r \in SUBSET events' : Signed(r)'
<1>1. ASSUME NEW h \in 0..sequence, TakeCheckpoint(h)
      PROVE  \E r \in SUBSET events' : Signed(r)'
  <2>1. /\ events' = events /\ IsHead(h) /\ ChainValid /\ h \in Nat
        /\ checkpoint'.head = h /\ checkpoint'.count = Cardinality(events)
    BY <1>1 DEF TakeCheckpoint, ChainInv, TypeOK
  <2>2. \A e \in events : e.sequence \in Nat \ {0} /\ e.previous \in Nat
                         /\ LinksTo(events, e, e.previous)
    BY <2>1, RowTyped DEF ChainInv, TypeOK, ChainValid
  <2>3. Covers(events, h)
    BY <2>1, <2>2, LinkedRowsCover, HeadCommitted
  <2>4. \A e \in events : e.sequence <= h
    BY <2>1, <2>2 DEF IsHead
  <2>5. Signed(events)'
    BY <2>1, <2>3, <2>4 DEF Signed, Covers
  <2> QED
    BY <2>1, <2>5
<1>2. CASE UNCHANGED checkpoint /\ events \subseteq events'
  BY <1>2 DEF Signed, Covers
<1>3. (\E h \in 0..sequence : TakeCheckpoint(h))
        \/ (UNCHANGED checkpoint /\ events \subseteq events')
  BY DEF Next, Append, ReadLatest, GetLock, Insert, Commit, Rollback, vars
<1> QED
  BY <1>1, <1>2, <1>3

\* The rows of the last checkpoint are in the table throughout.
THEOREM SignedRowsStay == Spec => []PinInv
<1>1. Init => PinInv
  <2> SUFFICES ASSUME Init PROVE PinInv
    OBVIOUS
  <2>1. Signed({})
    BY FS_EmptySet DEF Init, Signed, Covers, Genesis
  <2> QED
    BY <2>1, ChainInit DEF Init, PinInv, DistinctInv
<1>2. PinInv /\ [Next]_vars => PinInv'
  BY ChainStep, DistinctStep, SignedStep DEF PinInv
<1> QED
  BY <1>1, <1>2, PTL DEF Spec

\* A checkpoint counts the events up to its head for as long as the chain
\* verifies, for any number of overlapping writers on either database.
THEOREM CheckpointPinsPrefix == Spec => []CheckpointIsPrefix
<1>1. PinInv => CheckpointIsPrefix
  BY SignedIsPrefix DEF PinInv, ChainInv, CheckpointIsPrefix, Below, Signed
<1> QED
  BY SignedRowsStay, <1>1, PTL

-----------------------------------------------------------------------------
(* The table implements AuditLog.                                          *)

\* What the log needs of a row that is committed.
Fresh(row) ==
  /\ row.sequence \in Nat \ {0} /\ row.previous \in Nat
  /\ row.previous < row.sequence
  /\ row.previous = Genesis \/ \E f \in events : f.sequence = row.previous
  /\ \A e \in events : e.sequence # row.sequence

\* The numbers and the links that are in the table.
LEMMA EventNumbers ==
  ASSUME ChainInv
  PROVE  \A e \in events :
           /\ e.sequence \in Nat \ {0} /\ e.previous \in Nat
           /\ e.previous = Genesis \/ \E f \in events : f.sequence = e.previous
BY RowTyped DEF ChainInv, TypeOK, LinksAreCommitted

\* A row that links to the newest event keeps a valid chain valid.
LEMMA ExtensionVerifies ==
  ASSUME ChainInv, NEW row, Fresh(row), events' = events \cup {row},
         ChainValid, Log!Extends(row)
  PROVE  ChainValid'
<1>1. \A e \in events : e.sequence \in Nat \ {0} /\ e.previous \in Nat
  BY EventNumbers
<1>2. /\ row.sequence \in Nat \ {0} /\ row.previous \in Nat
      /\ row.previous = Genesis \/ \E f \in events : f.sequence = row.previous
      /\ row.previous < row.sequence
      /\ \A f \in events : f.sequence <= row.previous
  BY DEF Fresh, Log!Extends
<1>3. ASSUME NEW e \in events' PROVE LinksTo(events, e, e.previous)'
  <2>1. CASE e \in events
    BY <1>1, <1>2, <2>1 DEF ChainValid, LinksTo, Genesis
  <2>2. CASE e = row
    BY <1>1, <1>2, <2>2 DEF LinksTo, Genesis
  <2> QED
    BY <2>1, <2>2
<1> QED
  BY <1>3 DEF ChainValid

\* A chain that still verifies with a row in it has the row at its end, and
\* verified before.
LEMMA VerifiedIsExtension ==
  ASSUME ChainInv, NEW row, Fresh(row), events' = events \cup {row}, ChainValid'
  PROVE  ChainValid /\ Log!Extends(row)
<1>1. \A e \in events :
        /\ e.sequence \in Nat \ {0} /\ e.previous \in Nat
        /\ e.previous = Genesis \/ \E f \in events : f.sequence = e.previous
        /\ e.sequence # row.sequence
  BY EventNumbers DEF Fresh
<1>2. /\ row.sequence \in Nat \ {0} /\ row.previous \in Nat
      /\ row.previous < row.sequence
  BY DEF Fresh
<1>3. \A e \in events' : LinksTo(events', e, e.previous)
  BY DEF ChainValid, LinksTo
<1>4. \A f \in events : f.sequence < row.sequence
  <2> DEFINE above == {k \in Nat : row.sequence < k
                                   /\ \E f \in events : f.sequence = k}
  <2> SUFFICES ASSUME above # {} PROVE FALSE
    BY <1>1, <1>2
  <2>1. PICK k \in above : \A m \in above : k <= m
    BY SmallestNat
  <2>2. PICK f \in events : f.sequence = k /\ row.sequence < k
    BY <2>1
  <2>3. LinksTo(events', f, f.previous) /\ row \in events' /\ f.sequence \in Nat
    BY <1>1, <1>3, <2>2
  <2>4. f.previous # Genesis
    BY <1>2, <2>2, <2>3 DEF LinksTo
  <2>5. f.previous < f.sequence /\ row.sequence <= f.previous
    BY <1>1, <1>2, <2>2, <2>3, <2>4 DEF LinksTo
  <2>6. PICK g \in events : g.sequence = f.previous
    BY <1>1, <2>4
  <2>7. f.previous \in above
    BY <1>1, <1>2, <2>5, <2>6
  <2> HIDE DEF above
  <2> QED
    BY <1>1, <2>1, <2>2, <2>5, <2>7
<1>5. Log!Extends(row)
  <2>1. LinksTo(events', row, row.previous)
    BY <1>3
  <2> QED
    BY <1>1, <1>2, <1>4, <2>1 DEF LinksTo, Log!Extends
<1>6. ASSUME NEW e \in events PROVE LinksTo(events, e, e.previous)
  <2>1. LinksTo(events', e, e.previous)
    BY <1>3
  <2> QED
    BY <1>1, <2>1 DEF LinksTo
<1> QED
  BY <1>5, <1>6 DEF ChainValid

\* A row that slips in below the head of a checkpoint is no extension.
LEMMA SlippedIsNoExtension ==
  ASSUME PinInv, NEW row, Fresh(row), row.sequence <= checkpoint.head
  PROVE  ~Log!Extends(row)
<1>1. PICK rows \in SUBSET events : Covers(rows, checkpoint.head)
  BY DEF PinInv, Signed
<1>2. row.sequence \in 1..checkpoint.head
  BY DEF Fresh, PinInv, ChainInv, TypeOK
<1>3. PICK f \in rows :
        f.sequence = row.sequence \/ (f.previous < row.sequence /\ row.sequence < f.sequence)
  BY <1>1, <1>2 DEF Covers
<1>4. f \in events /\ f.sequence \in Nat /\ row.sequence < f.sequence
  BY <1>3, EventNumbers DEF Fresh, PinInv
<1> QED
  BY <1>4 DEF Fresh, Log!Extends

\* What a writer commits is fresh, and on SQLite it extends the chain.
LEMMA CommittedIsFresh ==
  ASSUME PinInv, SingleWriter => ValidInv, NEW w \in Writers, pc[w] = "commit"
  PROVE  Fresh(inserted[w]) /\ (SingleWriter => Log!Extends(inserted[w]))
<1>1. /\ inserted[w] \in Row /\ inserted[w].previous = latest[w]
      /\ latest[w] < inserted[w].sequence
      /\ latest[w] = Genesis \/ \E f \in events : f.sequence = latest[w]
      /\ \A e \in events : e.sequence # inserted[w].sequence
  BY DEF PinInv, ChainInv, NumberInv, DistinctInv
<1>2. Fresh(inserted[w])
  BY <1>1, RowTyped DEF Fresh
<1>3. ASSUME SingleWriter PROVE Log!Extends(inserted[w])
  <2>1. IsHead(latest[w])
    BY <1>3 DEF ValidInv, HeadInv
  <2>2. \A f \in events : f.sequence <= latest[w]
    BY <2>1 DEF IsHead
  <2> QED
    BY <1>1, <2>2 DEF Log!Extends
<1> QED
  BY <1>2, <1>3

\* A committed row is an event appended to the log.
LEMMA CommitIsAppend ==
  ASSUME PinInv, SingleWriter => ValidInv, NEW w \in Writers, Commit(w)
  PROVE  Log!Append
<1> DEFINE row == inserted[w]
<1>1. /\ pc[w] = "commit" /\ events' = events \cup {row}
      /\ checkpoint' = checkpoint /\ SingleWriter' = SingleWriter
  BY DEF Commit, SingleWriter
<1>2. Fresh(row) /\ (SingleWriter => Log!Extends(row))
  BY <1>1, CommittedIsFresh
<1> HIDE DEF row
<1>3. ChainInv
  BY DEF PinInv
<1>4. row \in events' \ events
  BY <1>1, <1>2 DEF Fresh
<1>5. ChainValid' = (ChainValid /\ Log!Extends(row))
  <2>1. ChainValid' <=> ChainValid /\ Log!Extends(row)
    BY <1>1, <1>2, <1>3, ExtensionVerifies, VerifiedIsExtension
  <2>2. ChainValid' \in BOOLEAN /\ ChainValid \in BOOLEAN
        /\ Log!Extends(row) \in BOOLEAN
    BY DEF ChainValid, Log!Extends
  <2> QED
    BY <2>1, <2>2
<1>6. Below' = Below \/ (~ChainValid' /\ Below' = Below \cup {row})
  <2>1. CASE row.sequence <= checkpoint.head
    <3>1. ~ChainValid'
      BY <1>2, <1>5, <2>1, SlippedIsNoExtension
    <3> QED
      BY <1>1, <2>1, <3>1 DEF Below
  <2>2. CASE ~(row.sequence <= checkpoint.head)
    BY <1>1, <2>2 DEF Below
  <2> QED
    BY <2>1, <2>2
<1>7. row.previous = Genesis \/ \E f \in events : f.sequence = row.previous
  BY <1>2 DEF Fresh
<1> QED
  BY <1>1, <1>2, <1>4, <1>5, <1>6, <1>7 DEF Log!Append

\* A checkpoint signs the whole log.
LEMMA CheckpointIsSign ==
  ASSUME ChainInv, NEW h \in 0..sequence, TakeCheckpoint(h)
  PROVE  Log!Sign
<1>1. /\ UNCHANGED <<backend, events>> /\ ChainValid /\ IsHead(h)
      /\ checkpoint'.head = h
  BY DEF TakeCheckpoint
<1>2. \A e \in events : e.sequence <= h
  BY <1>1 DEF IsHead
<1>3. Below' = events
  BY <1>1, <1>2 DEF Below
<1>4. UNCHANGED <<SingleWriter, events, ChainValid>>
  BY <1>1 DEF SingleWriter, ChainValid, LinksTo
<1> QED
  BY <1>1, <1>3, <1>4 DEF Log!Sign

\* Every step of the table is a step of the log, or none.
LEMMA LogStep ==
  ASSUME PinInv, SingleWriter => ValidInv, [Next]_vars
  PROVE  [Log!Next]_(Log!vars)
<1>1. ASSUME NEW w \in Writers, Commit(w) PROVE Log!Next
  BY <1>1, CommitIsAppend DEF Log!Next
<1>2. ASSUME NEW h \in 0..sequence, TakeCheckpoint(h) PROVE Log!Next
  BY <1>2, CheckpointIsSign DEF Log!Next, PinInv
<1>3. CASE UNCHANGED <<backend, events, checkpoint>>
  BY <1>3 DEF Log!vars, SingleWriter, ChainValid, LinksTo, Below
<1> QED
  BY <1>1, <1>2, <1>3
  DEF Next, Append, ReadLatest, GetLock, Insert, Rollback, vars

\* However transactions overlap, on either database, the table loses no event,
\* verify_chain fails from the first event on that does not link to the newest
\* and no sooner, and an event that slips in below a checkpoint is one of those.
THEOREM TableImplementsLog == Spec => ImplementsLog
<1>1. Init => Log!Init
  BY DEF Init, Log!Init, SingleWriter, ChainValid, Below
<1>2. PinInv /\ (SingleWriter => ValidInv) /\ [Next]_vars
        => [Log!Next]_(Log!vars)
  BY LogStep
<1> QED
  BY <1>1, <1>2, SignedRowsStay, SingleWriterCorrect, PTL
  DEF Spec, ImplementsLog, Log!Spec
=============================================================================
