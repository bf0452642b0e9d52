------------------------ MODULE AuditEvidenceProofs ------------------------
(***************************************************************************)
(* Theorems about AuditEvidence: what verify_chain and a checkpoint show   *)
(* about a copy, for any number of writers, events and faults and on       *)
(* either database.                                                        *)
(***************************************************************************)
EXTENDS AuditEvidence, AuditChainProofs

\* Every row of the copy is a committed row, altered or not.
CopyInv ==
  \A r \in copy :
    /\ r = [sequence |-> r.sequence, previous |-> r.previous, intact |-> r.intact]
    /\ \E e \in events : e.sequence = r.sequence /\ e.previous = r.previous

\* A step of the copy's specification is a step of the chain or leaves it alone.
LEMMA CopyStepsChain ==
  ASSUME [CopyNext]_allVars PROVE [Next]_vars
BY DEF CopyNext, allVars, Backup, LoseRow, AlterRow

\* No committed row disappears.
LEMMA EventsGrow ==
  ASSUME [Next]_vars PROVE events \subseteq events'
BY DEF Next, Append, ReadLatest, GetLock, Insert, Commit, Rollback,
       TakeCheckpoint, vars

\* Backups, faults and appends keep CopyInv.
LEMMA CopyStep ==
  ASSUME CopyInv, [CopyNext]_allVars PROVE CopyInv'
<1>0. events \subseteq events'
  BY CopyStepsChain, EventsGrow
<1>1. CASE UNCHANGED copy
  BY <1>0, <1>1 DEF CopyInv
<1>2. CASE Backup
  BY <1>2 DEF Backup, Copied, CopyInv, vars
<1>3. ASSUME NEW r \in copy, LoseRow(r)
      PROVE  CopyInv'
  BY <1>0, <1>3 DEF LoseRow, CopyInv
<1>4. ASSUME NEW r \in copy, AlterRow(r)
      PROVE  CopyInv'
  BY <1>4 DEF AlterRow, Altered, CopyInv, vars
<1> QED
  BY <1>1, <1>2, <1>3, <1>4 DEF CopyNext, copyVars, allVars

\* The chain's invariant and the copy's hold throughout.
THEOREM CopyCorrect == CopySpec => [](PinInv /\ CopyInv)
<1>1. CopyInit => Init /\ CopyInv
  BY DEF CopyInit, CopyInv
<1>2. [CopyNext]_allVars => [Next]_vars
  BY CopyStepsChain
<1>3. CopySpec => []PinInv
  BY <1>1, <1>2, SignedRowsStay, PTL DEF CopySpec, Spec
<1>4. CopyInv /\ [CopyNext]_allVars => CopyInv'
  BY CopyStep
<1> QED
  BY <1>1, <1>3, <1>4, PTL DEF CopySpec

\* Below a row of a verified copy no row of a valid chain is missing.
LEMMA VerifiedIsPrefix ==
  ASSUME PinInv, CopyInv, ChainValid, Verified, NEW r \in copy
  PROVE  {f \in copy : f.sequence <= r.sequence}
           = {Copied(e) : e \in {f \in events : f.sequence <= r.sequence}}
<1>1. \A e \in events : e.sequence \in Nat \ {0} /\ e.previous \in Nat
  BY RowTyped DEF PinInv, ChainInv, TypeOK
<1>2. \A f \in copy : f.sequence \in Nat \ {0} /\ f.previous \in Nat
                     /\ LinksTo(copy, f, f.previous)
  BY <1>1 DEF CopyInv, Verified
<1>3. Covers(copy, r.sequence)
  BY <1>2, LinkedRowsCover
<1>4. \A f \in copy : \E e \in events : f = Copied(e) /\ f.sequence = e.sequence
  BY DEF CopyInv, Verified, Copied
<1>5. ASSUME NEW e \in events, e.sequence <= r.sequence
      PROVE  Copied(e) \in copy
  <2>1. PICK f \in copy : f.sequence = e.sequence
                         \/ (f.previous < e.sequence /\ e.sequence < f.sequence)
    BY <1>1, <1>2, <1>3, <1>5 DEF Covers
  <2>2. PICK g \in events : f = Copied(g) /\ g.sequence = f.sequence
                           /\ g.previous = f.previous
    BY <1>4 DEF Copied
  <2>3. LinksTo(events, g, g.previous)
    BY DEF ChainValid
  <2>4. g.sequence = e.sequence
    BY <1>1, <2>1, <2>2, <2>3 DEF LinksTo, Genesis
  <2>5. g = e
    BY <2>4 DEF PinInv, DistinctInv
  <2> QED
    BY <2>2, <2>5
<1>6. \A e \in events : Copied(e).sequence = e.sequence
  BY DEF Copied
<1> QED
  BY <1>4, <1>5, <1>6

\* verify_chain misses nothing but rows lost at the end of a copy.
THEOREM OnlyTruncationIsMissed == CopySpec => []UndetectedIsTruncation
<1>1. PinInv /\ CopyInv => UndetectedIsTruncation
  BY VerifiedIsPrefix DEF UndetectedIsTruncation
<1> QED
  BY CopyCorrect, <1>1, PTL

\* A copy that also agrees with a checkpoint is what the checkpoint signed.
THEOREM MatchedCopyComplete == CopySpec => []MatchedCopyIsComplete
<1>1. ASSUME PinInv, CopyInv, ChainValid, Matches
      PROVE  copy = {Copied(e) : e \in {f \in events : f.sequence <= checkpoint.head}}
  <2>1. CASE copy = {}
    <3>1. checkpoint.head = 0
      BY <1>1, <2>1 DEF Matches, CopyHead, Genesis
    <3>2. \A f \in events : f.sequence \in Nat \ {0}
      BY <1>1, RowTyped DEF PinInv, ChainInv, TypeOK
    <3> QED
      BY <2>1, <3>1, <3>2
  <2>2. CASE copy # {}
    <3>1. PICK r \in copy : r.sequence = checkpoint.head
                           /\ \A f \in copy : f.sequence <= r.sequence
      BY <1>1, <2>2 DEF Matches, CopyHead
    <3>2. {f \in copy : f.sequence <= r.sequence} = copy
      BY <3>1
    <3> QED
      BY <1>1, <3>1, <3>2, VerifiedIsPrefix DEF Matches
  <2> QED
    BY <2>1, <2>2
<1>2. PinInv /\ CopyInv => MatchedCopyIsComplete
  BY <1>1 DEF MatchedCopyIsComplete
<1> QED
  BY CopyCorrect, <1>2, PTL
=============================================================================
