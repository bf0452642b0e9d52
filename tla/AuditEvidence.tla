--------------------------- MODULE AuditEvidence ---------------------------
(***************************************************************************)
(* A copy of the audit table, as a backup or a restored database holds it, *)
(* that may lose or alter rows, checked by verify_chain and against a      *)
(* checkpoint of the table it was taken from.                              *)
(*                                                                         *)
(* AuditChain goes on underneath, on either database.  An altered row no   *)
(* longer has the hash that is stored in it.                               *)
(***************************************************************************)
EXTENDS AuditChain

CONSTANT MaxFaults   \* bound on the rows a copy loses or has altered

ASSUME EvidenceParameters == MaxFaults \in Nat

VARIABLES
  copy,     \* the rows of the copy: [sequence, previous, intact]
  faults    \* rows lost or altered so far

copyVars == <<copy, faults>>
allVars == <<vars, copyVars>>

Copied(e) == [sequence |-> e.sequence, previous |-> e.previous, intact |-> TRUE]
Altered(r) == [sequence |-> r.sequence, previous |-> r.previous, intact |-> FALSE]

CopyInit == Init /\ copy = {} /\ faults = 0

\* pg_dump sees one snapshot: everything that is committed.
Backup ==
  /\ copy' = {Copied(e) : e \in events}
  /\ UNCHANGED <<vars, faults>>

LoseRow(r) ==
  /\ faults < MaxFaults
  /\ copy' = copy \ {r}
  /\ faults' = faults + 1
  /\ UNCHANGED vars

AlterRow(r) ==
  /\ faults < MaxFaults
  /\ copy' = (copy \ {r}) \cup {Altered(r)}
  /\ faults' = faults + 1
  /\ UNCHANGED vars

\* Mutant: the first row may link to anything.
VerifiedFromFirst ==
  \A r \in copy :
    /\ r.intact
    /\ LinksTo(copy, r, r.previous) \/ \A f \in copy : f.sequence >= r.sequence

\* verify_chain on the copy.
Verified == \A r \in copy : r.intact /\ LinksTo(copy, r, r.previous)

CopyHead(h) ==
  IF copy = {} THEN h = Genesis
  ELSE \E r \in copy : r.sequence = h /\ \A f \in copy : f.sequence <= h

\* Mutant: whatever head the verification arrives at will do, and the expected
\* count is only a bound.
MatchesCount == Verified /\ Cardinality(copy) <= checkpoint.count

\* verify_fixture: the chain is valid, count and head are the expected ones.
Matches ==
  /\ Verified
  /\ Cardinality(copy) = checkpoint.count
  /\ CopyHead(checkpoint.head)

CopyNext ==
  \/ Next /\ UNCHANGED copyVars
  \/ Backup
  \/ \E r \in copy : LoseRow(r) \/ AlterRow(r)

CopySpec == CopyInit /\ [][CopyNext]_allVars

-----------------------------------------------------------------------------
\* What verify_chain cannot see missing from a copy is missing at its end: a
\* copy that verifies is the chain up to some row, if the chain is valid itself.
UndetectedIsTruncation ==
  ChainValid /\ Verified =>
    \A r \in copy :
      {f \in copy : f.sequence <= r.sequence}
        = {Copied(e) : e \in {f \in events : f.sequence <= r.sequence}}

\* A copy that agrees with a checkpoint has every event the checkpoint signed.
MatchedCopyIsComplete ==
  ChainValid /\ Matches =>
    copy = {Copied(e) : e \in {f \in events : f.sequence <= checkpoint.head}}
=============================================================================
