----------------------------- MODULE AuditChain -----------------------------
(***************************************************************************)
(* Concurrent appends to the hash-linked audit table (audit.py) and the    *)
(* checkpoints taken of it (checkpoints.py).                               *)
(*                                                                         *)
(* append_event locks the newest row it sees and links to it.  Under       *)
(* PostgreSQL's READ COMMITTED a statement sees what was committed when it *)
(* started; a row that was only locked, not changed, is returned as first  *)
(* seen once its lock is free; and an empty table has no row to lock.      *)
(* SQLite lets one transaction write at a time, and every caller has       *)
(* written before it appends.                                              *)
(*                                                                         *)
(* A hash stands for the whole history below it; hashes do not collide, so *)
(* an event's hash is its sequence number, and Genesis is 0.               *)
(***************************************************************************)
EXTENDS Integers, FiniteSets

CONSTANTS
  Writers,     \* transactions that append: API, worker and recovery processes
  Backends,    \* the databases to consider: "sqlite", "postgresql" or both
  MaxSequence  \* bound on audit_events.sequence

ASSUME ChainParameters ==
  /\ Backends \subseteq {"sqlite", "postgresql"}
  /\ MaxSequence \in Nat

VARIABLES
  backend,     \* the database in use; it never changes
  events,      \* committed rows: [sequence, previous]
  sequence,    \* last value the database sequence handed out
  pc,          \* each writer: "idle", "wait", "link", "commit"
  latest,      \* the row (or Genesis) its SELECT ... FOR UPDATE returns
  inserted,    \* the row it has inserted and not yet committed
  checkpoint   \* a signed checkpoint somebody kept: [count, head]

vars == <<backend, events, sequence, pc, latest, inserted, checkpoint>>

Genesis == 0
NoRow == [sequence |-> 0, previous |-> 0]
Row == [sequence : Nat \ {0}, previous : Nat]

Init ==
  /\ backend \in Backends
  /\ events = {} /\ sequence = 0 /\ checkpoint = [count |-> 0, head |-> Genesis]
  /\ pc = [w \in Writers |-> "idle"]
  /\ latest = [w \in Writers |-> Genesis]
  /\ inserted = [w \in Writers |-> NoRow]

\* Mutant: the newest number handed out, committed or not (a dirty read).
IsHeadDirty(h) == h = sequence

\* h is the newest committed row, or Genesis if there is none.
IsHead(h) ==
  IF events = {} THEN h = Genesis
  ELSE \E e \in events : e.sequence = h
         /\ \A f \in events : f.sequence <= e.sequence

\* Nobody holds the FOR UPDATE lock of row h.  Nobody can lock a missing row.
LockFree(h) ==
  h = Genesis \/ \A v \in Writers : ~(pc[v] \in {"link", "commit"} /\ latest[v] = h)

\* SQLite locks the database, PostgreSQL rows.
SingleWriter == backend = "sqlite"

\* SQLite: nobody else is between BEGIN and COMMIT.
MayWrite == SingleWriter => \A v \in Writers : pc[v] = "idle"

\* SELECT ... ORDER BY sequence DESC LIMIT 1 FOR UPDATE starts.
ReadLatest(w, h) ==
  /\ pc[w] = "idle" /\ MayWrite
  /\ IsHead(h)
  /\ latest' = [latest EXCEPT ![w] = h]
  /\ pc' = [pc EXCEPT ![w] = IF LockFree(h) THEN "link" ELSE "wait"]
  /\ UNCHANGED <<backend, events, sequence, inserted, checkpoint>>

\* The lock it waited for is free; the row has not changed, so it is returned.
GetLock(w) ==
  /\ pc[w] = "wait"
  /\ LockFree(latest[w])
  /\ pc' = [pc EXCEPT ![w] = "link"]
  /\ UNCHANGED <<backend, events, sequence, latest, inserted, checkpoint>>

\* Mutant: the event always links to Genesis.
InsertUnlinked(w) ==
  /\ pc[w] = "link"
  /\ sequence < MaxSequence
  /\ sequence' = sequence + 1
  /\ inserted' = [inserted EXCEPT ![w] =
                    [sequence |-> sequence + 1, previous |-> Genesis]]
  /\ pc' = [pc EXCEPT ![w] = "commit"]
  /\ UNCHANGED <<backend, events, latest, checkpoint>>

\* The event links to the row the SELECT returned; session.flush inserts it.
Insert(w) ==
  /\ pc[w] = "link"
  /\ sequence < MaxSequence
  /\ sequence' = sequence + 1
  /\ inserted' = [inserted EXCEPT ![w] =
                    [sequence |-> sequence + 1, previous |-> latest[w]]]
  /\ pc' = [pc EXCEPT ![w] = "commit"]
  /\ UNCHANGED <<backend, events, latest, checkpoint>>

Ended(w) ==
  /\ pc' = [pc EXCEPT ![w] = "idle"]
  /\ latest' = [latest EXCEPT ![w] = Genesis]
  /\ inserted' = [inserted EXCEPT ![w] = NoRow]

Commit(w) ==
  /\ pc[w] = "commit"
  /\ events' = events \cup {inserted[w]}
  /\ Ended(w)
  /\ UNCHANGED <<backend, sequence, checkpoint>>

\* The transaction fails or its process dies.  A PostgreSQL sequence has lost
\* the number it handed out; SQLite numbers the next row anew.
Rollback(w) ==
  /\ pc[w] # "idle"
  /\ Ended(w)
  /\ sequence' = IF SingleWriter /\ pc[w] = "commit" THEN sequence - 1 ELSE sequence
  /\ UNCHANGED <<backend, events, checkpoint>>

\* e links to the row before it in the order of rows, or to Genesis.
LinksTo(rows, e, h) ==
  IF h = Genesis THEN \A f \in rows : f.sequence >= e.sequence
  ELSE /\ h < e.sequence
       /\ \E f \in rows : f.sequence = h
       /\ \A f \in rows : f.sequence <= h \/ f.sequence >= e.sequence

\* verify_chain accepts the table.
ChainValid == \A e \in events : LinksTo(events, e, e.previous)

\* Mutants: the count leaves the head out; it includes an uncommitted event.
TakeCheckpointShort(h) ==
  /\ ChainValid
  /\ IsHead(h)
  /\ checkpoint' = [count |-> Cardinality(events) - 1, head |-> h]
  /\ UNCHANGED <<backend, events, sequence, pc, latest, inserted>>
TakeCheckpointPending(h) ==
  /\ ChainValid
  /\ IsHead(h)
  /\ checkpoint' = [count |-> sequence, head |-> h]
  /\ UNCHANGED <<backend, events, sequence, pc, latest, inserted>>

\* Mutant: the chain is not verified before it is signed.
TakeCheckpointUnverified(h) ==
  /\ IsHead(h)
  /\ checkpoint' = [count |-> Cardinality(events), head |-> h]
  /\ UNCHANGED <<backend, events, sequence, pc, latest, inserted>>

\* create_checkpoint refuses an invalid chain.
TakeCheckpoint(h) ==
  /\ ChainValid
  /\ IsHead(h)
  /\ checkpoint' = [count |-> Cardinality(events), head |-> h]
  /\ UNCHANGED <<backend, events, sequence, pc, latest, inserted>>

Append(w) ==
  \/ \E h \in 0..sequence : ReadLatest(w, h)
  \/ GetLock(w) \/ Insert(w) \/ Commit(w) \/ Rollback(w)

Next ==
  \/ \E w \in Writers : Append(w)
  \/ \E h \in 0..sequence : TakeCheckpoint(h)

Spec == Init /\ [][Next]_vars

-----------------------------------------------------------------------------
\* The variables hold what the transactions read and write, a checkpoint too.
TypeOK ==
  /\ backend \in {"sqlite", "postgresql"}
  /\ events \subseteq Row
  /\ sequence \in Nat
  /\ pc \in [Writers -> {"idle", "wait", "link", "commit"}]
  /\ latest \in [Writers -> Nat]
  /\ inserted \in [Writers -> Row \cup {NoRow}]
  /\ checkpoint \in [count : Nat, head : Nat]

\* However appends overlap, an event links to an event that is committed and
\* older, or to Genesis: no event hangs off one that was rolled back.
LinksAreCommitted ==
  \A e \in events :
    /\ e.previous < e.sequence
    /\ e.previous = Genesis \/ \E f \in events : f.sequence = e.previous

\* Where one transaction writes at a time verify_chain accepts every state.
SerialChainValid == SingleWriter => ChainValid

\* The events up to the head of the checkpoint.
Below == {e \in events : e.sequence <= checkpoint.head}

\* What a checkpoint signed is exactly the first count events, up to its head, of
\* every chain that verifies later, whatever was appended, rolled back or
\* committed late in between: a row that slips in below the head is noticed.
CheckpointIsPrefix == ChainValid => Cardinality(Below) = checkpoint.count

\* The table keeps what an audit log promises: verify_chain fails from the first
\* event on that does not link to the newest, and no sooner.
Log ==
  INSTANCE AuditLog WITH
    serial <- SingleWriter, log <- events, intact <- ChainValid,
    signed <- Below
ImplementsLog == Log!Spec
=============================================================================
