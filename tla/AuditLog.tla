------------------------------- MODULE AuditLog -------------------------------
(***************************************************************************)
(* What the audit trail promises: it loses nothing; it either grows at its *)
(* end, linked to its newest event, or is broken from then on, which       *)
(* verification tells; and what was signed is what was there, and gains    *)
(* nothing unnoticed.  Where appends are serial it never breaks.           *)
(***************************************************************************)
EXTENDS Naturals

CONSTANT Genesis

VARIABLES
  serial,   \* whether one transaction appends at a time
  log,      \* the events: [sequence, previous]
  intact,   \* whether the log verifies
  signed    \* the events the checkpoint signs

vars == <<serial, log, intact, signed>>

Init ==
  /\ serial \in BOOLEAN
  /\ log = {} /\ signed = {}
  /\ intact = TRUE

\* e comes after every event and links to the newest.
Extends(e) ==
  e.previous < e.sequence /\ \A f \in log : f.sequence <= e.previous

\* One event is new; whatever it breaks stays broken.
Append ==
  \E e \in log' \ log :
    /\ log' = log \cup {e}
    /\ e.previous = Genesis \/ \E f \in log : f.sequence = e.previous
    /\ serial => Extends(e)
    /\ intact' = (intact /\ Extends(e))
    /\ signed' = signed \/ (~intact' /\ signed' = signed \cup {e})
    /\ UNCHANGED serial

Sign ==
  /\ intact
  /\ signed' = log
  /\ UNCHANGED <<serial, log, intact>>

Next == Append \/ Sign

Spec == Init /\ [][Next]_vars
=============================================================================
