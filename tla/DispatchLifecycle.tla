-------------------------- MODULE DispatchLifecycle -------------------------
(***************************************************************************)
(* What the platform promises of a dispatch, whoever delivers it: a        *)
(* dispatch is queued for one key, counts as issued only after the         *)
(* destination acknowledged it, is rejected and re-driven by nobody but    *)
(* the operations named for that, and is settled once, for good.           *)
(***************************************************************************)
CONSTANTS Dispatches, Keys, None

VARIABLES
  phase,   \* where each dispatch stands
  key,     \* the key each dispatch is known by downstream
  acked    \* dispatches the destination acknowledged

vars == <<phase, key, acked>>

Init ==
  /\ phase = [d \in Dispatches |-> "absent"]
  /\ key = [d \in Dispatches |-> None]
  /\ acked = {}

Move(d, from, to) == phase[d] = from /\ phase' = [phase EXCEPT ![d] = to]

Queue(d, k) ==
  /\ Move(d, "absent", "queued")
  /\ \A e \in Dispatches : key[e] # k
  /\ key' = [key EXCEPT ![d] = k]
  /\ UNCHANGED acked

Acknowledge(d) ==
  /\ phase[d] = "queued"
  /\ acked' = acked \cup {d}
  /\ UNCHANGED <<phase, key>>

Issue(d) ==
  /\ Move(d, "queued", "issued")
  /\ d \in acked
  /\ UNCHANGED <<key, acked>>

Reject(d) == Move(d, "queued", "rejected") /\ UNCHANGED <<key, acked>>

Redrive(d) == Move(d, "rejected", "queued") /\ UNCHANGED <<key, acked>>

Settle(d) == Move(d, "issued", "completed") /\ UNCHANGED <<key, acked>>

Next ==
  \E d \in Dispatches :
    \/ \E k \in Keys : Queue(d, k)
    \/ Acknowledge(d) \/ Issue(d) \/ Reject(d) \/ Redrive(d) \/ Settle(d)

Spec == Init /\ [][Next]_vars
=============================================================================
