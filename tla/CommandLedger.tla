---------------------------- MODULE CommandLedger ----------------------------
(***************************************************************************)
(* What the API promises of its commands to whoever does not see how they  *)
(* overlap: a command takes effect in one step, allowed by the state it    *)
(* takes effect in, unless its key was used before; then its sender is     *)
(* told of the resource, if the command is the same.  A command that was   *)
(* recorded when a request repeated it is not refused.                     *)
(***************************************************************************)
CONSTANTS Requests, Offers, Commands, Keys, None

VARIABLES
  asked,   \* the command and the key of each request
  retry,   \* requests that repeated a command already recorded
  answer,  \* what each request was answered
  offer,   \* whether each offer is open
  status   \* where the resource of each request stands

vars == <<asked, retry, answer, offer, status>>

Init ==
  /\ asked = [r \in Requests |-> None]
  /\ retry = {}
  /\ answer = [r \in Requests |-> "none"]
  /\ offer = [o \in Offers |-> "open"]
  /\ status = [r \in Requests |-> "absent"]

Cmd(r) == asked[r].command
Made(op) == {r \in Requests : status[r] # "absent" /\ Cmd(r).op = op}

Ask(r) ==
  /\ asked[r] = None
  /\ \E c \in Commands, k \in Keys :
       /\ asked' = [asked EXCEPT ![r] = [command |-> c, key |-> k]]
       /\ c.target \in IF c.op = "reserve_offer" THEN Offers
                                                 ELSE Made("reserve_offer")
       /\ retry' = retry \cup
            {x \in {r} : \E q \in Made(c.op) : asked[q] = asked'[r]}
  /\ UNCHANGED <<answer, offer, status>>

Answer(r, a) ==
  /\ asked[r] # None /\ answer[r] = "none"
  /\ answer' = [answer EXCEPT ![r] = a]
  /\ UNCHANGED <<asked, retry>>

Reserve(r, o) ==
  /\ offer[o] = "open" /\ offer' = [offer EXCEPT ![o] = "reserved"]
  /\ status' = [status EXCEPT ![r] = "reserved"]

Dispatch(r, v) ==
  /\ status[v] = "reserved"
  /\ status' = [status EXCEPT ![r] = "queued", ![v] = "dispatch_pending"]
  /\ UNCHANGED offer

\* Whoever settles has neither reserved nor dispatched.
Settle(r, v) ==
  \E d \in Made("issue_dispatch") :
    /\ Cmd(d).target = v /\ status[d] = "issued" /\ status[v] = "dispatched"
    /\ Cmd(r).actor \notin {Cmd(d).actor, Cmd(v).actor}
    /\ status' = [status EXCEPT ![r] = "settled", ![v] = "completed",
                                ![d] = "completed"]
    /\ UNCHANGED offer

\* The requests that took effect under the key of r.
Before(r) == {q \in Made(Cmd(r).op) : asked[q].key = asked[r].key}

\* A command takes effect; its answer may get lost.
Execute(r) ==
  /\ Before(r) = {}
  /\ Answer(r, r) \/ Answer(r, "lost")
  /\ \/ Cmd(r).op = "reserve_offer" /\ Reserve(r, Cmd(r).target)
     \/ Cmd(r).op = "issue_dispatch" /\ Dispatch(r, Cmd(r).target)
     \/ Cmd(r).op = "settle_reservation" /\ Settle(r, Cmd(r).target)

Repeat(r, q) ==
  /\ q \in Before(r) /\ asked[q] = asked[r]
  /\ Answer(r, q)
  /\ UNCHANGED <<offer, status>>

Refuse(r) == r \notin retry /\ Answer(r, "refused") /\ UNCHANGED <<offer, status>>

Lose(r) == Answer(r, "lost") /\ UNCHANGED <<offer, status>>

\* A delivery ends, or is re-driven (see DispatchLifecycle).
Deliver(d, from, to, reservationTo) ==
  /\ d \in Made("issue_dispatch") /\ status[d] = from
  /\ status' = [status EXCEPT ![d] = to, ![Cmd(d).target] = reservationTo]
  /\ UNCHANGED <<asked, retry, answer, offer>>

Next ==
  \E r \in Requests :
    \/ Ask(r) \/ Execute(r) \/ Refuse(r) \/ Lose(r)
    \/ \E q \in Requests : Repeat(r, q)
    \/ Deliver(r, "queued", "issued", "dispatched")
    \/ Deliver(r, "queued", "rejected", "cancelled")
    \/ Deliver(r, "rejected", "queued", "dispatch_pending")

Spec == Init /\ [][Next]_vars
=============================================================================
