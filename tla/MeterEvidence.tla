---------------------------- MODULE MeterEvidence ----------------------------
(***************************************************************************)
(* What a settlement is paid for: the readings of one asset's meter, the   *)
(* windows of its offers and dispatches, and the settlements that count    *)
(* readings (create_offer, issue_dispatch, record_meter_reading,           *)
(* settle_reservation of service.py).                                      *)
(*                                                                         *)
(* An offer, its reservation, its dispatch and its settlement are 1:1 and  *)
(* share an identifier.  What was measured, energy and source, is a value  *)
(* that is compared but not computed with: a settlement pays for the       *)
(* readings it counts.  Reservation, delivery and idempotency are the      *)
(* matter of Commands and DispatchDelivery; a dispatch here is one that    *)
(* has been delivered.                                                     *)
(***************************************************************************)
EXTENDS Integers, FiniteSets

CONSTANTS
  Submissions,    \* POST /v1/meter-readings; a resend is a submission of its own
  Offers,         \* offers of the asset
  Details,        \* what a meter reports of an interval: energy_kwh and source
  NoDetails,      \* what is known of a reading before it is sent
  Horizon,        \* bound: clocks show 0 .. Horizon
  Zones,          \* UTC offsets clients write timestamps in
  SteadyMeters    \* TRUE: a reading is always sent in the same spelling

Outcomes == {"none", "failed", "lost"}

ASSUME EvidenceAssumption ==
  /\ Horizon \in Nat
  /\ Zones \subseteq Int
  /\ SteadyMeters \in BOOLEAN
  /\ Submissions \cap Outcomes = {}
  /\ NoDetails \notin Details

VARIABLES
  keepsZone,   \* TRUE: timestamptz (PostgreSQL); FALSE: offset lost (SQLite)
  offer,       \* windows of the offers, as sent
  dispatch,    \* windows of the dispatches, as sent
  submitted,   \* the command of each submission, as sent
  pc,          \* each submission: "new", "lookup", "insert", "done"
  answer,      \* the reading it was told of
  readings,    \* meter_readings: the submissions that inserted a row
  settling,    \* each settlement: "idle", "asked", "read", "settled"
  known,       \* readings acknowledged when the settlement was asked for
  manifest     \* meter_reading_ids of the settlement

windows == <<keepsZone, offer, dispatch>>
meter == <<submitted, pc, answer, readings>>
billing == <<settling, known, manifest>>
vars == <<windows, meter, billing>>

\* An interval as it is spelled: what the clock shows, and the offset from UTC.
Interval == {i \in [start : 0 .. Horizon, end : 0 .. Horizon, zone : Zones] :
               i.start < i.end}
NoInterval == [start |-> 0, end |-> 0, zone |-> 0]

\* MeterReadingCreate: an interval and what was measured in it.
Reading == [interval : Interval, details : Details]
NoReading == [interval |-> NoInterval, details |-> NoDetails]

Init ==
  /\ keepsZone \in BOOLEAN
  /\ offer = [o \in Offers |-> NoInterval]
  /\ dispatch = [o \in Offers |-> NoInterval]
  /\ submitted = [s \in Submissions |-> NoReading]
  /\ pc = [s \in Submissions |-> "new"]
  /\ answer = [s \in Submissions |-> "none"]
  /\ readings = {}
  /\ settling = [o \in Offers |-> "idle"]
  /\ known = [o \in Offers |-> {}]
  /\ manifest = [o \in Offers |-> {}]

\* _utc: the instants an interval is about.
UTC(i) == [start |-> i.start - i.zone, end |-> i.end - i.zone]

\* What a query sees: SQLite drops the offset, and _utc takes the rest for UTC.
Stored(i) ==
  IF keepsZone THEN UTC(i) ELSE [start |-> i.start, end |-> i.end]

Within(i, j) == i.start >= j.start /\ i.end <= j.end

\* Two commands report the same of the same time.
SameReading(m, n) == UTC(m.interval) = UTC(n.interval) /\ m.details = n.details

-----------------------------------------------------------------------------
\* Offers and dispatches.  Offers of one asset may overlap.
CreateOffer(o, i) ==
  /\ offer[o] = NoInterval
  /\ offer' = [offer EXCEPT ![o] = i]
  /\ UNCHANGED <<keepsZone, dispatch, meter, billing>>

\* Mutant: the window of the command is compared as its clock shows it.
InsideOfferUnconverted(i, o) == Within(i, Stored(offer[o]))

\* The command's window, in UTC, against the row of the offer, read back.
InsideOffer(i, o) == Within(UTC(i), Stored(offer[o]))

IssueDispatch(o, i) ==
  /\ offer[o] # NoInterval /\ dispatch[o] = NoInterval
  /\ InsideOffer(i, o)
  /\ dispatch' = [dispatch EXCEPT ![o] = i]
  /\ UNCHANGED <<keepsZone, offer, meter, billing>>

-----------------------------------------------------------------------------
\* Meter readings.
Submit(s, m) ==
  /\ pc[s] = "new"
  /\ SteadyMeters => \A t \in Submissions :
                       SameReading(submitted[t], m) => submitted[t] = m
  /\ submitted' = [submitted EXCEPT ![s] = m]
  /\ pc' = [pc EXCEPT ![s] = "lookup"]
  /\ UNCHANGED <<answer, readings, windows, billing>>

\* The fingerprint is the hash of the whole command, as spelled.
Fingerprint(s) == submitted[s]

Recorded(s) == {r \in readings : Fingerprint(r) = Fingerprint(s)}

Reply(s, a) ==
  /\ pc' = [pc EXCEPT ![s] = "done"]
  /\ answer' = [answer EXCEPT ![s] = a]

Lookup(s) ==
  /\ pc[s] = "lookup"
  /\ \/ \E r \in Recorded(s) : Reply(s, r)
     \/ Recorded(s) = {} /\ pc' = [pc EXCEPT ![s] = "insert"] /\ UNCHANGED answer
  /\ UNCHANGED <<submitted, readings, windows, billing>>

\* Mutant: no UNIQUE(fingerprint).
NoConstraint(s) == TRUE

\* UNIQUE(fingerprint)
Unique(s) == Recorded(s) = {}

\* INSERT and COMMIT; the answer may be lost.
Insert(s, arrives) ==
  /\ pc[s] = "insert"
  /\ IF Unique(s)
     THEN readings' = readings \cup {s} /\ Reply(s, IF arrives THEN s ELSE "lost")
     ELSE Reply(s, "failed") /\ UNCHANGED readings
  /\ UNCHANGED <<submitted, windows, billing>>

\* The process dies before it commits.
Die(s) ==
  /\ pc[s] \in {"lookup", "insert"}
  /\ Reply(s, "lost")
  /\ UNCHANGED <<submitted, readings, windows, billing>>

-----------------------------------------------------------------------------
\* Settlement.
Acknowledged == {answer[s] : s \in Submissions} \cap Submissions

AskSettlement(o) ==
  /\ settling[o] = "idle" /\ dispatch[o] # NoInterval
  /\ settling' = [settling EXCEPT ![o] = "asked"]
  /\ known' = [known EXCEPT ![o] = Acknowledged]
  /\ UNCHANGED <<manifest, windows, meter>>

\* The windows the evidence query compares.
InWindow(r, o) == Within(Stored(submitted[r].interval), Stored(dispatch[o]))

\* Mutants: the window is open at its start; rows count that are not committed.
LaterThanStart(o) ==
  {r \in readings : /\ InWindow(r, o)
                    /\ Stored(submitted[r].interval).start > Stored(dispatch[o]).start}
Uncommitted(o) ==
  {r \in Submissions : (pc[r] = "insert" \/ r \in readings) /\ InWindow(r, o)}

\* The readings the query returns: fully inside the dispatch window.
Evidence(o) == {r \in readings : InWindow(r, o)}

\* Without a reading the settlement is refused.
ReadEvidence(o) ==
  /\ settling[o] = "asked"
  /\ manifest' = [manifest EXCEPT ![o] = Evidence(o)]
  /\ settling' = [settling EXCEPT ![o] = IF Evidence(o) = {} THEN "idle" ELSE "read"]
  /\ UNCHANGED <<known, windows, meter>>

CommitSettlement(o) ==
  /\ settling[o] = "read"
  /\ settling' = [settling EXCEPT ![o] = "settled"]
  /\ UNCHANGED <<known, manifest, windows, meter>>

\* The settlement's transaction is rolled back; it may be asked for again.
AbortSettlement(o) ==
  /\ settling[o] \in {"asked", "read"}
  /\ settling' = [settling EXCEPT ![o] = "idle"]
  /\ manifest' = [manifest EXCEPT ![o] = {}]
  /\ UNCHANGED <<known, windows, meter>>

Next ==
  \/ \E o \in Offers, i \in Interval : CreateOffer(o, i) \/ IssueDispatch(o, i)
  \/ \E s \in Submissions, m \in Reading : Submit(s, m)
  \/ \E s \in Submissions : Lookup(s) \/ Die(s)
  \/ \E s \in Submissions, arrives \in BOOLEAN : Insert(s, arrives)
  \/ \E o \in Offers : \/ AskSettlement(o) \/ ReadEvidence(o)
                       \/ CommitSettlement(o) \/ AbortSettlement(o)

Spec == Init /\ [][Next]_vars

-----------------------------------------------------------------------------
TypeOK ==
  /\ keepsZone \in BOOLEAN
  /\ offer \in [Offers -> Interval \cup {NoInterval}]
  /\ dispatch \in [Offers -> Interval \cup {NoInterval}]
  /\ submitted \in [Submissions -> Reading \cup {NoReading}]
  /\ pc \in [Submissions -> {"new", "lookup", "insert", "done"}]
  /\ answer \in [Submissions -> Submissions \cup Outcomes]
  /\ readings \subseteq Submissions
  /\ settling \in [Offers -> {"idle", "asked", "read", "settled"}]
  /\ known \in [Offers -> SUBSET Submissions]
  /\ manifest \in [Offers -> SUBSET readings]

Settled == {o \in Offers : settling[o] = "settled"}

\* README.md, "deduplicated meter evidence with deterministic fingerprints": a
\* reading, the same report of the same time, is stored once, and all who send it
\* are told of that one row, however their submissions overlap and whichever
\* answers were lost.
ReadingOnce ==
  /\ \A p, q \in readings : SameReading(submitted[p], submitted[q]) => p = q
  /\ \A s \in Submissions : answer[s] \in Submissions =>
       answer[s] \in readings /\ SameReading(submitted[answer[s]], submitted[s])

\* Was r measured inside that window?
MeasuredInside(r, window) == Within(UTC(submitted[r].interval), UTC(window))

\* An interval that the database gives back as it was meant.
Survives(i) == keepsZone \/ i.zone = 0

\* What is paid for was measured inside the window that was offered, although
\* reading, dispatch and offer may each be spelled in a zone of its own and are
\* compared pairwise, some before and some after a round trip to the database.
\* Where that drops zones it is so for clients that write UTC.
PaidInsideOffer ==
  \A o \in Settled : \A r \in manifest[o] :
    Survives(offer[o]) /\ Survives(dispatch[o]) /\ Survives(submitted[r].interval)
      => MeasuredInside(r, offer[o])

\* Every reading of the dispatch window that had been acknowledged when the
\* settlement was asked for is paid for, however it overlaps other submissions.
EvidenceIsComplete ==
  \A o \in Settled : \A r \in known[o] :
    /\ Survives(dispatch[o]) /\ Survives(submitted[r].interval)
    /\ MeasuredInside(r, dispatch[o])
    => r \in manifest[o]
=============================================================================
