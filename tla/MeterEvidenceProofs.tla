------------------------- MODULE MeterEvidenceProofs -------------------------
(***************************************************************************)
(* What MeterEvidence promises for any number of submissions, offers and   *)
(* zones, any horizon and either database.  EvidenceInv is inductive as it *)
(* stands; each of its parts names the premise it needs.                   *)
(***************************************************************************)
EXTENDS MeterEvidence, TLAPS

\* A reading once sent is one, and nothing is known of what was not sent.
SentInv ==
  \A s \in Submissions :
    IF pc[s] = "new" THEN s \notin readings /\ answer[s] = "none"
    ELSE submitted[s] \in Reading

\* One row per fingerprint, and answers name the row of their own fingerprint.
RowInv ==
  /\ \A p, q \in readings : submitted[p] = submitted[q] => p = q
  /\ \A s \in Submissions : answer[s] \in Submissions =>
       answer[s] \in readings /\ submitted[answer[s]] = submitted[s]

\* A reading is always spelled the same.
SpellingInv ==
  SteadyMeters =>
    \A s, t \in Submissions :
      SameReading(submitted[s], submitted[t]) => submitted[s] = submitted[t]

\* A dispatch stays inside its offer, if the database gives both windows back.
OfferInv ==
  \A o \in Offers :
    dispatch[o] # NoInterval =>
      /\ offer[o] # NoInterval
      /\ Survives(offer[o]) => Within(UTC(dispatch[o]), UTC(offer[o]))

\* What a settlement counts is committed and was in its dispatch window, and
\* nothing it had to count is missing once it has read.
ManifestInv ==
  \A o \in Offers :
    /\ settling[o] = "idle" => manifest[o] = {}
    /\ settling[o] # "idle" => dispatch[o] # NoInterval
    /\ known[o] \subseteq readings
    /\ \A r \in manifest[o] : InWindow(r, o)
    /\ settling[o] \in {"read", "settled"} =>
         \A r \in known[o] : InWindow(r, o) => r \in manifest[o]

EvidenceInv ==
  TypeOK /\ SentInv /\ RowInv /\ SpellingInv /\ OfferInv /\ ManifestInv

-----------------------------------------------------------------------------
\* The empty interval is not an interval, and instants are integers.
LEMMA IntervalTypes ==
  /\ NoInterval \notin Interval
  /\ \A i \in Interval \cup {NoInterval} :
       /\ i.start \in Int /\ i.end \in Int /\ i.zone \in Int
       /\ UTC(i).start \in Int /\ UTC(i).end \in Int
  /\ \A i \in Interval : i.start < i.end
<1>1. ASSUME NEW i \in Interval
      PROVE  i.start \in Int /\ i.end \in Int /\ i.zone \in Int /\ i.start < i.end
  <2>1. i \in [start : 0 .. Horizon, end : 0 .. Horizon, zone : Zones] /\ i.start < i.end
    BY DEF Interval
  <2>2. i.start \in 0 .. Horizon /\ i.end \in 0 .. Horizon /\ i.zone \in Zones
    BY <2>1
  <2>3. Horizon \in Nat /\ \A z \in Zones : z \in Int
    BY EvidenceAssumption
  <2> QED BY <2>1, <2>2, <2>3
<1>2. NoInterval.start = 0 /\ NoInterval.end = 0 /\ NoInterval.zone = 0
  BY DEF NoInterval
<1>3. NoInterval \notin Interval
  BY <1>1, <1>2
<1>4. \A i \in Interval \cup {NoInterval} :
        /\ i.start \in Int /\ i.end \in Int /\ i.zone \in Int
        /\ UTC(i).start \in Int /\ UTC(i).end \in Int
  BY <1>1, <1>2 DEF UTC
<1> QED BY <1>1, <1>3, <1>4

\* What survives the database comes back as the instants that were sent.
LEMMA SurvivorsKeepInstants ==
  ASSUME NEW i \in Interval \cup {NoInterval}, Survives(i)
  PROVE  Stored(i).start = UTC(i).start /\ Stored(i).end = UTC(i).end
  BY IntervalTypes DEF Stored, UTC, Survives

\* Initially nothing was sent.
LEMMA InitEvidenceInv == Init => EvidenceInv
<1> SUFFICES ASSUME Init PROVE EvidenceInv
  OBVIOUS
<1> USE EvidenceAssumption DEF Init, Outcomes
<1>1. TypeOK
  BY DEF TypeOK
<1>2. SentInv
  BY DEF SentInv
<1>3. RowInv /\ SpellingInv
  BY DEF RowInv, SpellingInv
<1>4. OfferInv
  BY DEF OfferInv, NoInterval
<1>5. ManifestInv
  BY DEF ManifestInv, InWindow, Stored
<1> QED BY <1>1, <1>2, <1>3, <1>4, <1>5 DEF EvidenceInv

\* What offers and dispatches do touches no reading and no settlement.
LEMMA CreateOfferKeepsInv ==
  ASSUME EvidenceInv, NEW o \in Offers, NEW i \in Interval, CreateOffer(o, i)
  PROVE  EvidenceInv'
<1> USE DEF EvidenceInv, CreateOffer, meter, billing
<1>1. TypeOK'
  BY DEF TypeOK
<1>2. SentInv' /\ RowInv' /\ SpellingInv'
  BY DEF SentInv, RowInv, SpellingInv
<1>3. OfferInv'
  <2> SUFFICES ASSUME NEW p \in Offers, dispatch'[p] # NoInterval
               PROVE  /\ offer'[p] # NoInterval
                      /\ keepsZone' \/ offer'[p].zone = 0
                           => Within(UTC(dispatch'[p]), UTC(offer'[p]))
    BY DEF OfferInv, Survives
  <2>1. p # o
    BY DEF OfferInv
  <2>2. offer'[p] = offer[p] /\ dispatch'[p] = dispatch[p] /\ keepsZone' = keepsZone
    BY <2>1 DEF TypeOK
  <2> QED BY <2>2 DEF OfferInv, Survives
<1>4. ManifestInv'
  BY DEF ManifestInv, InWindow, Stored
<1> QED BY <1>1, <1>2, <1>3, <1>4

\* Issuing a dispatch keeps the evidence in order.
LEMMA IssueDispatchKeepsInv ==
  ASSUME EvidenceInv, NEW o \in Offers, NEW i \in Interval, IssueDispatch(o, i)
  PROVE  EvidenceInv'
<1> USE DEF EvidenceInv, IssueDispatch, meter, billing
<1>1. TypeOK'
  BY DEF TypeOK
<1>2. SentInv' /\ RowInv' /\ SpellingInv'
  BY DEF SentInv, RowInv, SpellingInv
<1>3. OfferInv'
  <2>1. Survives(offer[o]) => Within(UTC(i), UTC(offer[o]))
    BY SurvivorsKeepInstants DEF InsideOffer, Within, TypeOK
  <2> SUFFICES ASSUME NEW p \in Offers, dispatch'[p] # NoInterval
               PROVE  /\ offer'[p] # NoInterval
                      /\ keepsZone' \/ offer'[p].zone = 0
                           => Within(UTC(dispatch'[p]), UTC(offer'[p]))
    BY DEF OfferInv, Survives
  <2>2. offer' = offer /\ keepsZone' = keepsZone
    OBVIOUS
  <2>3. CASE p = o
    <3>1. dispatch'[p] = i
      BY <2>3 DEF TypeOK
    <3> QED BY <2>1, <2>2, <2>3, <3>1 DEF Survives
  <2>4. CASE p # o
    <3>1. dispatch'[p] = dispatch[p]
      BY <2>4 DEF TypeOK
    <3> QED BY <2>2, <3>1 DEF OfferInv, Survives
  <2> QED BY <2>3, <2>4
<1>4. ManifestInv'
  <2>1. settling[o] = "idle" /\ manifest[o] = {}
    BY DEF ManifestInv, TypeOK
  <2>2. /\ dispatch'[o] = i /\ i # NoInterval
        /\ \A p \in Offers \ {o} : dispatch'[p] = dispatch[p]
    BY IntervalTypes DEF TypeOK
  <2>3. \A p \in Offers \ {o} : \A r : InWindow(r, p)' <=> InWindow(r, p)
    BY <2>2 DEF InWindow, Stored
  <2> QED BY <2>1, <2>2, <2>3 DEF ManifestInv
<1> QED BY <1>1, <1>2, <1>3, <1>4

\* A submission enters once; only then is its reading assigned.
LEMMA SubmitKeepsInv ==
  ASSUME EvidenceInv, NEW s \in Submissions, NEW m \in Reading, Submit(s, m)
  PROVE  EvidenceInv'
<1> USE DEF EvidenceInv, Submit, windows, billing
<1>1. TypeOK'
  BY DEF TypeOK
<1>2. /\ submitted'[s] = m
      /\ \A t \in Submissions \ {s} : submitted'[t] = submitted[t] /\ pc'[t] = pc[t]
      /\ pc'[s] = "lookup"
  BY DEF TypeOK
<1>3. s \notin readings /\ answer[s] = "none"
  BY DEF SentInv
<1>4. SentInv'
  BY <1>2 DEF SentInv
<1>5. RowInv'
  BY <1>2, <1>3, EvidenceAssumption DEF RowInv, TypeOK, Outcomes
<1>6. SpellingInv'
  <2> SUFFICES ASSUME SteadyMeters,
                      NEW p \in Submissions, NEW q \in Submissions,
                      SameReading(submitted'[p], submitted'[q])
               PROVE  submitted'[p] = submitted'[q]
    BY DEF SpellingInv
  <2>1. \A t \in Submissions :
          /\ SameReading(submitted[t], m) => submitted[t] = m
          /\ SameReading(m, submitted[t]) => submitted[t] = m
    BY DEF SameReading
  <2> QED BY <1>2, <2>1 DEF SpellingInv
<1>7. OfferInv'
  BY DEF OfferInv, Survives
<1>8. ManifestInv'
  <2>1. \A r \in readings : submitted'[r] = submitted[r]
    BY <1>2, <1>3 DEF TypeOK
  <2>2. \A o \in Offers : \A r \in readings : InWindow(r, o)' <=> InWindow(r, o)
    BY <2>1 DEF InWindow, Stored
  <2>3. \A o \in Offers : known[o] \subseteq readings /\ manifest[o] \subseteq readings
    BY DEF ManifestInv, TypeOK
  <2> QED BY <2>2, <2>3 DEF ManifestInv
<1> QED BY <1>1, <1>4, <1>5, <1>6, <1>7, <1>8

\* A lookup only answers.
LEMMA LookupKeepsInv ==
  ASSUME EvidenceInv, NEW s \in Submissions, Lookup(s)
  PROVE  EvidenceInv'
<1> USE DEF EvidenceInv, Lookup, Reply, windows, billing
<1>1. TypeOK'
  BY DEF TypeOK, Recorded
<1>2. SentInv'
  BY DEF SentInv, TypeOK
<1>3. RowInv'
  BY DEF RowInv, TypeOK, Recorded, Fingerprint
<1>4. SpellingInv' /\ OfferInv' /\ ManifestInv'
  BY DEF SpellingInv, OfferInv, Survives, ManifestInv, InWindow, Stored
<1> QED BY <1>1, <1>2, <1>3, <1>4

\* The insert is where UNIQUE(fingerprint) decides between two submissions that
\* have both found nothing.
LEMMA InsertKeepsInv ==
  ASSUME EvidenceInv, NEW s \in Submissions, NEW arrives \in BOOLEAN,
         Insert(s, arrives)
  PROVE  EvidenceInv'
<1> USE DEF EvidenceInv, Insert, Reply, windows, billing
<1>1. TypeOK'
  BY DEF TypeOK, Outcomes
<1>2. SentInv'
  BY DEF SentInv, TypeOK
<1>3. RowInv'
  <2>1. CASE Unique(s)
    <3>1. \A r \in readings : submitted[r] # submitted[s]
      BY <2>1 DEF Unique, Recorded, Fingerprint
    <3> QED BY <2>1, <3>1, EvidenceAssumption DEF RowInv, TypeOK, Outcomes
  <2>2. CASE ~Unique(s)
    BY <2>2, EvidenceAssumption DEF RowInv, TypeOK, Outcomes
  <2> QED BY <2>1, <2>2
<1>4. SpellingInv' /\ OfferInv'
  BY DEF SpellingInv, OfferInv, Survives
<1>5. ManifestInv'
  BY DEF ManifestInv, InWindow, Stored
<1> QED BY <1>1, <1>2, <1>3, <1>4, <1>5

\* So does the death of a process.
LEMMA DieKeepsInv ==
  ASSUME EvidenceInv, NEW s \in Submissions, Die(s)
  PROVE  EvidenceInv'
<1> USE DEF EvidenceInv, Die, Reply, windows, billing
<1>1. TypeOK'
  BY DEF TypeOK, Outcomes
<1>2. SentInv'
  BY DEF SentInv, TypeOK
<1>3. RowInv'
  BY EvidenceAssumption DEF RowInv, TypeOK, Outcomes
<1>4. SpellingInv' /\ OfferInv' /\ ManifestInv'
  BY DEF SpellingInv, OfferInv, Survives, ManifestInv, InWindow, Stored
<1> QED BY <1>1, <1>2, <1>3, <1>4

\* A settlement that was asked for has to count what was acknowledged by then.
LEMMA AskSettlementKeepsInv ==
  ASSUME EvidenceInv, NEW o \in Offers, AskSettlement(o)
  PROVE  EvidenceInv'
<1> USE DEF EvidenceInv, AskSettlement, windows, meter
<1>1. Acknowledged \subseteq readings
  BY DEF Acknowledged, RowInv
<1>2. TypeOK'
  BY <1>1 DEF TypeOK
<1>3. SentInv' /\ RowInv' /\ SpellingInv' /\ OfferInv'
  BY DEF SentInv, RowInv, SpellingInv, OfferInv, Survives
<1>4. ManifestInv'
  BY <1>1 DEF ManifestInv, TypeOK, InWindow, Stored
<1> QED BY <1>2, <1>3, <1>4

\* The query returns every committed row that it finds in the window.
LEMMA ReadEvidenceKeepsInv ==
  ASSUME EvidenceInv, NEW o \in Offers, ReadEvidence(o)
  PROVE  EvidenceInv'
<1> USE DEF EvidenceInv, ReadEvidence, windows, meter
<1>1. TypeOK'
  BY DEF TypeOK, Evidence
<1>2. SentInv' /\ RowInv' /\ SpellingInv' /\ OfferInv'
  BY DEF SentInv, RowInv, SpellingInv, OfferInv, Survives
<1>3. \A p \in Offers : \A r : InWindow(r, p)' <=> InWindow(r, p)
  BY DEF InWindow, Stored
<1>4. ManifestInv'
  BY <1>3 DEF ManifestInv, TypeOK, Evidence
<1> QED BY <1>1, <1>2, <1>4

\* So does a settlement that commits or is refused.
LEMMA EndSettlementKeepsInv ==
  ASSUME EvidenceInv, NEW o \in Offers,
         CommitSettlement(o) \/ AbortSettlement(o)
  PROVE  EvidenceInv'
<1> USE DEF EvidenceInv, CommitSettlement, AbortSettlement, windows, meter
<1>1. TypeOK'
  BY DEF TypeOK
<1>2. SentInv' /\ RowInv' /\ SpellingInv' /\ OfferInv'
  BY DEF SentInv, RowInv, SpellingInv, OfferInv, Survives
<1>3. ManifestInv'
  BY DEF ManifestInv, TypeOK, InWindow, Stored
<1> QED BY <1>1, <1>2, <1>3

\* Every step keeps the invariant.
LEMMA NextKeepsInv == EvidenceInv /\ [Next]_vars => EvidenceInv'
<1> SUFFICES ASSUME EvidenceInv, [Next]_vars PROVE EvidenceInv'
  OBVIOUS
<1>1. CASE UNCHANGED vars
  BY <1>1 DEF vars, windows, meter, billing, EvidenceInv, TypeOK, SentInv,
     RowInv, SpellingInv, OfferInv, Survives, ManifestInv, InWindow, Stored
<1>2. CASE Next
  BY <1>2, CreateOfferKeepsInv, IssueDispatchKeepsInv, SubmitKeepsInv,
     LookupKeepsInv, InsertKeepsInv, DieKeepsInv, AskSettlementKeepsInv,
     ReadEvidenceKeepsInv, EndSettlementKeepsInv DEF Next
<1> QED BY <1>1, <1>2

\* EvidenceInv holds of every reachable state.
LEMMA AlwaysEvidenceInv == Spec => []EvidenceInv
  BY InitEvidenceInv, NextKeepsInv, PTL DEF Spec

-----------------------------------------------------------------------------
\* The variables of the evidence keep their types, and a manifest names
\* committed readings only.
THEOREM EvidenceTypeCorrect == Spec => []TypeOK
<1>1. EvidenceInv => TypeOK
  BY DEF EvidenceInv
<1> QED BY <1>1, AlwaysEvidenceInv, PTL

\* record_meter_reading stores a reading once and tells everybody of that one
\* row, provided that its sender never changes the spelling.
THEOREM ReadingStoredOnce == ASSUME SteadyMeters PROVE Spec => []ReadingOnce
<1>1. EvidenceInv => ReadingOnce
  <2> SUFFICES ASSUME EvidenceInv PROVE ReadingOnce
    OBVIOUS
  <2>1. \A p, q \in readings :
          SameReading(submitted[p], submitted[q]) => submitted[p] = submitted[q]
    BY SteadyMeters DEF EvidenceInv, TypeOK, SpellingInv
  <2>2. \A p, q \in readings : SameReading(submitted[p], submitted[q]) => p = q
    BY <2>1 DEF EvidenceInv, RowInv
  <2>3. \A s \in Submissions : answer[s] \in Submissions =>
          answer[s] \in readings /\ SameReading(submitted[answer[s]], submitted[s])
    BY DEF EvidenceInv, RowInv, SameReading
  <2> QED BY <2>2, <2>3 DEF ReadingOnce
<1> QED BY <1>1, AlwaysEvidenceInv, PTL

\* What settle_reservation compares in the database are the instants themselves,
\* for a reading and a window that survive it.
LEMMA WindowMeansInside ==
  ASSUME EvidenceInv, NEW o \in Offers, NEW r \in Submissions, r \in readings,
         Survives(dispatch[o]), Survives(submitted[r].interval)
  PROVE  InWindow(r, o) <=> MeasuredInside(r, dispatch[o])
<1>1. /\ submitted[r].interval \in Interval \cup {NoInterval}
      /\ dispatch[o] \in Interval \cup {NoInterval}
  BY DEF EvidenceInv, TypeOK, Reading, NoReading
<1> QED BY <1>1, SurvivorsKeepInstants DEF InWindow, MeasuredInside, Within

\* settle_reservation pays for nothing outside the offered window, on either
\* database, as long as the windows and the reading survive it.
THEOREM SettlementPaysInsideOffer == Spec => []PaidInsideOffer
<1>1. EvidenceInv => PaidInsideOffer
  <2> SUFFICES ASSUME EvidenceInv, NEW o \in Settled, NEW r \in manifest[o],
                      Survives(offer[o]), Survives(dispatch[o]),
                      Survives(submitted[r].interval)
               PROVE  MeasuredInside(r, offer[o])
    BY DEF PaidInsideOffer
  <2>1. o \in Offers /\ settling[o] = "settled" /\ r \in Submissions /\ r \in readings
    BY DEF Settled, EvidenceInv, TypeOK
  <2>2. MeasuredInside(r, dispatch[o])
    BY <2>1, WindowMeansInside DEF EvidenceInv, ManifestInv
  <2>3. Within(UTC(dispatch[o]), UTC(offer[o]))
    BY <2>1 DEF EvidenceInv, ManifestInv, OfferInv
  <2>4. /\ submitted[r].interval \in Interval \cup {NoInterval}
        /\ dispatch[o] \in Interval \cup {NoInterval}
        /\ offer[o] \in Interval \cup {NoInterval}
    BY <2>1 DEF EvidenceInv, TypeOK, Reading, NoReading
  <2> QED BY <2>2, <2>3, <2>4, IntervalTypes DEF Within, MeasuredInside
<1> QED BY <1>1, AlwaysEvidenceInv, PTL

\* settle_reservation misses no reading that was acknowledged before it was asked
\* for, on either database, as long as the window and the reading survive it.
THEOREM SettlementMissesNothing == Spec => []EvidenceIsComplete
<1>1. EvidenceInv => EvidenceIsComplete
  <2> SUFFICES ASSUME EvidenceInv, NEW o \in Settled, NEW r \in known[o],
                      Survives(dispatch[o]), Survives(submitted[r].interval),
                      MeasuredInside(r, dispatch[o])
               PROVE  r \in manifest[o]
    BY DEF EvidenceIsComplete
  <2>1. o \in Offers /\ settling[o] = "settled" /\ r \in Submissions /\ r \in readings
    BY DEF Settled, EvidenceInv, TypeOK, ManifestInv
  <2> QED BY <2>1, WindowMeansInside DEF EvidenceInv, ManifestInv
<1> QED BY <1>1, AlwaysEvidenceInv, PTL
=============================================================================
