---------------------------- MODULE Absence_proofs ----------------------------
(***************************************************************************)
(* Proofs about Absence for every set of requests, cancellations, months   *)
(* and dates.                                                              *)
(*                                                                         *)
(* Argument: effects exist exactly for the covered dates of requests that  *)
(* took effect (EffectsOfEffective).  Cancellations that wait or were      *)
(* approved name dates of such requests (LiveAreEffective), and no date    *)
(* twice (LiveApart): hence whatever waits can still be applied.  What     *)
(* waits keeps a month from being submitted (ClosedResolved), so that the  *)
(* effects of a submitted or locked month only change by cancellations     *)
(* that name the lock (SnapshotsCurrent, OpenLinked).                      *)
(*                                                                         *)
(* The accounts then agree with the effects.  Numbers types them, and      *)
(* RestoredByApproved says that a cancellation restores nothing before it  *)
(* is approved; what it restores is what its dates still cover, because no *)
(* other cancellation that was approved names them.  Adjusted counts the   *)
(* adjustments per date and per month: an approval books, for the dates of *)
(* locked months and for no others, what the effects lose there.           *)
(***************************************************************************)
EXTENDS Absence, LedgerSums, FiniteSetTheorems, TLAPS

Live == OpenCancellation \cup {"APPROVED"}

\* A request that took effect: sickness when reported, vacation when approved.
Effective(r) ==
    /\ requests[r] # None
    /\ requests[r].status # "REJECTED"
    /\ r \in Sicknesses \/ requests[r].status \notin {"SUBMITTED", "CHANGES_REQUESTED"}

\* The tables that TypeOK leaves open have a row for each of their keys.
Tables ==
    /\ \E S : effects \in [Requests -> [Dates -> Seq(S)]]
    /\ DOMAIN snapshots = Months

EffectsOfEffective ==
    \A r \in Requests, d \in Dates :
        effects[r][d] # <<>> <=> Effective(r) /\ d \in requests[r].coverage

LiveAreEffective ==
    \A k \in Cancellations :
        (cancellations[k] # None /\ cancellations[k].status \in Live) =>
            /\ Effective(cancellations[k].request)
            /\ cancellations[k].coverage \subseteq requests[cancellations[k].request].coverage

LiveApart ==
    \A k, j \in Cancellations :
        (/\ k # j
         /\ cancellations[k] # None
         /\ cancellations[j] # None
         /\ cancellations[k].request = cancellations[j].request
         /\ cancellations[k].status \in Live
         /\ cancellations[j].status \in Live) =>
            cancellations[k].coverage \cap cancellations[j].coverage = {}

\* A month that is not open has no vacation that waits for a decision; a
\* submitted one has no cancellation that waits either.
ClosedResolved ==
    /\ \A r \in Vacations, d \in Dates :
          (/\ requests[r] # None
           /\ requests[r].status \in {"SUBMITTED", "CHANGES_REQUESTED"}
           /\ d \in requests[r].coverage) => months[MonthOf[d]] = "OPEN"
    /\ \A k \in Cancellations, d \in Dates :
          (/\ cancellations[k] # None
           /\ cancellations[k].status \in OpenCancellation
           /\ d \in cancellations[k].coverage) => months[MonthOf[d]] # "SUBMITTED"

\* The snapshot of a locked month shows what is in effect but for the dates
\* that were cancelled.
SnapshotsCurrent ==
    \A m \in Months : months[m] = "LOCKED" =>
        \A r \in Requests, d \in DatesIn(m) :
            d \notin CancelledDates(r, {"APPROVED"}) => snapshots[m][r][d] = effects[r][d]

OpenLinked ==
    \A k \in Cancellations :
        (cancellations[k] # None /\ cancellations[k].status \in OpenCancellation) =>
            \A m \in Months :
                m \in cancellations[k].snapshotLinks <=>
                    months[m] = "LOCKED" /\ DatesIn(m) \cap cancellations[k].coverage # {}

Inv ==
    /\ TypeOK
    /\ Tables
    /\ EffectsOfEffective
    /\ LiveAreEffective
    /\ LiveApart
    /\ ClosedResolved
    /\ SnapshotsCurrent
    /\ OpenLinked

Statuses == BlockingStatuses \cup {"REJECTED", "CANCELLED"}
CancellationStatuses == OpenCancellation \cup {"APPROVED", "REJECTED", "WITHDRAWN"}

-----------------------------------------------------------------------------
(* Rows *)

\* A request that gets another status keeps its coverage, and is a row.
LEMMA RequestStatus ==
    ASSUME requests \in [Requests -> RequestRows \cup {None}],
           NEW r \in Requests, requests[r] # None, NEW status \in Statuses,
           requests' = [requests EXCEPT ![r].status = status]
    PROVE  /\ requests' \in [Requests -> RequestRows \cup {None}]
           /\ requests'[r] # None
           /\ requests'[r].coverage = requests[r].coverage
           /\ requests'[r].status = status
           /\ \A s \in Requests \ {r} : requests'[s] = requests[s]
<1>1. requests[r] \in RequestRows
    OBVIOUS
<1>2. PICK C \in Coverages, old \in Statuses :
          requests[r] = [coverage |-> C, status |-> old]
    BY <1>1 DEF RequestRows, Statuses
<1>3. requests'[r] = [coverage |-> C, status |-> status]
    BY <1>2
<1>4. requests'[r] \in RequestRows
    BY <1>3 DEF RequestRows, Statuses
<1> QED
    BY <1>2, <1>3, <1>4, AbsenceAssumption

\* The same for a cancellation.
LEMMA CancellationStatus ==
    ASSUME cancellations \in [Cancellations -> CancellationRows \cup {None}],
           NEW k \in Cancellations, cancellations[k] # None,
           NEW status \in CancellationStatuses,
           cancellations' = [cancellations EXCEPT ![k].status = status]
    PROVE  /\ cancellations' \in [Cancellations -> CancellationRows \cup {None}]
           /\ cancellations'[k] # None
           /\ cancellations'[k].request = cancellations[k].request
           /\ cancellations'[k].coverage = cancellations[k].coverage
           /\ cancellations'[k].snapshotLinks = cancellations[k].snapshotLinks
           /\ cancellations'[k].status = status
           /\ \A j \in Cancellations \ {k} : cancellations'[j] = cancellations[j]
<1>1. cancellations[k] \in CancellationRows
    OBVIOUS
<1>2. PICK r \in Requests, C \in (SUBSET Dates) \ {{}}, old \in CancellationStatuses,
           L \in SUBSET Months :
          cancellations[k] = [request |-> r, coverage |-> C, status |-> old, snapshotLinks |-> L]
    BY <1>1 DEF CancellationRows, CancellationStatuses
<1>3. cancellations'[k] =
          [request |-> r, coverage |-> C, status |-> status, snapshotLinks |-> L]
    BY <1>2
<1>4. cancellations'[k] \in CancellationRows
    BY <1>3 DEF CancellationRows, CancellationStatuses
<1> QED
    BY <1>2, <1>3, <1>4, AbsenceAssumption

\* The fields of a row have their types.
LEMMA RequestRow ==
    ASSUME TypeOK, NEW r \in Requests, requests[r] # None
    PROVE  /\ requests[r].coverage \in Coverages
           /\ requests[r].coverage \in (SUBSET Dates) \ {{}}
           /\ requests[r].status \in Statuses
    BY AbsenceAssumption DEF TypeOK, RequestRows, Statuses

LEMMA CancellationRow ==
    ASSUME TypeOK, NEW k \in Cancellations, cancellations[k] # None
    PROVE  /\ cancellations[k].request \in Requests
           /\ cancellations[k].coverage \in (SUBSET Dates) \ {{}}
           /\ cancellations[k].status \in CancellationStatuses
           /\ cancellations[k].snapshotLinks \in SUBSET Months
    BY DEF TypeOK, CancellationRows, CancellationStatuses

\* Which dates are cancelled depends on the approved cancellations only.
LEMMA ApprovedUnchanged ==
    ASSUME NEW k \in Cancellations,
           \A j \in Cancellations \ {k} : cancellations'[j] = cancellations[j],
           cancellations[k] = None \/ cancellations[k].status # "APPROVED",
           cancellations'[k] = None \/ cancellations'[k].status # "APPROVED",
           NEW r
    PROVE  CancelledDates(r, {"APPROVED"})' = CancelledDates(r, {"APPROVED"})
    BY DEF CancelledDates

-----------------------------------------------------------------------------
(* The invariant *)

LEMMA InitInv == Init => Inv
<1> SUFFICES ASSUME Init PROVE Inv
    OBVIOUS
<1>1. Tables
  <2>1. effects \in [Requests -> [Dates -> Seq({})]]
      BY DEF Init
  <2> QED
      BY <2>1 DEF Init, Tables
<1>2. TypeOK
  <2>1. today \in 1..(LastDate + 1) /\ holidays \subseteq Dates
      BY AbsenceAssumption DEF Init
  <2>2. \A r \in Requests, d \in Dates : effects[r][d] = <<>>
      BY DEF Init
  <2> QED
      BY <2>1, <2>2 DEF Init, TypeOK
<1>3. EffectsOfEffective
    BY DEF Init, EffectsOfEffective, Effective
<1>4. LiveAreEffective /\ LiveApart /\ OpenLinked
    BY DEF Init, LiveAreEffective, LiveApart, OpenLinked
<1>5. ClosedResolved
    BY DEF Init, ClosedResolved, Requests
<1>6. SnapshotsCurrent
    BY DEF Init, SnapshotsCurrent
<1> QED
    BY <1>1, <1>2, <1>3, <1>4, <1>5, <1>6 DEF Inv

\* What the invariant speaks of but for the clock and the holidays.
tables == <<requests, effects, cancellations, months, snapshots>>

LEMMA CalendarStep ==
    ASSUME Inv, UNCHANGED tables, today' \in 1..(LastDate + 1), holidays' \subseteq Dates
    PROVE  Inv'
<1> USE DEF tables
<1>1. TypeOK'
    BY DEF Inv, TypeOK, CancelledDates
<1>2. Tables'
    BY DEF Inv, Tables
<1>3. EffectsOfEffective' /\ LiveAreEffective'
    BY DEF Inv, EffectsOfEffective, LiveAreEffective, Effective
<1>4. LiveApart' /\ OpenLinked'
    BY DEF Inv, LiveApart, OpenLinked
<1>5. ClosedResolved'
    BY DEF Inv, ClosedResolved
<1>6. SnapshotsCurrent'
    BY DEF Inv, SnapshotsCurrent, CancelledDates
<1> QED
    BY <1>1, <1>2, <1>3, <1>4, <1>5, <1>6 DEF Inv

-----------------------------------------------------------------------------
(* Requests that are submitted, reported or decided *)

\* The effects of a request that takes effect on these dates.
FirstEffects(C) == [d \in Dates |-> IF d \in C THEN <<CoveredMinutes(d)>> ELSE <<>>]

LEMMA EffectsTaken ==
    ASSUME Tables, NEW r \in Requests, NEW C,
           effects' = [effects EXCEPT ![r] = FirstEffects(C)]
    PROVE  /\ \E S : effects' \in [Requests -> [Dates -> Seq(S)]]
           /\ \A s \in Requests \ {r} : effects'[s] = effects[s]
           /\ \A d \in Dates : IF d \in C THEN effects'[r][d] # <<>> /\ Len(effects'[r][d]) = 1
                                          ELSE effects'[r][d] = <<>>
<1>1. PICK S : effects \in [Requests -> [Dates -> Seq(S)]]
    BY DEF Tables
<1> DEFINE T == S \cup {CoveredMinutes(d) : d \in Dates}
<1>2. FirstEffects(C) \in [Dates -> Seq(T)]
  <2>1. \A d \in Dates : CoveredMinutes(d) \in T
      OBVIOUS
  <2> HIDE DEF T
  <2>2. \A d \in Dates : (IF d \in C THEN <<CoveredMinutes(d)>> ELSE <<>>) \in Seq(T)
      BY <2>1
  <2> QED
      BY <2>2 DEF FirstEffects
<1>3. \A s \in Requests : effects[s] \in [Dates -> Seq(T)]
  <2>1. \A e \in Seq(S) : e \in Seq(T)
      OBVIOUS
  <2> QED
      BY <1>1, <2>1
<1> HIDE DEF T
<1>4. effects' \in [Requests -> [Dates -> Seq(T)]]
    BY <1>1, <1>2, <1>3
<1>5. effects'[r] = FirstEffects(C) /\ \A s \in Requests \ {r} : effects'[s] = effects[s]
    BY <1>1
<1> QED
    BY <1>4, <1>5 DEF FirstEffects

\* Nothing is cancelled of a request that never took effect.
LEMMA NothingCancelled ==
    ASSUME Inv, NEW r \in Requests, ~Effective(r)
    PROVE  CancelledDates(r, {"APPROVED"}) = {}
    BY DEF Inv, LiveAreEffective, Live, CancelledDates

\* A request that had no effect is written and, perhaps, takes effect; all its
\* dates are in open months.
LEMMA RequestStep ==
    ASSUME Inv, NEW r \in Requests, ~Effective(r),
           requests' \in [Requests -> RequestRows \cup {None}],
           requests'[r] # None,
           \A s \in Requests \ {r} : requests'[s] = requests[s],
           \A d \in requests'[r].coverage : months[MonthOf[d]] = "OPEN",
           \/ UNCHANGED effects /\ ~Effective(r)'
           \/ /\ Effective(r)'
              /\ effects' = [effects EXCEPT ![r] = FirstEffects(requests'[r].coverage)],
           UNCHANGED <<today, holidays, cancellations, months, snapshots>>
    PROVE  Inv'
<1>1. /\ \E S : effects' \in [Requests -> [Dates -> Seq(S)]]
      /\ \A s \in Requests \ {r} : effects'[s] = effects[s]
      /\ \A d \in Dates :
            IF Effective(r)' /\ d \in requests'[r].coverage
            THEN effects'[r][d] # <<>> /\ Len(effects'[r][d]) = 1
            ELSE effects'[r][d] = <<>>
  <2>1. CASE UNCHANGED effects /\ ~Effective(r)'
      BY <2>1 DEF Inv, Tables, EffectsOfEffective
  <2>2. CASE /\ Effective(r)'
             /\ effects' = [effects EXCEPT ![r] = FirstEffects(requests'[r].coverage)]
    <3> DEFINE C == requests'[r].coverage
    <3>1. Tables /\ effects' = [effects EXCEPT ![r] = FirstEffects(C)]
        BY <2>2 DEF Inv
    <3> HIDE DEF C
    <3>2. /\ \E S : effects' \in [Requests -> [Dates -> Seq(S)]]
          /\ \A s \in Requests \ {r} : effects'[s] = effects[s]
          /\ \A d \in Dates :
                IF d \in C THEN effects'[r][d] # <<>> /\ Len(effects'[r][d]) = 1
                           ELSE effects'[r][d] = <<>>
        BY <3>1, EffectsTaken
    <3> QED
        BY <2>2, <3>2 DEF C
  <2> QED
      BY <2>1, <2>2
<1>2. \A s : CancelledDates(s, {"APPROVED"})' = CancelledDates(s, {"APPROVED"})
    BY DEF CancelledDates
<1>3. CancelledDates(r, {"APPROVED"}) = {}
    BY NothingCancelled
<1>4. \A s \in Requests \ {r} : Effective(s)' <=> Effective(s)
    BY DEF Effective
<1>5. TypeOK'
  <2>1. ASSUME NEW s \in Requests, NEW d \in Dates, effects'[s][d] # <<>>
        PROVE  /\ requests'[s] # None
               /\ d \in requests'[s].coverage
               /\ Len(effects'[s][d]) = IF d \in CancelledDates(s, {"APPROVED"}) THEN 2 ELSE 1
    <3>1. CASE s = r
        BY <1>1, <1>3, <2>1, <3>1
    <3>2. CASE s # r
        BY <1>1, <2>1, <3>2 DEF Inv, TypeOK
    <3> QED
        BY <3>1, <3>2
  <2> QED
      BY <1>2, <2>1 DEF Inv, TypeOK
<1>6. Tables'
    BY <1>1 DEF Inv, Tables
<1>7. EffectsOfEffective'
  <2>1. ASSUME NEW s \in Requests, NEW d \in Dates
        PROVE  effects'[s][d] # <<>> <=> Effective(s)' /\ d \in requests'[s].coverage
    <3>1. CASE s = r
        BY <1>1, <3>1
    <3>2. CASE s # r
      <4>1. effects[s][d] # <<>> <=> Effective(s) /\ d \in requests[s].coverage
          BY <2>1 DEF Inv, EffectsOfEffective
      <4>2. effects'[s] = effects[s] /\ requests'[s] = requests[s]
          BY <1>1, <2>1, <3>2
      <4>3. Effective(s)' <=> Effective(s)
          BY <1>4, <2>1, <3>2
      <4> QED
          BY <4>1, <4>2, <4>3
    <3> QED
        BY <3>1, <3>2
  <2> QED
      BY <2>1 DEF EffectsOfEffective
<1>8. LiveAreEffective'
  <2>1. \A k \in Cancellations :
            (cancellations[k] # None /\ cancellations[k].status \in Live) =>
                cancellations[k].request \in Requests \ {r}
      BY CancellationRow DEF Inv, LiveAreEffective
  <2> QED
      BY <1>4, <2>1 DEF Inv, LiveAreEffective
<1>9. LiveApart' /\ OpenLinked'
    BY DEF Inv, LiveApart, OpenLinked
<1>10. ClosedResolved'
  <2>1. \A s \in Vacations : s \in Requests
      BY DEF Requests
  <2> QED
      BY <2>1 DEF Inv, ClosedResolved
<1>11. SnapshotsCurrent'
  <2>1. SUFFICES ASSUME NEW m \in Months, months[m] = "LOCKED",
                        NEW s \in Requests, NEW d \in DatesIn(m),
                        d \notin CancelledDates(s, {"APPROVED"})
                 PROVE  snapshots[m][s][d] = effects'[s][d]
      BY <1>2 DEF SnapshotsCurrent
  <2>2. snapshots[m][s][d] = effects[s][d]
      BY <2>1 DEF Inv, SnapshotsCurrent
  <2>3. CASE s = r
    <3>1. d \in Dates /\ d \notin requests'[r].coverage
        BY <2>1 DEF DatesIn
    <3>2. effects[r][d] = <<>>
        BY <3>1 DEF Inv, EffectsOfEffective
    <3> QED
        BY <1>1, <2>2, <2>3, <3>1, <3>2
  <2> QED
      BY <1>1, <2>2, <2>3
<1> QED
    BY <1>5, <1>6, <1>7, <1>8, <1>9, <1>10, <1>11 DEF Inv

LEMMA SubmissionStep ==
    ASSUME Inv, NEW r \in Requests, NEW C \in Coverages,
           \/ r \in Vacations /\ SubmitVacation(r, C)
           \/ r \in Sicknesses /\ ReportSickness(r, C)
    PROVE  Inv'
<1> DEFINE status == IF r \in Vacations THEN "SUBMITTED" ELSE "REPORTED"
           row == [coverage |-> C, status |-> status]
<1>1. r \in Sicknesses <=> r \notin Vacations
    BY AbsenceAssumption DEF Requests
<1>2. requests[r] = None /\ requests' = [requests EXCEPT ![r] = row]
    BY <1>1 DEF SubmitVacation, ReportSickness
<1>3. row \in RequestRows /\ row # None
    BY AbsenceAssumption DEF RequestRows, BlockingStatuses
<1>4. /\ requests' \in [Requests -> RequestRows \cup {None}]
      /\ requests'[r] = row
      /\ \A s \in Requests \ {r} : requests'[s] = requests[s]
  <2> HIDE DEF row
  <2> QED
      BY <1>2, <1>3 DEF Inv, TypeOK
<1>5. requests'[r].coverage = C /\ requests'[r].status = status
    BY <1>4
<1>6. \A d \in requests'[r].coverage : months[MonthOf[d]] = "OPEN"
    BY <1>5 DEF SubmitVacation, ReportSickness, OrdinaryMutationAllowed
<1>7. Effective(r)' <=> r \in Sicknesses
    BY <1>1, <1>3, <1>4, <1>5 DEF Effective
<1>8. \/ UNCHANGED effects /\ ~Effective(r)'
      \/ /\ Effective(r)'
         /\ effects' = [effects EXCEPT ![r] = FirstEffects(requests'[r].coverage)]
    BY <1>1, <1>5, <1>7 DEF SubmitVacation, ReportSickness, FirstEffects
<1>9. UNCHANGED <<today, holidays, cancellations, months, snapshots>>
    BY DEF SubmitVacation, ReportSickness
<1>10. ~Effective(r)
    BY <1>2 DEF Effective
<1> QED
    BY <1>3, <1>4, <1>6, <1>8, <1>9, <1>10, RequestStep

LEMMA DecideVacationStep ==
    ASSUME Inv, NEW r \in Vacations, NEW action \in DOMAIN Decided, NEW authority,
           DecideVacation(r, action, authority)
    PROVE  Inv'
<1>1. r \in Requests /\ r \notin Sicknesses
    BY AbsenceAssumption DEF Requests
<1>2. requests[r] # None /\ requests[r].status = "SUBMITTED"
    BY DEF DecideVacation
<1>3. action \in {"APPROVE", "REJECT", "REQUEST_CHANGES"}
    BY DEF Decided
<1>4. Decided[action] \in Statuses
    BY <1>3 DEF Decided, Statuses, BlockingStatuses
<1>5. /\ requests' \in [Requests -> RequestRows \cup {None}]
      /\ requests'[r] # None
      /\ requests'[r].coverage = requests[r].coverage
      /\ requests'[r].status = Decided[action]
      /\ \A s \in Requests \ {r} : requests'[s] = requests[s]
    BY <1>1, <1>2, <1>4, RequestStatus DEF DecideVacation, Inv, TypeOK
<1>6. \A d \in requests'[r].coverage : months[MonthOf[d]] = "OPEN"
    BY <1>1, <1>2, <1>5, RequestRow DEF Inv, ClosedResolved
<1>7. ~Effective(r)
    BY <1>1, <1>2 DEF Effective
<1>8. Effective(r)' <=> action = "APPROVE"
    BY <1>1, <1>3, <1>5 DEF Effective, Decided
<1>9. \/ UNCHANGED effects /\ ~Effective(r)'
      \/ /\ Effective(r)'
         /\ effects' = [effects EXCEPT ![r] = FirstEffects(requests'[r].coverage)]
    BY <1>5, <1>8 DEF DecideVacation, FirstEffects
<1>10. UNCHANGED <<today, holidays, cancellations, months, snapshots>>
    BY DEF DecideVacation
<1> QED
    BY <1>1, <1>5, <1>6, <1>7, <1>9, <1>10, RequestStep

LEMMA ReviewSicknessStep ==
    ASSUME Inv, NEW r \in Sicknesses, NEW status \in {"ACKNOWLEDGED", "CHANGES_REQUESTED"},
           ReviewSickness(r, status)
    PROVE  Inv'
<1>1. r \in Requests /\ r \notin Vacations
    BY AbsenceAssumption DEF Requests
<1>2. requests[r] # None /\ requests[r].status = "REPORTED" /\ status \in Statuses
    BY DEF ReviewSickness, Statuses, BlockingStatuses
<1>3. /\ requests' \in [Requests -> RequestRows \cup {None}]
      /\ requests'[r] # None
      /\ requests'[r].coverage = requests[r].coverage
      /\ requests'[r].status = status
      /\ \A s \in Requests \ {r} : requests'[s] = requests[s]
    BY <1>1, <1>2, RequestStatus DEF ReviewSickness, Inv, TypeOK
<1>4. UNCHANGED <<today, holidays, effects, cancellations, months, snapshots>>
    BY DEF ReviewSickness
<1>5. \A s \in Requests :
          /\ Effective(s)' <=> Effective(s)
          /\ requests[s] # None => requests'[s] # None
                                   /\ requests'[s].coverage = requests[s].coverage
    BY <1>2, <1>3 DEF Effective
<1>6. TypeOK'
    BY <1>3, <1>4, <1>5 DEF Inv, TypeOK, CancelledDates
<1>7. Tables' /\ LiveApart' /\ OpenLinked'
    BY <1>4 DEF Inv, Tables, LiveApart, OpenLinked
<1>8. EffectsOfEffective'
    BY <1>4, <1>5 DEF Inv, EffectsOfEffective, Effective
<1>9. LiveAreEffective'
    BY <1>4, <1>5, CancellationRow DEF Inv, LiveAreEffective, Effective
<1>10. ClosedResolved'
    BY <1>1, <1>3, <1>4 DEF Inv, ClosedResolved, Requests
<1>11. SnapshotsCurrent'
    BY <1>4 DEF Inv, SnapshotsCurrent, CancelledDates
<1> QED
    BY <1>6, <1>7, <1>8, <1>9, <1>10, <1>11 DEF Inv

-----------------------------------------------------------------------------
(* Cancellations *)

\* A cancellation that is not approved is written and not approved by it: while
\* it waits, it names other dates than every live one, of a request in effect,
\* none of them in a submitted month, and is linked to the locked months.
LEMMA CancellationStep ==
    ASSUME Inv, NEW k \in Cancellations,
           cancellations' \in [Cancellations -> CancellationRows \cup {None}],
           cancellations'[k] # None,
           \A j \in Cancellations \ {k} : cancellations'[j] = cancellations[j],
           cancellations[k] = None \/ cancellations[k].status # "APPROVED",
           cancellations'[k].status # "APPROVED",
           cancellations'[k].status \in OpenCancellation =>
               /\ Effective(cancellations'[k].request)
               /\ cancellations'[k].coverage \subseteq requests[cancellations'[k].request].coverage
               /\ \A j \in Cancellations \ {k} :
                     (/\ cancellations[j] # None
                      /\ cancellations[j].request = cancellations'[k].request
                      /\ cancellations[j].status \in Live) =>
                         cancellations'[k].coverage \cap cancellations[j].coverage = {}
               /\ \A d \in cancellations'[k].coverage : months[MonthOf[d]] # "SUBMITTED"
               /\ \A m \in Months :
                     m \in cancellations'[k].snapshotLinks <=>
                         months[m] = "LOCKED" /\ DatesIn(m) \cap cancellations'[k].coverage # {},
           UNCHANGED <<today, holidays, requests, effects, months, snapshots>>
    PROVE  Inv'
<1>1. \A r : CancelledDates(r, {"APPROVED"})' = CancelledDates(r, {"APPROVED"})
    BY ApprovedUnchanged
<1>2. \A r : Effective(r)' <=> Effective(r)
    BY DEF Effective
<1>3. TypeOK'
    BY <1>1 DEF Inv, TypeOK
<1>4. Tables' /\ EffectsOfEffective'
    BY <1>2 DEF Inv, Tables, EffectsOfEffective
<1>5. LiveAreEffective'
    BY <1>2 DEF Inv, LiveAreEffective, Live
<1>6. LiveApart'
  <2>1. SUFFICES ASSUME NEW i \in Cancellations, NEW j \in Cancellations, i # j,
                        cancellations'[i] # None, cancellations'[j] # None,
                        cancellations'[i].request = cancellations'[j].request,
                        cancellations'[i].status \in Live, cancellations'[j].status \in Live
                 PROVE  cancellations'[i].coverage \cap cancellations'[j].coverage = {}
      BY DEF LiveApart
  <2>2. CASE i # k /\ j # k
      BY <2>1, <2>2 DEF Inv, LiveApart
  <2>3. CASE i = k \/ j = k
      BY <2>1, <2>3 DEF Live
  <2> QED
      BY <2>2, <2>3
<1>7. ClosedResolved'
    BY DEF Inv, ClosedResolved
<1>8. SnapshotsCurrent'
    BY <1>1 DEF Inv, SnapshotsCurrent
<1>9. OpenLinked'
    BY DEF Inv, OpenLinked
<1> QED
    BY <1>3, <1>4, <1>5, <1>6, <1>7, <1>8, <1>9 DEF Inv

LEMMA SubmitCancellationStep ==
    ASSUME Inv, NEW k \in Cancellations, NEW r \in Requests,
           NEW selection \in Selections \cup {None}, SubmitCancellation(k, r, selection)
    PROVE  Inv'
<1> DEFINE C == Target(r, selection)
           L == {m \in Months : months[m] = "LOCKED" /\ DatesIn(m) \cap C # {}}
           row == [request |-> r, coverage |-> C, status |-> "PENDING_DECISION",
                   snapshotLinks |-> L]
<1>1. /\ cancellations[k] = None
      /\ cancellations' = [cancellations EXCEPT ![k] = row]
      /\ CancellationAccepted(r, selection)
    BY DEF SubmitCancellation
<1>2. /\ requests[r] # None
      /\ requests[r].status \in CancellableStatuses
      /\ C \subseteq requests[r].coverage
      /\ C \cap CancelledDates(r, Live) = {}
      /\ \A d \in C : months[MonthOf[d]] # "SUBMITTED"
    BY <1>1 DEF CancellationAccepted, Live
<1>3. C \in (SUBSET Dates) \ {{}}
    BY <1>2, RequestRow, AbsenceAssumption DEF Target, Inv
<1> HIDE DEF C
<1>4. row \in CancellationRows /\ row # None
    BY <1>3, AbsenceAssumption DEF CancellationRows, OpenCancellation
<1>5. /\ row.request = r
      /\ row.coverage = C
      /\ row.status = "PENDING_DECISION"
      /\ row.snapshotLinks = L
    OBVIOUS
<1> HIDE DEF row
<1>6. /\ cancellations' \in [Cancellations -> CancellationRows \cup {None}]
      /\ cancellations'[k] = row
      /\ \A j \in Cancellations \ {k} : cancellations'[j] = cancellations[j]
    BY <1>1, <1>4 DEF Inv, TypeOK
<1>7. Effective(r)
    BY <1>2 DEF Effective, CancellableStatuses
<1>8. \A j \in Cancellations \ {k} :
          (/\ cancellations[j] # None
           /\ cancellations[j].request = r
           /\ cancellations[j].status \in Live) => C \cap cancellations[j].coverage = {}
    BY <1>2, <1>3 DEF CancelledDates
<1>9. UNCHANGED <<today, holidays, requests, effects, months, snapshots>>
    BY DEF SubmitCancellation
<1>10. cancellations'[k].status # "APPROVED"
    BY <1>5, <1>6
<1> QED
    BY <1>1, <1>2, <1>4, <1>5, <1>6, <1>7, <1>8, <1>9, <1>10, CancellationStep

LEMMA RefusalStep ==
    ASSUME Inv, NEW k \in Cancellations,
           \/ WithdrawCancellation(k)
           \/ \E action \in {"REJECT", "REQUEST_CHANGES"} : RefuseCancellation(k, action)
    PROVE  Inv'
<1>1. /\ cancellations[k] # None
      /\ cancellations[k].status \in OpenCancellation
      /\ UNCHANGED <<today, holidays, requests, effects, months, snapshots>>
    BY DEF WithdrawCancellation, RefuseCancellation
<1>2. PICK status \in {"WITHDRAWN", "REJECTED", "CHANGES_REQUESTED"} :
          cancellations' = [cancellations EXCEPT ![k].status = status]
    BY DEF WithdrawCancellation, RefuseCancellation, Decided
<1>3. status \in CancellationStatuses
    BY DEF CancellationStatuses, OpenCancellation
<1>4. /\ cancellations' \in [Cancellations -> CancellationRows \cup {None}]
      /\ cancellations'[k] # None
      /\ cancellations'[k].request = cancellations[k].request
      /\ cancellations'[k].coverage = cancellations[k].coverage
      /\ cancellations'[k].snapshotLinks = cancellations[k].snapshotLinks
      /\ cancellations'[k].status = status
      /\ \A j \in Cancellations \ {k} : cancellations'[j] = cancellations[j]
    BY <1>1, <1>2, <1>3, CancellationStatus DEF Inv, TypeOK
<1>5. cancellations[k].status # "APPROVED" /\ status # "APPROVED"
    BY <1>1 DEF OpenCancellation
<1>6. cancellations[k].coverage \in SUBSET Dates
    BY <1>1, CancellationRow DEF Inv
<1>7. /\ Effective(cancellations[k].request)
      /\ cancellations[k].coverage \subseteq requests[cancellations[k].request].coverage
    BY <1>1 DEF Inv, LiveAreEffective, Live
<1>8. \A j \in Cancellations \ {k} :
          (/\ cancellations[j] # None
           /\ cancellations[j].request = cancellations[k].request
           /\ cancellations[j].status \in Live) =>
              cancellations[k].coverage \cap cancellations[j].coverage = {}
    BY <1>1 DEF Inv, LiveApart, Live
<1>9. \A d \in cancellations[k].coverage : months[MonthOf[d]] # "SUBMITTED"
    BY <1>1, <1>6 DEF Inv, ClosedResolved
<1>10. \A m \in Months :
          m \in cancellations[k].snapshotLinks <=>
              months[m] = "LOCKED" /\ DatesIn(m) \cap cancellations[k].coverage # {}
    BY <1>1 DEF Inv, OpenLinked
<1> QED
    BY <1>1, <1>4, <1>5, <1>7, <1>8, <1>9, <1>10, CancellationStep

\* The cancelled dates as a function of the table: primes then apply to the
\* table alone.
Approved(table, r) ==
    {d \in Dates : \E k \in Cancellations :
        /\ table[k] # None
        /\ table[k].request = r
        /\ table[k].status \in {"APPROVED"}
        /\ d \in table[k].coverage}

\* What the dates of a cancellation that waits have in common.
LEMMA OpenFacts ==
    ASSUME Inv, NEW k \in Cancellations, cancellations[k] # None,
           cancellations[k].status \in OpenCancellation
    PROVE  /\ cancellations[k].request \in Requests
           /\ requests[cancellations[k].request] # None
           /\ Effective(cancellations[k].request)
           /\ cancellations[k].coverage \in (SUBSET Dates) \ {{}}
           /\ cancellations[k].coverage \subseteq requests[cancellations[k].request].coverage
           /\ cancellations[k].coverage
                  \cap CancelledDates(cancellations[k].request, {"APPROVED"}) = {}
           /\ \A d \in cancellations[k].coverage :
                 /\ effects[cancellations[k].request][d] # <<>>
                 /\ months[MonthOf[d]] # "SUBMITTED"
<1> DEFINE r == cancellations[k].request
           C == cancellations[k].coverage
<1>1. r \in Requests /\ C \in (SUBSET Dates) \ {{}}
    BY CancellationRow DEF Inv
<1>2. Effective(r) /\ C \subseteq requests[r].coverage
    BY DEF Inv, LiveAreEffective, Live
<1>3. C \cap CancelledDates(r, {"APPROVED"}) = {}
  <2>1. SUFFICES ASSUME NEW d \in C, NEW j \in Cancellations, cancellations[j] # None,
                        cancellations[j].request = r, cancellations[j].status \in {"APPROVED"},
                        d \in cancellations[j].coverage
                 PROVE  FALSE
      BY DEF CancelledDates
  <2>2. j # k
      BY <2>1 DEF OpenCancellation
  <2>3. C \cap cancellations[j].coverage = {}
      BY <2>1, <2>2 DEF Inv, LiveApart, Live
  <2> QED
      BY <2>1, <2>3
<1>4. \A d \in C : effects[r][d] # <<>>
    BY <1>1, <1>2 DEF Inv, EffectsOfEffective
<1>5. \A d \in C : months[MonthOf[d]] # "SUBMITTED"
    BY <1>1 DEF Inv, ClosedResolved
<1> QED
    BY <1>1, <1>2, <1>3, <1>4, <1>5 DEF Effective

\* A sequence that a value is appended to.
LEMMA AppendAny ==
    ASSUME NEW S, NEW s \in Seq(S), NEW e
    PROVE  /\ Append(s, e) \in Seq(S \cup {e})
           /\ Append(s, e) # <<>>
           /\ Len(Append(s, e)) = Len(s) + 1
<1>1. s \in Seq(S \cup {e})
    OBVIOUS
<1> QED
    BY <1>1

\* An approval cancels the dates of its cancellation and no other ones.
LEMMA ApprovalCancels ==
    ASSUME Inv, NEW k \in Cancellations, ApproveCancellation(k),
           NEW r \in Requests, r = cancellations[k].request,
           NEW C \in SUBSET Dates, C = cancellations[k].coverage
    PROVE  /\ Approved(cancellations', r) = C \cup Approved(cancellations, r)
           /\ \A s \in Requests \ {r} : Approved(cancellations', s) = Approved(cancellations, s)
<1>1. /\ cancellations[k] # None
      /\ cancellations[k].status \in OpenCancellation
      /\ cancellations' = [cancellations EXCEPT ![k].status = "APPROVED"]
    BY DEF ApproveCancellation
<1>2. /\ cancellations'[k] # None
      /\ cancellations'[k].request = r
      /\ cancellations'[k].coverage = C
      /\ cancellations'[k].status = "APPROVED"
      /\ \A j \in Cancellations \ {k} : cancellations'[j] = cancellations[j]
    BY <1>1, CancellationStatus DEF Inv, TypeOK, CancellationStatuses
<1>3. cancellations[k].status # "APPROVED"
    BY <1>1 DEF OpenCancellation
<1> QED
    BY <1>2, <1>3 DEF Approved

\* An approval adds a version to the effects of the dates it cancels.
LEMMA ApprovalEffects ==
    ASSUME Inv, NEW k \in Cancellations, ApproveCancellation(k),
           NEW r \in Requests, r = cancellations[k].request,
           NEW C \in SUBSET Dates, C = cancellations[k].coverage
    PROVE  /\ Tables'
           /\ \A s \in Requests \ {r} : effects'[s] = effects[s]
           /\ \A d \in Dates \ C : effects'[r][d] = effects[r][d]
           /\ \A d \in C : /\ effects'[r][d] # <<>>
                           /\ Len(effects'[r][d]) = Len(effects[r][d]) + 1
<1> DEFINE f == [d \in Dates |-> IF d \in C THEN Append(effects[r][d], 0) ELSE effects[r][d]]
<1>1. effects' = [effects EXCEPT ![r] = f]
    BY DEF ApproveCancellation
<1>2. PICK S : effects \in [Requests -> [Dates -> Seq(S)]]
    BY DEF Inv, Tables
<1>3. \A s \in Requests, d \in Dates :
          effects[s][d] \in Seq(S) /\ effects[s][d] \in Seq(S \cup {0})
    BY <1>2
<1>4. \A e \in Seq(S) : /\ Append(e, 0) \in Seq(S \cup {0})
                        /\ Append(e, 0) # <<>>
                        /\ Len(Append(e, 0)) = Len(e) + 1
    BY AppendAny
<1>5. f \in [Dates -> Seq(S \cup {0})]
    BY <1>3, <1>4
<1>6. \A d \in Dates : f[d] = IF d \in C THEN Append(effects[r][d], 0) ELSE effects[r][d]
    OBVIOUS
<1> HIDE DEF f
<1>7. \A s \in Requests : effects[s] \in [Dates -> Seq(S \cup {0})]
    BY <1>2, <1>3
<1>8. /\ effects' \in [Requests -> [Dates -> Seq(S \cup {0})]]
      /\ effects'[r] = f
      /\ \A s \in Requests \ {r} : effects'[s] = effects[s]
    BY <1>1, <1>2, <1>5, <1>7
<1>9. /\ \A d \in Dates \ C : effects'[r][d] = effects[r][d]
      /\ \A d \in C : effects'[r][d] # <<>> /\ Len(effects'[r][d]) = Len(effects[r][d]) + 1
    BY <1>3, <1>4, <1>6, <1>8
<1>10. DOMAIN snapshots' = Months
    BY DEF Inv, Tables, ApproveCancellation
<1> QED
    BY <1>8, <1>9, <1>10 DEF Tables

LEMMA ApproveStep ==
    ASSUME Inv, NEW k \in Cancellations, ApproveCancellation(k)
    PROVE  Inv'
<1> SUFFICES ASSUME NEW r, r = cancellations[k].request,
                    NEW C, C = cancellations[k].coverage
             PROVE  Inv'
    OBVIOUS
<1>1. /\ cancellations[k] # None
      /\ cancellations[k].status \in OpenCancellation
      /\ cancellations' = [cancellations EXCEPT ![k].status = "APPROVED"]
      /\ UNCHANGED <<today, holidays, months, snapshots>>
    BY DEF ApproveCancellation
<1>2. /\ r \in Requests
      /\ requests[r] # None
      /\ Effective(r)
      /\ C \in SUBSET Dates
      /\ C \subseteq requests[r].coverage
      /\ C \cap CancelledDates(r, {"APPROVED"}) = {}
      /\ \A d \in C : effects[r][d] # <<>>
    BY <1>1, OpenFacts
<1>3. PICK status \in {"CANCELLED", "PARTIALLY_CANCELLED"} :
          requests' = [requests EXCEPT ![r].status = status]
    BY DEF ApproveCancellation, StatusAfter
<1>4. /\ requests' \in [Requests -> RequestRows \cup {None}]
      /\ requests'[r] # None
      /\ requests'[r].coverage = requests[r].coverage
      /\ requests'[r].status = status
      /\ \A s \in Requests \ {r} : requests'[s] = requests[s]
    BY <1>2, <1>3, RequestStatus DEF Inv, TypeOK, Statuses, BlockingStatuses
<1>5. /\ cancellations' \in [Cancellations -> CancellationRows \cup {None}]
      /\ cancellations'[k] # None
      /\ cancellations'[k].request = r
      /\ cancellations'[k].coverage = C
      /\ cancellations'[k].status = "APPROVED"
      /\ \A j \in Cancellations \ {k} : cancellations'[j] = cancellations[j]
    BY <1>1, CancellationStatus DEF Inv, TypeOK, CancellationStatuses
<1>6. \A s \in Requests :
          /\ Effective(s)' <=> Effective(s)
          /\ requests[s] # None => requests'[s] # None
                                   /\ requests'[s].coverage = requests[s].coverage
    BY <1>2, <1>4 DEF Effective
<1>7. /\ Approved(cancellations', r) = C \cup Approved(cancellations, r)
      /\ \A s \in Requests \ {r} : Approved(cancellations', s) = Approved(cancellations, s)
    BY <1>2, ApprovalCancels
<1>8. /\ Tables'
      /\ \A s \in Requests \ {r} : effects'[s] = effects[s]
      /\ \A d \in Dates \ C : effects'[r][d] = effects[r][d]
      /\ \A d \in C : effects'[r][d] # <<>> /\ Len(effects'[r][d]) = Len(effects[r][d]) + 1
    BY <1>2, ApprovalEffects
<1>9. \A s : CancelledDates(s, {"APPROVED"}) = Approved(cancellations, s)
    BY DEF CancelledDates, Approved
<1>10. TypeOK'
  <2>1. ASSUME NEW s \in Requests, NEW d \in Dates, effects'[s][d] # <<>>
        PROVE  /\ requests'[s] # None
               /\ d \in requests'[s].coverage
               /\ Len(effects'[s][d]) =
                      IF d \in Approved(cancellations', s) THEN 2 ELSE 1
    <3>1. CASE s # r
        BY <1>4, <1>7, <1>8, <1>9, <2>1, <3>1 DEF Inv, TypeOK
    <3>2. CASE s = r /\ d \notin C
        BY <1>4, <1>7, <1>8, <1>9, <2>1, <3>2 DEF Inv, TypeOK
    <3>3. CASE s = r /\ d \in C
      <4>1. Len(effects[r][d]) = 1
        <5>1. effects[r][d] # <<>> /\ d \notin CancelledDates(r, {"APPROVED"})
            BY <1>2, <3>3
        <5>2. Len(effects[r][d]) = IF d \in CancelledDates(r, {"APPROVED"}) THEN 2 ELSE 1
            BY <1>2, <2>1, <5>1 DEF Inv, TypeOK
        <5> QED
            BY <5>1, <5>2
      <4>2. Len(effects'[r][d]) = 2
        <5>1. Len(effects'[r][d]) = Len(effects[r][d]) + 1
            BY <1>8, <3>3
        <5> QED
            BY <4>1, <5>1
      <4>3. d \in Approved(cancellations', r) /\ d \in requests'[r].coverage
          BY <1>2, <1>4, <1>7, <3>3
      <4> QED
          BY <1>4, <3>3, <4>2, <4>3
    <3> QED
        BY <3>1, <3>2, <3>3
  <2> QED
      BY <1>1, <1>4, <1>5, <2>1 DEF Inv, TypeOK, CancelledDates, Approved
<1>11. EffectsOfEffective'
  <2>1. ASSUME NEW s \in Requests, NEW d \in Dates
        PROVE  effects'[s][d] # <<>> <=> Effective(s)' /\ d \in requests'[s].coverage
    <3>1. effects[s][d] # <<>> <=> Effective(s) /\ d \in requests[s].coverage
        BY <2>1 DEF Inv, EffectsOfEffective
    <3>2. effects'[s][d] # <<>> <=> effects[s][d] # <<>>
        BY <1>2, <1>8, <2>1
    <3>3. Effective(s) => requests'[s].coverage = requests[s].coverage
        BY <1>6, <2>1 DEF Effective
    <3> QED
        BY <1>6, <2>1, <3>1, <3>2, <3>3
  <2> QED
      BY <2>1 DEF EffectsOfEffective
<1>12. LiveAreEffective'
  <2>1. SUFFICES ASSUME NEW j \in Cancellations, cancellations'[j] # None,
                        cancellations'[j].status \in Live
                 PROVE  /\ Effective(cancellations[j].request)'
                        /\ cancellations'[j].coverage
                               \subseteq requests'[cancellations'[j].request].coverage
      BY DEF LiveAreEffective
  <2>2. /\ cancellations[j] # None
        /\ cancellations[j].status \in Live
        /\ cancellations'[j].request = cancellations[j].request
        /\ cancellations'[j].coverage = cancellations[j].coverage
      BY <1>1, <1>5, <2>1 DEF Live
  <2>3. /\ Effective(cancellations[j].request)
        /\ cancellations[j].coverage \subseteq requests[cancellations[j].request].coverage
        /\ cancellations[j].request \in Requests
      BY <2>2, CancellationRow DEF Inv, LiveAreEffective
  <2> QED
      BY <1>6, <2>2, <2>3 DEF Effective
<1>13. LiveApart'
    BY <1>1, <1>5 DEF Inv, LiveApart, Live
<1>14. ClosedResolved'
    BY <1>1, <1>4, <1>5 DEF Inv, ClosedResolved, Requests, OpenCancellation
<1>15. SnapshotsCurrent'
  <2>1. SUFFICES ASSUME NEW m \in Months, months[m] = "LOCKED",
                        NEW s \in Requests, NEW d \in DatesIn(m),
                        d \notin Approved(cancellations', s)
                 PROVE  snapshots[m][s][d] = effects'[s][d]
      BY <1>1 DEF SnapshotsCurrent, CancelledDates, Approved
  <2>2. d \in Dates /\ d \notin Approved(cancellations, s)
      BY <1>7, <2>1 DEF DatesIn
  <2>3. snapshots[m][s][d] = effects[s][d]
      BY <1>9, <2>1, <2>2 DEF Inv, SnapshotsCurrent
  <2>4. s = r => d \notin C
      BY <1>7, <2>1
  <2> QED
      BY <1>8, <2>1, <2>2, <2>3, <2>4
<1>16. OpenLinked'
    BY <1>1, <1>5 DEF Inv, OpenLinked, OpenCancellation
<1> QED
    BY <1>8, <1>10, <1>11, <1>12, <1>13, <1>14, <1>15, <1>16 DEF Inv

-----------------------------------------------------------------------------
(* Months *)

\* A month changes its status; what waits for a decision keeps it from being
\* submitted, and the lock takes a snapshot of the effects.
LEMMA MonthStep ==
    ASSUME Inv, NEW m \in Months, SubmitMonth(m) \/ ReopenMonth(m) \/ LockMonth(m)
    PROVE  Inv'
<1>1. UNCHANGED <<today, holidays, requests, effects, cancellations>>
    BY DEF SubmitMonth, ReopenMonth, LockMonth
<1>2. PICK status \in {"OPEN", "SUBMITTED", "LOCKED"} : months' = [months EXCEPT ![m] = status]
    BY DEF SubmitMonth, ReopenMonth, LockMonth
<1>3. /\ months' \in [Months -> {"OPEN", "SUBMITTED", "LOCKED"}]
      /\ months'[m] = status
      /\ \A n \in Months \ {m} : months'[n] = months[n]
    BY <1>2 DEF Inv, TypeOK
<1>4. \/ /\ status = "SUBMITTED"
         /\ months[m] = "OPEN"
         /\ SourceResolved(m)
         /\ UNCHANGED snapshots
      \/ /\ status = "OPEN"
         /\ months[m] = "SUBMITTED"
         /\ UNCHANGED snapshots
      \/ /\ status = "LOCKED"
         /\ months[m] = "SUBMITTED"
         /\ snapshots' = [snapshots EXCEPT ![m] =
                [r \in Requests |-> [d \in DatesIn(m) |-> effects[r][d]]]]
    BY <1>3 DEF SubmitMonth, ReopenMonth, LockMonth, Inv, TypeOK
<1>5. /\ DOMAIN snapshots' = Months
      /\ \A n \in Months \ {m} : snapshots'[n] = snapshots[n]
      /\ status = "LOCKED" => snapshots'[m] = [r \in Requests |-> [d \in DatesIn(m) |-> effects[r][d]]]
    BY <1>4 DEF Inv, Tables
<1>6. months[m] # "LOCKED"
    BY <1>4
<1>7. TypeOK'
  <2>1. ASSUME NEW n \in Months, NEW r \in Requests, months'[n] = "LOCKED"
        PROVE  DOMAIN snapshots'[n][r] = DatesIn(n)
    <3>1. CASE n = m
        BY <1>3, <1>5, <2>1, <3>1
    <3>2. CASE n # m
        BY <1>3, <1>5, <2>1, <3>2 DEF Inv, TypeOK
    <3> QED
        BY <3>1, <3>2
  <2> QED
      BY <1>1, <1>3, <2>1 DEF Inv, TypeOK, CancelledDates
<1>8. Tables' /\ EffectsOfEffective' /\ LiveAreEffective' /\ LiveApart'
    BY <1>1, <1>5
       DEF Inv, Tables, EffectsOfEffective, LiveAreEffective, LiveApart, Effective
<1>9. ClosedResolved'
  <2>1. \A d \in Dates : MonthOf[d] = m => d \in DatesIn(m)
      BY DEF DatesIn
  <2>2. \A d \in Dates : MonthOf[d] \in Months
      BY AbsenceAssumption
  <2>3. CASE status = "SUBMITTED"
      BY <1>1, <1>3, <1>4, <2>1, <2>2, <2>3 DEF Inv, ClosedResolved, SourceResolved
  <2>4. CASE status # "SUBMITTED"
      BY <1>1, <1>3, <1>4, <2>2, <2>4 DEF Inv, ClosedResolved
  <2> QED
      BY <2>3, <2>4
<1>10. SnapshotsCurrent'
  <2>1. SUFFICES ASSUME NEW n \in Months, months'[n] = "LOCKED",
                        NEW r \in Requests, NEW d \in DatesIn(n),
                        d \notin CancelledDates(r, {"APPROVED"})
                 PROVE  snapshots'[n][r][d] = effects[r][d]
      BY <1>1 DEF SnapshotsCurrent, CancelledDates
  <2>2. CASE n = m
      BY <1>3, <1>5, <2>1, <2>2
  <2>3. CASE n # m
      BY <1>3, <1>5, <2>1, <2>3 DEF Inv, SnapshotsCurrent
  <2> QED
      BY <2>2, <2>3
<1>11. OpenLinked'
  <2>1. CASE status = "LOCKED"
    <3>1. ASSUME NEW k \in Cancellations, cancellations[k] # None,
                 cancellations[k].status \in OpenCancellation
          PROVE  DatesIn(m) \cap cancellations[k].coverage = {}
        BY <1>4, <2>1, <3>1, OpenFacts DEF DatesIn
    <3> QED
        BY <1>1, <1>3, <1>6, <2>1, <3>1 DEF Inv, OpenLinked
  <2>2. CASE status # "LOCKED"
      BY <1>1, <1>3, <1>6, <2>2 DEF Inv, OpenLinked
  <2> QED
      BY <2>1, <2>2
<1> QED
    BY <1>7, <1>8, <1>9, <1>10, <1>11 DEF Inv

-----------------------------------------------------------------------------
(* The theorems *)

LEMMA InvStep == Inv /\ [Next]_vars => Inv'
<1> SUFFICES ASSUME Inv, [Next]_vars PROVE Inv'
    OBVIOUS
<1>1. CASE UNCHANGED vars
    BY <1>1, CalendarStep DEF vars, tables, Inv, TypeOK
<1>2. CASE NextDay
  <2>1. today' \in 1..(LastDate + 1)
      BY <1>2, AbsenceAssumption DEF NextDay, Inv, TypeOK
  <2> QED
      BY <1>2, <2>1, CalendarStep DEF NextDay, tables, Inv, TypeOK
<1>3. CASE ConfigurationStep
  <2>1. ASSUME NEW d \in Changes, CreateHoliday(d) PROVE Inv'
    <3>1. today' \in 1..(LastDate + 1) /\ holidays' \subseteq Dates
        BY <2>1, AbsenceAssumption DEF CreateHoliday, Inv, TypeOK
    <3> QED
        BY <2>1, <3>1, CalendarStep DEF CreateHoliday, tables
  <2>2. ASSUME NEW from \in Changes, NEW minutes \in Minutes, ReplaceSchedule(from, minutes)
        PROVE  Inv'
      BY <2>2, CalendarStep DEF ReplaceSchedule, tables, Inv, TypeOK
  <2> QED
      BY <1>3, <2>1, <2>2 DEF ConfigurationStep
<1>4. CASE EmployeeStep
  <2>1. ASSUME NEW r \in Vacations, NEW C \in Coverages, SubmitVacation(r, C) PROVE Inv'
    <3>1. r \in Requests
        BY DEF Requests
    <3>2. \/ r \in Vacations /\ SubmitVacation(r, C)
          \/ r \in Sicknesses /\ ReportSickness(r, C)
        BY <2>1
    <3> QED
        BY <3>1, <3>2, SubmissionStep
  <2>2. ASSUME NEW r \in Sicknesses, NEW C \in Coverages, ReportSickness(r, C) PROVE Inv'
    <3>1. r \in Requests
        BY DEF Requests
    <3>2. \/ r \in Vacations /\ SubmitVacation(r, C)
          \/ r \in Sicknesses /\ ReportSickness(r, C)
        BY <2>2
    <3> QED
        BY <3>1, <3>2, SubmissionStep
  <2>3. ASSUME NEW k \in Cancellations, NEW r \in Requests,
               NEW selection \in Selections \cup {None}, SubmitCancellation(k, r, selection)
        PROVE  Inv'
      BY <2>3, SubmitCancellationStep
  <2>4. ASSUME NEW k \in Cancellations, WithdrawCancellation(k) PROVE Inv'
      BY <2>4, RefusalStep
  <2>5. ASSUME NEW m \in Months, SubmitMonth(m) PROVE Inv'
      BY <2>5, MonthStep
  <2> QED
      BY <1>4, <2>1, <2>2, <2>3, <2>4, <2>5 DEF EmployeeStep
<1>5. CASE ReviewerStep
  <2>1. ASSUME NEW r \in Sicknesses, NEW status \in {"ACKNOWLEDGED", "CHANGES_REQUESTED"},
               ReviewSickness(r, status)
        PROVE  Inv'
      BY <2>1, ReviewSicknessStep
  <2>2. ASSUME NEW r \in Vacations, NEW action \in DOMAIN Decided,
               NEW authority \in Authorities, DecideVacation(r, action, authority)
        PROVE  Inv'
      BY <2>2, DecideVacationStep
  <2>3. ASSUME NEW k \in Cancellations, ApproveCancellation(k) PROVE Inv'
      BY <2>3, ApproveStep
  <2>4. ASSUME NEW k \in Cancellations, NEW action \in {"REJECT", "REQUEST_CHANGES"},
               RefuseCancellation(k, action)
        PROVE  Inv'
      BY <2>4, RefusalStep
  <2>5. ASSUME NEW m \in Months, ReopenMonth(m) \/ LockMonth(m) PROVE Inv'
      BY <2>5, MonthStep
  <2> QED
      BY <1>5, <2>1, <2>2, <2>3, <2>4, <2>5 DEF ReviewerStep
<1> QED
    BY <1>1, <1>2, <1>3, <1>4, <1>5 DEF Next

\* For any number of requests, cancellations, dates and months, the tables keep
\* their types, and a date has a second version of its effect exactly when an
\* approved cancellation names it.
THEOREM TypeCorrect == Spec => []TypeOK
<1>1. Inv => TypeOK
    BY DEF Inv
<1> QED
    BY <1>1, InitInv, InvStep, PTL DEF Spec

LEMMA InvApplicable == Inv => OpenCancellationsAreApplicable
<1> SUFFICES ASSUME Inv, NEW k \in Cancellations, cancellations[k] # None,
                    cancellations[k].status \in OpenCancellation
             PROVE  /\ \A d \in cancellations[k].coverage :
                          /\ InEffect(cancellations[k].request, d)
                          /\ months[MonthOf[d]] # "SUBMITTED"
                          /\ months[MonthOf[d]] = "LOCKED" =>
                                MonthOf[d] \in cancellations[k].snapshotLinks
                    /\ SnapshotsContainEffects(k)
    BY DEF OpenCancellationsAreApplicable
<1>1. ASSUME NEW d \in cancellations[k].coverage
      PROVE  /\ d \in Dates
             /\ MonthOf[d] \in Months
             /\ d \in DatesIn(MonthOf[d])
    BY OpenFacts, AbsenceAssumption DEF DatesIn
<1>2. ASSUME NEW d \in cancellations[k].coverage
      PROVE  InEffect(cancellations[k].request, d) /\ months[MonthOf[d]] # "SUBMITTED"
    BY OpenFacts DEF InEffect
<1>3. ASSUME NEW d \in cancellations[k].coverage, months[MonthOf[d]] = "LOCKED"
      PROVE  MonthOf[d] \in cancellations[k].snapshotLinks
    BY <1>1, <1>3 DEF Inv, OpenLinked
<1>4. SnapshotsContainEffects(k)
  <2>1. SUFFICES ASSUME NEW m \in cancellations[k].snapshotLinks,
                        NEW d \in cancellations[k].coverage \cap DatesIn(m)
                 PROVE  snapshots[m][cancellations[k].request][d] =
                            effects[cancellations[k].request][d]
      BY DEF SnapshotsContainEffects
  <2>2. m \in Months /\ cancellations[k].request \in Requests
      BY CancellationRow DEF Inv
  <2>3. months[m] = "LOCKED"
      BY <2>2 DEF Inv, OpenLinked
  <2>4. d \notin CancelledDates(cancellations[k].request, {"APPROVED"})
      BY OpenFacts
  <2> QED
      BY <2>2, <2>3, <2>4 DEF Inv, SnapshotsCurrent
<1> QED
    BY <1>2, <1>3, <1>4

\* For any number of requests and months: whatever cancellation waits for its
\* decision can be applied, is linked to every locked month of its dates and
\* finds its effects in their snapshots.
THEOREM OpenCancellationsStayApplicable == Spec => []OpenCancellationsAreApplicable
    BY InvApplicable, InitInv, InvStep, PTL DEF Spec

-----------------------------------------------------------------------------
(* Submitted months *)

\* What a step leaves of a month that is submitted and not reopened.
EffectsStand ==
    \A m \in Months : (months[m] = "SUBMITTED" /\ months'[m] # "OPEN") =>
        \A r \in Requests, d \in DatesIn(m) : effects'[r][d] = effects[r][d]

\* Besides approvals of cancellations, no step changes the effects of a month
\* that is not open.
LEMMA OnlyApprovalsTouchClosed ==
    ASSUME Inv, Next, NEW m \in Months, months[m] # "OPEN",
           NEW s \in Requests, NEW d \in DatesIn(m)
    PROVE  effects'[s][d] = effects[s][d] \/ \E k \in Cancellations : ApproveCancellation(k)
<1>1. d \in Dates /\ MonthOf[d] = m
    BY DEF DatesIn
<1>2. ASSUME NEW r \in Sicknesses, NEW C \in Coverages, ReportSickness(r, C)
      PROVE  effects'[s][d] = effects[s][d]
  <2>1. /\ requests[r] = None
        /\ \A e \in C : months[MonthOf[e]] = "OPEN"
        /\ effects' = [effects EXCEPT ![r] = FirstEffects(C)]
      BY <1>2 DEF ReportSickness, OrdinaryMutationAllowed, FirstEffects
  <2>2. r \in Requests /\ d \notin C
      BY <1>1, <2>1 DEF Requests
  <2>3. effects[r][d] = <<>>
      BY <1>1, <2>1, <2>2 DEF Inv, EffectsOfEffective, Effective
  <2>4. \A t \in Requests \ {r} : effects'[t] = effects[t]
      BY <2>1, <2>2, EffectsTaken DEF Inv
  <2>5. \A e \in Dates : IF e \in C THEN effects'[r][e] # <<>> /\ Len(effects'[r][e]) = 1
                                     ELSE effects'[r][e] = <<>>
      BY <2>1, <2>2, EffectsTaken DEF Inv
  <2>6. effects'[r][d] = <<>>
      BY <1>1, <2>2, <2>5
  <2> QED
      BY <2>3, <2>4, <2>6
<1>3. ASSUME NEW r \in Vacations, NEW action, NEW authority, DecideVacation(r, action, authority)
      PROVE  effects'[s][d] = effects[s][d]
  <2> DEFINE C == requests[r].coverage
  <2>1. /\ requests[r] # None
        /\ requests[r].status = "SUBMITTED"
        /\ effects' = [effects EXCEPT ![r] = FirstEffects(C)] \/ UNCHANGED effects
      BY <1>3 DEF DecideVacation, FirstEffects
  <2>2. r \in Requests /\ r \notin Sicknesses
      BY AbsenceAssumption DEF Requests
  <2>3. d \notin C
      BY <1>1, <2>1 DEF Inv, ClosedResolved
  <2>4. effects[r][d] = <<>>
      BY <1>1, <2>1, <2>2 DEF Inv, EffectsOfEffective, Effective
  <2>5. CASE effects' = [effects EXCEPT ![r] = FirstEffects(C)]
    <3> HIDE DEF C
    <3>1. \A t \in Requests \ {r} : effects'[t] = effects[t]
        BY <2>2, <2>5, EffectsTaken DEF Inv
    <3>2. \A e \in Dates : IF e \in C THEN effects'[r][e] # <<>> /\ Len(effects'[r][e]) = 1
                                       ELSE effects'[r][e] = <<>>
        BY <2>2, <2>5, EffectsTaken DEF Inv
    <3>3. effects'[r][d] = <<>>
        BY <1>1, <2>3, <3>2
    <3> QED
        BY <2>4, <3>1, <3>3
  <2> QED
      BY <2>1, <2>5
<1>4. CASE UNCHANGED effects
    BY <1>4
<1> QED
    BY <1>2, <1>3, <1>4
       DEF Next, EmployeeStep, ReviewerStep, ConfigurationStep, SubmitVacation, ReviewSickness,
           SubmitCancellation, WithdrawCancellation, RefuseCancellation, SubmitMonth, ReopenMonth,
           LockMonth, CreateHoliday, ReplaceSchedule, NextDay

LEMMA NextEffectsStand == Inv /\ Next => EffectsStand
<1> SUFFICES ASSUME Inv, Next, NEW m \in Months, months[m] = "SUBMITTED",
                    NEW s \in Requests, NEW d \in DatesIn(m)
             PROVE  effects'[s][d] = effects[s][d]
    BY DEF EffectsStand
<1>1. d \in Dates /\ MonthOf[d] = m
    BY DEF DatesIn
<1>2. ASSUME NEW k \in Cancellations, ApproveCancellation(k)
      PROVE  effects'[s][d] = effects[s][d]
  <2>1. SUFFICES ASSUME NEW r, r = cancellations[k].request,
                        NEW C, C = cancellations[k].coverage
                 PROVE  effects'[s][d] = effects[s][d]
      OBVIOUS
  <2>2. /\ cancellations[k] # None
        /\ cancellations[k].status \in OpenCancellation
      BY <1>2 DEF ApproveCancellation
  <2>3. r \in Requests /\ C \in SUBSET Dates /\ d \notin C
      BY <1>1, <2>1, <2>2, OpenFacts
  <2>4. /\ \A t \in Requests \ {r} : effects'[t] = effects[t]
        /\ \A e \in Dates \ C : effects'[r][e] = effects[r][e]
      BY <1>2, <2>1, <2>3, ApprovalEffects
  <2> QED
      BY <1>1, <2>3, <2>4
<1> QED
    BY <1>2, OnlyApprovalsTouchClosed

\* For any number of requests and months: reviewers see the absences of a
\* submitted month as they were submitted.
THEOREM SubmittedEffectsDoStand == Spec => SubmittedEffectsStand
<1>1. Inv /\ [Next]_vars => [EffectsStand]_vars
    BY NextEffectsStand
<1>2. Spec => [][EffectsStand]_vars
    BY <1>1, InitInv, InvStep, PTL DEF Spec
<1> QED
    BY <1>2 DEF SubmittedEffectsStand, EffectsStand

-----------------------------------------------------------------------------
(* No double coverage *)

\* Requests that block a date do so alone.
BlockingApart ==
    \A r, s \in Requests :
        (/\ r # s
         /\ requests[r] # None
         /\ requests[s] # None
         /\ requests[r].status \in BlockingStatuses
         /\ requests[s].status \in BlockingStatuses
         /\ ~MayHaveEndedEarly(r) /\ ~MayHaveEndedEarly(s)) =>
            requests[r].coverage \cap requests[s].coverage = {}

\* A cancelled request has no date left.
CancelledLeavesNothing ==
    \A r \in Requests :
        (requests[r] # None /\ requests[r].status = "CANCELLED" /\ ~MayHaveEndedEarly(r)) =>
            requests[r].coverage \subseteq CancelledDates(r, {"APPROVED"})

Apart == BlockingApart /\ CancelledLeavesNothing

\* Of numbers below ten the order of the texts is the order of the numbers.
LEMMA OneDigit ==
    ASSUME NEW a \in 0..9, NEW b \in 0..9, AtLeastAsText(a, b)
    PROVE  a >= b
    BY DEF AtLeastAsText

\* A request of fewer than ten dates becomes CANCELLED with its last date only.
LEMMA StatusAfterIsRight ==
    ASSUME NEW r, NEW cancelled, requests[r].coverage \in SUBSET Dates,
           ~(Cardinality(requests[r].coverage) >= 10),
           cancelled \subseteq requests[r].coverage, StatusAfter(r, cancelled) = "CANCELLED"
    PROVE  cancelled = requests[r].coverage
<1> DEFINE C == requests[r].coverage
<1>1. AtLeastAsText(Cardinality(cancelled), Cardinality(C))
    BY DEF StatusAfter
<1>2. IsFiniteSet(Dates)
  <2>1. LastDate \in Nat
      BY AbsenceAssumption
  <2> QED
      BY <2>1, FS_Interval DEF Dates
<1>3. IsFiniteSet(C)
    BY <1>2, FS_Subset
<1>4. /\ IsFiniteSet(cancelled)
      /\ Cardinality(cancelled) <= Cardinality(C)
      /\ Cardinality(C) = Cardinality(cancelled) => C = cancelled
    BY <1>3, FS_Subset
<1>5. /\ Cardinality(C) \in Nat
      /\ Cardinality(cancelled) \in Nat
    BY <1>3, <1>4, FS_CardinalityType
<1>6. Cardinality(cancelled) \in 0..9 /\ Cardinality(C) \in 0..9
    BY <1>4, <1>5
<1>7. Cardinality(cancelled) >= Cardinality(C)
    BY <1>1, <1>6, OneDigit
<1> QED
    BY <1>4, <1>5, <1>7

\* What may have ended early stays so: coverages and approved dates stay.
LEMMA EarlyStays ==
    ASSUME NEW r, requests'[r].coverage = requests[r].coverage,
           Approved(cancellations, r) \subseteq Approved(cancellations', r)
    PROVE  MayHaveEndedEarly(r) => MayHaveEndedEarly(r)'
    BY DEF MayHaveEndedEarly, CancelledDates, Approved

LEMMA ApartStep ==
    ASSUME Inv, Apart, [Next]_vars
    PROVE  Apart'
<1>1. ASSUME UNCHANGED <<requests, cancellations>> PROVE Apart'
    BY <1>1 DEF Apart, BlockingApart, CancelledLeavesNothing, CancelledDates, MayHaveEndedEarly
<1>2. ASSUME NEW r \in Requests, NEW C \in Coverages, NEW status,
             ~CoverageConflict(C), status # "CANCELLED", UNCHANGED cancellations,
             requests' = [requests EXCEPT ![r] = [coverage |-> C, status |-> status]]
      PROVE  Apart'
  <2>1. /\ requests'[r].coverage = C
        /\ requests'[r].status = status
        /\ \A s \in Requests \ {r} : requests'[s] = requests[s]
      BY <1>2 DEF Inv, TypeOK
  <2>2. \A s \in Requests \ {r} :
            (requests[s] # None /\ requests[s].status \in BlockingStatuses) =>
                requests[s].coverage \cap C = {}
      BY <1>2 DEF CoverageConflict
  <2>3. \A s \in Requests \ {r} : MayHaveEndedEarly(s) => MayHaveEndedEarly(s)'
      BY <1>2, <2>1 DEF MayHaveEndedEarly, CancelledDates
  <2>4. BlockingApart'
      BY <2>1, <2>2, <2>3 DEF Apart, BlockingApart
  <2>5. CancelledLeavesNothing'
      BY <1>2, <2>1, <2>3 DEF Apart, CancelledLeavesNothing, CancelledDates
  <2> QED
      BY <2>4, <2>5 DEF Apart
<1>3. ASSUME NEW r \in Requests, requests[r] # None, requests[r].status \in BlockingStatuses,
             NEW status \in Statuses \ {"CANCELLED"}, UNCHANGED cancellations,
             requests' = [requests EXCEPT ![r].status = status]
      PROVE  Apart'
  <2>1. /\ requests'[r].coverage = requests[r].coverage
        /\ requests'[r].status = status
        /\ \A s \in Requests \ {r} : requests'[s] = requests[s]
      BY <1>3, RequestStatus DEF Inv, TypeOK
  <2>2. \A s \in Requests : MayHaveEndedEarly(s) => MayHaveEndedEarly(s)'
      BY <1>3, <2>1 DEF MayHaveEndedEarly, CancelledDates
  <2>3. BlockingApart'
      BY <1>3, <2>1, <2>2 DEF Apart, BlockingApart
  <2>4. CancelledLeavesNothing'
      BY <1>3, <2>1, <2>2 DEF Apart, CancelledLeavesNothing, CancelledDates
  <2> QED
      BY <2>3, <2>4 DEF Apart
<1>4. ASSUME NEW k \in Cancellations, cancellations[k] = None \/ cancellations[k].status # "APPROVED",
             \A j \in Cancellations \ {k} : cancellations'[j] = cancellations[j],
             UNCHANGED requests
      PROVE  Apart'
  <2>1. \A r \in Requests : Approved(cancellations, r) \subseteq Approved(cancellations', r)
      BY <1>4 DEF Approved
  <2>2. \A s \in Requests : MayHaveEndedEarly(s) => MayHaveEndedEarly(s)'
      BY <1>4, <2>1, EarlyStays
  <2>3. CancelledLeavesNothing'
      BY <1>4, <2>1, <2>2 DEF Apart, CancelledLeavesNothing, CancelledDates, Approved
  <2>4. BlockingApart'
      BY <1>4, <2>2 DEF Apart, BlockingApart
  <2> QED
      BY <2>3, <2>4 DEF Apart
<1>5. ASSUME NEW k \in Cancellations, ApproveCancellation(k)
      PROVE  Apart'
  <2>1. SUFFICES ASSUME NEW r, r = cancellations[k].request,
                        NEW C, C = cancellations[k].coverage
                 PROVE  Apart'
      OBVIOUS
  <2> DEFINE status == StatusAfter(r, C \cup CancelledDates(r, {"APPROVED"}))
  <2>2. /\ cancellations[k] # None
        /\ cancellations[k].status \in OpenCancellation
        /\ requests' = [requests EXCEPT ![r].status = status]
      BY <1>5, <2>1 DEF ApproveCancellation
  <2>3. /\ r \in Requests
        /\ requests[r] # None
        /\ Effective(r)
        /\ C \in (SUBSET Dates) \ {{}}
        /\ C \subseteq requests[r].coverage
        /\ C \cap CancelledDates(r, {"APPROVED"}) = {}
      BY <2>1, <2>2, OpenFacts
  <2>4. status \in {"CANCELLED", "PARTIALLY_CANCELLED"}
      BY DEF StatusAfter
  <2>5. /\ requests'[r].coverage = requests[r].coverage
        /\ requests'[r].status = status
        /\ \A s \in Requests \ {r} : requests'[s] = requests[s]
    <3> HIDE DEF status
    <3>1. status \in Statuses
        BY <2>4 DEF Statuses, BlockingStatuses
    <3> QED
        BY <2>2, <2>3, <3>1, RequestStatus DEF Inv, TypeOK
  <2>6. /\ Approved(cancellations', r) = C \cup Approved(cancellations, r)
        /\ \A s \in Requests \ {r} : Approved(cancellations', s) = Approved(cancellations, s)
      BY <1>5, <2>1, <2>3, ApprovalCancels
  <2>7. \A s : CancelledDates(s, {"APPROVED"}) = Approved(cancellations, s)
      BY DEF CancelledDates, Approved
  <2>8. \A s \in Requests : MayHaveEndedEarly(s) => MayHaveEndedEarly(s)'
    <3>1. ASSUME NEW s \in Requests
          PROVE  /\ requests'[s].coverage = requests[s].coverage
                 /\ Approved(cancellations, s) \subseteq Approved(cancellations', s)
        BY <2>5, <2>6
    <3> QED
        BY <3>1, EarlyStays
  <2>9. ~MayHaveEndedEarly(r) => requests[r].status \in BlockingStatuses
    <3>1. ~MayHaveEndedEarly(r) => requests[r].status # "CANCELLED"
        BY <2>3 DEF Apart, CancelledLeavesNothing
    <3> QED
        BY <2>3, <3>1, RequestRow DEF Inv, Effective, Statuses
  <2>10. BlockingApart'
      BY <2>3, <2>5, <2>8, <2>9 DEF Apart, BlockingApart
  <2>11. Approved(cancellations, r) \subseteq requests[r].coverage
      BY <2>3 DEF Inv, LiveAreEffective, Live, Approved
  <2>12. ASSUME ~MayHaveEndedEarly(r)', status = "CANCELLED"
         PROVE  C \cup Approved(cancellations, r) = requests[r].coverage
    <3>1. Approved(cancellations', r) # {}
        BY <2>3, <2>6
    <3>2. ~(Cardinality(requests[r].coverage) >= 10)
        BY <2>5, <2>12, <3>1 DEF MayHaveEndedEarly, CancelledDates, Approved
    <3>3. StatusAfter(r, C \cup Approved(cancellations, r)) = "CANCELLED"
        BY <2>7, <2>12
    <3> HIDE DEF status
    <3> QED
        BY <2>3, <2>11, <3>2, <3>3, StatusAfterIsRight, RequestRow DEF Inv
  <2> HIDE DEF status
  <2>13. ASSUME NEW s \in Requests, requests'[s] # None, requests'[s].status = "CANCELLED",
                ~MayHaveEndedEarly(s)'
         PROVE  requests'[s].coverage \subseteq Approved(cancellations', s)
    <3>1. CASE s = r
        BY <2>5, <2>6, <2>12, <2>13, <3>1
    <3>2. CASE s # r
        BY <2>5, <2>6, <2>7, <2>8, <2>13, <3>2 DEF Apart, CancelledLeavesNothing
    <3> QED
        BY <3>1, <3>2
  <2>14. CancelledLeavesNothing'
      BY <2>13 DEF CancelledLeavesNothing, CancelledDates, Approved
  <2> QED
      BY <2>10, <2>14 DEF Apart
<1>6. CASE EmployeeStep
  <2>1. ASSUME NEW r \in Vacations, NEW C \in Coverages, SubmitVacation(r, C) PROVE Apart'
      BY <1>2, <2>1 DEF SubmitVacation, Requests
  <2>2. ASSUME NEW r \in Sicknesses, NEW C \in Coverages, ReportSickness(r, C) PROVE Apart'
      BY <1>2, <2>2 DEF ReportSickness, Requests
  <2>3. ASSUME NEW k \in Cancellations, NEW r \in Requests,
               NEW selection \in Selections \cup {None}, SubmitCancellation(k, r, selection)
        PROVE  Apart'
      BY <1>4, <2>3 DEF SubmitCancellation, Inv, TypeOK
  <2>4. ASSUME NEW k \in Cancellations, WithdrawCancellation(k) PROVE Apart'
      BY <1>4, <2>4 DEF WithdrawCancellation, OpenCancellation, Inv, TypeOK
  <2>5. ASSUME NEW m \in Months, SubmitMonth(m) PROVE Apart'
      BY <1>1, <2>5 DEF SubmitMonth
  <2> QED
      BY <1>6, <2>1, <2>2, <2>3, <2>4, <2>5 DEF EmployeeStep
<1>7. CASE ReviewerStep
  <2>1. ASSUME NEW r \in Sicknesses, NEW status \in {"ACKNOWLEDGED", "CHANGES_REQUESTED"},
               ReviewSickness(r, status)
        PROVE  Apart'
      BY <1>3, <2>1 DEF ReviewSickness, Requests, Statuses, BlockingStatuses
  <2>2. ASSUME NEW r \in Vacations, NEW action \in DOMAIN Decided,
               NEW authority \in Authorities, DecideVacation(r, action, authority)
        PROVE  Apart'
    <3>1. Decided[action] \in Statuses \ {"CANCELLED"}
        BY DEF Decided, Statuses, BlockingStatuses
    <3> QED
        BY <1>3, <2>2, <3>1 DEF DecideVacation, Requests, BlockingStatuses
  <2>3. ASSUME NEW k \in Cancellations, ApproveCancellation(k) PROVE Apart'
      BY <1>5, <2>3
  <2>4. ASSUME NEW k \in Cancellations, NEW action \in {"REJECT", "REQUEST_CHANGES"},
               RefuseCancellation(k, action)
        PROVE  Apart'
      BY <1>4, <2>4 DEF RefuseCancellation, OpenCancellation, Inv, TypeOK
  <2>5. ASSUME NEW m \in Months, ReopenMonth(m) \/ LockMonth(m) PROVE Apart'
      BY <1>1, <2>5 DEF ReopenMonth, LockMonth
  <2> QED
      BY <1>7, <2>1, <2>2, <2>3, <2>4, <2>5 DEF ReviewerStep
<1> QED
    BY <1>1, <1>6, <1>7
       DEF Next, vars, ConfigurationStep, CreateHoliday, ReplaceSchedule, NextDay

LEMMA ApartIsEnough ==
    ASSUME Inv, Apart
    PROVE  NoDoubleCoverage
<1> SUFFICES ASSUME NEW r \in Requests, NEW s \in Requests, NEW d \in Dates,
                    InEffect(r, d), InEffect(s, d),
                    ~MayHaveEndedEarly(r), ~MayHaveEndedEarly(s)
             PROVE  r = s
    BY DEF NoDoubleCoverage
<1>1. ASSUME NEW t \in Requests, InEffect(t, d), ~MayHaveEndedEarly(t)
      PROVE  /\ requests[t] # None
             /\ d \in requests[t].coverage
             /\ requests[t].status \in BlockingStatuses
  <2>1. Effective(t) /\ d \in requests[t].coverage
      BY <1>1 DEF InEffect, Inv, EffectsOfEffective
  <2>2. requests[t].status # "CANCELLED"
      BY <1>1, <2>1 DEF InEffect, Effective, Apart, CancelledLeavesNothing
  <2> QED
      BY <2>1, <2>2, RequestRow DEF Inv, Effective, Statuses
<1> QED
    BY <1>1 DEF Apart, BlockingApart

\* For any number of requests, cancellations, months and dates: no date is covered
\* by two absences, unless one of the two has ten dates or more of which some are
\* cancelled.  Of such a request the comparison of counts as texts can end the
\* blocking while dates of it are left; of shorter ones it cannot.
THEOREM NoDateIsCoveredTwice == Spec => []NoDoubleCoverage
<1>1. Init => Apart
    BY DEF Init, Apart, BlockingApart, CancelledLeavesNothing
<1>2. Inv /\ Apart /\ [Next]_vars => Apart'
    BY ApartStep
<1>3. Inv /\ Apart => NoDoubleCoverage
    BY ApartIsEnough
<1> QED
    BY <1>1, <1>2, <1>3, InitInv, InvStep, PTL DEF Spec

-----------------------------------------------------------------------------
(* The accounts: entitlement, effects and adjustments in numbers *)

ScheduleTyped ==
    /\ DOMAIN schedules \subseteq Dates
    /\ 1 \in DOMAIN schedules
    /\ \A start \in DOMAIN schedules : schedules[start] \in Nat

EffectsTyped == effects \in [Requests -> [Dates -> Seq(Nat)]]

LedgerTyped == ledger \in [EntryTypes -> [Sources -> Int]]

Numbers == ScheduleTyped /\ EffectsTyped /\ LedgerTyped

\* As long as the calendar stays, a submission has reserved what the coverage is
\* worth, and a decision has released as much.
ReservationsStand ==
    \A r \in Vacations :
        (requests[r] # None /\ ~CalendarChanged(requests[r].coverage)) =>
            /\ ledger["PENDING_RESERVATION"][r] = -Covered(requests[r].coverage)
            /\ requests[r].status # "SUBMITTED" =>
                   ledger["RESERVATION_RELEASE"][r] = Covered(requests[r].coverage)

\* Nothing is restored but by an approved cancellation.
RestoredByApproved ==
    \A k \in Cancellations :
        /\ ledger["CANCELLATION_RESTORATION"][k] \in Nat
        /\ (cancellations[k] = None \/ cancellations[k].status # "APPROVED") =>
               ledger["CANCELLATION_RESTORATION"][k] = 0

-----------------------------------------------------------------------------
(* The calendar *)

\* A date has a schedule, and is worth a number of minutes.
LEMMA CalendarNumbers ==
    ASSUME ScheduleTyped, NEW d \in Dates
    PROVE  CoveredMinutes(d) \in Nat
<1> DEFINE S == {start \in DOMAIN schedules : start <= d}
<1>1. Dates = 1..LastDate /\ LastDate \in Nat /\ d \in 1..LastDate
    BY AbsenceAssumption DEF Dates
<1>2. S \in SUBSET (1..LastDate) /\ 1 \in S
    BY <1>1 DEF ScheduleTyped
<1>3. Max(S) \in S
    BY <1>1, <1>2, LastPosition
<1>4. schedules[Max(S)] \in Nat
    BY <1>3 DEF ScheduleTyped
<1> QED
    BY <1>4 DEF CoveredMinutes, Scheduled

\* While HR does not touch its dates, a coverage keeps the first schedule.
UnchangedIsFirst ==
    ScheduleTyped =>
        \A C \in SUBSET Dates : ~CalendarChanged(C) =>
            \A d \in C : CoveredMinutes(d) = schedules[1]

LEMMA FirstSchedule == UnchangedIsFirst
<1> SUFFICES ASSUME ScheduleTyped, NEW C \in SUBSET Dates, ~CalendarChanged(C), NEW d \in C
             PROVE  CoveredMinutes(d) = schedules[1]
    BY DEF UnchangedIsFirst
<1> DEFINE S == {start \in DOMAIN schedules : start <= d}
<1>1. d \in 1..LastDate /\ 1 <= d
    BY AbsenceAssumption DEF Dates
<1>2. S = {1}
    BY <1>1 DEF ScheduleTyped, CalendarChanged
<1>3. 1 \in Nat /\ S \in SUBSET (1..1) /\ S # {}
    BY <1>2
<1>4. Max(S) = 1
    BY <1>2, <1>3, LastPosition
<1>5. d \notin holidays
    BY DEF CalendarChanged
<1> QED
    BY <1>4, <1>5 DEF CoveredMinutes, Scheduled

\* Coverages are finite.
LEMMA DatesFinite ==
    ASSUME NEW C \in SUBSET Dates
    PROVE  IsFiniteSet(C)
<1>1. \A a, b \in Int : IsFiniteSet(a..b)
    BY FS_Interval
<1>2. IsFiniteSet(Dates)
    BY <1>1, AbsenceAssumption DEF Dates
<1> QED
    BY <1>2, FS_Subset

\* A coverage is worth a number of minutes.
LEMMA CoveredNumber ==
    ASSUME ScheduleTyped, NEW C \in SUBSET Dates
    PROVE  Covered(C) \in Nat
<1> DEFINE f == [d \in C |-> CoveredMinutes(d)]
<1>1. \A d \in C : f[d] \in Nat
    BY CalendarNumbers
<1>2. IsFiniteSet(C)
    BY DatesFinite
<1> HIDE DEF f
<1>3. SumFunctionOnSet(f, C) \in Nat
    BY <1>1, <1>2, SumNatural
<1> QED
    BY <1>3 DEF Covered, f

\* A step that leaves the calendar of a coverage as it was leaves its worth.
LEMMA CoveredKept ==
    ASSUME ScheduleTyped, ScheduleTyped', NEW C \in SUBSET Dates,
           ~CalendarChanged(C), ~CalendarChanged(C)', schedules'[1] = schedules[1]
    PROVE  Covered(C)' = Covered(C)
<1> DEFINE f == [d \in C |-> CoveredMinutes(d)]
           g == [d \in C |-> schedules[1]]
<1>1. \A d \in C : CoveredMinutes(d) = schedules[1]
    BY FirstSchedule DEF UnchangedIsFirst
<1>2. \A d \in C : CoveredMinutes(d)' = schedules'[1]
  <2>1. UnchangedIsFirst'
      BY FirstSchedule, PTL
  <2> QED
      BY <2>1 DEF UnchangedIsFirst, Dates
<1>3. Covered(C) = SumFunctionOnSet(g, C)
    BY <1>1 DEF Covered
<1>4. Covered(C)' = SumFunctionOnSet(g, C)
    BY <1>2 DEF Covered
<1> QED
    BY <1>3, <1>4

-----------------------------------------------------------------------------
(* The accounts hold numbers *)

LEMMA NumbersInit == Init => Numbers
<1> SUFFICES ASSUME Init PROVE Numbers
    OBVIOUS
<1>1. ScheduleTyped
  <2>1. schedules \in [{1} -> Minutes]
      BY DEF Init
  <2>2. 1 \in Dates /\ Minutes \subseteq Nat
      BY AbsenceAssumption DEF Dates
  <2>3. \A start \in {1} : schedules[start] \in Nat
      BY <2>1, <2>2
  <2> QED
      BY <2>1, <2>2, <2>3 DEF ScheduleTyped
<1>2. EffectsTyped /\ LedgerTyped
    BY DEF Init, EffectsTyped, LedgerTyped
<1> QED
    BY <1>1, <1>2 DEF Numbers

\* The effects of an absence when it takes effect.
LEMMA FirstEffectsTyped ==
    ASSUME Numbers, NEW r \in Requests, NEW C,
           effects' = [effects EXCEPT ![r] = FirstEffects(C)]
    PROVE  EffectsTyped'
<1>1. FirstEffects(C) \in [Dates -> Seq(Nat)]
  <2>1. \A d \in Dates : <<CoveredMinutes(d)>> \in Seq(Nat) /\ <<>> \in Seq(Nat)
      BY CalendarNumbers DEF Numbers
  <2> QED
      BY <2>1 DEF FirstEffects
<1> QED
    BY <1>1 DEF Numbers, EffectsTyped

\* What the approval of a cancellation leaves of the effects.
LEMMA ApprovedEffects ==
    ASSUME Inv, EffectsTyped, NEW k \in Cancellations, ApproveCancellation(k),
           NEW r \in Requests, r = cancellations[k].request,
           NEW C \in SUBSET Dates, C = cancellations[k].coverage
    PROVE  /\ EffectsTyped'
           /\ \A s \in Requests \ {r} : effects'[s] = effects[s]
           /\ \A d \in Dates \ C : effects'[r][d] = effects[r][d]
           /\ \A d \in C : Latest(effects'[r][d]) = 0
<1> DEFINE f == [d \in Dates |-> IF d \in C THEN Append(effects[r][d], 0) ELSE effects[r][d]]
<1>1. effects' = [effects EXCEPT ![r] = f]
    BY DEF ApproveCancellation
<1>2. \A e \in Seq(Nat) : /\ Append(e, 0) \in Seq(Nat)
                          /\ Append(e, 0) # <<>>
                          /\ Len(Append(e, 0)) = Len(e) + 1
                          /\ Append(e, 0)[Len(e) + 1] = 0
    OBVIOUS
<1>3. \A e \in Seq(Nat) : Append(e, 0) \in Seq(Nat) /\ Latest(Append(e, 0)) = 0
    BY <1>2 DEF Latest, Last
<1>4. \A d \in Dates : effects[r][d] \in Seq(Nat)
    BY DEF EffectsTyped
<1>5. f \in [Dates -> Seq(Nat)]
    BY <1>3, <1>4
<1>6. \A d \in Dates : f[d] = IF d \in C THEN Append(effects[r][d], 0) ELSE effects[r][d]
    OBVIOUS
<1> HIDE DEF f
<1>7. /\ EffectsTyped'
      /\ effects'[r] = f
      /\ \A s \in Requests \ {r} : effects'[s] = effects[s]
    BY <1>1, <1>5 DEF EffectsTyped
<1> QED
    BY <1>3, <1>4, <1>6, <1>7

\* A new entry of the ledger.
LEMMA LedgerEntry ==
    ASSUME LedgerTyped, NEW type \in EntryTypes, NEW source \in Sources, NEW minutes \in Int,
           ledger' = [ledger EXCEPT ![type][source] = minutes]
    PROVE  /\ LedgerTyped'
           /\ ledger'[type][source] = minutes
           /\ \A s \in Sources \ {source} : ledger'[type][s] = ledger[type][s]
           /\ \A t \in EntryTypes \ {type} : ledger'[t] = ledger[t]
    BY DEF LedgerTyped

\* What a submission reserves.
LEMMA SubmissionEntry ==
    ASSUME Numbers, NEW r \in Vacations, NEW C \in Coverages, SubmitVacation(r, C)
    PROVE  /\ LedgerTyped'
           /\ ledger'["PENDING_RESERVATION"][r] = -Covered(C)
           /\ \A s \in Sources \ {r} :
                 ledger'["PENDING_RESERVATION"][s] = ledger["PENDING_RESERVATION"][s]
           /\ \A t \in EntryTypes \ {"PENDING_RESERVATION"} : ledger'[t] = ledger[t]
<1>1. Covered(C) \in Nat
    BY CoveredNumber, AbsenceAssumption DEF Numbers
<1>2. "PENDING_RESERVATION" \in EntryTypes /\ r \in Sources
    BY DEF EntryTypes, Sources, Requests
<1>3. ledger' = [ledger EXCEPT !["PENDING_RESERVATION"][r] = -Covered(C)]
    BY DEF SubmitVacation
<1> DEFINE minutes == -Covered(C)
<1>4. minutes \in Int
    BY <1>1
<1> HIDE DEF minutes
<1>5. ledger' = [ledger EXCEPT !["PENDING_RESERVATION"][r] = minutes]
    BY <1>3 DEF minutes
<1>6. ledger'["PENDING_RESERVATION"][r] = minutes
    BY <1>2, <1>4, <1>5, LedgerEntry DEF Numbers
<1> QED
    BY <1>2, <1>4, <1>5, <1>6, LedgerEntry DEF Numbers, minutes

\* What a decision releases and deducts.
LEMMA DecisionEntries ==
    ASSUME Inv, Numbers, NEW r \in Vacations, NEW action \in DOMAIN Decided, NEW authority,
           DecideVacation(r, action, authority)
    PROVE  /\ LedgerTyped'
           /\ ledger'["RESERVATION_RELEASE"][r] = Covered(requests[r].coverage)
           /\ ledger'["APPROVED_DEDUCTION"][r] =
                  IF action = "APPROVE" THEN -Covered(requests[r].coverage) ELSE 0
           /\ \A t \in EntryTypes, s \in Sources :
                 (s # r \/ t \notin {"RESERVATION_RELEASE", "APPROVED_DEDUCTION"}) =>
                     ledger'[t][s] = ledger[t][s]
<1> DEFINE C == requests[r].coverage
           minutes == Covered(C)
           deduction == IF action = "APPROVE" THEN -minutes ELSE 0
<1>1. r \in Requests /\ r \in Sources /\ requests[r] # None
    BY DEF Sources, Requests, DecideVacation
<1>2. C \in SUBSET Dates
    BY <1>1, RequestRow DEF Inv
<1> HIDE DEF C
<1>3. minutes \in Int /\ deduction \in Int
    BY <1>2, CoveredNumber DEF Numbers
<1>4. ledger' = [ledger EXCEPT !["RESERVATION_RELEASE"][r] = minutes,
                               !["APPROVED_DEDUCTION"][r] = deduction]
    BY DEF DecideVacation, EntitlementTransition, C
<1> HIDE DEF minutes, deduction
<1> DEFINE first == [ledger EXCEPT !["RESERVATION_RELEASE"][r] = minutes]
<1>5. {"RESERVATION_RELEASE", "APPROVED_DEDUCTION"} \subseteq EntryTypes
    BY DEF EntryTypes
<1>6. ledger \in [EntryTypes -> [Sources -> Int]]
    BY DEF Numbers, LedgerTyped
<1>7. /\ first \in [EntryTypes -> [Sources -> Int]]
      /\ first["RESERVATION_RELEASE"][r] = minutes
      /\ \A t \in EntryTypes, s \in Sources :
            (s # r \/ t # "RESERVATION_RELEASE") => first[t][s] = ledger[t][s]
    BY <1>1, <1>3, <1>5, <1>6
<1>8. ledger' = [first EXCEPT !["APPROVED_DEDUCTION"][r] = deduction]
    BY <1>4
<1> HIDE DEF first
<1>9. /\ ledger' \in [EntryTypes -> [Sources -> Int]]
      /\ ledger'["APPROVED_DEDUCTION"][r] = deduction
      /\ \A t \in EntryTypes, s \in Sources :
            (s # r \/ t # "APPROVED_DEDUCTION") => ledger'[t][s] = first[t][s]
    BY <1>1, <1>3, <1>5, <1>7, <1>8
<1>10. ledger'["RESERVATION_RELEASE"][r] = minutes
    BY <1>1, <1>5, <1>7, <1>9
<1>11. \A t \in EntryTypes, s \in Sources :
          (s # r \/ t \notin {"RESERVATION_RELEASE", "APPROVED_DEDUCTION"}) =>
              ledger'[t][s] = ledger[t][s]
    BY <1>7, <1>9
<1> QED
    BY <1>9, <1>10, <1>11 DEF LedgerTyped, minutes, deduction, C

\* The smaller of two numbers.
LEMMA MinOfTwo ==
    ASSUME NEW a \in Int, NEW b \in Int
    PROVE  /\ Min({a, b}) \in {a, b}
           /\ a <= b => Min({a, b}) = a
<1>1. Min({a, b}) \in {a, b} /\ \A y \in {a, b} : Min({a, b}) <= y
  <2>1. CASE a <= b
    <3>1. a \in {a, b} /\ \A y \in {a, b} : a <= y
        BY <2>1
    <3> QED
        BY <3>1 DEF Min
  <2>2. CASE ~(a <= b)
    <3>1. b \in {a, b} /\ \A y \in {a, b} : b <= y
        BY <2>2
    <3> QED
        BY <3>1 DEF Min
  <2> QED
      BY <2>1, <2>2
<1> QED
    BY <1>1

LEMMA MaxOfTwo ==
    ASSUME NEW a \in Int, NEW b \in Int
    PROVE  Max({a, b}) = IF a <= b THEN b ELSE a
<1>1. Max({a, b}) \in {a, b} /\ \A y \in {a, b} : Max({a, b}) >= y
  <2>1. CASE b <= a
    <3>1. a \in {a, b} /\ \A y \in {a, b} : a >= y
        BY <2>1
    <3> QED
        BY <3>1 DEF Max
  <2>2. CASE ~(b <= a)
    <3>1. b \in {a, b} /\ \A y \in {a, b} : b >= y
        BY <2>2
    <3> QED
        BY <3>1 DEF Max
  <2> QED
      BY <2>1, <2>2
<1> QED
    BY <1>1

-----------------------------------------------------------------------------
(* What a cancellation restores *)

\* Minutes of the effects of a request by date, and the cancellations of a
\* request, as functions of the tables: primes then apply to the tables alone.
Taken(table, r) == [d \in Dates |-> Latest(table[r][d])]
CancellationsOf(table, r) == {k \in Cancellations : table[k] # None /\ table[k].request = r}

LEMMA DeductionsInTables ==
    /\ DeductionsMatchEffects <=>
           \A r \in Vacations :
               -ledger["APPROVED_DEDUCTION"][r]
                   - SumFunctionOnSet(ledger["CANCELLATION_RESTORATION"],
                                      CancellationsOf(cancellations, r))
               = SumFunctionOnSet(Taken(effects, r), Dates)
    /\ DeductionsMatchEffects' <=>
           \A r \in Vacations :
               -ledger'["APPROVED_DEDUCTION"][r]
                   - SumFunctionOnSet(ledger'["CANCELLATION_RESTORATION"],
                                      CancellationsOf(cancellations', r))
               = SumFunctionOnSet(Taken(effects', r), Dates)
    BY DEF DeductionsMatchEffects, EffectMinutes, Taken, CancellationsOf

\* The latest version of minutes is a number of minutes.
LEMMA LatestNumber == ASSUME NEW e \in Seq(Nat) PROVE Latest(e) \in Nat
<1>1. e # <<>> => Len(e) \in DOMAIN e /\ e[Len(e)] \in Nat
    OBVIOUS
<1> QED
    BY <1>1 DEF Latest, Last

\* Effects hold numbers of minutes.
LEMMA TakenNumbers ==
    ASSUME NEW table \in [Requests -> [Dates -> Seq(Nat)]], NEW r \in Requests,
           NEW C \in SUBSET Dates
    PROVE  /\ \A d \in C : Taken(table, r)[d] \in Nat
           /\ IsFiniteSet(C)
           /\ SumFunctionOnSet(Taken(table, r), C) \in Nat
<1>1. \A d \in Dates : table[r][d] \in Seq(Nat)
    OBVIOUS
<1>2. \A d \in C : Taken(table, r)[d] \in Nat
    BY <1>1, LatestNumber DEF Taken
<1>3. IsFiniteSet(C)
    BY DatesFinite
<1> QED
    BY <1>2, <1>3, SumNatural

\* The same effects without those of some dates.
LEMMA TakenCancelled ==
    ASSUME NEW table \in [Requests -> [Dates -> Seq(Nat)]],
           NEW new \in [Requests -> [Dates -> Seq(Nat)]], NEW r \in Requests,
           NEW C \in SUBSET Dates,
           \A d \in C : Latest(new[r][d]) = 0,
           \A d \in Dates \ C : new[r][d] = table[r][d]
    PROVE  SumFunctionOnSet(Taken(new, r), Dates) =
               SumFunctionOnSet(Taken(table, r), Dates)
                   - SumFunctionOnSet(Taken(table, r), C)
<1> DEFINE R == Dates \ C
           f == Taken(table, r)
           g == Taken(new, r)
<1>1. C \cup R = Dates /\ C \cap R = {} /\ R \in SUBSET Dates
    OBVIOUS
<1>2. /\ IsFiniteSet(C) /\ IsFiniteSet(R)
      /\ SumFunctionOnSet(f, C) \in Nat /\ SumFunctionOnSet(f, R) \in Nat
      /\ \A d \in Dates : f[d] \in Nat /\ g[d] \in Nat
    BY <1>1, TakenNumbers
<1>3. (\A d \in C : g[d] = 0) /\ \A d \in R : g[d] = f[d]
    BY DEF Taken
<1> HIDE DEF R, f, g
<1>4. SumFunctionOnSet(g, C) = 0
    BY <1>2, <1>3, SumZero
<1>5. SumFunctionOnSet(g, R) = SumFunctionOnSet(f, R)
    BY <1>2, <1>3, SumEqual
<1>6. \A d \in C \cup R : f[d] \in Int /\ g[d] \in Int
    BY <1>1, <1>2
<1>7. SumFunctionOnSet(f, C \cup R) = SumFunctionOnSet(f, C) + SumFunctionOnSet(f, R)
    BY <1>1, <1>2, <1>6, SumUnion
<1>8. SumFunctionOnSet(g, C \cup R) = SumFunctionOnSet(g, C) + SumFunctionOnSet(g, R)
    BY <1>1, <1>2, <1>6, SumUnion
<1>9. SumFunctionOnSet(g, Dates) = SumFunctionOnSet(f, Dates) - SumFunctionOnSet(f, C)
  <2>1. /\ SumFunctionOnSet(f, C \cup R) = SumFunctionOnSet(f, Dates)
        /\ SumFunctionOnSet(g, C \cup R) = SumFunctionOnSet(g, Dates)
      BY <1>1
  <2> QED
      BY <1>2, <1>4, <1>5, <1>7, <1>8, <2>1
<1> QED
    BY <1>9 DEF f, g

\* Effects that begin with a coverage are worth what it is worth.
LEMMA TakenFirst ==
    ASSUME Numbers, NEW r, NEW C \in SUBSET Dates, NEW new,
           new[r] = FirstEffects(C)
    PROVE  SumFunctionOnSet(Taken(new, r), Dates) = Covered(C)
<1> DEFINE f == Taken(new, r)
           g == [d \in C |-> CoveredMinutes(d)]
<1>1. \A d \in Dates : f[d] = IF d \in C THEN CoveredMinutes(d) ELSE 0
  <2>1. \A x \in Nat : Latest(<<x>>) = x
      BY DEF Latest, Last
  <2>2. Latest(<<>>) = 0
      BY DEF Latest
  <2>3. \A d \in Dates : CoveredMinutes(d) \in Nat
      BY CalendarNumbers DEF Numbers
  <2> QED
      BY <2>1, <2>2, <2>3 DEF Taken, FirstEffects
<1>2. \A d \in C : CoveredMinutes(d) \in Int /\ f[d] = g[d]
    BY <1>1, CalendarNumbers DEF Numbers
<1>3. IsFiniteSet(C) /\ IsFiniteSet(Dates)
    BY DatesFinite
<1> HIDE DEF f, g
<1>4. SumFunctionOnSet(f, Dates) = SumFunctionOnSet(f, C)
    BY <1>1, <1>2, <1>3, SumSupport
<1>5. SumFunctionOnSet(f, C) = SumFunctionOnSet(g, C)
    BY <1>2, <1>3, SumEqual
<1> QED
    BY <1>4, <1>5 DEF Covered, f, g

\* The dates that a cancellation restores: those of a vacation.
Targeted(k) ==
    IF cancellations[k].request \in Vacations
    THEN SumFunctionOnSet(Taken(effects, cancellations[k].request), cancellations[k].coverage)
    ELSE 0

\* An approved cancellation restores a number of minutes.
LEMMA RestorationNumber ==
    ASSUME Inv, Numbers, NEW k \in Cancellations, cancellations[k] # None
    PROVE  /\ Restoration(k) \in Nat
           /\ Targeted(k) \in Nat
           /\ Targeted(k) <= -ledger["APPROVED_DEDUCTION"][cancellations[k].request] =>
                  Restoration(k) = Targeted(k)
<1> SUFFICES ASSUME NEW r, r = cancellations[k].request,
                    NEW C, C = cancellations[k].coverage,
                    NEW x, x = -ledger["APPROVED_DEDUCTION"][r]
             PROVE  /\ Restoration(k) \in Nat
                    /\ Targeted(k) \in Nat
                    /\ Targeted(k) <= x => Restoration(k) = Targeted(k)
    OBVIOUS
<1>1. r \in Requests /\ C \in SUBSET Dates
    BY CancellationRow DEF Inv
<1>2. x \in Int
    BY <1>1 DEF Numbers, LedgerTyped, EntryTypes, Sources
<1>3. Targeted(k) \in Nat
    BY <1>1, TakenNumbers DEF Targeted, Numbers, EffectsTyped
<1>4. Restoration(k) = Min({Targeted(k), Max({0, x})})
    BY DEF Restoration, Targeted, Taken, EffectMinutes
<1>5. Max({0, x}) \in Nat /\ x <= Max({0, x})
    BY <1>2, MaxOfTwo
<1> DEFINE a == Targeted(k)
           b == Max({0, x})
<1>6. a \in Int /\ b \in Int /\ a \in Nat /\ b \in Nat /\ x <= b
    BY <1>3, <1>5
<1>7. Restoration(k) = Min({a, b})
    BY <1>4
<1> HIDE DEF a, b
<1>8. Min({a, b}) \in {a, b} /\ (a <= b => Min({a, b}) = a)
    BY <1>6, MinOfTwo
<1>9. Restoration(k) \in Nat /\ a \in Nat /\ (a <= x => Restoration(k) = a)
    BY <1>2, <1>6, <1>7, <1>8
<1> QED
    BY <1>9 DEF a

\* The approval of a cancellation adds what it restores to the ledger.
LEMMA ApprovalEntry ==
    ASSUME Inv, Numbers, NEW k \in Cancellations, ApproveCancellation(k)
    PROVE  /\ LedgerTyped'
           /\ ledger'["CANCELLATION_RESTORATION"][k] = Restoration(k)
           /\ \A s \in Sources \ {k} : ledger'["CANCELLATION_RESTORATION"][s] =
                                           ledger["CANCELLATION_RESTORATION"][s]
           /\ \A t \in EntryTypes \ {"CANCELLATION_RESTORATION"} : ledger'[t] = ledger[t]
<1>1. "CANCELLATION_RESTORATION" \in EntryTypes /\ k \in Sources
    BY DEF EntryTypes, Sources
<1> DEFINE minutes == Restoration(k)
<1>2. minutes \in Int
    BY RestorationNumber DEF ApproveCancellation
<1>3. ledger' = [ledger EXCEPT !["CANCELLATION_RESTORATION"][k] = minutes]
    BY DEF ApproveCancellation
<1> HIDE DEF minutes
<1> QED
    BY <1>1, <1>2, <1>3, LedgerEntry DEF Numbers, minutes

\* Steps that write neither to the entitlement ledger nor to effects, requests,
\* schedules or holidays.
Bystander ==
    \/ \E k \in Cancellations, r \in Requests, selection \in Selections \cup {None} :
          SubmitCancellation(k, r, selection)
    \/ \E k \in Cancellations : WithdrawCancellation(k)
    \/ \E k \in Cancellations, action \in {"REJECT", "REQUEST_CHANGES"} :
          RefuseCancellation(k, action)
    \/ \E m \in Months : SubmitMonth(m) \/ ReopenMonth(m) \/ LockMonth(m)
    \/ NextDay
    \/ UNCHANGED vars

LEMMA BystanderFacts ==
    ASSUME Bystander
    PROVE  UNCHANGED <<ledger, effects, requests, schedules, holidays, adjustments, account>>
    BY DEF Bystander, SubmitCancellation, WithdrawCancellation, RefuseCancellation,
           SubmitMonth, ReopenMonth, LockMonth, NextDay, vars

\* The steps by what they do to the accounts.
LEMMA StepCases ==
    ASSUME [Next]_vars
    PROVE  \/ Bystander
           \/ \E r \in Vacations, C \in Coverages : SubmitVacation(r, C)
           \/ \E r \in Sicknesses, C \in Coverages : ReportSickness(r, C)
           \/ \E r \in Sicknesses, status \in {"ACKNOWLEDGED", "CHANGES_REQUESTED"} :
                 ReviewSickness(r, status)
           \/ \E r \in Vacations, action \in DOMAIN Decided, authority \in Authorities :
                 DecideVacation(r, action, authority)
           \/ \E k \in Cancellations : ApproveCancellation(k)
           \/ \E d \in Changes : CreateHoliday(d)
           \/ \E from \in Changes, minutes \in Minutes : ReplaceSchedule(from, minutes)
<1>1. CASE UNCHANGED vars
    BY <1>1 DEF Bystander
<1>2. CASE EmployeeStep
    BY <1>2 DEF EmployeeStep, Bystander
<1>3. CASE ReviewerStep
    BY <1>3 DEF ReviewerStep, Bystander
<1>4. CASE ConfigurationStep \/ NextDay
    BY <1>4 DEF ConfigurationStep, Bystander
<1> QED
    BY <1>1, <1>2, <1>3, <1>4 DEF Next

\* A new schedule starts on a date that none started on.
LEMMA ScheduleAdded ==
    ASSUME ScheduleTyped, NEW from \in Changes, NEW minutes \in Minutes,
           ReplaceSchedule(from, minutes)
    PROVE  /\ ScheduleTyped'
           /\ schedules'[1] = schedules[1]
           /\ DOMAIN schedules' = DOMAIN schedules \cup {from}
<1>1. from \in Dates /\ minutes \in Nat
    BY AbsenceAssumption
<1>2. from \notin DOMAIN schedules
    BY DEF ReplaceSchedule
<1>3. schedules' = [start \in DOMAIN schedules \cup {from} |->
                       IF start = from THEN minutes ELSE schedules[start]]
    BY DEF ReplaceSchedule
<1> QED
    BY <1>1, <1>2, <1>3 DEF ScheduleTyped, Dates

LEMMA NumbersStep == Inv /\ Numbers /\ [Next]_vars => Numbers'
<1> SUFFICES ASSUME Inv, Numbers, [Next]_vars PROVE Numbers'
    OBVIOUS
<1>1. UNCHANGED schedules => ScheduleTyped'
    BY DEF Numbers, ScheduleTyped, Dates
<1>2. UNCHANGED effects => EffectsTyped'
    BY DEF Numbers, EffectsTyped, Dates
<1>3. UNCHANGED ledger => LedgerTyped'
    BY DEF Numbers, LedgerTyped
<1>4. CASE Bystander
    BY <1>1, <1>2, <1>3, <1>4, BystanderFacts DEF Numbers
<1>5. ASSUME NEW r \in Vacations, NEW C \in Coverages, SubmitVacation(r, C) PROVE Numbers'
  <2>1. UNCHANGED <<schedules, effects>>
      BY <1>5 DEF SubmitVacation
  <2> QED
      BY <1>1, <1>2, <1>5, <2>1, SubmissionEntry DEF Numbers
<1>6. ASSUME NEW r \in Sicknesses, NEW C \in Coverages, ReportSickness(r, C) PROVE Numbers'
  <2>1. UNCHANGED <<schedules, ledger>> /\ r \in Requests
      BY <1>6 DEF ReportSickness, Requests
  <2>2. effects' = [effects EXCEPT ![r] = FirstEffects(C)]
      BY <1>6 DEF ReportSickness, FirstEffects
  <2> QED
      BY <1>1, <1>3, <2>1, <2>2, FirstEffectsTyped DEF Numbers
<1>7. ASSUME NEW r \in Sicknesses, NEW status, ReviewSickness(r, status) PROVE Numbers'
  <2>1. UNCHANGED <<schedules, ledger, effects>>
      BY <1>7 DEF ReviewSickness
  <2> QED
      BY <1>1, <1>2, <1>3, <2>1 DEF Numbers
<1>8. ASSUME NEW r \in Vacations, NEW action \in DOMAIN Decided, NEW authority,
             DecideVacation(r, action, authority)
      PROVE  Numbers'
  <2>1. UNCHANGED schedules /\ r \in Requests
      BY <1>8 DEF DecideVacation, Requests
  <2>2. \/ UNCHANGED effects
        \/ effects' = [effects EXCEPT ![r] = FirstEffects(requests[r].coverage)]
      BY <1>8 DEF DecideVacation, FirstEffects
  <2>3. EffectsTyped'
      BY <1>2, <2>1, <2>2, FirstEffectsTyped
  <2> QED
      BY <1>1, <1>8, <2>1, <2>3, DecisionEntries DEF Numbers
<1>9. ASSUME NEW k \in Cancellations, ApproveCancellation(k) PROVE Numbers'
  <2>1. UNCHANGED schedules /\ cancellations[k] # None
      BY <1>9 DEF ApproveCancellation
  <2>2. cancellations[k].request \in Requests /\ cancellations[k].coverage \in SUBSET Dates
      BY <2>1, CancellationRow DEF Inv
  <2>3. EffectsTyped'
      BY <1>9, <2>2, ApprovedEffects DEF Numbers
  <2> QED
      BY <1>1, <1>9, <2>1, <2>3, ApprovalEntry DEF Numbers
<1>10. ASSUME NEW d \in Changes, CreateHoliday(d) PROVE Numbers'
  <2>1. UNCHANGED <<schedules, ledger, effects>>
      BY <1>10 DEF CreateHoliday
  <2> QED
      BY <1>1, <1>2, <1>3, <2>1 DEF Numbers
<1>11. ASSUME NEW from \in Changes, NEW minutes \in Minutes, ReplaceSchedule(from, minutes)
       PROVE  Numbers'
  <2>1. UNCHANGED <<ledger, effects>>
      BY <1>11 DEF ReplaceSchedule
  <2> QED
      BY <1>2, <1>3, <1>11, <2>1, ScheduleAdded DEF Numbers
<1> QED
    BY <1>4, <1>5, <1>6, <1>7, <1>8, <1>9, <1>10, <1>11, StepCases

-----------------------------------------------------------------------------
(* Reservations *)

\* While neither its entries nor its calendar change, a request of this coverage
\* stays reserved and released as it was.
LEMMA ReservationKept ==
    ASSUME Inv, Numbers, Numbers', ReservationsStand, NEW r \in Vacations,
           NEW C, requests[r] # None, requests[r].coverage = C, requests'[r].coverage = C,
           requests'[r].status # "SUBMITTED" => requests[r].status # "SUBMITTED",
           schedules'[1] = schedules[1], holidays \subseteq holidays',
           DOMAIN schedules \subseteq DOMAIN schedules', ~CalendarChanged(C)',
           ledger'["PENDING_RESERVATION"][r] = ledger["PENDING_RESERVATION"][r],
           ledger'["RESERVATION_RELEASE"][r] = ledger["RESERVATION_RELEASE"][r]
    PROVE  /\ ledger'["PENDING_RESERVATION"][r] = -(Covered(C)')
           /\ requests'[r].status # "SUBMITTED" =>
                  ledger'["RESERVATION_RELEASE"][r] = Covered(C)'
<1>1. C \in SUBSET Dates
    BY RequestRow DEF Inv, Requests
<1>2. ~CalendarChanged(C)
    BY DEF CalendarChanged
<1>3. Covered(C)' = Covered(C)
    BY <1>1, <1>2, CoveredKept DEF Numbers
<1>4. /\ ledger["PENDING_RESERVATION"][r] = -Covered(C)
      /\ requests[r].status # "SUBMITTED" => ledger["RESERVATION_RELEASE"][r] = Covered(C)
    BY <1>2 DEF ReservationsStand
<1> QED
    BY <1>3, <1>4

LEMMA ReservationsStep ==
    Inv /\ Numbers /\ Numbers' /\ ReservationsStand /\ [Next]_vars => ReservationsStand'
<1> SUFFICES ASSUME Inv, Numbers, Numbers', ReservationsStand, [Next]_vars,
                    NEW r \in Vacations, requests'[r] # None,
                    NEW C, C = requests'[r].coverage, ~CalendarChanged(C)'
             PROVE  /\ ledger'["PENDING_RESERVATION"][r] = -(Covered(C)')
                    /\ requests'[r].status # "SUBMITTED" =>
                           ledger'["RESERVATION_RELEASE"][r] = Covered(C)'
    BY DEF ReservationsStand
<1>1. /\ r \in Requests /\ r \in Sources /\ r \notin Sicknesses
      /\ {"PENDING_RESERVATION", "RESERVATION_RELEASE"} \subseteq EntryTypes
    BY AbsenceAssumption DEF Requests, Sources, EntryTypes
<1>2. UNCHANGED <<schedules, holidays>> => Covered(C)' = Covered(C)
    BY DEF Covered, CoveredMinutes, Scheduled
<1>3. ASSUME UNCHANGED <<schedules, holidays>>, requests[r] # None, requests[r].coverage = C,
             requests'[r].status # "SUBMITTED" => requests[r].status # "SUBMITTED",
             \A t \in {"PENDING_RESERVATION", "RESERVATION_RELEASE"} :
                ledger'[t][r] = ledger[t][r]
      PROVE  /\ ledger'["PENDING_RESERVATION"][r] = -(Covered(C)')
             /\ requests'[r].status # "SUBMITTED" =>
                    ledger'["RESERVATION_RELEASE"][r] = Covered(C)'
    BY <1>3, ReservationKept
<1>4. CASE Bystander
    BY <1>3, <1>4, BystanderFacts
<1>5. ASSUME NEW s \in Vacations, NEW D \in Coverages, SubmitVacation(s, D)
      PROVE  /\ ledger'["PENDING_RESERVATION"][r] = -(Covered(C)')
             /\ requests'[r].status # "SUBMITTED" =>
                    ledger'["RESERVATION_RELEASE"][r] = Covered(C)'
  <2>1. /\ requests' = [requests EXCEPT ![s] = [coverage |-> D, status |-> "SUBMITTED"]]
        /\ UNCHANGED <<schedules, holidays>>
        /\ DOMAIN requests = Requests
      BY <1>5 DEF SubmitVacation, Inv, TypeOK
  <2>2. CASE r = s
    <3>1. requests'[r].status = "SUBMITTED" /\ D = C
        BY <1>1, <2>1, <2>2
    <3>2. ledger'["PENDING_RESERVATION"][r] = -Covered(C)
        BY <1>5, <2>2, <3>1, SubmissionEntry
    <3> QED
        BY <1>2, <2>1, <3>1, <3>2
  <2>3. CASE r # s
    <3>1. requests'[r] = requests[r]
        BY <1>1, <2>1, <2>3
    <3>2. \A t \in {"PENDING_RESERVATION", "RESERVATION_RELEASE"} :
              ledger'[t][r] = ledger[t][r]
        BY <1>1, <1>5, <2>3, SubmissionEntry
    <3> QED
        BY <1>3, <2>1, <3>1, <3>2
  <2> QED
      BY <2>2, <2>3
<1>6. ASSUME NEW s \in Sicknesses, NEW D \in Coverages, ReportSickness(s, D)
      PROVE  requests'[r] = requests[r] /\ UNCHANGED <<schedules, holidays, ledger>>
    BY <1>1, <1>6 DEF ReportSickness, Inv, TypeOK
<1>7. ASSUME NEW s \in Sicknesses, NEW status, ReviewSickness(s, status)
      PROVE  requests'[r] = requests[r] /\ UNCHANGED <<schedules, holidays, ledger>>
    BY <1>1, <1>7 DEF ReviewSickness, Inv, TypeOK
<1>8. ASSUME NEW s \in Vacations, NEW action \in DOMAIN Decided, NEW authority,
             DecideVacation(s, action, authority)
      PROVE  /\ ledger'["PENDING_RESERVATION"][r] = -(Covered(C)')
             /\ requests'[r].status # "SUBMITTED" =>
                    ledger'["RESERVATION_RELEASE"][r] = Covered(C)'
  <2>1. /\ requests[s] # None
        /\ requests' = [requests EXCEPT ![s].status = Decided[action]]
        /\ UNCHANGED <<schedules, holidays>>
        /\ s \in Requests
      BY <1>8 DEF DecideVacation, Requests
  <2>2. action \in {"APPROVE", "REJECT", "REQUEST_CHANGES"}
      BY DEF Decided
  <2>3. Decided[action] \in Statuses
      BY <2>2 DEF Decided, Statuses, BlockingStatuses
  <2>4. /\ requests'[s].coverage = requests[s].coverage
        /\ \A x \in Requests \ {s} : requests'[x] = requests[x]
      BY <2>1, <2>3, RequestStatus DEF Inv, TypeOK
  <2>5. /\ ledger'["RESERVATION_RELEASE"][s] = Covered(requests[s].coverage)
        /\ \A t \in EntryTypes, x \in Sources :
              (x # s \/ t \notin {"RESERVATION_RELEASE", "APPROVED_DEDUCTION"}) =>
                  ledger'[t][x] = ledger[t][x]
      BY <1>8, DecisionEntries
  <2>6. CASE r = s
    <3>1. requests[r] # None /\ requests[r].coverage = C
        BY <2>1, <2>4, <2>6
    <3>2. ~CalendarChanged(C)
        BY <2>1 DEF CalendarChanged
    <3>3. ledger["PENDING_RESERVATION"][r] = -Covered(C)
        BY <3>1, <3>2 DEF ReservationsStand
    <3>4. ledger'["PENDING_RESERVATION"][r] = ledger["PENDING_RESERVATION"][r]
        BY <1>1, <2>5
    <3> QED
        BY <1>2, <2>1, <2>5, <2>6, <3>1, <3>3, <3>4
  <2>7. CASE r # s
    <3>1. requests'[r] = requests[r]
        BY <1>1, <2>4, <2>7
    <3>2. \A t \in {"PENDING_RESERVATION", "RESERVATION_RELEASE"} :
              ledger'[t][r] = ledger[t][r]
        BY <1>1, <2>5, <2>7
    <3> QED
        BY <1>3, <2>1, <3>1, <3>2
  <2> QED
      BY <2>6, <2>7
<1>9. ASSUME NEW k \in Cancellations, ApproveCancellation(k)
      PROVE  /\ ledger'["PENDING_RESERVATION"][r] = -(Covered(C)')
             /\ requests'[r].status # "SUBMITTED" =>
                    ledger'["RESERVATION_RELEASE"][r] = Covered(C)'
  <2> SUFFICES ASSUME NEW s, s = cancellations[k].request
               PROVE  /\ ledger'["PENDING_RESERVATION"][r] = -(Covered(C)')
                      /\ requests'[r].status # "SUBMITTED" =>
                             ledger'["RESERVATION_RELEASE"][r] = Covered(C)'
      OBVIOUS
  <2>1. s \in Requests /\ requests[s] # None /\ Effective(s)
      BY <1>9, OpenFacts DEF ApproveCancellation
  <2>2. PICK status \in {"CANCELLED", "PARTIALLY_CANCELLED"} :
            requests' = [requests EXCEPT ![s].status = status]
      BY <1>9 DEF ApproveCancellation, StatusAfter
  <2>3. /\ requests'[s].coverage = requests[s].coverage
        /\ \A x \in Requests \ {s} : requests'[x] = requests[x]
      BY <2>1, <2>2, RequestStatus DEF Inv, TypeOK, Statuses, BlockingStatuses
  <2>4. r = s => requests[r].status # "SUBMITTED"
      BY <1>1, <2>1 DEF Effective
  <2>5. /\ requests[r] # None /\ requests[r].coverage = C
        /\ requests'[r].status # "SUBMITTED" => requests[r].status # "SUBMITTED"
      BY <1>1, <2>1, <2>3, <2>4
  <2>6. \A t \in {"PENDING_RESERVATION", "RESERVATION_RELEASE"} :
            ledger'[t] = ledger[t]
      BY <1>1, <1>9, ApprovalEntry
  <2> QED
      BY <1>3, <1>9, <2>5, <2>6 DEF ApproveCancellation
<1>10. ASSUME NEW d \in Changes, CreateHoliday(d)
       PROVE  /\ ledger'["PENDING_RESERVATION"][r] = -(Covered(C)')
              /\ requests'[r].status # "SUBMITTED" =>
                     ledger'["RESERVATION_RELEASE"][r] = Covered(C)'
  <2>1. UNCHANGED <<requests, schedules, ledger>> /\ holidays \subseteq holidays'
      BY <1>10 DEF CreateHoliday
  <2> QED
      BY <2>1, ReservationKept
<1>11. ASSUME NEW from \in Changes, NEW minutes \in Minutes, ReplaceSchedule(from, minutes)
       PROVE  /\ ledger'["PENDING_RESERVATION"][r] = -(Covered(C)')
              /\ requests'[r].status # "SUBMITTED" =>
                     ledger'["RESERVATION_RELEASE"][r] = Covered(C)'
  <2>1. UNCHANGED <<requests, holidays, ledger>>
      BY <1>11 DEF ReplaceSchedule
  <2>2. schedules'[1] = schedules[1] /\ DOMAIN schedules \subseteq DOMAIN schedules'
      BY <1>11, ScheduleAdded DEF Numbers
  <2> QED
      BY <2>1, <2>2, ReservationKept
<1> QED
    BY <1>3, <1>4, <1>5, <1>6, <1>7, <1>8, <1>9, <1>10, <1>11, StepCases

\* A vacation that was decided holds no entitlement beyond what its approval
\* deducted, as long as HR leaves the calendar of its dates alone.
THEOREM DecidedHoldsNothing == Spec => []DecidedHoldNothing
<1>1. Init => ReservationsStand
    BY DEF Init, ReservationsStand, Requests
<1>2. Inv /\ Numbers /\ ReservationsStand => DecidedHoldNothing
  <2> SUFFICES ASSUME Inv, Numbers, ReservationsStand, NEW r \in Vacations,
                      requests[r] # None, requests[r].status # "SUBMITTED",
                      ~CalendarChanged(requests[r].coverage)
               PROVE  Reserved(r) = 0
      BY DEF DecidedHoldNothing
  <2>1. requests[r].coverage \in SUBSET Dates
      BY RequestRow DEF Inv, Requests
  <2>2. Covered(requests[r].coverage) \in Nat
      BY <2>1, CoveredNumber DEF Numbers
  <2>3. /\ ledger["PENDING_RESERVATION"][r] = -Covered(requests[r].coverage)
        /\ ledger["RESERVATION_RELEASE"][r] = Covered(requests[r].coverage)
      BY DEF ReservationsStand
  <2> QED
      BY <2>2, <2>3 DEF Reserved
<1> QED
    BY <1>1, <1>2, InitInv, InvStep, NumbersInit, NumbersStep, ReservationsStep, PTL DEF Spec

-----------------------------------------------------------------------------
(* Deductions and restorations *)

\* Rows of cancellations stay, with their request and coverage; a row becomes an
\* approved one by the approval of its cancellation.
LEMMA CancellationsStay ==
    ASSUME Inv, [Next]_vars, NEW j \in Cancellations
    PROVE  /\ cancellations[j] # None =>
                  /\ cancellations'[j] # None
                  /\ cancellations'[j].request = cancellations[j].request
                  /\ cancellations'[j].coverage = cancellations[j].coverage
                  /\ cancellations[j].status = "APPROVED" => cancellations'[j].status = "APPROVED"
           /\ (cancellations'[j] # None /\ cancellations'[j].status = "APPROVED") =>
                  \/ cancellations[j] # None /\ cancellations[j].status = "APPROVED"
                  \/ ApproveCancellation(j)
<1> DEFINE Stays == /\ cancellations[j] # None =>
                           /\ cancellations'[j] # None
                           /\ cancellations'[j].request = cancellations[j].request
                           /\ cancellations'[j].coverage = cancellations[j].coverage
                           /\ cancellations[j].status = "APPROVED" =>
                                  cancellations'[j].status = "APPROVED"
                    /\ (cancellations'[j] # None /\ cancellations'[j].status = "APPROVED") =>
                           \/ cancellations[j] # None /\ cancellations[j].status = "APPROVED"
                           \/ ApproveCancellation(j)
<1>0. cancellations \in [Cancellations -> CancellationRows \cup {None}]
    BY DEF Inv, TypeOK
<1>1. CASE UNCHANGED cancellations
    BY <1>1
<1>2. ASSUME NEW k \in Cancellations, NEW r \in Requests, NEW selection,
             SubmitCancellation(k, r, selection)
      PROVE  Stays
  <2> DEFINE row == [request |-> r, coverage |-> Target(r, selection),
                     status |-> "PENDING_DECISION",
                     snapshotLinks |-> {m \in Months : /\ months[m] = "LOCKED"
                                                       /\ DatesIn(m) \cap Target(r, selection) # {}}]
  <2>1. cancellations[k] = None /\ cancellations' = [cancellations EXCEPT ![k] = row]
      BY <1>2 DEF SubmitCancellation
  <2>2. row.status = "PENDING_DECISION"
      OBVIOUS
  <2> HIDE DEF row
  <2>3. CASE j = k
      BY <1>0, <2>1, <2>2, <2>3
  <2>4. CASE j # k
      BY <1>0, <2>1, <2>4
  <2> QED
      BY <2>3, <2>4
<1>3. ASSUME NEW k \in Cancellations, cancellations[k] # None,
             cancellations[k].status \in OpenCancellation,
             NEW status \in CancellationStatuses,
             status = "APPROVED" => ApproveCancellation(k),
             cancellations' = [cancellations EXCEPT ![k].status = status]
      PROVE  Stays
  <2>1. /\ cancellations'[k] # None
        /\ cancellations'[k].request = cancellations[k].request
        /\ cancellations'[k].coverage = cancellations[k].coverage
        /\ cancellations'[k].status = status
        /\ \A x \in Cancellations \ {k} : cancellations'[x] = cancellations[x]
      BY <1>0, <1>3, CancellationStatus
  <2>2. cancellations[k].status # "APPROVED"
      BY <1>3 DEF OpenCancellation
  <2> QED
      BY <1>3, <2>1, <2>2
<1> HIDE DEF Stays
<1>4. ASSUME NEW k \in Cancellations, WithdrawCancellation(k) PROVE Stays
  <2>1. "WITHDRAWN" \in CancellationStatuses
      BY DEF CancellationStatuses
  <2> QED
      BY <1>3, <1>4, <2>1 DEF WithdrawCancellation
<1>5. ASSUME NEW k \in Cancellations, NEW action \in {"REJECT", "REQUEST_CHANGES"},
             RefuseCancellation(k, action)
      PROVE  Stays
  <2>1. Decided[action] \in CancellationStatuses /\ Decided[action] # "APPROVED"
      BY DEF Decided, CancellationStatuses, OpenCancellation
  <2> QED
      BY <1>3, <1>5, <2>1 DEF RefuseCancellation
<1>6. ASSUME NEW k \in Cancellations, ApproveCancellation(k) PROVE Stays
  <2>1. "APPROVED" \in CancellationStatuses
      BY DEF CancellationStatuses
  <2>2. /\ cancellations[k] # None /\ cancellations[k].status \in OpenCancellation
        /\ cancellations' = [cancellations EXCEPT ![k].status = "APPROVED"]
      BY <1>6 DEF ApproveCancellation
  <2> QED
      BY <1>3, <1>6, <2>1, <2>2
<1>7. CASE Bystander
    BY <1>1, <1>2, <1>4, <1>5, <1>7
       DEF Bystander, SubmitMonth, ReopenMonth, LockMonth, NextDay, vars, Stays
<1>8. Stays
    BY <1>1, <1>6, <1>7, StepCases
       DEF SubmitVacation, ReportSickness, ReviewSickness, DecideVacation, CreateHoliday,
           ReplaceSchedule, Stays
<1> QED
    BY <1>8 DEF Stays

\* Only the approval of a cancellation restores anything for it.
LEMMA RestorationsStay ==
    ASSUME Inv, Numbers, [Next]_vars, NEW j \in Cancellations, ~ApproveCancellation(j)
    PROVE  ledger'["CANCELLATION_RESTORATION"][j] = ledger["CANCELLATION_RESTORATION"][j]
<1>1. /\ "CANCELLATION_RESTORATION" \in EntryTypes /\ j \in Sources
      /\ "CANCELLATION_RESTORATION" # "PENDING_RESERVATION"
    BY DEF EntryTypes, Sources
<1>2. ASSUME NEW r \in Vacations, NEW C \in Coverages, SubmitVacation(r, C)
      PROVE  ledger'["CANCELLATION_RESTORATION"] = ledger["CANCELLATION_RESTORATION"]
    BY <1>1, <1>2, SubmissionEntry
<1>3. ASSUME NEW r \in Vacations, NEW action \in DOMAIN Decided, NEW authority,
             DecideVacation(r, action, authority)
      PROVE  ledger'["CANCELLATION_RESTORATION"][j] = ledger["CANCELLATION_RESTORATION"][j]
    BY <1>1, <1>3, DecisionEntries
<1>4. ASSUME NEW k \in Cancellations, ApproveCancellation(k)
      PROVE  ledger'["CANCELLATION_RESTORATION"][j] = ledger["CANCELLATION_RESTORATION"][j]
    BY <1>1, <1>4, ApprovalEntry
<1> QED
    BY <1>2, <1>3, <1>4, StepCases, BystanderFacts
       DEF ReportSickness, ReviewSickness, CreateHoliday, ReplaceSchedule

LEMMA RestoredStep ==
    Inv /\ Numbers /\ RestoredByApproved /\ [Next]_vars => RestoredByApproved'
<1> SUFFICES ASSUME Inv, Numbers, RestoredByApproved, [Next]_vars, NEW j \in Cancellations
             PROVE  /\ ledger'["CANCELLATION_RESTORATION"][j] \in Nat
                    /\ (cancellations'[j] = None \/ cancellations'[j].status # "APPROVED") =>
                           ledger'["CANCELLATION_RESTORATION"][j] = 0
    BY DEF RestoredByApproved
<1>1. CASE ApproveCancellation(j)
  <2>1. ledger'["CANCELLATION_RESTORATION"][j] \in Nat
      BY <1>1, ApprovalEntry, RestorationNumber DEF ApproveCancellation
  <2>2. "APPROVED" \in CancellationStatuses
      BY DEF CancellationStatuses
  <2>3. cancellations'[j] # None /\ cancellations'[j].status = "APPROVED"
      BY <1>1, <2>2, CancellationStatus DEF ApproveCancellation, Inv, TypeOK
  <2> QED
      BY <2>1, <2>3
<1>2. CASE ~ApproveCancellation(j)
    BY <1>2, RestorationsStay, CancellationsStay DEF RestoredByApproved
<1> QED
    BY <1>1, <1>2

\* Cancellations of a request, and what was restored for them.
LEMMA RestorationSums ==
    ASSUME Numbers, RestoredByApproved, NEW r
    PROVE  /\ IsFiniteSet(CancellationsOf(cancellations, r))
           /\ \A k \in CancellationsOf(cancellations, r) :
                 k \in Cancellations /\ ledger["CANCELLATION_RESTORATION"][k] \in Nat
           /\ SumFunctionOnSet(ledger["CANCELLATION_RESTORATION"],
                               CancellationsOf(cancellations, r)) \in Nat
<1> DEFINE K == CancellationsOf(cancellations, r)
           f == ledger["CANCELLATION_RESTORATION"]
<1>1. K \in SUBSET Cancellations
    BY DEF CancellationsOf
<1>2. IsFiniteSet(K)
    BY <1>1, FS_Subset, AbsenceAssumption
<1>3. \A k \in K : k \in Cancellations /\ f[k] \in Nat
    BY <1>1 DEF RestoredByApproved
<1> HIDE DEF K, f
<1>4. SumFunctionOnSet(f, K) \in Nat
    BY <1>2, <1>3, SumNatural
<1> QED
    BY <1>2, <1>3, <1>4 DEF K, f

\* A step without an approval restores nothing more.
LEMMA SameRestorations ==
    ASSUME Inv, Numbers, Numbers', RestoredByApproved, RestoredByApproved', [Next]_vars, NEW r,
           \A k \in CancellationsOf(cancellations, r) : ~ApproveCancellation(k)
    PROVE  SumFunctionOnSet(ledger'["CANCELLATION_RESTORATION"],
                            CancellationsOf(cancellations', r)) =
               SumFunctionOnSet(ledger["CANCELLATION_RESTORATION"],
                                CancellationsOf(cancellations, r))
<1> DEFINE K == CancellationsOf(cancellations, r)
           L == CancellationsOf(cancellations', r)
           f == ledger["CANCELLATION_RESTORATION"]
           g == ledger'["CANCELLATION_RESTORATION"]
<1>1. L \in SUBSET Cancellations /\ K \in SUBSET L
    BY CancellationsStay DEF CancellationsOf
<1>2. IsFiniteSet(L) /\ IsFiniteSet(K)
    BY <1>1, FS_Subset, AbsenceAssumption
<1>3. \A k \in K : g[k] = f[k]
    BY RestorationsStay DEF CancellationsOf
<1>4. \A k \in L : g[k] \in Nat
    BY <1>1 DEF RestoredByApproved
<1>5. \A k \in L \ K : g[k] = 0
  <2> SUFFICES ASSUME NEW k \in L, k \notin K PROVE g[k] = 0
      OBVIOUS
  <2>1. k \in Cancellations /\ cancellations[k] = None
      BY CancellationsStay DEF CancellationsOf
  <2>2. f[k] = 0
      BY <2>1 DEF RestoredByApproved
  <2>3. ~ApproveCancellation(k)
      BY <2>1 DEF ApproveCancellation
  <2> QED
      BY <2>1, <2>2, <2>3, RestorationsStay
<1> HIDE DEF K, L, f, g
<1>6. \A k \in K : g[k] \in Int
    BY <1>1, <1>4
<1>7. SumFunctionOnSet(g, L) = SumFunctionOnSet(g, K)
    BY <1>1, <1>2, <1>5, <1>6, SumSupport
<1>8. SumFunctionOnSet(g, K) = SumFunctionOnSet(f, K)
    BY <1>2, <1>3, SumEqual
<1> QED
    BY <1>7, <1>8 DEF K, L, f, g

\* What a request deducted agrees with its effects.
Agrees(r) ==
    -ledger["APPROVED_DEDUCTION"][r]
        - SumFunctionOnSet(ledger["CANCELLATION_RESTORATION"], CancellationsOf(cancellations, r))
    = SumFunctionOnSet(Taken(effects, r), Dates)

AgreesNext(r) ==
    -ledger'["APPROVED_DEDUCTION"][r]
        - SumFunctionOnSet(ledger'["CANCELLATION_RESTORATION"],
                           CancellationsOf(cancellations', r))
    = SumFunctionOnSet(Taken(effects', r), Dates)

\* A vacation that was not approved deducted nothing, and has no effects.
LEMMA NotYetDeducted ==
    ASSUME Inv, Numbers, RestoredByApproved, NEW r \in Vacations, Agrees(r), ~Effective(r)
    PROVE  /\ ledger["APPROVED_DEDUCTION"][r] = 0
           /\ SumFunctionOnSet(ledger["CANCELLATION_RESTORATION"],
                               CancellationsOf(cancellations, r)) = 0
           /\ SumFunctionOnSet(Taken(effects, r), Dates) = 0
<1> DEFINE K == CancellationsOf(cancellations, r)
           f == ledger["CANCELLATION_RESTORATION"]
           g == Taken(effects, r)
           x == ledger["APPROVED_DEDUCTION"][r]
<1>1. r \in Requests /\ x \in Int
    BY DEF Requests, Numbers, LedgerTyped, EntryTypes, Sources
<1>2. \A k \in K : f[k] = 0
  <2>1. \A k \in K : k \in Cancellations /\ cancellations[k].status # "APPROVED"
      BY DEF CancellationsOf, Inv, LiveAreEffective, Live
  <2> QED
      BY <2>1 DEF RestoredByApproved
<1>3. IsFiniteSet(K) /\ IsFiniteSet(Dates)
    BY RestorationSums, DatesFinite
<1>4. \A d \in Dates : g[d] = 0
  <2>1. \A d \in Dates : effects[r][d] = <<>>
      BY <1>1 DEF Inv, EffectsOfEffective
  <2> QED
      BY <2>1 DEF Taken, Latest
<1>5. -x - SumFunctionOnSet(f, K) = SumFunctionOnSet(g, Dates)
    BY DEF Agrees
<1> HIDE DEF K, f, g, x
<1>6. SumFunctionOnSet(f, K) = 0 /\ SumFunctionOnSet(g, Dates) = 0
    BY <1>2, <1>3, <1>4, SumZero
<1>7. x = 0
    BY <1>1, <1>5, <1>6
<1> QED
    BY <1>6, <1>7 DEF K, f, g, x

\* The decision on a vacation deducts what its effects take.
LEMMA DecisionAgrees ==
    ASSUME Inv, Numbers, Numbers', RestoredByApproved, RestoredByApproved',
           NEW r \in Vacations, Agrees(r), NEW action \in DOMAIN Decided,
           NEW authority \in Authorities, DecideVacation(r, action, authority)
    PROVE  AgreesNext(r)
<1>0. [Next]_vars
    BY DEF Next, ReviewerStep
<1>1. requests[r] # None /\ ~Effective(r) /\ r \in Requests
    BY AbsenceAssumption DEF DecideVacation, Effective, Requests
<1>2. requests[r].coverage \in SUBSET Dates
    BY <1>1, RequestRow DEF Inv
<1>3. /\ SumFunctionOnSet(ledger["CANCELLATION_RESTORATION"],
                          CancellationsOf(cancellations, r)) = 0
      /\ SumFunctionOnSet(Taken(effects, r), Dates) = 0
    BY <1>1, NotYetDeducted
<1>4. SumFunctionOnSet(ledger'["CANCELLATION_RESTORATION"],
                       CancellationsOf(cancellations', r)) = 0
  <2>1. \A k \in Cancellations : ledger'["CANCELLATION_RESTORATION"][k] =
                                     ledger["CANCELLATION_RESTORATION"][k]
      BY AbsenceAssumption, DecisionEntries DEF Sources, EntryTypes
  <2>2. UNCHANGED cancellations
      BY DEF DecideVacation
  <2>3. \A k \in CancellationsOf(cancellations, r) :
            ledger'["CANCELLATION_RESTORATION"][k] = ledger["CANCELLATION_RESTORATION"][k]
      BY <2>1 DEF CancellationsOf
  <2>4. IsFiniteSet(CancellationsOf(cancellations, r))
      BY RestorationSums
  <2>5. SumFunctionOnSet(ledger'["CANCELLATION_RESTORATION"],
                         CancellationsOf(cancellations, r)) =
            SumFunctionOnSet(ledger["CANCELLATION_RESTORATION"],
                             CancellationsOf(cancellations, r))
      BY <2>3, <2>4, SumEqual
  <2> QED
      BY <1>3, <2>2, <2>5
<1> DEFINE x == ledger'["APPROVED_DEDUCTION"][r]
           covered == Covered(requests[r].coverage)
<1>5. x = IF action = "APPROVE" THEN -covered ELSE 0
    BY DecisionEntries
<1>6. covered \in Nat
    BY <1>2, CoveredNumber DEF Numbers
<1>7. SumFunctionOnSet(Taken(effects', r), Dates) = IF action = "APPROVE" THEN covered ELSE 0
  <2>1. CASE action = "APPROVE"
    <3>1. effects'[r] = FirstEffects(requests[r].coverage)
        BY <1>1, <2>1 DEF DecideVacation, FirstEffects, Numbers, EffectsTyped
    <3> QED
        BY <1>2, <2>1, <3>1, TakenFirst
  <2>2. CASE action # "APPROVE"
      BY <1>3, <2>2 DEF DecideVacation
  <2> QED
      BY <2>1, <2>2
<1> HIDE DEF x, covered
<1>8. -x - 0 = SumFunctionOnSet(Taken(effects', r), Dates)
    BY <1>5, <1>6, <1>7
<1> QED
    BY <1>4, <1>8 DEF AgreesNext, x

\* The approval of a cancellation restores what it takes from the effects, and
\* no more than was deducted.
LEMMA ApprovalAgrees ==
    ASSUME Inv, Numbers, Numbers', RestoredByApproved, RestoredByApproved', NEW r \in Vacations,
           Agrees(r), NEW k \in Cancellations, ApproveCancellation(k),
           cancellations[k].request = r
    PROVE  AgreesNext(r)
<1> DEFINE K == CancellationsOf(cancellations, r)
           f == ledger["CANCELLATION_RESTORATION"]
           g == ledger'["CANCELLATION_RESTORATION"]
           x == ledger["APPROVED_DEDUCTION"][r]
           t == Taken(effects, r)
<1> SUFFICES ASSUME NEW C, C = cancellations[k].coverage PROVE AgreesNext(r)
    OBVIOUS
<1>1. r \in Requests /\ x \in Int
    BY DEF Requests, Numbers, LedgerTyped, EntryTypes, Sources
<1>2. /\ cancellations[k] # None /\ cancellations[k].status \in OpenCancellation
      /\ C \in SUBSET Dates
    BY CancellationRow DEF ApproveCancellation, Inv
<1>3. CancellationsOf(cancellations', r) = K /\ k \in K
  <2>1. [Next]_vars
      BY DEF Next, ReviewerStep
  <2>2. cancellations' = [cancellations EXCEPT ![k].status = "APPROVED"]
        /\ "APPROVED" \in CancellationStatuses
      BY DEF ApproveCancellation, CancellationStatuses
  <2>3. /\ cancellations'[k] # None /\ cancellations'[k].request = r
        /\ \A j \in Cancellations \ {k} : cancellations'[j] = cancellations[j]
      BY <1>2, <2>2, CancellationStatus DEF Inv, TypeOK
  <2> QED
      BY <1>2, <2>3 DEF CancellationsOf
<1>4. /\ IsFiniteSet(K) /\ SumFunctionOnSet(f, K) \in Nat
      /\ \A j \in K : j \in Cancellations /\ f[j] \in Nat /\ g[j] \in Nat
    BY RestorationSums DEF RestoredByApproved
<1>5. f[k] = 0
    BY <1>2 DEF RestoredByApproved, OpenCancellation
<1>6. /\ g[k] = Restoration(k)
      /\ \A j \in Cancellations \ {k} : g[j] = f[j]
      /\ ledger'["APPROVED_DEDUCTION"][r] = x
    BY ApprovalEntry DEF Sources, EntryTypes
<1>7. SumFunctionOnSet(g, K) = SumFunctionOnSet(f, K) - f[k] + g[k]
  <2>1. \A j \in K : f[j] \in Int /\ g[j] \in Int
      BY <1>4
  <2>2. \A j \in K \ {k} : g[j] = f[j]
      BY <1>4, <1>6
  <2> HIDE DEF K, f, g
  <2> QED
      BY <1>3, <1>4, <2>1, <2>2, SumReplace
<1>8. -x - SumFunctionOnSet(f, K) = SumFunctionOnSet(t, Dates)
    BY DEF Agrees
<1>9. /\ SumFunctionOnSet(t, C) \in Nat
      /\ SumFunctionOnSet(t, Dates \ C) \in Nat
      /\ SumFunctionOnSet(t, Dates) = SumFunctionOnSet(t, C) + SumFunctionOnSet(t, Dates \ C)
  <2> DEFINE R == Dates \ C
  <2>1. C \cup R = Dates /\ C \cap R = {} /\ R \in SUBSET Dates
      BY <1>2
  <2>2. effects \in [Requests -> [Dates -> Seq(Nat)]]
      BY DEF Numbers, EffectsTyped
  <2>3. /\ IsFiniteSet(C) /\ IsFiniteSet(R)
        /\ SumFunctionOnSet(t, C) \in Nat /\ SumFunctionOnSet(t, R) \in Nat
        /\ \A d \in Dates : t[d] \in Nat
      BY <1>1, <1>2, <2>1, <2>2, TakenNumbers
  <2> HIDE DEF R, t
  <2>4. \A d \in C \cup R : t[d] \in Int
      BY <2>1, <2>3
  <2>5. SumFunctionOnSet(t, C \cup R) = SumFunctionOnSet(t, C) + SumFunctionOnSet(t, R)
      BY <2>1, <2>3, <2>4, SumUnion
  <2>6. SumFunctionOnSet(t, C \cup R) = SumFunctionOnSet(t, Dates)
      BY <2>1
  <2> QED
      BY <2>3, <2>5, <2>6 DEF R
<1>10. Targeted(k) = SumFunctionOnSet(t, C)
    BY DEF Targeted
<1>11. Restoration(k) = SumFunctionOnSet(t, C)
  <2>1. Targeted(k) <= -x => Restoration(k) = Targeted(k)
      BY <1>2, RestorationNumber
  <2> HIDE DEF x, t, f, K
  <2>2. SumFunctionOnSet(t, C) <= -x
      BY <1>1, <1>4, <1>8, <1>9
  <2> QED
      BY <1>10, <2>1, <2>2
<1>12. SumFunctionOnSet(Taken(effects', r), Dates) =
           SumFunctionOnSet(t, Dates) - SumFunctionOnSet(t, C)
  <2>1. /\ EffectsTyped'
        /\ \A d \in Dates \ C : effects'[r][d] = effects[r][d]
        /\ \A d \in C : Latest(effects'[r][d]) = 0
      BY <1>1, <1>2, ApprovedEffects DEF Numbers
  <2> QED
      BY <1>1, <1>2, <2>1, TakenCancelled DEF Numbers, EffectsTyped
<1> DEFINE s == SumFunctionOnSet(Taken(effects', r), Dates)
<1>13. -x - SumFunctionOnSet(g, K) = s
  <2>1. s = SumFunctionOnSet(t, Dates) - SumFunctionOnSet(t, C)
      BY <1>12
  <2> HIDE DEF x, t, f, g, K, s
  <2> QED
      BY <1>1, <1>4, <1>5, <1>6, <1>7, <1>8, <1>9, <1>11, <2>1
<1> QED
    BY <1>3, <1>6, <1>13 DEF AgreesNext

\* Every other step leaves what is deducted, restored and taken.
LEMMA OthersAgree ==
    ASSUME Inv, Numbers, Numbers', RestoredByApproved, RestoredByApproved', [Next]_vars,
           NEW r \in Vacations, Agrees(r),
           \A k \in CancellationsOf(cancellations, r) : ~ApproveCancellation(k),
           ledger'["APPROVED_DEDUCTION"][r] = ledger["APPROVED_DEDUCTION"][r],
           effects'[r] = effects[r]
    PROVE  AgreesNext(r)
<1>1. SumFunctionOnSet(ledger'["CANCELLATION_RESTORATION"],
                       CancellationsOf(cancellations', r)) =
          SumFunctionOnSet(ledger["CANCELLATION_RESTORATION"],
                           CancellationsOf(cancellations, r))
    BY SameRestorations
<1>2. Taken(effects', r) = Taken(effects, r)
    BY DEF Taken
<1> QED
    BY <1>1, <1>2 DEF Agrees, AgreesNext

LEMMA DeductionsStep ==
    /\ Inv /\ Numbers /\ Numbers' /\ RestoredByApproved /\ RestoredByApproved'
    /\ DeductionsMatchEffects /\ [Next]_vars
    => DeductionsMatchEffects'
<1> SUFFICES ASSUME Inv, Numbers, Numbers', RestoredByApproved, RestoredByApproved',
                    DeductionsMatchEffects, [Next]_vars, NEW r \in Vacations
             PROVE  AgreesNext(r)
    BY DeductionsInTables DEF AgreesNext
<1>1. Agrees(r)
    BY DeductionsInTables DEF Agrees
<1>2. /\ r \in Requests /\ r \in Sources /\ r \notin Sicknesses /\ r \notin Cancellations
      /\ {"APPROVED_DEDUCTION", "PENDING_RESERVATION", "CANCELLATION_RESTORATION"}
             \subseteq EntryTypes
    BY AbsenceAssumption DEF Requests, Sources, EntryTypes
<1>3. ASSUME ledger'["APPROVED_DEDUCTION"][r] = ledger["APPROVED_DEDUCTION"][r],
             effects'[r] = effects[r],
             UNCHANGED cancellations \/ Bystander
      PROVE  AgreesNext(r)
  <2>1. ASSUME NEW k \in CancellationsOf(cancellations, r), ApproveCancellation(k) PROVE FALSE
    <3>1. /\ cancellations[k] # None /\ cancellations[k].status \in OpenCancellation
          /\ k \in Cancellations /\ cancellations[k].request = r
          /\ cancellations' = [cancellations EXCEPT ![k].status = "APPROVED"]
        BY <2>1 DEF ApproveCancellation, CancellationsOf
    <3>2. "APPROVED" \in CancellationStatuses /\ "APPROVED" \notin OpenCancellation
        BY DEF CancellationStatuses, OpenCancellation
    <3>3. cancellations'[k].status = "APPROVED"
        BY <3>1, <3>2, CancellationStatus DEF Inv, TypeOK
    <3>4. CASE UNCHANGED cancellations
        BY <3>1, <3>2, <3>3, <3>4
    <3>5. CASE Bystander
      <4>1. UNCHANGED effects
          BY <3>5, BystanderFacts
      <4>2. PICK C \in SUBSET Dates : C = cancellations[k].coverage /\ C # {}
          BY <3>1, OpenFacts
      <4>3. PICK d \in C : TRUE
          BY <4>2
      <4>4. effects'[r][d] = Append(effects[r][d], 0)
          BY <1>2, <2>1, <3>1, <4>2, <4>3 DEF ApproveCancellation, Numbers, EffectsTyped
      <4>5. effects[r][d] \in Seq(Nat)
          BY <1>2, <4>2, <4>3 DEF Numbers, EffectsTyped
      <4>6. Append(effects[r][d], 0) # effects[r][d]
        <5>1. Len(Append(effects[r][d], 0)) = Len(effects[r][d]) + 1 /\ Len(effects[r][d]) \in Nat
            BY <4>5
        <5> QED
            BY <5>1
      <4> QED
          BY <4>1, <4>4, <4>6
    <3> QED
        BY <1>3, <3>4, <3>5
  <2> QED
      BY <1>1, <1>3, <2>1, OthersAgree
<1>4. CASE Bystander
    BY <1>3, <1>4, BystanderFacts
<1>5. ASSUME NEW s \in Vacations, NEW C \in Coverages, SubmitVacation(s, C)
      PROVE  AgreesNext(r)
  <2>1. UNCHANGED <<effects, cancellations>>
      BY <1>5 DEF SubmitVacation
  <2>2. ledger'["APPROVED_DEDUCTION"] = ledger["APPROVED_DEDUCTION"]
      BY <1>2, <1>5, SubmissionEntry
  <2> QED
      BY <1>3, <2>1, <2>2
<1>6. ASSUME NEW s \in Sicknesses, NEW C \in Coverages, ReportSickness(s, C)
      PROVE  AgreesNext(r)
  <2>1. UNCHANGED <<ledger, cancellations>> /\ effects'[r] = effects[r]
      BY <1>2, <1>6 DEF ReportSickness, Numbers, EffectsTyped
  <2> QED
      BY <1>3, <2>1
<1>7. ASSUME NEW s \in Vacations, NEW action \in DOMAIN Decided, NEW authority \in Authorities,
             DecideVacation(s, action, authority)
      PROVE  AgreesNext(r)
  <2>1. CASE s = r
      BY <1>1, <1>7, <2>1, DecisionAgrees
  <2>2. CASE s # r
    <3>1. UNCHANGED cancellations /\ effects'[r] = effects[r]
        BY <1>2, <1>7, <2>2 DEF DecideVacation, Numbers, EffectsTyped
    <3>2. ledger'["APPROVED_DEDUCTION"][r] = ledger["APPROVED_DEDUCTION"][r]
        BY <1>2, <1>7, <2>2, DecisionEntries
    <3> QED
        BY <1>3, <3>1, <3>2
  <2> QED
      BY <2>1, <2>2
<1>8. ASSUME NEW k \in Cancellations, ApproveCancellation(k) PROVE AgreesNext(r)
  <2>1. CASE cancellations[k].request = r
      BY <1>1, <1>8, <2>1, ApprovalAgrees
  <2>2. ASSUME cancellations[k].request # r PROVE AgreesNext(r)
    <3>1. ASSUME NEW j \in CancellationsOf(cancellations, r), ApproveCancellation(j)
          PROVE  FALSE
      <4>1. /\ j \in Cancellations /\ cancellations[j] # None /\ j # k
            /\ cancellations[j].status \in OpenCancellation
            /\ cancellations' = [cancellations EXCEPT ![k].status = "APPROVED"]
            /\ cancellations' = [cancellations EXCEPT ![j].status = "APPROVED"]
            /\ cancellations[k] # None
          BY <1>8, <2>2, <3>1 DEF ApproveCancellation, CancellationsOf
      <4>2. "APPROVED" \in CancellationStatuses /\ "APPROVED" \notin OpenCancellation
          BY DEF CancellationStatuses, OpenCancellation
      <4>3. cancellations'[j].status = "APPROVED"
          BY <4>1, <4>2, CancellationStatus DEF Inv, TypeOK
      <4>4. cancellations'[j] = cancellations[j]
          BY <4>1, <4>2, CancellationStatus DEF Inv, TypeOK
      <4> QED
          BY <4>1, <4>2, <4>3, <4>4
    <3>2. ledger'["APPROVED_DEDUCTION"] = ledger["APPROVED_DEDUCTION"]
        BY <1>2, <1>8, ApprovalEntry
    <3>3. effects'[r] = effects[r]
      <4>1. cancellations[k] # None
          BY <1>8 DEF ApproveCancellation
      <4>2. /\ cancellations[k].request \in Requests
            /\ cancellations[k].coverage \in SUBSET Dates
          BY <4>1, CancellationRow DEF Inv
      <4> QED
          BY <1>2, <1>8, <2>2, <4>2, ApprovedEffects DEF Numbers
    <3> QED
        BY <1>1, <3>1, <3>2, <3>3, OthersAgree
  <2> QED
      BY <2>1, <2>2
<1> QED
    BY <1>3, <1>4, <1>5, <1>6, <1>7, <1>8, StepCases
       DEF ReviewSickness, CreateHoliday, ReplaceSchedule

\* Whatever was submitted, decided and cancelled, and however HR changed
\* holidays and schedules in between: an absence deducts from the entitlement
\* what its effects cover.
THEOREM DeductionsAlwaysMatchEffects == Spec => []DeductionsMatchEffects
<1>1. Init => RestoredByApproved
    BY DEF Init, RestoredByApproved, EntryTypes, Sources
<1>2. Init => DeductionsMatchEffects
  <2> SUFFICES ASSUME Init, NEW r \in Vacations PROVE Agrees(r)
      BY DeductionsInTables DEF Agrees
  <2>1. CancellationsOf(cancellations, r) = {} /\ ledger["APPROVED_DEDUCTION"][r] = 0
      BY DEF Init, CancellationsOf, EntryTypes, Sources, Requests
  <2>2. \A d \in Dates : Taken(effects, r)[d] = 0
      BY DEF Init, Taken, Latest, Requests
  <2>3. SumFunctionOnSet(Taken(effects, r), Dates) = 0
      BY <2>2, DatesFinite, SumZero
  <2> QED
      BY <2>1, <2>3, SumEmpty DEF Agrees
<1> QED
    BY <1>1, <1>2, InitInv, InvStep, NumbersInit, NumbersStep, RestoredStep, DeductionsStep, PTL
       DEF Spec

-----------------------------------------------------------------------------
(* Adjustments of locked months *)

AdjustmentRows == [cancellation : Cancellations, localDate : Dates, minutes : Int]

\* Adjustments are finitely many rows of numbers, and so are snapshots.
AdjustmentsTyped ==
    /\ IsFiniteSet(adjustments)
    /\ adjustments \subseteq AdjustmentRows
    /\ account \in [Months -> Int]
    /\ \A m \in Months : months[m] = "LOCKED" =>
          \A r \in Requests, d \in DatesIn(m) : snapshots[m][r][d] \in Seq(Nat)

\* Only an approved cancellation adjusts, and only dates of locked months.
AdjustedByApproved ==
    \A a \in adjustments :
        /\ cancellations[a.cancellation] # None
        /\ cancellations[a.cancellation].status = "APPROVED"
        /\ months[MonthOf[a.localDate]] = "LOCKED"

\* Minutes of all requests on a date, and the adjustments of a date or a month.
OnDate(table, d) == [r \in Requests |-> Latest(table[r][d])]
AdjustedOn(table, d) == {a \in table : a.localDate = d}
AdjustedIn(table, m) == {a \in table : a.localDate \in DatesIn(m)}

AccountsBooked ==
    \A m \in Months : account[m] = SumMinutes(AdjustedIn(adjustments, m))

DatesReconcile ==
    \A m \in Months : months[m] = "LOCKED" =>
        \A d \in DatesIn(m) :
            SumFunctionOnSet(OnDate(effects, d), Requests) =
                SumFunctionOnSet(OnDate(snapshots[m], d), Requests)
                    + SumMinutes(AdjustedOn(adjustments, d))

Adjusted == AdjustmentsTyped /\ AdjustedByApproved /\ AccountsBooked /\ DatesReconcile

LEMMA AdjustedReconciles == Adjusted => LockedMonthsReconcile
    BY DEF Adjusted, AccountsBooked, DatesReconcile, LockedMonthsReconcile, OnDate,
           AdjustedOn, AdjustedIn, EffectMinutes

\* The minutes of rows add up to an integer, and more rows add theirs.
LEMMA MinutesInteger ==
    ASSUME NEW E, IsFiniteSet(E), \A e \in E : e.minutes \in Int
    PROVE  SumMinutes(E) \in Int
<1> DEFINE f == [e \in E |-> e.minutes]
<1>1. SumMinutes(E) = SumFunctionOnSet(f, E)
    BY DEF SumMinutes, SumFunction
<1>2. \A e \in E : f[e] \in Int
    OBVIOUS
<1> HIDE DEF f
<1> QED
    BY <1>1, <1>2, SumInteger

LEMMA MinutesUnion ==
    ASSUME NEW E, IsFiniteSet(E), NEW F, IsFiniteSet(F), E \cap F = {},
           \A e \in E \cup F : e.minutes \in Int
    PROVE  SumMinutes(E \cup F) = SumMinutes(E) + SumMinutes(F)
<1> DEFINE f == [e \in E |-> e.minutes]
           g == [e \in F |-> e.minutes]
           h == [e \in E \cup F |-> e.minutes]
<1>1. /\ SumMinutes(E) = SumFunctionOnSet(f, E)
      /\ SumMinutes(F) = SumFunctionOnSet(g, F)
      /\ SumMinutes(E \cup F) = SumFunctionOnSet(h, E \cup F)
    BY DEF SumMinutes, SumFunction
<1>2. /\ \A e \in E \cup F : h[e] \in Int
      /\ \A e \in E : h[e] = f[e]
      /\ \A e \in F : h[e] = g[e]
    OBVIOUS
<1> HIDE DEF f, g, h
<1>3. SumFunctionOnSet(h, E \cup F) = SumFunctionOnSet(h, E) + SumFunctionOnSet(h, F)
    BY <1>2, SumUnion
<1>4. SumFunctionOnSet(h, E) = SumFunctionOnSet(f, E)
    BY <1>2, SumEqual
<1>5. SumFunctionOnSet(h, F) = SumFunctionOnSet(g, F)
    BY <1>2, SumEqual
<1> QED
    BY <1>1, <1>3, <1>4, <1>5

\* The rows that take the minutes of a function back, one for each date.
Back(k, f, d) == [cancellation |-> k, localDate |-> d, minutes |-> -f[d]]

LEMMA MinutesTakenBack ==
    ASSUME NEW S \in SUBSET Dates, NEW k \in Cancellations, NEW f,
           \A d \in S : f[d] \in Nat
    PROVE  /\ IsFiniteSet({Back(k, f, d) : d \in S})
           /\ {Back(k, f, d) : d \in S} \subseteq AdjustmentRows
           /\ SumMinutes({Back(k, f, d) : d \in S}) =
                  SumFunctionOnSet([d \in S |-> -f[d]], S)
<1> DEFINE row == [d \in S |-> Back(k, f, d)]
           Rows == {row[d] : d \in S}
           minus == [d \in S |-> -f[d]]
           minutes == [e \in Rows |-> e.minutes]
<1>1. IsFiniteSet(S)
    BY DatesFinite
<1>2. Rows = {Back(k, f, d) : d \in S}
    OBVIOUS
<1>3. \A x, y \in S : row[x] = row[y] => x = y
  <2>1. \A x \in S : row[x].localDate = x
      BY DEF Back
  <2> QED
      BY <2>1
<1>4. \A d \in S : row[d] \in AdjustmentRows /\ row[d].minutes = -f[d] /\ -f[d] \in Int
    BY DEF Back, AdjustmentRows
<1>5. \A d \in S : minus[d] \in Int /\ minutes[row[d]] = minus[d]
    BY <1>4
<1>6. SumMinutes(Rows) = SumFunctionOnSet(minutes, Rows)
    BY DEF SumMinutes, SumFunction
<1> HIDE DEF row, minus, minutes
<1>7. IsFiniteSet(Rows) /\ SumFunctionOnSet(minutes, Rows) = SumFunctionOnSet(minus, S)
    BY <1>1, <1>3, <1>5, SumImage
<1>8. Rows \subseteq AdjustmentRows
    BY <1>4
<1> QED
    BY <1>2, <1>6, <1>7, <1>8 DEF minus

LEMMA AdjustedInit == Init => Adjusted
<1> SUFFICES ASSUME Init PROVE Adjusted
    OBVIOUS
<1>1. adjustments = {} /\ account = [m \in Months |-> 0] /\ \A m \in Months : months[m] = "OPEN"
    BY DEF Init
<1>2. AdjustmentsTyped
    BY <1>1, FS_EmptySet DEF AdjustmentsTyped
<1>3. AdjustedByApproved /\ DatesReconcile
    BY <1>1 DEF AdjustedByApproved, DatesReconcile
<1>4. AccountsBooked
  <2>1. SumMinutes({}) = 0
      BY SumEmpty DEF SumMinutes, SumFunction
  <2>2. \A m : AdjustedIn({}, m) = {}
      BY DEF AdjustedIn
  <2> QED
      BY <1>1, <2>1, <2>2 DEF AccountsBooked
<1> QED
    BY <1>2, <1>3, <1>4 DEF Adjusted


\* A locked month stays locked and keeps its snapshot.
LEMMA LocksStay ==
    ASSUME Inv, [Next]_vars, NEW m \in Months
    PROVE  /\ months[m] = "LOCKED" => months'[m] = "LOCKED" /\ snapshots'[m] = snapshots[m]
           /\ months'[m] = "LOCKED" => months[m] = "LOCKED" \/ LockMonth(m)
<1> DEFINE Stays == /\ months[m] = "LOCKED" =>
                           months'[m] = "LOCKED" /\ snapshots'[m] = snapshots[m]
                    /\ months'[m] = "LOCKED" => months[m] = "LOCKED" \/ LockMonth(m)
<1>1. /\ months \in [Months -> {"OPEN", "SUBMITTED", "LOCKED"}]
      /\ DOMAIN snapshots = Months
    BY DEF Inv, TypeOK, Tables
<1>2. ASSUME UNCHANGED <<months, snapshots>> PROVE Stays
    BY <1>2
<1>3. ASSUME NEW n \in Months, SubmitMonth(n) \/ ReopenMonth(n) PROVE Stays
  <2>1. /\ months[n] # "LOCKED" /\ UNCHANGED snapshots
        /\ \/ months' = [months EXCEPT ![n] = "SUBMITTED"]
           \/ months' = [months EXCEPT ![n] = "OPEN"]
      BY <1>3 DEF SubmitMonth, ReopenMonth
  <2> QED
      BY <1>1, <2>1
<1>4. ASSUME NEW n \in Months, LockMonth(n) PROVE Stays
  <2> DEFINE taken == [r \in Requests |-> [d \in DatesIn(n) |-> effects[r][d]]]
  <2>1. /\ months[n] = "SUBMITTED"
        /\ months' = [months EXCEPT ![n] = "LOCKED"]
        /\ snapshots' = [snapshots EXCEPT ![n] = taken]
      BY <1>4 DEF LockMonth
  <2> HIDE DEF taken
  <2>2. CASE n = m
      BY <1>4, <2>1, <2>2
  <2>3. CASE n # m
      BY <1>1, <2>1, <2>3
  <2> QED
      BY <2>2, <2>3
<1>5. CASE Bystander
    BY <1>2, <1>3, <1>4, <1>5
       DEF Bystander, SubmitCancellation, WithdrawCancellation, RefuseCancellation, NextDay, vars,
           Stays
<1>6. Stays
    BY <1>2, <1>5, StepCases
       DEF SubmitVacation, ReportSickness, ReviewSickness, DecideVacation, ApproveCancellation,
           CreateHoliday, ReplaceSchedule, Stays
<1> QED
    BY <1>6

\* The sum of the effects on a date is a number.
LEMMA OnDateNumber ==
    ASSUME EffectsTyped, NEW d \in Dates
    PROVE  /\ \A r \in Requests : OnDate(effects, d)[r] \in Nat
           /\ SumFunctionOnSet(OnDate(effects, d), Requests) \in Nat
<1>1. \A r \in Requests : OnDate(effects, d)[r] \in Nat
  <2> SUFFICES ASSUME NEW r \in Requests PROVE OnDate(effects, d)[r] \in Nat
      OBVIOUS
  <2>1. Taken(effects, r)[d] \in Nat
      BY TakenNumbers DEF EffectsTyped
  <2> QED
      BY <2>1 DEF OnDate, Taken
<1>2. IsFiniteSet(Requests)
    BY AbsenceAssumption
<1> QED
    BY <1>1, <1>2, SumNatural

\* Steps that approve no cancellation.
LEMMA OthersReconcile ==
    ASSUME Inv, Numbers, Adjusted, [Next]_vars,
           \A k \in Cancellations : ~ApproveCancellation(k)
    PROVE  Adjusted'
<1>1. UNCHANGED <<adjustments, account>>
    BY BystanderFacts, StepCases
       DEF SubmitVacation, ReportSickness, ReviewSickness, DecideVacation, CreateHoliday,
           ReplaceSchedule
<1>2. \A m \in Months : months[m] # "OPEN" =>
          \A r \in Requests, d \in DatesIn(m) : effects'[r][d] = effects[r][d]
    BY OnlyApprovalsTouchClosed DEF vars
<1>3. ASSUME NEW m \in Months, LockMonth(m), NEW r \in Requests, NEW d \in DatesIn(m)
      PROVE  /\ months[m] = "SUBMITTED"
             /\ snapshots'[m][r][d] = effects[r][d]
             /\ effects'[r][d] = effects[r][d]
  <2> DEFINE taken == [s \in Requests |-> [e \in DatesIn(m) |-> effects[s][e]]]
  <2>1. /\ months[m] = "SUBMITTED" /\ UNCHANGED effects
        /\ snapshots' = [snapshots EXCEPT ![m] = taken]
      BY <1>3 DEF LockMonth
  <2>2. DOMAIN snapshots = Months
      BY DEF Inv, Tables
  <2>3. taken[r][d] = effects[r][d]
      OBVIOUS
  <2> HIDE DEF taken
  <2>4. snapshots'[m] = taken
      BY <2>1, <2>2
  <2> QED
      BY <2>1, <2>3, <2>4
<1>4. AdjustmentsTyped'
  <2>1. ASSUME NEW m \in Months, months'[m] = "LOCKED", NEW r \in Requests, NEW d \in DatesIn(m)
        PROVE  snapshots'[m][r][d] \in Seq(Nat)
    <3>1. effects[r][d] \in Seq(Nat)
        BY DEF Numbers, EffectsTyped, DatesIn
    <3> QED
        BY <1>3, <2>1, <3>1, LocksStay DEF Adjusted, AdjustmentsTyped
  <2> QED
      BY <1>1, <2>1 DEF Adjusted, AdjustmentsTyped
<1>5. AdjustedByApproved'
  <2>1. ASSUME NEW a \in adjustments
        PROVE  /\ cancellations'[a.cancellation] # None
               /\ cancellations'[a.cancellation].status = "APPROVED"
               /\ months'[MonthOf[a.localDate]] = "LOCKED"
    <3>1. a.cancellation \in Cancellations /\ MonthOf[a.localDate] \in Months
        BY AbsenceAssumption DEF Adjusted, AdjustmentsTyped, AdjustmentRows
    <3> QED
        BY <3>1, CancellationsStay, LocksStay DEF Adjusted, AdjustedByApproved
  <2> QED
      BY <1>1, <2>1 DEF AdjustedByApproved
<1>6. AccountsBooked'
    BY <1>1 DEF Adjusted, AccountsBooked
<1>7. DatesReconcile'
  <2> SUFFICES ASSUME NEW m \in Months, months'[m] = "LOCKED", NEW d \in DatesIn(m)
               PROVE  SumFunctionOnSet(OnDate(effects', d), Requests) =
                          SumFunctionOnSet(OnDate(snapshots'[m], d), Requests)
                              + SumMinutes(AdjustedOn(adjustments, d))
      BY <1>1 DEF DatesReconcile
  <2>1. CASE months[m] = "LOCKED"
    <3>1. snapshots'[m] = snapshots[m] /\ OnDate(effects', d) = OnDate(effects, d)
        BY <1>2, <2>1, LocksStay DEF OnDate
    <3> QED
        BY <2>1, <3>1 DEF Adjusted, DatesReconcile
  <2>2. CASE LockMonth(m)
    <3>1. OnDate(effects', d) = OnDate(effects, d) /\ OnDate(snapshots'[m], d) = OnDate(effects, d)
        BY <1>3, <2>2 DEF OnDate
    <3>2. d \in Dates /\ MonthOf[d] = m /\ months[m] # "LOCKED"
        BY <2>2 DEF DatesIn, LockMonth
    <3>3. AdjustedOn(adjustments, d) = {}
        BY <3>2 DEF AdjustedOn, Adjusted, AdjustedByApproved
    <3>4. SumMinutes({}) = 0
        BY SumEmpty DEF SumMinutes, SumFunction
    <3>5. SumFunctionOnSet(OnDate(effects, d), Requests) \in Nat
        BY <3>2, OnDateNumber DEF Numbers
    <3> QED
        BY <3>1, <3>3, <3>4, <3>5
  <2> QED
      BY <2>1, <2>2, LocksStay
<1> QED
    BY <1>4, <1>5, <1>6, <1>7 DEF Adjusted


\* The rows that take the minutes of these dates back, and their minutes as the
\* approval sums them.
BackOn(k, f, S) == {Back(k, f, d) : d \in S}
Minus(f) == [d \in Dates |-> -f[d]]

LEMMA BackNumbers ==
    ASSUME NEW S \in SUBSET Dates, NEW k \in Cancellations, NEW f,
           \A d \in S : f[d] \in Nat
    PROVE  /\ IsFiniteSet(BackOn(k, f, S))
           /\ BackOn(k, f, S) \subseteq AdjustmentRows
           /\ SumMinutes(BackOn(k, f, S)) = SumFunctionOnSet(Minus(f), S)
<1> DEFINE minus == [d \in S |-> -f[d]]
<1>1. /\ IsFiniteSet({Back(k, f, d) : d \in S})
      /\ {Back(k, f, d) : d \in S} \subseteq AdjustmentRows
      /\ SumMinutes({Back(k, f, d) : d \in S}) = SumFunctionOnSet(minus, S)
    BY MinutesTakenBack
<1>2. \A d \in S : minus[d] = Minus(f)[d]
    BY DEF Minus
<1> HIDE DEF minus
<1>3. SumFunctionOnSet(minus, S) = SumFunctionOnSet(Minus(f), S)
    BY <1>2, DatesFinite, SumEqual
<1> QED
    BY <1>1, <1>3 DEF BackOn

\* Dates of locked months.
LockedOf(C) == {d \in C : months[MonthOf[d]] = "LOCKED"}

\* An approval takes back what is in effect on the dates of locked months.
LEMMA ApprovalAdjusts ==
    ASSUME Inv, Numbers, Adjusted, NEW k \in Cancellations, ApproveCancellation(k)
    PROVE  LET f == Taken(effects, cancellations[k].request)
               L == LockedOf(cancellations[k].coverage)
           IN  /\ adjustments' = adjustments \cup BackOn(k, f, L)
               /\ adjustments \cap BackOn(k, f, L) = {}
               /\ \A m \in Months :
                     account'[m] = account[m] + SumFunctionOnSet(Minus(f), L \cap DatesIn(m))
               /\ account' \in [Months -> Int]
<1> SUFFICES ASSUME NEW r, r = cancellations[k].request,
                    NEW C, C = cancellations[k].coverage,
                    NEW f, f = Taken(effects, r),
                    NEW L, L = LockedOf(C)
             PROVE  /\ adjustments' = adjustments \cup BackOn(k, f, L)
                    /\ adjustments \cap BackOn(k, f, L) = {}
                    /\ \A m \in Months :
                          account'[m] = account[m] + SumFunctionOnSet(Minus(f), L \cap DatesIn(m))
                    /\ account' \in [Months -> Int]
    OBVIOUS
<1>0. r \in Requests /\ C \in SUBSET Dates
    BY CancellationRow DEF ApproveCancellation, Inv
<1> DEFINE links == cancellations[k].snapshotLinks
           delta(m) == SumFunctionOnSet(Minus(f), C \cap DatesIn(m))
<1>1. cancellations[k] # None /\ cancellations[k].status \in OpenCancellation
    BY DEF ApproveCancellation
<1>2. /\ links \subseteq Months
      /\ \A m \in Months : m \in links <=> months[m] = "LOCKED" /\ DatesIn(m) \cap C # {}
    BY <1>1, CancellationRow DEF Inv, OpenLinked
<1>3. \A d \in Dates : MonthOf[d] \in Months /\ f[d] \in Nat /\ Minus(f)[d] \in Int
  <2>1. \A d \in Dates : f[d] \in Nat
      BY <1>0, TakenNumbers DEF Numbers, EffectsTyped
  <2> QED
      BY <2>1, AbsenceAssumption DEF Minus
<1>4. \A d \in Dates : -EffectMinutes(r, d) = -f[d]
    BY DEF EffectMinutes, Taken
<1>5. [d \in Dates |-> -EffectMinutes(r, d)] = Minus(f)
    BY <1>4 DEF Minus
<1>6. \A m \in Months : CancelledIn(k, m) = BackOn(k, f, C \cap DatesIn(m))
    BY <1>0, <1>4 DEF CancelledIn, BackOn, Back
<1>7. /\ adjustments' = adjustments \cup UNION {CancelledIn(k, m) : m \in links}
      /\ account' = [m \in Months |-> IF m \in links THEN account[m] + delta(m) ELSE account[m]]
    BY <1>5 DEF ApproveCancellation, AdjustLockedMonths
<1>8. UNION {CancelledIn(k, m) : m \in links} = BackOn(k, f, L)
  <2>1. ASSUME NEW m \in links, NEW d \in C \cap DatesIn(m) PROVE d \in L
      BY <1>2 DEF DatesIn, LockedOf
  <2>2. ASSUME NEW d \in L PROVE \E m \in links : d \in C \cap DatesIn(m)
    <3>1. d \in C \cap DatesIn(MonthOf[d])
        BY <1>0 DEF DatesIn, LockedOf
    <3> QED
        BY <1>0, <1>2, <1>3, <3>1 DEF LockedOf
  <2> QED
      BY <1>2, <1>6, <2>1, <2>2 DEF BackOn
<1>9. adjustments \cap BackOn(k, f, L) = {}
  <2>1. \A a \in BackOn(k, f, L) : a.cancellation = k
      BY DEF BackOn, Back
  <2>2. \A a \in adjustments : cancellations[a.cancellation].status = "APPROVED"
      BY DEF Adjusted, AdjustedByApproved
  <2> QED
      BY <1>1, <2>1, <2>2 DEF OpenCancellation
<1>10. ASSUME NEW m \in Months
       PROVE  /\ account'[m] = account[m] + SumFunctionOnSet(Minus(f), L \cap DatesIn(m))
              /\ account'[m] \in Int
  <2>1. account[m] \in Int
      BY DEF Adjusted, AdjustmentsTyped
  <2>2. CASE m \in links
    <3>1. L \cap DatesIn(m) = C \cap DatesIn(m)
        BY <1>2, <2>2 DEF DatesIn, LockedOf
    <3>2. delta(m) \in Int
        BY <1>0, <1>3, DatesFinite, SumInteger
    <3>3. account'[m] = account[m] + delta(m)
        BY <1>7, <2>2
    <3>4. SumFunctionOnSet(Minus(f), L \cap DatesIn(m)) = delta(m)
        BY <3>1
    <3> HIDE DEF delta
    <3> QED
        BY <2>1, <3>2, <3>3, <3>4
  <2>3. CASE m \notin links
    <3>1. L \cap DatesIn(m) = {}
        BY <1>2, <2>3 DEF DatesIn, LockedOf
    <3>2. SumFunctionOnSet(Minus(f), L \cap DatesIn(m)) = 0
        BY <3>1, SumEmpty
    <3>3. account'[m] = account[m]
        BY <1>7, <2>3
    <3> QED
        BY <2>1, <3>2, <3>3
  <2> QED
      BY <2>2, <2>3
<1>11. account' \in [Months -> Int]
    BY <1>7, <1>10
<1> QED
    BY <1>7, <1>8, <1>9, <1>10, <1>11

\* What is in effect on a date without one of the requests.
LEMMA OnDateCancelled ==
    ASSUME NEW d, NEW r \in Requests, NEW old, NEW new,
           \A s \in Requests : OnDate(old, d)[s] \in Int,
           \A s \in Requests \ {r} : OnDate(new, d)[s] = OnDate(old, d)[s],
           OnDate(new, d)[r] = 0
    PROVE  SumFunctionOnSet(OnDate(new, d), Requests) =
               SumFunctionOnSet(OnDate(old, d), Requests) - OnDate(old, d)[r]
<1>1. IsFiniteSet(Requests)
    BY AbsenceAssumption
<1>2. \A s \in Requests : OnDate(old, d)[s] \in Int /\ OnDate(new, d)[s] \in Int
    OBVIOUS
<1>3. SumFunctionOnSet(OnDate(old, d), Requests) \in Int
    BY <1>1, SumInteger
<1> DEFINE y == OnDate(old, d)[r]
           x == SumFunctionOnSet(OnDate(old, d), Requests)
<1>4. SumFunctionOnSet(OnDate(new, d), Requests) = x - y + 0
    BY <1>1, <1>2, SumReplace
<1>5. x \in Int /\ y \in Int
    BY <1>2, <1>3
<1> HIDE DEF x, y
<1>6. SumFunctionOnSet(OnDate(new, d), Requests) = x - y
    BY <1>4, <1>5
<1> QED
    BY <1>6 DEF x, y

LEMMA ApprovalReconciles ==
    ASSUME Inv, Numbers, Numbers', Adjusted, [Next]_vars,
           NEW k \in Cancellations, ApproveCancellation(k)
    PROVE  Adjusted'
<1> SUFFICES ASSUME NEW r, r = cancellations[k].request,
                    NEW C, C = cancellations[k].coverage,
                    NEW f, f = Taken(effects, r),
                    NEW L, L = LockedOf(C)
             PROVE  Adjusted'
    OBVIOUS
<1>1. /\ cancellations[k] # None /\ cancellations[k].status \in OpenCancellation
      /\ UNCHANGED <<months, snapshots>>
    BY DEF ApproveCancellation
<1>2. /\ r \in Requests /\ C \in SUBSET Dates /\ L \in SUBSET Dates
      /\ \A d \in Dates : f[d] \in Nat
  <2>1. r \in Requests /\ C \in SUBSET Dates
      BY <1>1, CancellationRow DEF Inv
  <2> QED
      BY <2>1, TakenNumbers DEF Numbers, EffectsTyped, LockedOf
<1>3. /\ adjustments' = adjustments \cup BackOn(k, f, L)
      /\ adjustments \cap BackOn(k, f, L) = {}
      /\ \A m \in Months :
            account'[m] = account[m] + SumFunctionOnSet(Minus(f), L \cap DatesIn(m))
      /\ account' \in [Months -> Int]
    BY <1>2, ApprovalAdjusts
<1>4. \A S \in SUBSET Dates : /\ IsFiniteSet(BackOn(k, f, S))
                              /\ BackOn(k, f, S) \subseteq AdjustmentRows
                              /\ SumMinutes(BackOn(k, f, S)) = SumFunctionOnSet(Minus(f), S)
    BY <1>2, BackNumbers
<1>5. /\ IsFiniteSet(adjustments) /\ adjustments \subseteq AdjustmentRows
      /\ \A a \in AdjustmentRows : a.minutes \in Int
    BY DEF Adjusted, AdjustmentsTyped, AdjustmentRows
<1>6. AdjustmentsTyped'
  <2>1. IsFiniteSet(adjustments') /\ adjustments' \subseteq AdjustmentRows
      BY <1>2, <1>3, <1>4, <1>5, FS_Union
  <2> QED
      BY <1>1, <1>3, <2>1 DEF Adjusted, AdjustmentsTyped
<1>7. AdjustedByApproved'
  <2>1. ASSUME NEW a \in adjustments
        PROVE  /\ cancellations'[a.cancellation] # None
               /\ cancellations'[a.cancellation].status = "APPROVED"
               /\ months'[MonthOf[a.localDate]] = "LOCKED"
    <3>1. a.cancellation \in Cancellations
        BY <1>5 DEF AdjustmentRows
    <3> QED
        BY <1>1, <3>1, CancellationsStay DEF Adjusted, AdjustedByApproved
  <2>2. cancellations'[k] # None /\ cancellations'[k].status = "APPROVED"
    <3>1. /\ cancellations' = [cancellations EXCEPT ![k].status = "APPROVED"]
          /\ "APPROVED" \in CancellationStatuses
        BY DEF ApproveCancellation, CancellationStatuses
    <3> QED
        BY <1>1, <3>1, CancellationStatus DEF Inv, TypeOK
  <2>3. \A a \in BackOn(k, f, L) : a.cancellation = k /\ months[MonthOf[a.localDate]] = "LOCKED"
      BY DEF BackOn, Back, LockedOf
  <2>4. ASSUME NEW a \in adjustments'
        PROVE  /\ cancellations'[a.cancellation] # None
               /\ cancellations'[a.cancellation].status = "APPROVED"
               /\ months'[MonthOf[a.localDate]] = "LOCKED"
      BY <1>1, <1>3, <2>1, <2>2, <2>3
  <2> QED
      BY <2>4 DEF AdjustedByApproved
<1>8. \A E \in SUBSET adjustments, S \in SUBSET L :
          SumMinutes(E \cup BackOn(k, f, S)) = SumMinutes(E) + SumFunctionOnSet(Minus(f), S)
  <2> SUFFICES ASSUME NEW E \in SUBSET adjustments, NEW S \in SUBSET L
               PROVE  SumMinutes(E \cup BackOn(k, f, S)) =
                          SumMinutes(E) + SumFunctionOnSet(Minus(f), S)
      OBVIOUS
  <2>1. IsFiniteSet(E)
      BY <1>5, FS_Subset
  <2>2. IsFiniteSet(BackOn(k, f, S)) /\ E \cap BackOn(k, f, S) = {}
      BY <1>2, <1>3, <1>4 DEF BackOn
  <2>3. \A e \in E \cup BackOn(k, f, S) : e.minutes \in Int
      BY <1>2, <1>4, <1>5
  <2>4. SumMinutes(E \cup BackOn(k, f, S)) = SumMinutes(E) + SumMinutes(BackOn(k, f, S))
      BY <2>1, <2>2, <2>3, MinutesUnion
  <2> QED
      BY <1>2, <1>4, <2>4
<1>9. AccountsBooked'
  <2> SUFFICES ASSUME NEW m \in Months
               PROVE  account'[m] = SumMinutes(AdjustedIn(adjustments', m))
      BY DEF AccountsBooked
  <2>1. AdjustedIn(adjustments', m) =
            AdjustedIn(adjustments, m) \cup BackOn(k, f, L \cap DatesIn(m))
      BY <1>3 DEF AdjustedIn, BackOn, Back
  <2>2. AdjustedIn(adjustments, m) \in SUBSET adjustments
      BY DEF AdjustedIn
  <2>3. SumMinutes(AdjustedIn(adjustments', m)) =
            SumMinutes(AdjustedIn(adjustments, m))
                + SumFunctionOnSet(Minus(f), L \cap DatesIn(m))
    <3> DEFINE E == AdjustedIn(adjustments, m)
               S == L \cap DatesIn(m)
    <3>1. E \in SUBSET adjustments /\ S \in SUBSET L
        BY <2>2
    <3>2. AdjustedIn(adjustments', m) = E \cup BackOn(k, f, S)
        BY <2>1
    <3> HIDE DEF E, S
    <3>3. SumMinutes(E \cup BackOn(k, f, S)) = SumMinutes(E) + SumFunctionOnSet(Minus(f), S)
        BY <1>8, <3>1
    <3>4. SumMinutes(AdjustedIn(adjustments', m)) = SumMinutes(E) + SumFunctionOnSet(Minus(f), S)
        BY <3>2, <3>3
    <3> QED
        BY <3>4 DEF E, S
  <2>4. account[m] = SumMinutes(AdjustedIn(adjustments, m))
      BY DEF Adjusted, AccountsBooked
  <2>5. account'[m] = account[m] + SumFunctionOnSet(Minus(f), L \cap DatesIn(m))
      BY <1>3
  <2> QED
      BY <2>3, <2>4, <2>5
<1>10. DatesReconcile'
  <2> SUFFICES ASSUME NEW m \in Months, months[m] = "LOCKED", NEW d \in DatesIn(m)
               PROVE  SumFunctionOnSet(OnDate(effects', d), Requests) =
                          SumFunctionOnSet(OnDate(snapshots[m], d), Requests)
                              + SumMinutes(AdjustedOn(adjustments', d))
      BY <1>1 DEF DatesReconcile
  <2> DEFINE all == SumFunctionOnSet(OnDate(effects, d), Requests)
             taken == SumFunctionOnSet(OnDate(snapshots[m], d), Requests)
             old == SumMinutes(AdjustedOn(adjustments, d))
  <2>1. d \in Dates /\ MonthOf[d] = m
      BY DEF DatesIn
  <2>2. all = taken + old
      BY DEF Adjusted, DatesReconcile
  <2>3. /\ EffectsTyped'
        /\ \A s \in Requests \ {r} : effects'[s] = effects[s]
        /\ \A e \in Dates \ C : effects'[r][e] = effects[r][e]
        /\ \A e \in C : Latest(effects'[r][e]) = 0
      BY <1>2, ApprovedEffects DEF Numbers
  <2>4. CASE d \notin C
    <3>1. OnDate(effects', d) = OnDate(effects, d)
        BY <2>1, <2>3, <2>4 DEF OnDate
    <3>2. AdjustedOn(adjustments', d) = AdjustedOn(adjustments, d)
        BY <1>3, <2>4 DEF AdjustedOn, BackOn, Back, LockedOf
    <3> QED
        BY <2>2, <3>1, <3>2
  <2>5. CASE d \in C
    <3>1. all \in Nat
        BY <2>1, OnDateNumber DEF Numbers
    <3>2. SumFunctionOnSet(OnDate(effects', d), Requests) = all - f[d]
      <4>1. \A s \in Requests : OnDate(effects, d)[s] \in Int
          BY <2>1, OnDateNumber DEF Numbers
      <4>2. /\ \A s \in Requests \ {r} : OnDate(effects', d)[s] = OnDate(effects, d)[s]
            /\ OnDate(effects', d)[r] = 0
          BY <1>2, <2>3, <2>5 DEF OnDate
      <4>3. OnDate(effects, d)[r] = f[d]
          BY <1>2, <2>1 DEF OnDate, Taken
      <4> QED
          BY <1>2, <4>1, <4>2, <4>3, OnDateCancelled
    <3>3. {d} \in SUBSET L /\ AdjustedOn(adjustments, d) \in SUBSET adjustments
        BY <2>1, <2>5 DEF AdjustedOn, LockedOf
    <3>4. AdjustedOn(adjustments', d) = AdjustedOn(adjustments, d) \cup BackOn(k, f, {d})
        BY <1>3, <3>3 DEF AdjustedOn, BackOn, Back
    <3>5. SumMinutes(AdjustedOn(adjustments', d)) = old + SumFunctionOnSet(Minus(f), {d})
        BY <1>8, <3>3, <3>4
    <3>6. SumFunctionOnSet(Minus(f), {d}) = -f[d]
      <4>1. Minus(f)[d] = -f[d] /\ -f[d] \in Int
          BY <1>2, <2>1 DEF Minus
      <4>2. SumFunctionOnSet(Minus(f), {} \cup {d}) = SumFunctionOnSet(Minus(f), {}) + Minus(f)[d]
          BY <4>1, FS_EmptySet, SumAdd
      <4> QED
          BY <4>1, <4>2, SumEmpty
    <3>7. old \in Int /\ taken \in Int
      <4>1. IsFiniteSet(AdjustedOn(adjustments, d))
          BY <1>5, <3>3, FS_Subset
      <4>2. old \in Int
          BY <1>5, <3>3, <4>1, MinutesInteger
      <4>3. \A s \in Requests : snapshots[m][s][d] \in Seq(Nat)
          BY DEF Adjusted, AdjustmentsTyped
      <4>4. \A s \in Requests : OnDate(snapshots[m], d)[s] \in Int
          BY <4>3, LatestNumber DEF OnDate
      <4>5. taken \in Int
          BY <4>4, AbsenceAssumption, SumInteger
      <4> QED
          BY <4>2, <4>5
    <3>8. SumFunctionOnSet(OnDate(effects', d), Requests) =
                taken + SumMinutes(AdjustedOn(adjustments', d))
      <4>1. f[d] \in Nat
          BY <1>2, <2>1
      <4> DEFINE y == f[d]
      <4> HIDE DEF all, taken, old, y
      <4> QED
          BY <2>2, <3>1, <3>2, <3>5, <3>6, <3>7, <4>1 DEF y
    <3> QED
        BY <3>8
  <2> QED
      BY <2>4, <2>5
<1> QED
    BY <1>6, <1>7, <1>9, <1>10 DEF Adjusted

\* For any number of requests, cancellations, months and dates: cancellations
\* of locked dates are adjusted by exactly what they take away, and the account
\* is booked the same.
THEOREM LockedMonthsStayReconciled == Spec => []LockedMonthsReconcile
<1>1. Inv /\ Numbers /\ Numbers' /\ Adjusted /\ [Next]_vars => Adjusted'
    BY OthersReconcile, ApprovalReconciles
<1> QED
    BY <1>1, InitInv, InvStep, NumbersInit, NumbersStep, AdjustedInit, AdjustedReconciles, PTL
       DEF Spec
=============================================================================
