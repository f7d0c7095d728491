------------------------------- MODULE Absence -------------------------------
(***************************************************************************)
(* The absences of one employee: vacation that waits for approval,         *)
(* sickness that is effective when reported, the cancellation of their     *)
(* dates, the leave-entitlement ledger, and the months that lock absences  *)
(* into snapshots and book later cancellations as adjustments.             *)
(*                                                                         *)
(* Each command is one step: all run in serializable transactions except   *)
(* the acknowledgement of sickness and the withdrawal of a cancellation,   *)
(* which are a single conditional UPDATE.  Versions of requests are        *)
(* abstracted: a command with a stale version has no effect.               *)
(* Coverage is in full days.  A month is SUBMITTED until it is reopened or *)
(* both approved and locked.                                               *)
(***************************************************************************)
EXTENDS Integers, FiniteSets, Functions, SequencesExt

CONSTANTS
    LastDate,       \* bound: dates are 1..LastDate
    Months,         \* the employee's months
    MonthOf,        \* the month of a date
    Vacations,      \* identities of vacation requests
    Sicknesses,     \* identities of sickness reports
    Cancellations,  \* identities of cancellations
    Coverages,      \* sets of dates a request may cover
    Selections,     \* sets of dates a cancellation may name
    Minutes,        \* scheduled minutes of a date
    Changes,        \* bound: dates that become holidays or start a new schedule
    Allocation,     \* leave entitlement of the employee, in minutes
    Authorities,    \* CURRENT_MANAGER, ORGANIZATION_HR: who decides
    None

Dates == 1..LastDate
Requests == Vacations \cup Sicknesses
DatesIn(m) == {d \in Dates : MonthOf[d] = m}

\* Requests in these statuses hold their dates against other requests.
BlockingStatuses == {"SUBMITTED", "REPORTED", "ACKNOWLEDGED", "CHANGES_REQUESTED",
                     "APPROVED", "PARTIALLY_CANCELLED"}

OpenCancellation == {"PENDING_DECISION", "CHANGES_REQUESTED"}

RequestRows ==
    [coverage : Coverages, status : BlockingStatuses \cup {"REJECTED", "CANCELLED"}]

CancellationRows ==
    [request : Requests,
     coverage : (SUBSET Dates) \ {{}},
     status : OpenCancellation \cup {"APPROVED", "REJECTED", "WITHDRAWN"},
     snapshotLinks : SUBSET Months]

ASSUME AbsenceAssumption ==
    /\ LastDate \in 1..99  \* numerals have two digits at most, see AtLeastAsText
    /\ MonthOf \in [Dates -> Months]
    /\ IsFiniteSet(Requests) /\ IsFiniteSet(Cancellations)  \* identities are uuids
    /\ Vacations \cap Sicknesses = {}
    /\ Requests \cap Cancellations = {}
    /\ Coverages \subseteq (SUBSET Dates) \ {{}}
    /\ Selections \subseteq (SUBSET Dates) \ {{}}
    /\ Minutes \subseteq Nat \ {0}
    /\ Changes \subseteq Dates
    /\ Allocation \in Nat
    /\ Authorities \subseteq {"CURRENT_MANAGER", "ORGANIZATION_HR"}
    /\ None \notin RequestRows \cup CancellationRows

VARIABLES
    today,          \* the current local date
    schedules,      \* schedule assignments: daily minutes by the date they start on
    holidays,       \* dates that are holidays
    requests,       \* absence_requests with their coverage segments
    effects,        \* absence_effects: per request and date, minutes by effect version
    cancellations,  \* absence_cancellations with segments and snapshot links
    ledger,         \* leave_entitlement_entries, per entry type and source; 0: no entry
    months,         \* status of the monthly periods
    snapshots,      \* per locked month, the effects its approved snapshot holds
    adjustments,    \* post_lock_adjustments of cancellations
    account         \* per locked month, POST_LOCK_ADJUSTMENT minutes booked

vars == <<today, schedules, holidays, requests, effects, cancellations, ledger,
          months, snapshots, adjustments, account>>

EntryTypes == {"PENDING_RESERVATION", "RESERVATION_RELEASE", "APPROVED_DEDUCTION",
               "CANCELLATION_RESTORATION"}
Sources == Requests \cup Cancellations

Init ==
    /\ today = 1
    /\ schedules \in [{1} -> Minutes]
    /\ holidays = {}
    /\ requests = [r \in Requests |-> None]
    /\ effects = [r \in Requests |-> [d \in Dates |-> <<>>]]
    /\ cancellations = [k \in Cancellations |-> None]
    /\ ledger = [type \in EntryTypes |-> [source \in Sources |-> 0]]
    /\ months = [m \in Months |-> "OPEN"]
    /\ snapshots = [m \in Months |-> None]
    /\ adjustments = {}
    /\ account = [m \in Months |-> 0]

-----------------------------------------------------------------------------
(* What the code reads *)

\* The assignment that started last applies to a date.
Scheduled(d) == schedules[Max({start \in DOMAIN schedules : start <= d})]

\* Minutes that an absence of these dates covers, under the present schedule.
CoveredMinutes(d) == IF d \in holidays THEN 0 ELSE Scheduled(d)
Covered(C) == SumFunctionOnSet([d \in C |-> CoveredMinutes(d)], C)

\* Minutes of the latest version of a date's effect.
Latest(versions) == IF versions = <<>> THEN 0 ELSE Last(versions)
EffectMinutes(r, d) == Latest(effects[r][d])

Reserved(r) == -(ledger["PENDING_RESERVATION"][r] + ledger["RESERVATION_RELEASE"][r])
Projected ==
    Allocation + SumFunctionOnSet([type \in EntryTypes |-> SumFunction(ledger[type])], EntryTypes)

\* Variant: a partly cancelled request does not block.
IgnorePartlyCancelled(C) ==
    \E r \in Requests :
        /\ requests[r] # None
        /\ requests[r].status \in BlockingStatuses \ {"PARTIALLY_CANCELLED"}
        /\ requests[r].coverage \cap C # {}

CoverageConflict(C) ==
    \E r \in Requests :
        /\ requests[r] # None
        /\ requests[r].status \in BlockingStatuses
        /\ requests[r].coverage \cap C # {}

\* Variant: only locked months protect their dates.
LockedProtects(C) == \A d \in C : months[MonthOf[d]] # "LOCKED"

OrdinaryMutationAllowed(C) == \A d \in C : months[MonthOf[d]] = "OPEN"

\* Dates of a request that cancellations in these statuses name.
CancelledDates(r, statuses) ==
    {d \in Dates : \E k \in Cancellations :
        /\ cancellations[k] # None
        /\ cancellations[k].request = r
        /\ cancellations[k].status \in statuses
        /\ d \in cancellations[k].coverage}

\* Variant: only requests block a month.
SourceResolvedButCancellations(m) ==
    \A r \in Vacations :
        (requests[r] # None /\ requests[r].status \in {"SUBMITTED", "CHANGES_REQUESTED"}) =>
            requests[r].coverage \cap DatesIn(m) = {}

\* Nothing of the month waits for a decision.
SourceResolved(m) ==
    /\ \A r \in Vacations :
          (requests[r] # None /\ requests[r].status \in {"SUBMITTED", "CHANGES_REQUESTED"}) =>
              requests[r].coverage \cap DatesIn(m) = {}
    /\ \A k \in Cancellations :
          (cancellations[k] # None /\ cancellations[k].status \in OpenCancellation) =>
              cancellations[k].coverage \cap DatesIn(m) = {}

-----------------------------------------------------------------------------
(* Requests *)

SubmitVacation(r, C) ==
    /\ requests[r] = None
    /\ OrdinaryMutationAllowed(C)
    /\ ~CoverageConflict(C)
    /\ requests' = [requests EXCEPT ![r] = [coverage |-> C, status |-> "SUBMITTED"]]
    /\ ledger' = [ledger EXCEPT !["PENDING_RESERVATION"][r] = -Covered(C)]
    /\ UNCHANGED <<today, schedules, holidays, effects, cancellations, months,
                   snapshots, adjustments, account>>

\* Sickness is reported for dates that have begun and is effective at once.
ReportSickness(r, C) ==
    /\ requests[r] = None
    /\ OrdinaryMutationAllowed(C)
    /\ \A d \in C : d <= today
    /\ ~CoverageConflict(C)
    /\ requests' = [requests EXCEPT ![r] = [coverage |-> C, status |-> "REPORTED"]]
    /\ effects' = [effects EXCEPT ![r] =
                      [d \in Dates |-> IF d \in C THEN <<CoveredMinutes(d)>> ELSE <<>>]]
    /\ UNCHANGED <<today, schedules, holidays, cancellations, ledger, months,
                   snapshots, adjustments, account>>

\* Reviewers acknowledge reported sickness or ask for changes.
ReviewSickness(r, status) ==
    /\ requests[r] # None
    /\ requests[r].status = "REPORTED"
    /\ requests' = [requests EXCEPT ![r].status = status]
    /\ UNCHANGED <<today, schedules, holidays, effects, cancellations, ledger, months,
                   snapshots, adjustments, account>>

Decided == [APPROVE |-> "APPROVED", REJECT |-> "REJECTED", REQUEST_CHANGES |-> "CHANGES_REQUESTED"]

\* Variant: only an approval releases the reservation.
ReleaseWhenApproved(r, action) ==
    LET minutes == IF action = "APPROVE" THEN Covered(requests[r].coverage) ELSE 0
    IN  ledger' = [ledger EXCEPT
            !["RESERVATION_RELEASE"][r] = minutes, !["APPROVED_DEDUCTION"][r] = -minutes]

\* Every decision releases the reservation; an approval deducts instead.
\* Both amounts are what the coverage is worth when it is decided.
EntitlementTransition(r, action) ==
    LET minutes == Covered(requests[r].coverage)
    IN  ledger' = [ledger EXCEPT
            !["RESERVATION_RELEASE"][r] = minutes,
            !["APPROVED_DEDUCTION"][r] = IF action = "APPROVE" THEN -minutes ELSE 0]

\* A negative balance takes an HR administrator to approve.
DecideVacation(r, action, authority) ==
    /\ requests[r] # None
    /\ requests[r].status = "SUBMITTED"
    /\ (action = "APPROVE" /\ Projected < 0) => authority = "ORGANIZATION_HR"
    /\ requests' = [requests EXCEPT ![r].status = Decided[action]]
    /\ effects' = IF action = "APPROVE"
                  THEN [effects EXCEPT ![r] =
                           [d \in Dates |-> IF d \in requests[r].coverage
                                            THEN <<CoveredMinutes(d)>> ELSE <<>>]]
                  ELSE effects
    /\ EntitlementTransition(r, action)
    /\ UNCHANGED <<today, schedules, holidays, cancellations, months, snapshots,
                   adjustments, account>>

-----------------------------------------------------------------------------
(* Cancellations *)

CancellableStatuses == {"REPORTED", "ACKNOWLEDGED", "APPROVED", "PARTIALLY_CANCELLED"}

\* An omitted selection names all dates of the request.
Target(r, selection) == IF selection = None THEN requests[r].coverage ELSE selection

CancellationAccepted(r, selection) ==
    /\ requests[r] # None
    /\ requests[r].status \in CancellableStatuses
    /\ Target(r, selection) \subseteq requests[r].coverage
    /\ Target(r, selection) \cap CancelledDates(r, OpenCancellation \cup {"APPROVED"}) = {}
    /\ \A d \in Target(r, selection) : months[MonthOf[d]] # "SUBMITTED"

\* The employee cancels; locked months are linked to their snapshots.
SubmitCancellation(k, r, selection) ==
    /\ cancellations[k] = None
    /\ CancellationAccepted(r, selection)
    /\ cancellations' = [cancellations EXCEPT ![k] =
           [request |-> r,
            coverage |-> Target(r, selection),
            status |-> "PENDING_DECISION",
            snapshotLinks |-> {m \in Months : /\ months[m] = "LOCKED"
                                              /\ DatesIn(m) \cap Target(r, selection) # {}}]]
    /\ UNCHANGED <<today, schedules, holidays, requests, effects, ledger, months,
                   snapshots, adjustments, account>>

WithdrawCancellation(k) ==
    /\ cancellations[k] # None
    /\ cancellations[k].status \in OpenCancellation
    /\ cancellations' = [cancellations EXCEPT ![k].status = "WITHDRAWN"]
    /\ UNCHANGED <<today, schedules, holidays, requests, effects, ledger, months,
                   snapshots, adjustments, account>>

RefuseCancellation(k, action) ==
    /\ cancellations[k] # None
    /\ cancellations[k].status \in OpenCancellation
    /\ cancellations' = [cancellations EXCEPT ![k].status = Decided[action]]
    /\ UNCHANGED <<today, schedules, holidays, requests, effects, ledger, months,
                   snapshots, adjustments, account>>

\* count() arrives from the driver as text, and >= compares texts; n < 100.
AtLeastAsText(a, b) ==
    LET FirstDigit(n) == IF n < 10 THEN n ELSE n \div 10
    IN  \/ FirstDigit(a) > FirstDigit(b)
        \/ FirstDigit(a) = FirstDigit(b) /\ a >= b

\* The status of a request of which these dates are cancelled.
StatusAfter(r, cancelled) ==
    IF AtLeastAsText(Cardinality(cancelled), Cardinality(requests[r].coverage))
    THEN "CANCELLED" ELSE "PARTIALLY_CANCELLED"

\* Variant: the whole deduction is given back.
WholeRestoration(k) ==
    Max({0, -ledger["APPROVED_DEDUCTION"][cancellations[k].request]})

\* Entitlement that an approved cancellation gives back.
Restoration(k) ==
    LET r == cancellations[k].request
        targeted == IF r \in Vacations
                    THEN SumFunctionOnSet([d \in Dates |-> EffectMinutes(r, d)],
                                          cancellations[k].coverage)
                    ELSE 0
    IN  Min({targeted, Max({0, -ledger["APPROVED_DEDUCTION"][r]})})

\* The linked snapshots hold the effects that are being cancelled.
SnapshotsContainEffects(k) ==
    LET r == cancellations[k].request
    IN  \A m \in cancellations[k].snapshotLinks :
            \A d \in cancellations[k].coverage \cap DatesIn(m) :
                Len(snapshots[m][r][d]) = Len(effects[r][d])

\* Minutes that the cancellation takes from the dates of a locked month.
CancelledIn(k, m) ==
    {[cancellation |-> k, localDate |-> d,
      minutes |-> -EffectMinutes(cancellations[k].request, d)] :
        d \in cancellations[k].coverage \cap DatesIn(m)}

\* Variant: the dates of the first linked month only are adjusted.
AdjustOneMonth(k) ==
    LET links == cancellations[k].snapshotLinks
        delta == [m \in Months |-> SumFunctionOnSet(
                     [d \in Dates |-> -EffectMinutes(cancellations[k].request, d)],
                     cancellations[k].coverage \cap DatesIn(m))]
        first == {m \in links : \A n \in links : m <= n}
    IN  /\ adjustments' = adjustments \cup UNION {CancelledIn(k, m) : m \in first}
        /\ account' = [m \in Months |-> IF m \in first THEN account[m] + delta[m] ELSE account[m]]

\* Locked months get one adjustment per date and one booking per snapshot.
AdjustLockedMonths(k) ==
    LET links == cancellations[k].snapshotLinks
        delta == [m \in Months |-> SumFunctionOnSet(
                     [d \in Dates |-> -EffectMinutes(cancellations[k].request, d)],
                     cancellations[k].coverage \cap DatesIn(m))]
    IN  /\ adjustments' = adjustments \cup UNION {CancelledIn(k, m) : m \in links}
        /\ account' = [m \in Months |-> IF m \in links THEN account[m] + delta[m] ELSE account[m]]

ApproveCancellation(k) ==
    /\ cancellations[k] # None
    /\ cancellations[k].status \in OpenCancellation
    /\ SnapshotsContainEffects(k)
    /\ LET r == cancellations[k].request
           C == cancellations[k].coverage
       IN  /\ requests' = [requests EXCEPT ![r].status =
                  StatusAfter(r, C \cup CancelledDates(r, {"APPROVED"}))]
           /\ effects' = [effects EXCEPT ![r] =
                  [d \in Dates |-> IF d \in C THEN Append(effects[r][d], 0) ELSE effects[r][d]]]
    /\ cancellations' = [cancellations EXCEPT ![k].status = "APPROVED"]
    /\ ledger' = [ledger EXCEPT !["CANCELLATION_RESTORATION"][k] = Restoration(k)]
    /\ AdjustLockedMonths(k)
    /\ UNCHANGED <<today, schedules, holidays, months, snapshots>>

-----------------------------------------------------------------------------
(* Months, calendar and schedule *)

\* An ended month without open requests is submitted.
SubmitMonth(m) ==
    /\ months[m] = "OPEN"
    /\ \A d \in DatesIn(m) : d < today
    /\ SourceResolved(m)
    /\ months' = [months EXCEPT ![m] = "SUBMITTED"]
    /\ UNCHANGED <<today, schedules, holidays, requests, effects, cancellations, ledger,
                   snapshots, adjustments, account>>

\* Reviewers send the month back.
ReopenMonth(m) ==
    /\ months[m] = "SUBMITTED"
    /\ months' = [months EXCEPT ![m] = "OPEN"]
    /\ UNCHANGED <<today, schedules, holidays, requests, effects, cancellations, ledger,
                   snapshots, adjustments, account>>

\* Reviewers approve the month, which takes the snapshot, and lock it.
LockMonth(m) ==
    /\ months[m] = "SUBMITTED"
    /\ months' = [months EXCEPT ![m] = "LOCKED"]
    /\ snapshots' = [snapshots EXCEPT ![m] =
                        [r \in Requests |-> [d \in DatesIn(m) |-> effects[r][d]]]]
    /\ UNCHANGED <<today, schedules, holidays, requests, effects, cancellations, ledger,
                   adjustments, account>>

NextDay ==
    /\ today <= LastDate
    /\ today' = today + 1
    /\ UNCHANGED <<schedules, holidays, requests, effects, cancellations, ledger, months,
                   snapshots, adjustments, account>>

\* HR adds a holiday from today on, in a month nobody has submitted.
CreateHoliday(d) ==
    /\ d >= today
    /\ d \notin holidays
    /\ months[MonthOf[d]] = "OPEN"
    /\ holidays' = holidays \cup {d}
    /\ UNCHANGED <<today, schedules, requests, effects, cancellations, ledger, months,
                   snapshots, adjustments, account>>

\* HR assigns another schedule from a date on, not in the past, until the next
\* assignment; one that starts on the same date is not replaced.
ReplaceSchedule(from, minutes) ==
    /\ from >= today
    /\ from \notin DOMAIN schedules
    /\ Scheduled(from) # minutes
    /\ schedules' = [start \in DOMAIN schedules \cup {from} |->
                        IF start = from THEN minutes ELSE schedules[start]]
    /\ UNCHANGED <<today, holidays, requests, effects, cancellations, ledger, months,
                   snapshots, adjustments, account>>

-----------------------------------------------------------------------------
EmployeeStep ==
    \/ \E r \in Vacations, C \in Coverages : SubmitVacation(r, C)
    \/ \E r \in Sicknesses, C \in Coverages : ReportSickness(r, C)
    \/ \E k \in Cancellations, r \in Requests, selection \in Selections \cup {None} :
          SubmitCancellation(k, r, selection)
    \/ \E k \in Cancellations : WithdrawCancellation(k)
    \/ \E m \in Months : SubmitMonth(m)

ReviewerStep ==
    \/ \E r \in Sicknesses, status \in {"ACKNOWLEDGED", "CHANGES_REQUESTED"} :
          ReviewSickness(r, status)
    \/ \E r \in Vacations, action \in DOMAIN Decided, authority \in Authorities :
          DecideVacation(r, action, authority)
    \/ \E k \in Cancellations : ApproveCancellation(k)
    \/ \E k \in Cancellations, action \in {"REJECT", "REQUEST_CHANGES"} :
          RefuseCancellation(k, action)
    \/ \E m \in Months : ReopenMonth(m) \/ LockMonth(m)

ConfigurationStep ==
    \/ \E d \in Changes : CreateHoliday(d)
    \/ \E from \in Changes, minutes \in Minutes : ReplaceSchedule(from, minutes)

Next == EmployeeStep \/ ReviewerStep \/ ConfigurationStep \/ NextDay

Spec == Init /\ [][Next]_vars

-----------------------------------------------------------------------------
(* Properties *)

\* Every table holds rows of its type; only effective absences have effects,
\* and a date has a second version of its effect only when it is cancelled.
TypeOK ==
    /\ today \in 1..(LastDate + 1)
    /\ holidays \subseteq Dates
    /\ requests \in [Requests -> RequestRows \cup {None}]
    /\ cancellations \in [Cancellations -> CancellationRows \cup {None}]
    /\ \A r \in Requests, d \in Dates :
          effects[r][d] # <<>> =>
              /\ requests[r] # None
              /\ d \in requests[r].coverage
              /\ Len(effects[r][d]) = IF d \in CancelledDates(r, {"APPROVED"}) THEN 2 ELSE 1
    /\ months \in [Months -> {"OPEN", "SUBMITTED", "LOCKED"}]
    /\ \A m \in Months, r \in Requests :
          months[m] = "LOCKED" => DOMAIN snapshots[m][r] = DatesIn(m)

\* A date an absence is in effect on: it has an effect that is not cancelled.
InEffect(r, d) == effects[r][d] # <<>> /\ d \notin CancelledDates(r, {"APPROVED"})

\* Two numbers below ten compare as texts like numbers: only a request of ten
\* dates and more can have been CANCELLED while dates of it were left.
MayHaveEndedEarly(r) ==
    /\ Cardinality(requests[r].coverage) >= 10
    /\ CancelledDates(r, {"APPROVED"}) # {}

\* No date is covered by two absences at once, although requests, reports,
\* cancellations and their decisions arrive in any order, but for a request that
\* the comparison of its counts may have cancelled with dates left.
NoDoubleCoverage ==
    \A r, s \in Requests, d \in Dates :
        (InEffect(r, d) /\ InEffect(s, d)) =>
            r = s \/ MayHaveEndedEarly(r) \/ MayHaveEndedEarly(s)

\* The entitlement account agrees with the absences: what a request deducted
\* and its cancellations restored is what its effects still cover.
DeductionsMatchEffects ==
    \A r \in Vacations :
        -ledger["APPROVED_DEDUCTION"][r]
            - SumFunctionOnSet(ledger["CANCELLATION_RESTORATION"],
                               {k \in Cancellations :
                                   cancellations[k] # None /\ cancellations[k].request = r})
        = SumFunctionOnSet([d \in Dates |-> EffectMinutes(r, d)], Dates)

\* HR has changed the expected time of one of these dates.
CalendarChanged(C) ==
    \/ C \cap holidays # {}
    \/ \E start \in DOMAIN schedules \ {1}, d \in C : start <= d

\* A decided request reserves nothing, whatever the decision was: it released
\* what the submission reserved.  That takes a calendar that stayed as it was,
\* because a decision releases what the coverage is worth at its own time.
DecidedHoldNothing ==
    \A r \in Vacations :
        (/\ requests[r] # None
         /\ requests[r].status # "SUBMITTED"
         /\ ~CalendarChanged(requests[r].coverage)) => Reserved(r) = 0

SumMinutes(set) == SumFunction([a \in set |-> a.minutes])

\* A locked month reconciles with its snapshot: the minutes in effect on each
\* date are those of the snapshot plus the adjustments of later cancellations,
\* and the account was booked the sum of these adjustments.
LockedMonthsReconcile ==
    \A m \in Months : months[m] = "LOCKED" =>
        /\ \A d \in DatesIn(m) :
              SumFunctionOnSet([r \in Requests |-> EffectMinutes(r, d)], Requests)
              = SumFunctionOnSet([r \in Requests |-> Latest(snapshots[m][r][d])], Requests)
                + SumMinutes({a \in adjustments : a.localDate = d})
        /\ account[m] = SumMinutes({a \in adjustments : a.localDate \in DatesIn(m)})

\* A cancellation that waits is linked to every locked month of its dates, so
\* that its approval will adjust them, and all its dates are still in effect.
OpenCancellationsAreApplicable ==
    \A k \in Cancellations :
        (cancellations[k] # None /\ cancellations[k].status \in OpenCancellation) =>
            /\ \A d \in cancellations[k].coverage :
                  /\ InEffect(cancellations[k].request, d)
                  /\ months[MonthOf[d]] # "SUBMITTED"
                  /\ months[MonthOf[d]] = "LOCKED" =>
                        MonthOf[d] \in cancellations[k].snapshotLinks
            /\ SnapshotsContainEffects(k)

\* Between submission and reopening, the effects of a month's dates stand still.
SubmittedEffectsStand ==
    [][\A m \in Months : (months[m] = "SUBMITTED" /\ months'[m] # "OPEN") =>
          \A r \in Requests, d \in DatesIn(m) : effects'[r][d] = effects[r][d]]_vars

\* docs/72-absence-cancellation.md: a request becomes CANCELLED when no coverage
\* remains.  The code compares the two counts as texts.
CancelledMeansNothingLeft ==
    \A r \in Requests :
        (requests[r] # None /\ requests[r].status = "CANCELLED") =>
            CancelledDates(r, {"APPROVED"}) = requests[r].coverage
=============================================================================
