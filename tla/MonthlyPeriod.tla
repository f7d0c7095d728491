---------------------------- MODULE MonthlyPeriod ----------------------------
(***************************************************************************)
(* The closing of an employee's months: submission by the employee, review *)
(* and lock by reviewers, corrections of single dates before the lock and  *)
(* post-lock adjustments after it, with the time-account ledger that every *)
(* one of them reads.                                                      *)
(*                                                                         *)
(* Month commands, correction decisions and applications run in            *)
(* serializable transactions; the submission of a correction is read       *)
(* committed.  A month command therefore has two steps: it takes its       *)
(* snapshot, and later it locks the month's row, waiting for the share     *)
(* locks of drafts, and commits against what the snapshot shows.           *)
(* Serializable transactions take effect one after the other: a command    *)
(* overtaken by another one counts as not begun, as its rerun takes a new  *)
(* snapshot.  Nothing orders it with a read-committed insert, which stays  *)
(* HIDDEN from its snapshot.                                               *)
(*                                                                         *)
(* Minutes are relative to the expected time of a date, so that the        *)
(* balance of a date is its worked minutes.  Months have ended, their      *)
(* dates are complete and posted; fingerprints are the sources themselves. *)
(***************************************************************************)
EXTENDS Integers, FiniteSets, FiniteSetsExt, SequencesExt

CONSTANTS
    Months,       \* the employee's months, in calendar order
    Dates,        \* covered dates
    MonthOf,      \* the month of a date
    Corrections,  \* identities of correction requests
    Minutes,      \* worked minutes a correction may propose
    Employee,     \* the employee
    Reviewers,    \* current manager and HR accounts, never the employee's own
    MaxVersion,   \* bound: the workflow version a month reaches
    Early,        \* bound: corrections that are submitted before the lock
    Reviewed,     \* bound: months that users look at, and so submit and review
    None

ASSUME MonthsAssumption ==
    /\ Months \subseteq Nat
    /\ MonthOf \in [Dates -> Months]
    /\ Minutes \subseteq Nat
    /\ 0 \in Minutes
    /\ Employee \notin Reviewers
    /\ MaxVersion \in Nat \ {0}
    /\ Early \subseteq Corrections
    /\ Reviewed \subseteq Months
    /\ None \notin Nat

VARIABLES
    periods,      \* monthly_periods
    projections,  \* daily_projections, per date
    requests,     \* correction_requests
    applied,      \* applied_corrections: the requests that were applied
    entries,      \* time_account_entries that corrections posted
    snapshots,    \* approved_monthly_snapshots, per month by approval cycle
    adjustments,  \* post_lock_adjustments, per month by adjustment version
    journal,      \* monthly_period_decisions, per month
    drafts,       \* open read-committed submissions of corrections
    commands,     \* per user, the open serializable month command
    seen          \* per user, the last monthly review the user was shown

vars == <<periods, projections, requests, applied, entries, snapshots, adjustments,
          journal, drafts, commands, seen>>

Users == {Employee} \cup Reviewers

Statuses == {"OPEN", "SUBMITTED", "CHANGES_REQUESTED", "APPROVED", "LOCKED"}
OpenStatuses == {"OPEN", "CHANGES_REQUESTED"}

\* Variant: a submitted month may be locked without an approval.
LockWithoutApproval == [SUBMIT |-> OpenStatuses,
                        REQUEST_CHANGES |-> {"SUBMITTED", "APPROVED"},
                        APPROVE |-> {"SUBMITTED"},
                        LOCK |-> {"APPROVED", "SUBMITTED"}]

\* The commands and the statuses they are allowed in and lead to.
AllowedFrom == [SUBMIT |-> OpenStatuses,
                REQUEST_CHANGES |-> {"SUBMITTED", "APPROVED"},
                APPROVE |-> {"SUBMITTED"},
                LOCK |-> {"APPROVED"}]

NextStatus == [SUBMIT |-> "SUBMITTED",
               REQUEST_CHANGES |-> "CHANGES_REQUESTED",
               APPROVE |-> "APPROVED",
               LOCK |-> "LOCKED"]

ActionsOf(u) == IF u = Employee THEN {"SUBMIT"} ELSE {"REQUEST_CHANGES", "APPROVE", "LOCK"}

DatesOf(m) == {d \in Dates : MonthOf[d] = m}

Init ==
    /\ periods = [m \in Months |->
                    [status |-> "OPEN", version |-> 1, submittedSourceFingerprint |-> None]]
    /\ projections = [d \in Dates |-> [workedMinutes |-> 0, projectionVersion |-> 1]]
    /\ requests = [c \in Corrections |-> None]
    /\ applied = {}
    /\ entries = {}
    /\ snapshots = [m \in Months |-> <<>>]
    /\ adjustments = [m \in Months |-> <<>>]
    /\ journal = [m \in Months |-> <<>>]
    /\ drafts = [c \in Corrections |-> None]
    /\ commands = [u \in Users |-> None]
    /\ seen = [u \in Users |-> None]

-----------------------------------------------------------------------------
(* What a review of a month is computed from *)

SumMinutes(set) == SumFunction([e \in set |-> e.minutes])

\* The adjustments of a month by their positions, oldest first.
SumAdjustments(m, positions) ==
    SumFunctionOnSet([i \in DOMAIN adjustments[m] |-> adjustments[m][i].minutes], positions)
AllAdjustments(m) == SumAdjustments(m, DOMAIN adjustments[m])

\* Every entry through the end of the month counts, the months before included.
EntriesThrough(m) == {e \in entries : MonthOf[e.localDate] <= m}

ClosingBalance(m) == SumMinutes(EntriesThrough(m))

\* An ordinary or post-lock correction blocks its month until it is rejected
\* or applied.
Unresolved(c) ==
    /\ requests[c] # None
    /\ \/ requests[c].status \in {"SUBMITTED", "CHANGES_REQUESTED"}
       \/ requests[c].status = "APPROVED" /\ c \notin applied

UnresolvedIn(m, hidden) ==
    {c \in Corrections \ hidden : Unresolved(c) /\ MonthOf[requests[c].localDate] = m}

\* loadProjectionSource, as a transaction sees it that some requests are hidden
\* from; it is its own fingerprint.
Source(m, hidden) ==
    [projections |-> [d \in DatesOf(m) |-> projections[d]],
     ledger |-> EntriesThrough(m),
     adjustments |-> adjustments[m],
     blockers |-> [c \in UnresolvedIn(m, hidden) |-> requests[c].status]]

\* A date's posted entries are its balance, post-lock adjustments aside.
LedgerReconciled(m) ==
    \A d \in DatesOf(m) :
        projections[d].workedMinutes =
            SumMinutes({e \in entries : e.localDate = d /\ e.entryType = "DAILY_RECALCULATION_DELTA"})

\* The adjusted closing balance of a locked month and the ledger agree.
LockedViewReconciled(m) ==
    periods[m].status = "LOCKED" =>
        Last(snapshots[m]).ledgerClosingBalance + AllAdjustments(m) = ClosingBalance(m)

\* A user opens the review of a month; a locked month whose adjusted view does
\* not reconcile answers 503.
See(u, m) ==
    /\ commands[u] = None
    /\ m \in Reviewed
    /\ LockedViewReconciled(m)
    /\ seen' = [seen EXCEPT ![u] =
           [month |-> m, version |-> periods[m].version, sourceFingerprint |-> Source(m, {}),
            approvalCycle |-> Len(snapshots[m])]]
    /\ UNCHANGED <<periods, projections, requests, applied, entries, snapshots, adjustments,
                   journal, drafts, commands>>

-----------------------------------------------------------------------------
(* Month commands *)

\* A command on the month last seen begins: its snapshot holds everything
\* committed so far.
Begin(u, action) ==
    /\ commands[u] = None
    /\ seen[u] # None
    /\ commands' = [commands EXCEPT ![u] = [action |-> action, hidden |-> {}]]
    /\ UNCHANGED <<periods, projections, requests, applied, entries, snapshots, adjustments,
                   journal, drafts, seen>>

\* Variant: a submission does not hold the month against a month command.
IgnoreShareLocks(m) == FALSE

\* FOR SHARE on the month by the submission of an ordinary correction.
ShareLocked(m) ==
    \E c \in Corrections :
        /\ drafts[c] # None
        /\ drafts[c].snapshot = None
        /\ MonthOf[drafts[c].localDate] = m

\* Variant: the source seen is not compared.
ValidWithoutAcknowledgement(action, m, view, hidden) ==
    /\ periods[m].status \in AllowedFrom[action]
    /\ view.version = periods[m].version
    /\ action # "REQUEST_CHANGES" =>
           LedgerReconciled(m) /\ UnresolvedIn(m, hidden) = {}

\* Variant: the lock does not compare with what was approved.
ValidWithoutApprovedSource(action, m, view, hidden) ==
    LET source == Source(m, hidden)
    IN  /\ periods[m].status \in AllowedFrom[action]
        /\ view.version = periods[m].version
        /\ view.sourceFingerprint = source
        /\ action # "REQUEST_CHANGES" =>
               LedgerReconciled(m) /\ UnresolvedIn(m, hidden) = {}
        /\ action = "APPROVE" => periods[m].submittedSourceFingerprint = source
        /\ action = "LOCK" => view.approvalCycle = Len(snapshots[m]) /\ view.approvalCycle > 0

\* validateMonthlyPeriodSubmission and validateMonthlyPeriodReview: what was
\* seen is still current, and only a request for changes tolerates blockers.
Valid(action, m, view, hidden) ==
    LET source == Source(m, hidden)
    IN  /\ periods[m].status \in AllowedFrom[action]
        /\ view.version = periods[m].version
        /\ view.sourceFingerprint = source
        /\ action # "REQUEST_CHANGES" =>
               LedgerReconciled(m) /\ UnresolvedIn(m, hidden) = {}
        /\ action = "APPROVE" => periods[m].submittedSourceFingerprint = source
        /\ action = "LOCK" =>
               /\ view.approvalCycle = Len(snapshots[m])
               /\ view.approvalCycle > 0
               /\ Last(snapshots[m]).sourceFingerprint = source

\* The fingerprint a month keeps of what its employee submitted.
SubmittedFingerprint(action, m, source) ==
    CASE action = "SUBMIT" -> source
      [] action = "REQUEST_CHANGES" -> None
      [] OTHER -> periods[m].submittedSourceFingerprint

\* createApprovalSnapshot.
ApprovalSnapshot(m, source) ==
    [rows |-> [d \in DatesOf(m) |-> projections[d].workedMinutes],
     ledgerClosingBalance |-> ClosingBalance(m),
     ledgerPeriodDelta |-> SumMinutes({e \in entries : MonthOf[e.localDate] = m}),
     sourceFingerprint |-> source]

\* The serializable transactions that a commit overtakes begin again.
Overtake == commands' = [u \in Users |-> None]

\* The month is locked, the command is valid for its snapshot and commits; its
\* answer replaces what the user had seen.
Commit(u) ==
    LET action == commands[u].action
        m == seen[u].month
        source == Source(m, commands[u].hidden)
        version == periods[m].version + 1
        cycle == IF action = "APPROVE" THEN Len(snapshots[m]) + 1 ELSE Len(snapshots[m])
    IN  /\ commands[u] # None
        /\ ~ShareLocked(m)
        /\ Valid(action, m, seen[u], commands[u].hidden)
        /\ version <= MaxVersion
        /\ periods' = [periods EXCEPT ![m] =
               [status |-> NextStatus[action], version |-> version,
                submittedSourceFingerprint |-> SubmittedFingerprint(action, m, source)]]
        /\ snapshots' = IF action = "APPROVE"
                        THEN [snapshots EXCEPT ![m] = Append(@, ApprovalSnapshot(m, source))]
                        ELSE snapshots
        /\ journal' = IF action = "SUBMIT" THEN journal
                      ELSE [journal EXCEPT ![m] =
                               Append(@, [action |-> action, nextVersion |-> version,
                                          approvalCycle |-> cycle])]
        /\ Overtake
        /\ seen' = [seen EXCEPT ![u] = None]
        /\ UNCHANGED <<projections, requests, applied, entries, adjustments, drafts>>

\* A command is refused, fails to serialize or loses its process.
Fail(u) ==
    /\ commands[u] # None
    /\ commands' = [commands EXCEPT ![u] = None]
    /\ UNCHANGED <<periods, projections, requests, applied, entries, snapshots, adjustments,
                   journal, drafts, seen>>

-----------------------------------------------------------------------------
(* Submission of corrections *)

\* The month's row is read under a share lock: an ordinary correction in an
\* open month, a post-lock one, of the latest snapshot, in a locked month.
StartCorrection(c, d, minutes) ==
    LET m == MonthOf[d]
        draft(snapshot) ==
            drafts' = [drafts EXCEPT ![c] =
                          [localDate |-> d, workedMinutes |-> minutes, snapshot |-> snapshot]]
    IN  /\ drafts[c] = None
        /\ requests[c] = None
        /\ \/ periods[m].status \in OpenStatuses /\ c \in Early /\ draft(None)
           \/ periods[m].status = "LOCKED" /\ draft(Len(snapshots[m]))
        /\ UNCHANGED <<periods, projections, requests, applied, entries, snapshots, adjustments,
                       journal, commands, seen>>

\* The draft commits; commands whose snapshot is older do not see the request.
InsertCorrection(c) ==
    /\ drafts[c] # None
    /\ requests' = [requests EXCEPT ![c] =
           [localDate |-> drafts[c].localDate, workedMinutes |-> drafts[c].workedMinutes,
            lockedMonthlySnapshot |-> drafts[c].snapshot, status |-> "SUBMITTED"]]
    /\ drafts' = [drafts EXCEPT ![c] = None]
    /\ commands' = [u \in Users |->
           IF commands[u] = None THEN None
           ELSE [commands[u] EXCEPT !.hidden = @ \cup {c}]]
    /\ UNCHANGED <<periods, projections, applied, entries, snapshots, adjustments, journal, seen>>

RollBackCorrection(c) ==
    /\ drafts[c] # None
    /\ drafts' = [drafts EXCEPT ![c] = None]
    /\ UNCHANGED <<periods, projections, requests, applied, entries, snapshots, adjustments,
                   journal, commands, seen>>

-----------------------------------------------------------------------------
(* Decision and application of corrections *)

\* timeAccount.append for a source: an entry of zero minutes is never posted.
Post(c, minutes, entryType) ==
    entries' = IF minutes = 0 THEN entries
               ELSE entries \cup {[source |-> c, minutes |-> minutes, entryType |-> entryType,
                                   localDate |-> requests[c].localDate]}

\* The positions of a date's adjustments.
AdjustmentsOf(m, d) == {i \in DOMAIN adjustments[m] : adjustments[m][i].localDate = d}

\* Variant: adjustments before this one are forgotten.
ApprovedWorkedMinutes(m, d) == Last(snapshots[m]).rows[d]

\* The worked minutes a locked date stands at: approved and adjusted since.
AdjustedWorkedMinutes(m, d) ==
    Last(snapshots[m]).rows[d] + SumAdjustments(m, AdjustmentsOf(m, d))

\* The adjustment, if any, that a new one takes back exactly: the latest of its
\* date that changed anything.
ReversedAdjustment(m, d, delta, proposed) ==
    LET changing == {i \in AdjustmentsOf(m, d) : adjustments[m][i].minutes # 0}
        latest == Max(changing)
    IN  IF changing = {} THEN None
        ELSE IF /\ delta = - adjustments[m][latest].minutes
                /\ proposed = adjustments[m][latest].previousAdjustedWorkedMinutes
             THEN latest ELSE None

\* Variant: the ledger is not told.
AdjustUnposted(c) ==
    LET d == requests[c].localDate
        m == MonthOf[d]
        proposed == requests[c].workedMinutes
        previous == AdjustedWorkedMinutes(m, d)
        delta == proposed - previous
    IN  /\ periods[m].status = "LOCKED"
        /\ requests[c].lockedMonthlySnapshot = Len(snapshots[m])
        /\ c \notin applied
        /\ applied' = applied \cup {c}
        /\ adjustments' = [adjustments EXCEPT ![m] =
               Append(@, [correctionRequest |-> c, localDate |-> d, minutes |-> delta,
                          previousAdjustedWorkedMinutes |-> previous,
                          proposedWorkedMinutes |-> proposed,
                          reversesAdjustment |-> ReversedAdjustment(m, d, delta, proposed)])]
        /\ UNCHANGED <<projections, entries>>

\* Variant: the projection of the locked date is replaced as well.
AdjustInPlace(c) ==
    LET d == requests[c].localDate
        m == MonthOf[d]
        proposed == requests[c].workedMinutes
        previous == AdjustedWorkedMinutes(m, d)
        delta == proposed - previous
    IN  /\ periods[m].status = "LOCKED"
        /\ requests[c].lockedMonthlySnapshot = Len(snapshots[m])
        /\ c \notin applied
        /\ applied' = applied \cup {c}
        /\ adjustments' = [adjustments EXCEPT ![m] =
               Append(@, [correctionRequest |-> c, localDate |-> d, minutes |-> delta,
                          previousAdjustedWorkedMinutes |-> previous,
                          proposedWorkedMinutes |-> proposed,
                          reversesAdjustment |-> ReversedAdjustment(m, d, delta, proposed)])]
        /\ Post(c, delta, "POST_LOCK_ADJUSTMENT")
        /\ projections' = [projections EXCEPT ![d] =
               [workedMinutes |-> proposed, projectionVersion |-> @.projectionVersion + 1]]

\* applyPostLockCorrection: an adjustment of the snapshot, never a change of
\* what was approved.
Adjust(c) ==
    LET d == requests[c].localDate
        m == MonthOf[d]
        proposed == requests[c].workedMinutes
        previous == AdjustedWorkedMinutes(m, d)
        delta == proposed - previous
    IN  /\ periods[m].status = "LOCKED"
        /\ requests[c].lockedMonthlySnapshot = Len(snapshots[m])
        /\ previous >= 0
        /\ c \notin applied
        /\ applied' = applied \cup {c}
        /\ adjustments' = [adjustments EXCEPT ![m] =
               Append(@, [correctionRequest |-> c, localDate |-> d, minutes |-> delta,
                          previousAdjustedWorkedMinutes |-> previous,
                          proposedWorkedMinutes |-> proposed,
                          reversesAdjustment |-> ReversedAdjustment(m, d, delta, proposed)])]
        /\ Post(c, delta, "POST_LOCK_ADJUSTMENT")
        /\ UNCHANGED projections

Decided == [APPROVE |-> "APPROVED", REJECT |-> "REJECTED", REQUEST_CHANGES |-> "CHANGES_REQUESTED"]

\* A reviewer decides; the approval of a post-lock correction applies it.
Decide(c, action) ==
    /\ requests[c] # None
    /\ requests[c].status \in {"SUBMITTED", "CHANGES_REQUESTED"}
    /\ requests' = [requests EXCEPT ![c].status = Decided[action]]
    /\ IF action = "APPROVE" /\ requests[c].lockedMonthlySnapshot # None
       THEN Adjust(c)
       ELSE UNCHANGED <<applied, adjustments, entries, projections>>
    /\ Overtake
    /\ UNCHANGED <<periods, snapshots, journal, drafts, seen>>

\* Variant: the delta is taken from the value the employee saw, 0.
ApplyToOriginal(c) ==
    LET d == requests[c].localDate
    IN  /\ requests[c] # None
        /\ requests[c].status = "APPROVED"
        /\ requests[c].lockedMonthlySnapshot = None
        /\ periods[MonthOf[d]].status # "LOCKED"
        /\ c \notin applied
        /\ applied' = applied \cup {c}
        /\ projections' = [projections EXCEPT ![d] =
               [workedMinutes |-> requests[c].workedMinutes,
                projectionVersion |-> @.projectionVersion + 1]]
        /\ Post(c, requests[c].workedMinutes, "DAILY_RECALCULATION_DELTA")
        /\ Overtake
        /\ UNCHANGED <<periods, requests, snapshots, adjustments, journal, drafts, seen>>

\* A reviewer applies an approved ordinary correction; only a LOCKED month
\* refuses it.
Apply(c) ==
    LET d == requests[c].localDate
        delta == requests[c].workedMinutes - projections[d].workedMinutes
    IN  /\ requests[c] # None
        /\ requests[c].status = "APPROVED"
        /\ requests[c].lockedMonthlySnapshot = None
        /\ periods[MonthOf[d]].status # "LOCKED"
        /\ c \notin applied
        /\ applied' = applied \cup {c}
        /\ projections' = [projections EXCEPT ![d] =
               [workedMinutes |-> requests[c].workedMinutes,
                projectionVersion |-> @.projectionVersion + 1]]
        /\ Post(c, delta, "DAILY_RECALCULATION_DELTA")
        /\ Overtake
        /\ UNCHANGED <<periods, requests, snapshots, adjustments, journal, drafts, seen>>

-----------------------------------------------------------------------------
Next ==
    \/ \E u \in Users :
          \/ \E m \in Months : See(u, m)
          \/ \E action \in ActionsOf(u) : Begin(u, action)
          \/ Commit(u)
          \/ Fail(u)
    \/ \E c \in Corrections :
          \/ \E d \in Dates, minutes \in Minutes : StartCorrection(c, d, minutes)
          \/ InsertCorrection(c)
          \/ RollBackCorrection(c)
          \/ \E action \in DOMAIN Decided : Decide(c, action)
          \/ Apply(c)

Spec == Init /\ [][Next]_vars

-----------------------------------------------------------------------------
(* Properties *)

DraftType ==
    [localDate : Dates, workedMinutes : Minutes, snapshot : Nat \cup {None}]

RequestType ==
    [localDate : Dates, workedMinutes : Minutes, lockedMonthlySnapshot : Nat \cup {None},
     status : {"SUBMITTED", "CHANGES_REQUESTED", "APPROVED", "REJECTED"}]

TypeOK ==
    /\ \A m \in Months :
          /\ periods[m].status \in Statuses
          /\ periods[m].version \in 1..MaxVersion
          /\ periods[m].status \in OpenStatuses => periods[m].submittedSourceFingerprint = None
    /\ projections \in [Dates -> [workedMinutes : Nat, projectionVersion : Nat \ {0}]]
    /\ requests \in [Corrections -> RequestType \cup {None}]
    /\ applied \subseteq Corrections
    /\ drafts \in [Corrections -> DraftType \cup {None}]
    /\ \A u \in Users :
          commands[u] # None => /\ seen[u] # None
                                /\ commands[u].action \in ActionsOf(u)
                                /\ commands[u].hidden \subseteq Corrections

\* Once a month is approved, nothing that would change it is open: no ordinary
\* correction of its dates is undecided or unapplied, although corrections are
\* submitted while month commands run.
ClosedMonthsResolved ==
    \A c \in Corrections :
        (Unresolved(c) /\ requests[c].lockedMonthlySnapshot = None) =>
            periods[MonthOf[requests[c].localDate]].status \notin {"APPROVED", "LOCKED"}

\* What reviewers approved is what the employee acknowledged and submitted, and
\* what is locked is what was approved.
ApprovedIsAcknowledged ==
    \A m \in Months :
        periods[m].status \in {"APPROVED", "LOCKED"} =>
            /\ snapshots[m] # <<>>
            /\ Last(snapshots[m]).sourceFingerprint = periods[m].submittedSourceFingerprint

\* Every date's posted entries add up to its balance at all times, however often
\* its corrections overlap: LEDGER_SOURCE_MISMATCH never blocks a month.
ProjectionsMatchLedger == \A m \in Months : LedgerReconciled(m)

\* The approved balance of a locked month and its adjustments explain every
\* minute the ledger holds for the month.
LockedMonthReconciles ==
    \A m \in Months :
        periods[m].status = "LOCKED" =>
            Last(snapshots[m]).ledgerPeriodDelta + AllAdjustments(m) =
                SumMinutes({e \in entries : MonthOf[e.localDate] = m})

\* The adjustments of a locked date form one history that starts at the approved
\* value: each starts where the one before ended, a reversal restores what stood
\* before the adjustment it names, and none is reversed twice.
AdjustmentChain ==
    \A m \in Months : \A i \in DOMAIN adjustments[m] :
        LET a == adjustments[m][i]
            before == {j \in 1..(i - 1) : adjustments[m][j].localDate = a.localDate}
            reversed == a.reversesAdjustment
        IN  /\ a.previousAdjustedWorkedMinutes =
                   IF before = {} THEN Last(snapshots[m]).rows[a.localDate]
                   ELSE adjustments[m][Max(before)].proposedWorkedMinutes
            /\ reversed # None =>
                   /\ reversed \in before
                   /\ adjustments[m][reversed].previousAdjustedWorkedMinutes =
                          a.proposedWorkedMinutes
                   /\ \A j \in before : adjustments[m][j].reversesAdjustment # reversed

\* A month is locked only with the source that was approved, also when entries
\* of an earlier month or corrections arrive while the lock is under way.
LockFixesApproved ==
    [][\A m \in Months :
          (periods[m].status # "LOCKED" /\ periods'[m].status = "LOCKED") =>
              Last(snapshots[m]).sourceFingerprint = Source(m, {})]_vars

\* The projections of an approved month never change, and a locked month keeps
\* its status and its approved records for good.
ClosedMonthsAreFrozen ==
    [][\A m \in Months :
          /\ periods[m].status \in {"APPROVED", "LOCKED"} =>
                 \A d \in DatesOf(m) : projections'[d] = projections[d]
          /\ periods[m].status = "LOCKED" =>
                 periods'[m] = periods[m] /\ snapshots'[m] = snapshots[m]]_vars

\* A month begins as if changes had been requested; its decisions are kept from
\* the first one on.
DecisionAt(decisions, i) ==
    IF i = 0 THEN [action |-> "REQUEST_CHANGES", nextVersion |-> 1, approvalCycle |-> 0]
    ELSE decisions[i]

\* What may follow a decision: an approval is locked or taken back, anything
\* else is submitted in between, and nothing follows a lock.
Follows(decision, before) ==
    /\ before.action # "LOCK"
    /\ decision.action \in {"REQUEST_CHANGES", IF before.action = "APPROVE" THEN "LOCK" ELSE "APPROVE"}
    /\ decision.nextVersion = before.nextVersion + (IF before.action = "APPROVE" THEN 1 ELSE 2)
    /\ decision.approvalCycle = before.approvalCycle + (IF decision.action = "APPROVE" THEN 1 ELSE 0)

\* The decisions kept of a month tell its whole history: each was allowed after
\* the one before it, nothing but a submission lies between two of them, and
\* they give the status, the version and the number of snapshots of the month,
\* but for a submission that waits for its decision.
JournalTellsHistory ==
    \A m \in Months :
        LET last == DecisionAt(journal[m], Len(journal[m]))
        IN  /\ \A i \in DOMAIN journal[m] : Follows(journal[m][i], DecisionAt(journal[m], i - 1))
            /\ Len(snapshots[m]) = last.approvalCycle
            /\ \/ /\ periods[m].version = last.nextVersion
                  /\ periods[m].status = IF journal[m] = <<>> THEN "OPEN" ELSE NextStatus[last.action]
               \/ /\ last.action = "REQUEST_CHANGES"
                  /\ periods[m].version = last.nextVersion + 1
                  /\ periods[m].status = "SUBMITTED"

\* INV-PER-002: no ordinary correction changes the dates of a submitted month
\* before it is reopened (violated, see the README).
SubmittedMonthsAreFrozen ==
    [][\A m \in Months :
          (periods[m].status = "SUBMITTED" /\ periods'[m].status = "SUBMITTED") =>
              \A d \in DatesOf(m) : projections'[d] = projections[d]]_vars

\* A historical locked month remains visible to those who may review it
\* (violated, see the README).
LockedMonthsStayReadable == \A m \in Months : LockedViewReconciled(m)
=============================================================================
