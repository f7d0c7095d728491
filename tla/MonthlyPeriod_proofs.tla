------------------------ MODULE MonthlyPeriod_proofs ------------------------
(***************************************************************************)
(* Proofs about MonthlyPeriod for every set of months, dates, corrections  *)
(* and reviewers.                                                          *)
(*                                                                         *)
(* Argument: the draft of an ordinary correction share-locks its month, so *)
(* the month is still open when the request is inserted (DraftsFitMonths); *)
(* a request hidden from a month command was inserted while the command    *)
(* ran, so its month is open as well (HiddenAreOpen).  Approval and lock   *)
(* start from a month that is not open: nothing of the month is hidden     *)
(* from them, and what they find resolved is resolved.                     *)
(*                                                                         *)
(* The journal of a month ends with its approval while the month is        *)
(* approved (ApprovalIsLast); a lock is written next.  The books are kept  *)
(* by one invariant: what is posted for a date or month is what projection *)
(* or adjustment changed by (ProjectionsMatchLedger, ClosedMonthsBooked),  *)
(* and the adjustments of a date telescope to what the last one proposed   *)
(* (AdjustmentsTelescope), which is where the next one starts.             *)
(***************************************************************************)
EXTENDS MonthlyPeriod, LedgerSums, TLAPS

\* The tables that TypeOK leaves open have a row for each of their keys.
Tables ==
    /\ DOMAIN periods = Months
    /\ DOMAIN seen = Users
    /\ DOMAIN commands = Users
    /\ \A u \in Users : seen[u] # None => seen[u].month \in Months
    /\ \E S : snapshots \in [Months -> Seq(S)]

\* An open submission holds its month in the status it found.
DraftsFitMonths ==
    \A c \in Corrections :
        drafts[c] # None =>
            IF drafts[c].snapshot = None
            THEN periods[MonthOf[drafts[c].localDate]].status \in OpenStatuses
            ELSE periods[MonthOf[drafts[c].localDate]].status = "LOCKED"

\* Post-lock corrections exist in locked months only.
PostLockInLocked ==
    \A c \in Corrections :
        (requests[c] # None /\ requests[c].lockedMonthlySnapshot # None) =>
            periods[MonthOf[requests[c].localDate]].status = "LOCKED"

\* An ordinary request that a running command does not see is in an open month.
HiddenAreOpen ==
    \A u \in Users : commands[u] # None =>
        \A c \in commands[u].hidden :
            (requests[c] # None /\ requests[c].lockedMonthlySnapshot = None) =>
                periods[MonthOf[requests[c].localDate]].status \in OpenStatuses

Typed == TypeOK /\ Tables

Inv ==
    /\ DraftsFitMonths
    /\ PostLockInLocked
    /\ HiddenAreOpen
    /\ ClosedMonthsResolved

-----------------------------------------------------------------------------
(* Type correctness *)

\* A sequence extended by any value is a sequence that ends with it.
LEMMA AppendAny ==
    ASSUME NEW S, NEW s \in Seq(S), NEW e
    PROVE  /\ Append(s, e) \in Seq(S \cup {e})
           /\ Len(Append(s, e)) = Len(s) + 1
           /\ Append(s, e)[Len(s) + 1] = e
<1>1. s \in Seq(S \cup {e})
    OBVIOUS
<1> QED
    BY <1>1

\* Sequences over a set are sequences over a larger one.
LEMMA SeqMonotonic ==
    ASSUME NEW S, NEW T, S \subseteq T, NEW s \in Seq(S)
    PROVE  s \in Seq(T)
    OBVIOUS

LEMMA TypedInit == Init => Typed
<1> SUFFICES ASSUME Init PROVE Typed
    OBVIOUS
<1>1. TypeOK
    BY MonthsAssumption DEF Init, TypeOK, Statuses, OpenStatuses
<1>2. snapshots \in [Months -> Seq({})]
    BY DEF Init
<1> QED
    BY <1>1, <1>2 DEF Init, Tables, Typed

\* What a committing month command starts from and leads to.
LEMMA CommitFacts ==
    ASSUME Typed, NEW u \in Users, Commit(u)
    PROVE  LET m == seen[u].month
               action == commands[u].action
           IN  /\ m \in Months
               /\ action \in {"SUBMIT", "REQUEST_CHANGES", "APPROVE", "LOCK"}
               /\ periods[m].status \in AllowedFrom[action]
               /\ periods'[m].status = NextStatus[action]
               /\ periods'[m].version = periods[m].version + 1
               /\ \A n \in Months \ {m} : periods'[n] = periods[n]
               /\ DOMAIN periods' = Months
<1> DEFINE m == seen[u].month
           action == commands[u].action
<1>1. commands[u] # None /\ seen[u] # None /\ action \in ActionsOf(u)
    BY DEF Typed, TypeOK, Commit
<1>2. m \in Months
    BY <1>1 DEF Typed, Tables
<1>3. action \in {"SUBMIT", "REQUEST_CHANGES", "APPROVE", "LOCK"}
    BY <1>1 DEF ActionsOf
<1>4. periods[m].status \in AllowedFrom[action]
    BY DEF Commit, Valid
<1>5. periods' = [periods EXCEPT ![m] =
          [status |-> NextStatus[action], version |-> periods[m].version + 1,
           submittedSourceFingerprint |->
               SubmittedFingerprint(action, m, Source(m, commands[u].hidden))]]
    BY DEF Commit
<1> HIDE DEF m, action
<1>6. DOMAIN periods = Months
    BY DEF Typed, Tables
<1>7. /\ periods'[m].status = NextStatus[action]
      /\ periods'[m].version = periods[m].version + 1
      /\ \A n \in Months \ {m} : periods'[n] = periods[n]
      /\ DOMAIN periods' = Months
    BY <1>2, <1>5, <1>6
<1> QED
    BY <1>2, <1>3, <1>4, <1>7 DEF m, action

\* A commit adds a row to a month's approval cycles at most.
LEMMA CommitSnapshots ==
    ASSUME Typed, NEW u \in Users, Commit(u)
    PROVE  \E S : snapshots' \in [Months -> Seq(S)]
<1> DEFINE m == seen[u].month
           new == ApprovalSnapshot(m, Source(m, commands[u].hidden))
<1>1. PICK S : snapshots \in [Months -> Seq(S)]
    BY DEF Typed, Tables
<1>2. \/ snapshots' = snapshots
      \/ snapshots' = [snapshots EXCEPT ![m] = Append(@, new)]
    BY DEF Commit
<1>3. m \in Months
    BY CommitFacts
<1> HIDE DEF m, new
<1>4. CASE snapshots' = snapshots
    BY <1>1, <1>4
<1>5. CASE snapshots' = [snapshots EXCEPT ![m] = Append(@, new)]
  <2>1. \A n \in Months : snapshots[n] \in Seq(S \cup {new})
      BY <1>1, SeqMonotonic
  <2>2. Append(snapshots[m], new) \in Seq(S \cup {new})
      BY <1>1, <1>3, AppendAny
  <2>3. snapshots' \in [Months -> Seq(S \cup {new})]
      BY <1>1, <1>5, <2>1, <2>2
  <2> QED
      BY <2>3
<1> QED
    BY <1>2, <1>4, <1>5

LEMMA TypedStep == Typed /\ [Next]_vars => Typed'
<1> SUFFICES ASSUME Typed, [Next]_vars PROVE Typed'
    OBVIOUS
<1> USE MonthsAssumption
<1>1. ASSUME NEW u \in Users, NEW m \in Months, See(u, m) PROVE Typed'
    BY <1>1 DEF See, Typed, TypeOK, Tables
<1>2. ASSUME NEW u \in Users, NEW action \in ActionsOf(u), Begin(u, action) PROVE Typed'
    BY <1>2 DEF Begin, Typed, TypeOK, Tables
<1>3. ASSUME NEW u \in Users, Commit(u) PROVE Typed'
  <2> DEFINE m == seen[u].month
             action == commands[u].action
  <2>1. \A n \in Months :
           /\ periods'[n].status \in Statuses
           /\ periods'[n].version \in 1..MaxVersion
    <3>1. \A n \in Months : /\ periods[n].status \in Statuses
                            /\ periods[n].version \in 1..MaxVersion
        BY DEF Typed, TypeOK
    <3>2. periods[m].version + 1 <= MaxVersion
        BY <1>3 DEF Commit
    <3>3. NextStatus[action] \in Statuses
        BY <1>3, CommitFacts DEF NextStatus, Statuses
    <3> HIDE DEF m, action
    <3>4. /\ m \in Months
          /\ periods'[m].status = NextStatus[action]
          /\ periods'[m].version = periods[m].version + 1
          /\ \A n \in Months \ {m} : periods'[n] = periods[n]
        BY <1>3, CommitFacts DEF m, action
    <3>5. /\ periods'[m].status \in Statuses
          /\ periods'[m].version \in 1..MaxVersion
      <4>1. periods[m].version \in 1..MaxVersion
          BY <3>1, <3>4
      <4>2. periods[m].version + 1 \in 1..MaxVersion
          BY <3>2, <4>1
      <4> QED
          BY <3>3, <3>4, <4>2, Zenon
    <3> QED
        BY <3>1, <3>4, <3>5
  <2>2. \A n \in Months :
           periods'[n].status \in OpenStatuses => periods'[n].submittedSourceFingerprint = None
    <3>1. ASSUME periods'[m].status \in OpenStatuses
          PROVE  periods'[m].submittedSourceFingerprint = None
      <4>1. action = "REQUEST_CHANGES"
          BY <1>3, <3>1, CommitFacts DEF NextStatus, OpenStatuses
      <4>2. periods'[m].submittedSourceFingerprint =
                SubmittedFingerprint(action, m, Source(m, commands[u].hidden))
          BY <1>3, CommitFacts DEF Commit, Typed, Tables
      <4> QED
          BY <4>1, <4>2 DEF SubmittedFingerprint
    <3>2. \A n \in Months \ {m} : periods'[n] = periods[n]
        BY <1>3, CommitFacts
    <3> QED
        BY <3>1, <3>2 DEF Typed, TypeOK
  <2>3. \A v \in Users : commands'[v] = None
      BY <1>3 DEF Commit, Overtake
  <2>4. TypeOK'
      BY <1>3, <2>1, <2>2, <2>3 DEF Commit, Typed, TypeOK
  <2>5. /\ DOMAIN seen' = Users
        /\ DOMAIN commands' = Users
        /\ \A v \in Users : seen'[v] # None => seen'[v].month \in Months
      BY <1>3 DEF Commit, Overtake, Typed, Tables
  <2> QED
      BY <1>3, <2>4, <2>5, CommitFacts, CommitSnapshots DEF Typed, Tables
<1>4. ASSUME NEW u \in Users, Fail(u) PROVE Typed'
    BY <1>4 DEF Fail, Typed, TypeOK, Tables
<1>5. ASSUME NEW c \in Corrections, NEW d \in Dates, NEW minutes \in Minutes,
             StartCorrection(c, d, minutes)
      PROVE  Typed'
  <2>1. Len(snapshots[MonthOf[d]]) \in Nat
      BY DEF Typed, Tables
  <2>2. PICK snapshot \in Nat \cup {None} :
            drafts' = [drafts EXCEPT ![c] =
                          [localDate |-> d, workedMinutes |-> minutes, snapshot |-> snapshot]]
      BY <1>5, <2>1 DEF StartCorrection
  <2>3. drafts' \in [Corrections -> DraftType \cup {None}]
      BY <2>2 DEF Typed, TypeOK, DraftType
  <2> QED
      BY <1>5, <2>3 DEF StartCorrection, Typed, TypeOK, Tables
<1>6. ASSUME NEW c \in Corrections, InsertCorrection(c) PROVE Typed'
  <2>1. /\ requests' \in [Corrections -> RequestType \cup {None}]
        /\ drafts' \in [Corrections -> DraftType \cup {None}]
      BY <1>6 DEF InsertCorrection, Typed, TypeOK, DraftType, RequestType
  <2>2. \A u \in Users :
           commands'[u] # None => /\ commands[u] # None
                                  /\ commands'[u] = [commands[u] EXCEPT !.hidden = @ \cup {c}]
      BY <1>6 DEF InsertCorrection
  <2>3. \A u \in Users :
           commands'[u] # None => /\ seen'[u] # None
                                  /\ commands'[u].action \in ActionsOf(u)
                                  /\ commands'[u].hidden \subseteq Corrections
      BY <1>6, <2>2 DEF InsertCorrection, Typed, TypeOK
  <2> QED
      BY <1>6, <2>1, <2>3 DEF InsertCorrection, Typed, TypeOK, Tables
<1>7. ASSUME NEW c \in Corrections, RollBackCorrection(c) PROVE Typed'
    BY <1>7 DEF RollBackCorrection, Typed, TypeOK, Tables
<1>8. ASSUME NEW c \in Corrections, NEW action \in DOMAIN Decided, Decide(c, action) PROVE Typed'
  <2>1. requests' \in [Corrections -> RequestType \cup {None}]
      BY <1>8 DEF Decide, Decided, Typed, TypeOK, RequestType
  <2>2. applied' \subseteq Corrections /\ projections' = projections
      BY <1>8 DEF Decide, Adjust, Typed, TypeOK
  <2>3. /\ \A v \in Users : commands'[v] = None
        /\ DOMAIN commands' = Users
      BY <1>8 DEF Decide, Overtake
  <2> QED
      BY <1>8, <2>1, <2>2, <2>3 DEF Decide, Typed, TypeOK, Tables
<1>9. ASSUME NEW c \in Corrections, Apply(c) PROVE Typed'
  <2>1. /\ requests[c].workedMinutes \in Nat
        /\ requests[c].localDate \in Dates
      BY <1>9 DEF Apply, Typed, TypeOK, RequestType
  <2>2. projections' \in [Dates -> [workedMinutes : Nat, projectionVersion : Nat \ {0}]]
      BY <1>9, <2>1 DEF Apply, Typed, TypeOK
  <2>3. applied' \subseteq Corrections
      BY <1>9 DEF Apply, Typed, TypeOK
  <2>4. /\ \A v \in Users : commands'[v] = None
        /\ DOMAIN commands' = Users
      BY <1>9 DEF Apply, Overtake
  <2> QED
      BY <1>9, <2>2, <2>3, <2>4 DEF Apply, Typed, TypeOK, Tables
<1>10. CASE UNCHANGED vars
    BY <1>10 DEF vars, Typed, TypeOK, Tables
<1> QED
    BY <1>1, <1>2, <1>3, <1>4, <1>5, <1>6, <1>7, <1>8, <1>9, <1>10 DEF Next

\* Every variable keeps its type: versions stay in their bound, and a month that
\* is open or reopened holds no submitted fingerprint.
THEOREM TypeCorrect == Spec => []TypeOK
<1>1. Typed => TypeOK
    BY DEF Typed
<1> QED
    BY <1>1, TypedInit, TypedStep, PTL DEF Spec

-----------------------------------------------------------------------------
(* Approved and locked months are resolved *)

LEMMA InvInit == Init => Inv
    BY DEF Init, Inv, DraftsFitMonths, PostLockInLocked, HiddenAreOpen, ClosedMonthsResolved,
           Unresolved

\* What approval and lock find resolved in their snapshot is resolved.
LEMMA NothingHidden ==
    ASSUME Typed, Inv, NEW u \in Users, Commit(u),
           commands[u].action \in {"APPROVE", "LOCK"}
    PROVE  LET m == seen[u].month
           IN  /\ UnresolvedIn(m, {}) = UnresolvedIn(m, commands[u].hidden)
               /\ UnresolvedIn(m, {}) = {}
<1> DEFINE m == seen[u].month
<1>1. periods[m].status \in {"SUBMITTED", "APPROVED"}
    BY CommitFacts DEF AllowedFrom
<1>2. UnresolvedIn(m, commands[u].hidden) = {}
    BY DEF Commit, Valid
<1>3. ASSUME NEW c \in UnresolvedIn(m, {}) PROVE c \notin commands[u].hidden
  <2>1. c \in Corrections /\ requests[c] # None /\ MonthOf[requests[c].localDate] = m
      BY <1>3 DEF UnresolvedIn, Unresolved
  <2>2. requests[c].lockedMonthlySnapshot = None
      BY <1>1, <2>1 DEF Inv, PostLockInLocked
  <2>3. commands[u] # None
      BY DEF Commit
  <2> QED
      BY <1>1, <2>1, <2>2, <2>3 DEF Inv, HiddenAreOpen, OpenStatuses
<1>4. UnresolvedIn(m, {}) \subseteq UnresolvedIn(m, commands[u].hidden)
    BY <1>3 DEF UnresolvedIn
<1> QED
    BY <1>2, <1>4

\* A month command that commits keeps every part of the invariant.
LEMMA CommitKeepsInv ==
    ASSUME Typed, Inv, NEW u \in Users, Commit(u)
    PROVE  Inv'
<1> DEFINE m == seen[u].month
           action == commands[u].action
<1>1. UNCHANGED <<projections, requests, applied, entries, adjustments, drafts>>
    BY DEF Commit
<1>2. \A n \in Months \ {m} : periods'[n].status = periods[n].status
    BY CommitFacts
<1>3. periods[m].status # "LOCKED"
    BY CommitFacts DEF AllowedFrom, OpenStatuses
<1>4. \A d \in Dates : MonthOf[d] \in Months
    BY MonthsAssumption
<1>5. \A c \in Corrections :
         /\ drafts[c] # None => drafts[c].localDate \in Dates
         /\ requests[c] # None => requests[c].localDate \in Dates
    BY DEF Typed, TypeOK, DraftType, RequestType
<1>6. DraftsFitMonths'
  <2> SUFFICES ASSUME NEW c \in Corrections, drafts[c] # None
               PROVE  IF drafts[c].snapshot = None
                      THEN periods'[MonthOf[drafts[c].localDate]].status \in OpenStatuses
                      ELSE periods'[MonthOf[drafts[c].localDate]].status = "LOCKED"
      BY <1>1 DEF DraftsFitMonths
  <2>1. MonthOf[drafts[c].localDate] # m
      BY <1>3 DEF Commit, ShareLocked, Inv, DraftsFitMonths
  <2> QED
      BY <1>2, <1>4, <1>5, <2>1 DEF Inv, DraftsFitMonths
<1>7. PostLockInLocked'
    BY <1>1, <1>2, <1>3, <1>4, <1>5 DEF Inv, PostLockInLocked
<1>8. HiddenAreOpen'
    BY DEF HiddenAreOpen, Commit, Overtake
<1>9. ClosedMonthsResolved'
  <2> SUFFICES ASSUME NEW c \in Corrections, Unresolved(c),
                      requests[c].lockedMonthlySnapshot = None
               PROVE  periods'[MonthOf[requests[c].localDate]].status
                          \notin {"APPROVED", "LOCKED"}
      BY <1>1 DEF ClosedMonthsResolved, Unresolved
  <2>1. MonthOf[requests[c].localDate] \in Months
      BY <1>4, <1>5 DEF Unresolved
  <2>2. CASE MonthOf[requests[c].localDate] # m
      BY <1>2, <2>1, <2>2 DEF Inv, ClosedMonthsResolved
  <2>3. CASE MonthOf[requests[c].localDate] = m
    <3>1. c \in UnresolvedIn(m, {})
        BY <2>3 DEF UnresolvedIn
    <3>2. action \in {"SUBMIT", "REQUEST_CHANGES"}
        BY <3>1, NothingHidden, CommitFacts
    <3> QED
        BY <2>3, <3>2, CommitFacts DEF NextStatus
  <2> QED
      BY <2>2, <2>3
<1> QED
    BY <1>6, <1>7, <1>8, <1>9 DEF Inv

LEMMA InvStep == Typed /\ Inv /\ [Next]_vars => Inv'
<1> SUFFICES ASSUME Typed, Inv, [Next]_vars PROVE Inv'
    OBVIOUS
<1> USE DEF Inv
<1>1. ASSUME NEW u \in Users, NEW m \in Months, See(u, m) PROVE Inv'
    BY <1>1 DEF See, DraftsFitMonths, PostLockInLocked, HiddenAreOpen, ClosedMonthsResolved,
                Unresolved
<1>2. ASSUME NEW u \in Users, NEW action \in ActionsOf(u), Begin(u, action) PROVE Inv'
  <2>1. \A v \in Users : commands'[v] # None =>
            (commands[v] # None /\ commands'[v] = commands[v]) \/ commands'[v].hidden = {}
      BY <1>2 DEF Begin, Typed, Tables
  <2>2. HiddenAreOpen'
      BY <1>2, <2>1 DEF Begin, HiddenAreOpen
  <2> QED
      BY <1>2, <2>2 DEF Begin, DraftsFitMonths, PostLockInLocked, ClosedMonthsResolved, Unresolved
<1>3. ASSUME NEW u \in Users, Commit(u) PROVE Inv'
    BY <1>3, CommitKeepsInv
<1>4. ASSUME NEW u \in Users, Fail(u) PROVE Inv'
  <2>1. \A v \in Users : commands'[v] # None => commands'[v] = commands[v] /\ commands[v] # None
      BY <1>4 DEF Fail, Typed, Tables
  <2>2. HiddenAreOpen'
      BY <1>4, <2>1 DEF Fail, HiddenAreOpen
  <2> QED
      BY <1>4, <2>2 DEF Fail, DraftsFitMonths, PostLockInLocked, ClosedMonthsResolved, Unresolved
<1>5. ASSUME NEW c \in Corrections, NEW d \in Dates, NEW minutes \in Minutes,
             StartCorrection(c, d, minutes)
      PROVE  Inv'
  <2>1. Len(snapshots[MonthOf[d]]) # None
      BY MonthsAssumption DEF Typed, Tables
  <2>2. PICK snapshot :
            /\ drafts' = [drafts EXCEPT ![c] =
                             [localDate |-> d, workedMinutes |-> minutes, snapshot |-> snapshot]]
            /\ IF snapshot = None THEN periods[MonthOf[d]].status \in OpenStatuses
               ELSE periods[MonthOf[d]].status = "LOCKED"
      BY <1>5, <2>1 DEF StartCorrection
  <2>3. DraftsFitMonths'
    <3> SUFFICES ASSUME NEW x \in Corrections, drafts'[x] # None
                 PROVE  IF drafts'[x].snapshot = None
                        THEN periods[MonthOf[drafts'[x].localDate]].status \in OpenStatuses
                        ELSE periods[MonthOf[drafts'[x].localDate]].status = "LOCKED"
        BY <1>5 DEF StartCorrection, DraftsFitMonths
    <3>1. DOMAIN drafts = Corrections
        BY DEF Typed, TypeOK
    <3>2. CASE x = c
        BY <2>2, <3>1, <3>2
    <3>3. CASE x # c
        BY <2>2, <3>1, <3>3 DEF DraftsFitMonths
    <3> QED
        BY <3>2, <3>3
  <2> QED
      BY <1>5, <2>3 DEF StartCorrection, PostLockInLocked, HiddenAreOpen, ClosedMonthsResolved,
                        Unresolved
<1>6. ASSUME NEW c \in Corrections, InsertCorrection(c) PROVE Inv'
  <2>1. /\ DOMAIN requests = Corrections
        /\ DOMAIN drafts = Corrections
      BY DEF Typed, TypeOK
  <2>2. /\ requests'[c] = [localDate |-> drafts[c].localDate,
                           workedMinutes |-> drafts[c].workedMinutes,
                           lockedMonthlySnapshot |-> drafts[c].snapshot,
                           status |-> "SUBMITTED"]
        /\ \A x \in Corrections \ {c} : requests'[x] = requests[x]
        /\ drafts'[c] = None
        /\ \A x \in Corrections \ {c} : drafts'[x] = drafts[x]
        /\ drafts[c] # None
        /\ UNCHANGED <<periods, applied>>
      BY <1>6, <2>1 DEF InsertCorrection
  <2>3. IF drafts[c].snapshot = None
        THEN periods[MonthOf[drafts[c].localDate]].status \in OpenStatuses
        ELSE periods[MonthOf[drafts[c].localDate]].status = "LOCKED"
      BY <2>2 DEF DraftsFitMonths
  <2>4. DraftsFitMonths'
      BY <2>2 DEF DraftsFitMonths
  <2>5. PostLockInLocked'
      BY <2>2, <2>3 DEF PostLockInLocked
  <2>6. HiddenAreOpen'
      BY <1>6, <2>2, <2>3 DEF HiddenAreOpen, InsertCorrection
  <2>7. ClosedMonthsResolved'
      BY <2>2, <2>3 DEF ClosedMonthsResolved, Unresolved, OpenStatuses
  <2> QED
      BY <2>4, <2>5, <2>6, <2>7
<1>7. ASSUME NEW c \in Corrections, RollBackCorrection(c) PROVE Inv'
  <2>1. DraftsFitMonths'
      BY <1>7 DEF RollBackCorrection, DraftsFitMonths, Typed, TypeOK
  <2> QED
      BY <1>7, <2>1 DEF RollBackCorrection, PostLockInLocked, HiddenAreOpen,
                        ClosedMonthsResolved, Unresolved
<1>8. ASSUME NEW c \in Corrections, NEW action \in DOMAIN Decided, Decide(c, action) PROVE Inv'
  <2>1. \A x \in Corrections :
           requests'[x] # None =>
               /\ requests[x] # None
               /\ requests'[x].localDate = requests[x].localDate
               /\ requests'[x].lockedMonthlySnapshot = requests[x].lockedMonthlySnapshot
      BY <1>8 DEF Decide, Typed, TypeOK, RequestType
  <2>2. \A x \in Corrections : Unresolved(x)' => Unresolved(x)
    <3>1. applied \subseteq applied'
        BY <1>8 DEF Decide, Adjust
    <3>2. \A x \in Corrections \ {c} : requests'[x] = requests[x]
        BY <1>8 DEF Decide, Typed, TypeOK
    <3>3. Unresolved(c)
        BY <1>8 DEF Decide, Unresolved
    <3> QED
        BY <3>1, <3>2, <3>3 DEF Unresolved
  <2>3. HiddenAreOpen'
      BY <1>8 DEF Decide, Overtake, HiddenAreOpen
  <2>4. UNCHANGED <<periods, drafts>>
      BY <1>8 DEF Decide
  <2>5. ClosedMonthsResolved'
      BY <2>1, <2>2, <2>4 DEF ClosedMonthsResolved, Unresolved
  <2> QED
      BY <2>1, <2>3, <2>4, <2>5 DEF DraftsFitMonths, PostLockInLocked
<1>9. ASSUME NEW c \in Corrections, Apply(c) PROVE Inv'
  <2>1. /\ applied \subseteq applied'
        /\ UNCHANGED <<periods, requests, drafts>>
        /\ \A v \in Users : commands'[v] = None
      BY <1>9 DEF Apply, Overtake
  <2> QED
      BY <2>1 DEF DraftsFitMonths, PostLockInLocked, HiddenAreOpen, ClosedMonthsResolved,
                  Unresolved
<1>10. CASE UNCHANGED vars
    BY <1>10 DEF vars, DraftsFitMonths, PostLockInLocked, HiddenAreOpen, ClosedMonthsResolved,
                 Unresolved
<1> QED
    BY <1>1, <1>2, <1>3, <1>4, <1>5, <1>6, <1>7, <1>8, <1>9, <1>10 DEF Next

\* For any number of months, users and concurrent corrections: once a month is
\* approved, no ordinary correction of its dates is undecided or unapplied.
THEOREM ClosedMonthsStayResolved == Spec => []ClosedMonthsResolved
<1>1. Inv => ClosedMonthsResolved
    BY DEF Inv
<1> QED
    BY <1>1, TypedInit, TypedStep, InvInit, InvStep, PTL DEF Spec

-----------------------------------------------------------------------------
(* Approved and locked months are frozen *)

\* What a step may do to closed months.
FrozenStep ==
    \A m \in Months :
        /\ periods[m].status \in {"APPROVED", "LOCKED"} =>
               \A d \in DatesOf(m) : projections'[d] = projections[d]
        /\ periods[m].status = "LOCKED" =>
               periods'[m] = periods[m] /\ snapshots'[m] = snapshots[m]

LEMMA NextFreezes == Typed /\ Inv /\ Next => FrozenStep
<1> SUFFICES ASSUME Typed, Inv, Next PROVE FrozenStep
    OBVIOUS
<1>1. ASSUME UNCHANGED <<periods, projections, snapshots>> PROVE FrozenStep
    BY <1>1 DEF FrozenStep
<1>2. ASSUME NEW u \in Users, Commit(u) PROVE FrozenStep
  <2> DEFINE m == seen[u].month
             new == ApprovalSnapshot(m, Source(m, commands[u].hidden))
  <2>1. periods[m].status # "LOCKED"
      BY <1>2, CommitFacts DEF AllowedFrom, OpenStatuses
  <2>2. \A n \in Months \ {m} : periods'[n] = periods[n]
      BY <1>2, CommitFacts
  <2>3. \A n \in Months \ {m} : snapshots'[n] = snapshots[n]
    <3>1. \/ snapshots' = snapshots
          \/ snapshots' = [snapshots EXCEPT ![m] = Append(@, new)]
        BY <1>2 DEF Commit
    <3>2. DOMAIN snapshots = Months
        BY DEF Typed, Tables
    <3> QED
        BY <3>1, <3>2
  <2>4. projections' = projections
      BY <1>2 DEF Commit
  <2> QED
      BY <2>1, <2>2, <2>3, <2>4 DEF FrozenStep
<1>3. ASSUME NEW c \in Corrections, Apply(c) PROVE FrozenStep
  <2> DEFINE d == requests[c].localDate
  <2>1. Unresolved(c) /\ requests[c].lockedMonthlySnapshot = None
      BY <1>3 DEF Apply, Unresolved
  <2>2. periods[MonthOf[d]].status \notin {"APPROVED", "LOCKED"}
      BY <2>1 DEF Inv, ClosedMonthsResolved
  <2>3. /\ \A x \in Dates \ {d} : projections'[x] = projections[x]
        /\ UNCHANGED <<periods, snapshots>>
      BY <1>3 DEF Apply, Typed, TypeOK
  <2> QED
      BY <2>2, <2>3 DEF FrozenStep, DatesOf
<1>4. ASSUME NEW c \in Corrections, NEW action \in DOMAIN Decided, Decide(c, action)
      PROVE  FrozenStep
    BY <1>1, <1>4 DEF Decide, Adjust
<1> QED
    BY <1>1, <1>2, <1>3, <1>4
       DEF Next, See, Begin, Fail, StartCorrection, InsertCorrection, RollBackCorrection

\* For any number of months, users and concurrent corrections: no step changes a
\* projection of an approved month, or a locked month and its approved records.
THEOREM ClosedMonthsStayFrozen == Spec => ClosedMonthsAreFrozen
<1>1. Typed /\ Inv /\ [Next]_vars => [FrozenStep]_vars
    BY NextFreezes
<1>2. Spec => [][FrozenStep]_vars
    BY <1>1, TypedInit, TypedStep, InvInit, InvStep, PTL DEF Spec
<1> QED
    BY <1>2 DEF ClosedMonthsAreFrozen, FrozenStep

-----------------------------------------------------------------------------
(* A lock fixes what was approved *)

\* What a locking step requires.
LockStep ==
    \A m \in Months :
        (periods[m].status # "LOCKED" /\ periods'[m].status = "LOCKED") =>
            Last(snapshots[m]).sourceFingerprint = Source(m, {})

LEMMA NextLocksApproved == Typed /\ Inv /\ Next => LockStep
<1> SUFFICES ASSUME Typed, Inv, Next PROVE LockStep
    OBVIOUS
<1>1. ASSUME UNCHANGED periods PROVE LockStep
    BY <1>1 DEF LockStep
<1>2. ASSUME NEW u \in Users, Commit(u) PROVE LockStep
  <2> DEFINE m == seen[u].month
             action == commands[u].action
  <2>1. SUFFICES ASSUME NEW n \in Months, periods[n].status # "LOCKED",
                        periods'[n].status = "LOCKED"
                 PROVE  Last(snapshots[n]).sourceFingerprint = Source(n, {})
      BY DEF LockStep
  <2>2. n = m
      BY <1>2, <2>1, CommitFacts
  <2>3. action = "LOCK"
      BY <1>2, <2>1, <2>2, CommitFacts DEF NextStatus
  <2>4. Last(snapshots[m]).sourceFingerprint = Source(m, commands[u].hidden)
      BY <1>2, <2>3 DEF Commit, Valid
  <2>5. UnresolvedIn(m, {}) = UnresolvedIn(m, commands[u].hidden)
      BY <1>2, <2>3, NothingHidden
  <2>6. Source(m, commands[u].hidden) = Source(m, {})
      BY <2>5 DEF Source
  <2> QED
      BY <2>2, <2>4, <2>6
<1> QED
    BY <1>1, <1>2
       DEF Next, See, Begin, Fail, StartCorrection, InsertCorrection, RollBackCorrection, Decide,
           Apply

\* For any number of months, users and concurrent corrections: a month is locked
\* with exactly the source its latest approval recorded, which no hidden request
\* makes stale.
THEOREM LocksFixApproved == Spec => LockFixesApproved
<1>1. Typed /\ Inv /\ [Next]_vars => [LockStep]_vars
    BY NextLocksApproved
<1>2. Spec => [][LockStep]_vars
    BY <1>1, TypedInit, TypedStep, InvInit, InvStep, PTL DEF Spec
<1> QED
    BY <1>2 DEF LockFixesApproved, LockStep

-----------------------------------------------------------------------------
(* What is approved is what was submitted *)

LEMMA CommitAcknowledges ==
    ASSUME Typed, ApprovedIsAcknowledged, NEW u \in Users, Commit(u)
    PROVE  ApprovedIsAcknowledged'
<1> DEFINE m == seen[u].month
           action == commands[u].action
           source == Source(m, commands[u].hidden)
           new == ApprovalSnapshot(m, source)
<1>1. PICK S : snapshots \in [Months -> Seq(S)]
    BY DEF Typed, Tables
<1>2. /\ m \in Months
      /\ action \in {"SUBMIT", "REQUEST_CHANGES", "APPROVE", "LOCK"}
      /\ \A n \in Months \ {m} : periods'[n] = periods[n]
      /\ periods'[m].status = NextStatus[action]
    BY CommitFacts
<1>3. /\ periods'[m].submittedSourceFingerprint = SubmittedFingerprint(action, m, source)
      /\ snapshots' = IF action = "APPROVE"
                      THEN [snapshots EXCEPT ![m] = Append(@, new)] ELSE snapshots
    BY <1>2 DEF Commit, Typed, Tables
<1>4. \A n \in Months \ {m} : snapshots'[n] = snapshots[n]
    BY <1>1, <1>3
<1>5. ASSUME periods'[m].status \in {"APPROVED", "LOCKED"}
      PROVE  /\ snapshots'[m] # <<>>
             /\ Last(snapshots'[m]).sourceFingerprint = periods'[m].submittedSourceFingerprint
  <2>1. action \in {"APPROVE", "LOCK"}
      BY <1>2, <1>5 DEF NextStatus
  <2>2. periods'[m].submittedSourceFingerprint = periods[m].submittedSourceFingerprint
      BY <1>3, <2>1 DEF SubmittedFingerprint
  <2>3. CASE action = "APPROVE"
    <3>1. periods[m].submittedSourceFingerprint = source
        BY <2>3 DEF Commit, Valid
    <3>2. new.sourceFingerprint = source
        BY DEF ApprovalSnapshot
    <3>3. snapshots'[m] = Append(snapshots[m], new)
        BY <1>1, <1>2, <1>3, <2>3
    <3>4. snapshots[m] \in Seq(S)
        BY <1>1, <1>2
    <3> HIDE DEF new
    <3>5. /\ Len(Append(snapshots[m], new)) = Len(snapshots[m]) + 1
          /\ Append(snapshots[m], new)[Len(snapshots[m]) + 1] = new
          /\ Len(snapshots[m]) \in Nat
        BY <3>4, AppendAny
    <3>6. Last(snapshots'[m]) = new /\ snapshots'[m] # <<>>
        BY <3>3, <3>5 DEF Last
    <3> QED
        BY <2>2, <3>1, <3>2, <3>6
  <2>4. CASE action = "LOCK"
    <3>1. periods[m].status = "APPROVED"
        BY <2>4, CommitFacts DEF AllowedFrom
    <3>2. snapshots'[m] = snapshots[m]
        BY <1>3, <2>4
    <3> QED
        BY <1>2, <2>2, <3>1, <3>2 DEF ApprovedIsAcknowledged
  <2> QED
      BY <2>1, <2>3, <2>4
<1> HIDE DEF m
<1> QED
    BY <1>2, <1>4, <1>5 DEF ApprovedIsAcknowledged

LEMMA AcknowledgedStep ==
    Typed /\ ApprovedIsAcknowledged /\ [Next]_vars => ApprovedIsAcknowledged'
<1> SUFFICES ASSUME Typed, ApprovedIsAcknowledged, [Next]_vars PROVE ApprovedIsAcknowledged'
    OBVIOUS
<1>1. CASE \E u \in Users : Commit(u)
    BY <1>1, CommitAcknowledges
<1>2. CASE UNCHANGED <<periods, snapshots>>
    BY <1>2 DEF ApprovedIsAcknowledged
<1> QED
    BY <1>1, <1>2
       DEF Next, vars, See, Begin, Fail, StartCorrection, InsertCorrection, RollBackCorrection,
           Decide, Apply

\* For any number of months and reviews: the approved record of a month is the
\* source its employee acknowledged when submitting it.
THEOREM ApprovedWasAcknowledged == Spec => []ApprovedIsAcknowledged
<1>1. Init => ApprovedIsAcknowledged
    BY DEF Init, ApprovedIsAcknowledged
<1> QED
    BY <1>1, TypedInit, TypedStep, AcknowledgedStep, PTL DEF Spec

-----------------------------------------------------------------------------
(* The journal *)

JournalType ==
    [action : {"REQUEST_CHANGES", "APPROVE", "LOCK"}, nextVersion : Nat, approvalCycle : Nat]

JournalInv ==
    /\ journal \in [Months -> Seq(JournalType)]
    /\ JournalTellsHistory

\* What JournalTellsHistory demands of the decisions of one month.
Chained(j) == \A i \in 1..Len(j) : Follows(j[i], DecisionAt(j, i - 1))

LastOf(j) == DecisionAt(j, Len(j))

Told(j, version, status) ==
    \/ /\ version = LastOf(j).nextVersion
       /\ status = IF j = <<>> THEN "OPEN" ELSE NextStatus[LastOf(j).action]
    \/ /\ LastOf(j).action = "REQUEST_CHANGES"
       /\ version = LastOf(j).nextVersion + 1
       /\ status = "SUBMITTED"

\* The same for every month.
LEMMA JournalPerMonth ==
    ASSUME journal \in [Months -> Seq(JournalType)]
    PROVE  JournalTellsHistory <=>
               \A m \in Months : /\ Chained(journal[m])
                                 /\ Len(snapshots[m]) = LastOf(journal[m]).approvalCycle
                                 /\ Told(journal[m], periods[m].version, periods[m].status)
<1>1. \A m \in Months : DOMAIN journal[m] = 1..Len(journal[m])
  <2> SUFFICES ASSUME NEW m \in Months PROVE DOMAIN journal[m] = 1..Len(journal[m])
    OBVIOUS
  <2>1. journal[m] \in Seq(JournalType)
    OBVIOUS
  <2> QED
    BY <2>1
<1> QED
    BY <1>1 DEF JournalTellsHistory, Chained, LastOf, Told

\* The last decision of a month is a decision.
LEMMA LastTyped ==
    ASSUME NEW j \in Seq(JournalType)
    PROVE  LastOf(j) \in JournalType /\ (j = <<>> => LastOf(j).action = "REQUEST_CHANGES")
<1>1. Len(j) \in Nat /\ (Len(j) # 0 => j[Len(j)] \in JournalType) /\ (j = <<>> => Len(j) = 0)
    OBVIOUS
<1> QED
    BY <1>1 DEF LastOf, DecisionAt, JournalType

\* A decision that follows the last one extends a history.
LEMMA HistoryExtended ==
    ASSUME NEW j \in Seq(JournalType), NEW row \in JournalType,
           Chained(j), Follows(row, LastOf(j))
    PROVE  /\ Append(j, row) \in Seq(JournalType)
           /\ Chained(Append(j, row))
           /\ LastOf(Append(j, row)) = row
           /\ Append(j, row) # <<>>
<1> DEFINE r == Append(j, row)
           n == Len(j)
<1>1. /\ r \in Seq(JournalType)
      /\ r[n + 1] = row
      /\ \A i \in 1..n : r[i] = j[i]
      /\ Len(r) = n + 1
      /\ n \in Nat
    OBVIOUS
<1>2. r # <<>>
    BY <1>1
<1> HIDE DEF r
<1>3. LastOf(r) = row
    BY <1>1 DEF LastOf, DecisionAt
<1>4. Chained(r)
  <2> SUFFICES ASSUME NEW i \in 1..(n + 1) PROVE Follows(r[i], DecisionAt(r, i - 1))
      BY <1>1 DEF Chained
  <2>1. DecisionAt(r, i - 1) = DecisionAt(j, i - 1)
    <3>1. i - 1 = 0 \/ i - 1 \in 1..n
        BY <1>1
    <3> QED
        BY <1>1, <3>1 DEF DecisionAt
  <2>2. CASE i \in 1..n
      BY <1>1, <2>1, <2>2 DEF Chained
  <2>3. CASE i = n + 1
    <3>1. i - 1 = n
        BY <1>1, <2>3
    <3> QED
        BY <1>1, <2>1, <2>3, <3>1 DEF LastOf
  <2> QED
      BY <1>1, <2>2, <2>3
<1> QED
    BY <1>1, <1>2, <1>3, <1>4 DEF r

\* A month command that is allowed in a status keeps the decision that follows.
LEMMA CommitFollows ==
    ASSUME NEW j \in Seq(JournalType), NEW version \in Nat, NEW status,
           Told(j, version, status),
           NEW action \in {"REQUEST_CHANGES", "APPROVE", "LOCK"}, status \in AllowedFrom[action],
           NEW cycle \in Nat,
           cycle = LastOf(j).approvalCycle + (IF action = "APPROVE" THEN 1 ELSE 0)
    PROVE  Follows([action |-> action, nextVersion |-> version + 1, approvalCycle |-> cycle], LastOf(j))
<1> DEFINE last == LastOf(j)
<1>1. /\ last.action \in {"REQUEST_CHANGES", "APPROVE", "LOCK"}
      /\ last.nextVersion \in Nat /\ last.approvalCycle \in Nat
      /\ j = <<>> => last.action = "REQUEST_CHANGES"
    BY LastTyped DEF JournalType
<1>2. status = "APPROVED" =>
          last.action = "APPROVE" /\ version = last.nextVersion
    BY <1>1 DEF Told, NextStatus
<1>3. status = "SUBMITTED" =>
          last.action = "REQUEST_CHANGES" /\ version = last.nextVersion + 1
    BY <1>1 DEF Told, NextStatus
<1>4. /\ status \in {"SUBMITTED", "APPROVED"}
      /\ action = "APPROVE" => status = "SUBMITTED"
      /\ action = "LOCK" => status = "APPROVED"
    BY DEF AllowedFrom
<1> HIDE DEF last
<1> SUFFICES Follows([action |-> action, nextVersion |-> version + 1, approvalCycle |-> cycle], last)
    BY DEF last
<1>5. cycle = last.approvalCycle + (IF action = "APPROVE" THEN 1 ELSE 0)
    BY DEF last
<1>6. version + 1 = last.nextVersion + (IF last.action = "APPROVE" THEN 1 ELSE 2)
    BY <1>1, <1>2, <1>3, <1>4
<1>7. /\ last.action # "LOCK"
      /\ action \in {"REQUEST_CHANGES", IF last.action = "APPROVE" THEN "LOCK" ELSE "APPROVE"}
    BY <1>2, <1>3, <1>4
<1> QED
    BY <1>5, <1>6, <1>7 DEF Follows

\* A month command continues the history of its month.
LEMMA CommitKeepsJournal ==
    ASSUME Typed, JournalInv, NEW u \in Users, Commit(u)
    PROVE  JournalInv'
<1> DEFINE m == seen[u].month
           action == commands[u].action
           version == periods[m].version
           cycle == IF action = "APPROVE" THEN Len(snapshots[m]) + 1 ELSE Len(snapshots[m])
           row == [action |-> action, nextVersion |-> version + 1, approvalCycle |-> cycle]
           new == ApprovalSnapshot(m, Source(m, commands[u].hidden))
<1>1. /\ m \in Months
      /\ action \in {"SUBMIT", "REQUEST_CHANGES", "APPROVE", "LOCK"}
      /\ periods[m].status \in AllowedFrom[action]
      /\ periods'[m].status = NextStatus[action]
      /\ periods'[m].version = version + 1
      /\ \A n \in Months \ {m} : periods'[n] = periods[n]
    BY CommitFacts
<1>2. journal' = IF action = "SUBMIT" THEN journal
                 ELSE [journal EXCEPT ![m] = Append(@, row)]
    BY DEF Commit
<1>3. snapshots' = IF action = "APPROVE"
                   THEN [snapshots EXCEPT ![m] = Append(@, new)] ELSE snapshots
    BY DEF Commit
<1>4. version \in Nat
    BY <1>1 DEF Typed, TypeOK
<1>5. PICK S : snapshots \in [Months -> Seq(S)]
    BY DEF Typed, Tables
<1>6. /\ journal \in [Months -> Seq(JournalType)]
      /\ \A n \in Months : /\ Chained(journal[n])
                            /\ Len(snapshots[n]) = LastOf(journal[n]).approvalCycle
                            /\ Told(journal[n], periods[n].version, periods[n].status)
    BY JournalPerMonth DEF JournalInv
<1>7. journal[m] \in Seq(JournalType)
    BY <1>1, <1>6
<1> HIDE DEF new
<1>8. /\ \A n \in Months \ {m} : snapshots'[n] = snapshots[n]
      /\ Len(snapshots'[m]) = cycle
      /\ cycle \in Nat
  <2>1. snapshots[m] \in Seq(S)
      BY <1>1, <1>5
  <2>2. Len(Append(snapshots[m], new)) = Len(snapshots[m]) + 1 /\ Len(snapshots[m]) \in Nat
      BY <2>1, AppendAny
  <2> QED
      BY <1>1, <1>3, <1>5, <2>2
<1>9. cycle = LastOf(journal[m]).approvalCycle + (IF action = "APPROVE" THEN 1 ELSE 0)
  <2>1. Len(snapshots[m]) = LastOf(journal[m]).approvalCycle
      BY <1>1, <1>6
  <2>2. Len(snapshots[m]) \in Nat
      BY <1>7, <2>1, LastTyped DEF JournalType
  <2> QED
      BY <2>1, <2>2
<1>10. Told(journal[m], version, periods[m].status)
    BY <1>1, <1>6
<1> DEFINE j == journal'[m]
<1>11. /\ journal' \in [Months -> Seq(JournalType)]
       /\ \A n \in Months \ {m} : journal'[n] = journal[n]
       /\ Chained(j) /\ LastOf(j).approvalCycle = cycle
       /\ Told(j, version + 1, NextStatus[action])
  <2>1. CASE action = "SUBMIT"
    <3>1. journal' = journal /\ cycle = Len(snapshots[m])
        BY <1>2, <2>1
    <3>2. periods[m].status \in OpenStatuses
        BY <1>1, <2>1 DEF AllowedFrom
    <3>3. /\ LastOf(journal[m]).action \in {"REQUEST_CHANGES", "APPROVE", "LOCK"}
          /\ journal[m] = <<>> => LastOf(journal[m]).action = "REQUEST_CHANGES"
        BY <1>7, LastTyped DEF JournalType
    <3>4. /\ LastOf(journal[m]).action = "REQUEST_CHANGES"
          /\ version = LastOf(journal[m]).nextVersion
        BY <1>10, <3>2, <3>3 DEF Told, OpenStatuses, NextStatus
    <3>5. Told(journal[m], version + 1, "SUBMITTED")
        BY <3>4 DEF Told
    <3> HIDE DEF version, cycle
    <3> QED
        BY <1>1, <1>6, <2>1, <3>1, <3>5 DEF NextStatus
  <2>2. CASE action # "SUBMIT"
    <3>1. action \in {"REQUEST_CHANGES", "APPROVE", "LOCK"}
        BY <1>1, <2>2
    <3>2. row \in JournalType
        BY <1>4, <1>8, <3>1 DEF JournalType
    <3>3. Follows(row, LastOf(journal[m]))
        BY <1>7, <1>1, <1>4, <1>8, <1>9, <1>10, <3>1, CommitFollows
    <3>4. row.action = action /\ row.nextVersion = version + 1 /\ row.approvalCycle = cycle
        OBVIOUS
    <3> HIDE DEF row, version, cycle, action
    <3>5. /\ Append(journal[m], row) \in Seq(JournalType)
          /\ Chained(Append(journal[m], row))
          /\ LastOf(Append(journal[m], row)) = row
          /\ Append(journal[m], row) # <<>>
        BY <1>7, <1>1, <1>6, <3>2, <3>3, HistoryExtended
    <3> DEFINE r == Append(journal[m], row)
    <3>6. journal' = [journal EXCEPT ![m] = r]
        BY <1>2, <2>2
    <3> HIDE DEF r, m
    <3>7. r \in Seq(JournalType) /\ Chained(r) /\ LastOf(r) = row /\ r # <<>>
        BY <3>5 DEF r
    <3>8. Told(r, version + 1, NextStatus[action])
        BY <3>4, <3>7 DEF Told
    <3>9. journal'[m] = r /\ \A n \in Months \ {m} : journal'[n] = journal[n]
        BY <1>1, <1>6, <3>6
    <3>10. journal' \in [Months -> Seq(JournalType)]
        BY <1>1, <1>6, <3>6, <3>7
    <3> QED
        BY <3>4, <3>7, <3>8, <3>9, <3>10
  <2> QED
    BY <2>1, <2>2
<1>12. \A n \in Months : /\ Chained(journal'[n])
                         /\ Len(snapshots'[n]) = LastOf(journal'[n]).approvalCycle
                         /\ Told(journal'[n], periods'[n].version, periods'[n].status)
  <2> HIDE DEF m, version, cycle, action
  <2> QED
    BY <1>1, <1>6, <1>8, <1>11
<1>13. JournalTellsHistory'
  <2>1. (journal \in [Months -> Seq(JournalType)])' => (JournalTellsHistory' <=>
            \A n \in Months : /\ Chained(journal'[n])
                              /\ Len(snapshots'[n]) = LastOf(journal'[n]).approvalCycle
                              /\ Told(journal'[n], periods'[n].version, periods'[n].status))
    <3>1. ASSUME (journal \in [Months -> Seq(JournalType)])', NEW n \in Months
          PROVE  DOMAIN journal'[n] = 1..Len(journal'[n])
      <4>1. journal'[n] \in Seq(JournalType)
        BY <3>1
      <4> QED
        BY <4>1
    <3> QED
      BY <3>1 DEF JournalTellsHistory, Chained, LastOf, Told
  <2> QED
    BY <1>11, <1>12, <2>1
<1> QED
    BY <1>11, <1>13 DEF JournalInv

\* Every step does.
LEMMA JournalStep == Typed /\ JournalInv /\ [Next]_vars => JournalInv'
<1> SUFFICES ASSUME Typed, JournalInv, [Next]_vars PROVE JournalInv'
    OBVIOUS
<1>1. CASE \E u \in Users : Commit(u)
    BY <1>1, CommitKeepsJournal
<1>2. CASE UNCHANGED <<periods, snapshots, journal>>
    BY <1>2 DEF JournalInv, JournalTellsHistory
<1> QED
    BY <1>1, <1>2
       DEF Next, vars, See, Begin, Fail, StartCorrection, InsertCorrection, RollBackCorrection,
           Decide, Apply

\* For any number of months and reviews: the decisions kept of a month form one
\* history of allowed transitions that leads to its status, its version and its
\* number of snapshots.
THEOREM JournalsTellHistory == Spec => []JournalTellsHistory
<1>1. Init => JournalInv
  <2> SUFFICES ASSUME Init PROVE JournalInv
      OBVIOUS
  <2>1. /\ journal = [m \in Months |-> <<>>] /\ snapshots = [m \in Months |-> <<>>]
        /\ \A m \in Months : periods[m].status = "OPEN" /\ periods[m].version = 1
      BY DEF Init
  <2>2. <<>> \in Seq(JournalType) /\ Len(<<>>) = 0
      OBVIOUS
  <2>3. LastOf(<<>>).approvalCycle = 0 /\ LastOf(<<>>).nextVersion = 1
      BY <2>2 DEF LastOf, DecisionAt
  <2>4. Chained(<<>>)
      BY DEF Chained
  <2>5. journal \in [Months -> Seq(JournalType)]
      BY <2>1, <2>2
  <2>6. JournalTellsHistory
    <3> SUFFICES ASSUME NEW m \in Months
                 PROVE  /\ Chained(journal[m])
                        /\ Len(snapshots[m]) = LastOf(journal[m]).approvalCycle
                        /\ Told(journal[m], periods[m].version, periods[m].status)
        BY <2>5, JournalPerMonth
    <3>1. journal[m] = <<>> /\ snapshots[m] = <<>>
        BY <2>1
    <3> QED
        BY <2>1, <2>2, <2>3, <2>4, <3>1 DEF Told
  <2> QED
      BY <2>5, <2>6 DEF JournalInv
<1>2. JournalInv => JournalTellsHistory
    BY DEF JournalInv
<1> QED
    BY <1>1, <1>2, TypedInit, TypedStep, JournalStep, PTL DEF Spec

-----------------------------------------------------------------------------
(* The books: entries, adjustments and the snapshots of closed months *)

EntryType ==
    [source : Corrections, minutes : Int, localDate : Dates,
     entryType : {"DAILY_RECALCULATION_DELTA", "POST_LOCK_ADJUSTMENT"}]

AdjustmentType ==
    [correctionRequest : Corrections, localDate : Dates, minutes : Int,
     previousAdjustedWorkedMinutes : Int, proposedWorkedMinutes : Nat,
     reversesAdjustment : Nat \cup {None}]

\* The books hold finitely many rows of numbers, each entry by an applied request.
BooksTyped ==
    /\ IsFiniteSet(entries)
    /\ entries \subseteq EntryType
    /\ \A e \in entries : e.source \in applied
    /\ adjustments \in [Months -> Seq(AdjustmentType)]

ClosedMonths == {m \in Months : periods[m].status \in {"APPROVED", "LOCKED"}}

\* The latest snapshot of a closed month is one of numbers.
SnapshotsTyped ==
    \A m \in ClosedMonths :
        /\ Last(snapshots[m]).ledgerPeriodDelta \in Int
        /\ Last(snapshots[m]).rows \in [DatesOf(m) -> Nat]

\* Only locked months are adjusted, at their own dates.
AdjustedAreLocked ==
    \A m \in Months :
        /\ adjustments[m] # <<>> => periods[m].status = "LOCKED"
        /\ \A i \in DOMAIN adjustments[m] : MonthOf[adjustments[m][i].localDate] = m

EntriesOf(m) == {e \in entries : MonthOf[e.localDate] = m}

\* From its approval on, a month's snapshot and adjustments explain its entries.
ClosedMonthsBooked ==
    \A m \in ClosedMonths :
        Last(snapshots[m]).ledgerPeriodDelta + AllAdjustments(m) = SumMinutes(EntriesOf(m))

\* What a locked date stands at after the last of its adjustments.
StandsAt(m, d) ==
    IF AdjustmentsOf(m, d) = {} THEN Last(snapshots[m]).rows[d]
    ELSE adjustments[m][Max(AdjustmentsOf(m, d))].proposedWorkedMinutes

\* The adjustments of a locked date add up to what the last one proposed.
AdjustmentsTelescope ==
    \A m \in Months : periods[m].status = "LOCKED" =>
        \A d \in DatesOf(m) : AdjustedWorkedMinutes(m, d) = StandsAt(m, d)

\* A reversal takes back the minutes of the adjustment it names, which changed
\* something.
ReversalsTakeBack ==
    \A m \in Months : \A i \in DOMAIN adjustments[m] :
        LET r == adjustments[m][i].reversesAdjustment
        IN  r # None => /\ r \in DOMAIN adjustments[m]
                        /\ adjustments[m][i].minutes = -adjustments[m][r].minutes
                        /\ adjustments[m][r].minutes # 0

Books ==
    /\ BooksTyped
    /\ SnapshotsTyped
    /\ AdjustedAreLocked
    /\ ProjectionsMatchLedger
    /\ ClosedMonthsBooked
    /\ AdjustmentsTelescope
    /\ ReversalsTakeBack
    /\ AdjustmentChain

\* What AdjustmentChain says of one adjustment of a month with these rows.
Linked(q, rows, i) ==
    LET a == q[i]
        before == {j \in 1..(i - 1) : q[j].localDate = a.localDate}
        reversed == a.reversesAdjustment
    IN  /\ a.previousAdjustedWorkedMinutes =
               IF before = {} THEN rows[a.localDate]
               ELSE q[Max(before)].proposedWorkedMinutes
        /\ reversed # None =>
               /\ reversed \in before
               /\ q[reversed].previousAdjustedWorkedMinutes = a.proposedWorkedMinutes
               /\ \A j \in before : q[j].reversesAdjustment # reversed

\* What the books are kept in.
books == <<periods, projections, applied, entries, snapshots, adjustments>>

-----------------------------------------------------------------------------
(* Sums of the books *)

\* One more entry adds its minutes.
LEMMA SumMinutesAdd ==
    ASSUME NEW E, IsFiniteSet(E), \A x \in E : x.minutes \in Int,
           NEW e, e \notin E, e.minutes \in Int
    PROVE  SumMinutes(E \cup {e}) = SumMinutes(E) + e.minutes
<1> DEFINE f == [x \in E |-> x.minutes]
           g == [x \in E \cup {e} |-> x.minutes]
<1>1. SumMinutes(E) = SumFunctionOnSet(f, E) /\ SumMinutes(E \cup {e}) = SumFunctionOnSet(g, E \cup {e})
    BY DEF SumMinutes, SumFunction
<1>2. /\ \A x \in E : g[x] \in Int /\ g[x] = f[x]
      /\ g[e] = e.minutes
    OBVIOUS
<1> HIDE DEF f, g
<1>3. SumFunctionOnSet(g, E \cup {e}) = SumFunctionOnSet(g, E) + g[e]
    BY <1>2, SumAdd
<1>4. SumFunctionOnSet(g, E) = SumFunctionOnSet(f, E)
    BY <1>2, SumEqual
<1> QED
    BY <1>1, <1>2, <1>3, <1>4

\* Minutes of finitely many entries add up to an integer.
LEMMA SumMinutesInteger ==
    ASSUME NEW E, IsFiniteSet(E), \A x \in E : x.minutes \in Int
    PROVE  SumMinutes(E) \in Int
<1> DEFINE f == [x \in E |-> x.minutes]
<1>1. SumMinutes(E) = SumFunctionOnSet(f, E)
    BY DEF SumMinutes, SumFunction
<1>2. \A x \in E : f[x] \in Int
    OBVIOUS
<1> HIDE DEF f
<1> QED
    BY <1>1, <1>2, SumInteger

\* The minutes of adjustments by their positions.
Values(q) == [i \in DOMAIN q |-> q[i].minutes]

LEMMA ValuesTyped ==
    ASSUME NEW q \in Seq(AdjustmentType), NEW I \in SUBSET DOMAIN q
    PROVE  /\ IsFiniteSet(I)
           /\ \A i \in I : Values(q)[i] \in Int
           /\ SumFunctionOnSet(Values(q), I) \in Int
<1>1. DOMAIN q = 1..Len(q) /\ Len(q) \in Nat
    OBVIOUS
<1>2. IsFiniteSet(1..Len(q))
  <2>1. \A a, b \in Int : IsFiniteSet(a..b)
      BY FS_Interval
  <2> QED
      BY <1>1, <2>1
<1>3. IsFiniteSet(I)
    BY <1>1, <1>2, FS_Subset
<1>4. \A i \in I : q[i] \in AdjustmentType
    OBVIOUS
<1>5. \A i \in I : Values(q)[i] \in Int
    BY <1>4 DEF Values, AdjustmentType
<1> QED
    BY <1>3, <1>5, SumInteger

\* A new adjustment leaves the sums of older ones alone and adds its minutes.
LEMMA AdjustmentAdds ==
    ASSUME NEW q \in Seq(AdjustmentType), NEW a \in AdjustmentType,
           NEW I \in SUBSET DOMAIN q
    PROVE  /\ SumFunctionOnSet(Values(Append(q, a)), I) = SumFunctionOnSet(Values(q), I)
           /\ SumFunctionOnSet(Values(Append(q, a)), I \cup {Len(q) + 1}) =
                  SumFunctionOnSet(Values(q), I) + a.minutes
<1> DEFINE r == Append(q, a)
           n == Len(q) + 1
<1>1. r \in Seq(AdjustmentType) /\ I \cup {n} \subseteq DOMAIN r /\ n \notin I
    OBVIOUS
<1>2. \A i \in I : r[i] = q[i] /\ i \in DOMAIN q /\ i \in DOMAIN r
    OBVIOUS
<1>3. r[n] = a /\ n \in DOMAIN r
    OBVIOUS
<1> HIDE DEF r, n
<1>4. \A i \in I : Values(r)[i] = Values(q)[i]
    BY <1>2 DEF Values
<1>5. Values(r)[n] = a.minutes /\ a.minutes \in Int
    BY <1>3 DEF Values, AdjustmentType
<1>6. IsFiniteSet(I) /\ \A i \in I : Values(r)[i] \in Int
    BY <1>1, ValuesTyped
<1>7. SumFunctionOnSet(Values(r), I) = SumFunctionOnSet(Values(q), I)
    BY <1>4, <1>6, SumEqual
<1>8. SumFunctionOnSet(Values(r), I \cup {n}) = SumFunctionOnSet(Values(r), I) + Values(r)[n]
    BY <1>1, <1>5, <1>6, SumAdd
<1> QED
    BY <1>5, <1>7, <1>8 DEF r, n

-----------------------------------------------------------------------------
(* What steps do to the books *)

LEMMA BooksInit == Init => Books
<1> SUFFICES ASSUME Init PROVE Books
    OBVIOUS
<1>1. /\ entries = {}
      /\ adjustments = [m \in Months |-> <<>>]
      /\ \A m \in Months : periods[m].status = "OPEN"
      /\ \A d \in Dates : projections[d].workedMinutes = 0
    BY DEF Init
<1>2. IsFiniteSet({})
    BY FS_EmptySet
<1>3. BooksTyped
    BY <1>1, <1>2 DEF BooksTyped
<1>4. ClosedMonths = {}
    BY <1>1 DEF ClosedMonths
<1>5. SnapshotsTyped /\ ClosedMonthsBooked
    BY <1>4 DEF SnapshotsTyped, ClosedMonthsBooked
<1>6. AdjustedAreLocked /\ ReversalsTakeBack /\ AdjustmentChain
    BY <1>1 DEF AdjustedAreLocked, ReversalsTakeBack, AdjustmentChain
<1>7. AdjustmentsTelescope
    BY <1>1 DEF AdjustmentsTelescope
<1>8. ProjectionsMatchLedger
  <2>1. SumMinutes({}) = 0
      BY SumEmpty DEF SumMinutes, SumFunction
  <2>2. \A d \in Dates :
           {e \in entries : e.localDate = d /\ e.entryType = "DAILY_RECALCULATION_DELTA"} = {}
      BY <1>1
  <2> QED
      BY <1>1, <2>1, <2>2 DEF ProjectionsMatchLedger, LedgerReconciled, DatesOf
<1> QED
    BY <1>3, <1>5, <1>6, <1>7, <1>8 DEF Books

\* AdjustmentChain is a statement about every single adjustment.
LEMMA ChainIsLinked ==
    /\ AdjustmentChain <=> \A m \in Months : \A i \in DOMAIN adjustments[m] :
                               Linked(adjustments[m], Last(snapshots[m]).rows, i)
    /\ AdjustmentChain' <=> \A m \in Months : \A i \in DOMAIN adjustments'[m] :
                                Linked(adjustments'[m], Last(snapshots'[m]).rows, i)
    BY DEF AdjustmentChain, Linked

\* A step that leaves the books alone keeps what is known of them.
LEMMA BooksUnchanged == Books /\ UNCHANGED books => Books'
<1> SUFFICES ASSUME Books, UNCHANGED books PROVE Books'
    OBVIOUS
<1> USE DEF books
<1>1. BooksTyped' /\ SnapshotsTyped' /\ AdjustedAreLocked'
    BY DEF Books, BooksTyped, SnapshotsTyped, ClosedMonths, AdjustedAreLocked
<1>2. ProjectionsMatchLedger'
    BY DEF Books, ProjectionsMatchLedger, LedgerReconciled
<1>3. ClosedMonthsBooked'
    BY DEF Books, ClosedMonthsBooked, ClosedMonths, AllAdjustments, SumAdjustments, EntriesOf
<1>4. AdjustmentsTelescope'
  <2>1. \A m, d : AdjustmentsOf(m, d)' = AdjustmentsOf(m, d)
      BY DEF AdjustmentsOf
  <2>2. \A m, I : SumAdjustments(m, I)' = SumAdjustments(m, I)
      BY DEF SumAdjustments
  <2> QED
      BY <2>1, <2>2 DEF Books, AdjustmentsTelescope, AdjustedWorkedMinutes, StandsAt
<1>5. ReversalsTakeBack'
    BY DEF Books, ReversalsTakeBack
<1>6. AdjustmentChain'
    BY ChainIsLinked DEF Books
<1> QED
    BY <1>1, <1>2, <1>3, <1>4, <1>5, <1>6 DEF Books

\* Sums of adjustments are sums of their values.
LEMMA SumAdjustmentsValues ==
    ASSUME NEW m
    PROVE  /\ \A I : SumAdjustments(m, I) = SumFunctionOnSet(Values(adjustments[m]), I)
           /\ AllAdjustments(m) = SumFunctionOnSet(Values(adjustments[m]), DOMAIN adjustments[m])
    BY DEF SumAdjustments, AllAdjustments, Values

\* What has no adjustment is not changed by adjustments.
LEMMA Unadjusted ==
    ASSUME NEW m, adjustments[m] = <<>>
    PROVE  /\ AllAdjustments(m) = 0
           /\ \A d : AdjustmentsOf(m, d) = {} /\ SumAdjustments(m, AdjustmentsOf(m, d)) = 0
<1>1. DOMAIN adjustments[m] = {}
    OBVIOUS
<1>2. \A d : AdjustmentsOf(m, d) = {}
    BY <1>1 DEF AdjustmentsOf
<1> QED
    BY <1>1, <1>2, SumAdjustmentsValues, SumEmpty

\* The entries of a month add up to an integer.
LEMMA EntriesTyped ==
    ASSUME BooksTyped, NEW E \in SUBSET entries
    PROVE  IsFiniteSet(E) /\ (\A e \in E : e.minutes \in Int) /\ SumMinutes(E) \in Int
<1>1. IsFiniteSet(E)
    BY FS_Subset DEF BooksTyped
<1>2. \A e \in E : e.minutes \in Int
    BY DEF BooksTyped, EntryType
<1> QED
    BY <1>1, <1>2, SumMinutesInteger

\* What approval and lock leave of the month they close.
LEMMA CommitCloses ==
    ASSUME Typed, Books, NEW u \in Users, Commit(u),
           commands[u].action \in {"APPROVE", "LOCK"}
    PROVE  LET m == seen[u].month
           IN  /\ Last(snapshots'[m]).ledgerPeriodDelta = SumMinutes(EntriesOf(m))
               /\ Last(snapshots'[m]).ledgerPeriodDelta \in Int
               /\ Last(snapshots'[m]).rows \in [DatesOf(m) -> Nat]
<1> DEFINE m == seen[u].month
           action == commands[u].action
           new == ApprovalSnapshot(m, Source(m, commands[u].hidden))
<1>1. m \in Months /\ periods[m].status \in AllowedFrom[action]
    BY CommitFacts
<1>2. snapshots' = IF action = "APPROVE"
                   THEN [snapshots EXCEPT ![m] = Append(@, new)] ELSE snapshots
    BY DEF Commit
<1>3. SumMinutes(EntriesOf(m)) \in Int
    BY EntriesTyped DEF Books, EntriesOf
<1>4. CASE action = "APPROVE"
  <2>1. PICK S : snapshots \in [Months -> Seq(S)]
      BY DEF Typed, Tables
  <2>2. snapshots[m] \in Seq(S) /\ snapshots'[m] = Append(snapshots[m], new)
      BY <1>1, <1>2, <1>4, <2>1
  <2>3. new.ledgerPeriodDelta = SumMinutes(EntriesOf(m))
      BY DEF ApprovalSnapshot, EntriesOf
  <2>4. new.rows \in [DatesOf(m) -> Nat]
      BY DEF ApprovalSnapshot, Typed, TypeOK, DatesOf
  <2> HIDE DEF new
  <2>5. Last(snapshots'[m]) = new
      BY <2>2, AppendAny DEF Last
  <2> QED
      BY <1>3, <2>3, <2>4, <2>5
<1>5. CASE action = "LOCK"
  <2>1. snapshots'[m] = snapshots[m]
      BY <1>2, <1>5
  <2>2. periods[m].status = "APPROVED"
      BY <1>1, <1>5 DEF AllowedFrom
  <2>3. m \in ClosedMonths /\ adjustments[m] = <<>>
      BY <1>1, <2>2 DEF ClosedMonths, Books, AdjustedAreLocked
  <2>4. Last(snapshots[m]).ledgerPeriodDelta + 0 = SumMinutes(EntriesOf(m))
      BY <2>3, Unadjusted DEF Books, ClosedMonthsBooked
  <2>5. /\ Last(snapshots[m]).ledgerPeriodDelta \in Int
        /\ Last(snapshots[m]).rows \in [DatesOf(m) -> Nat]
      BY <2>3 DEF Books, SnapshotsTyped
  <2> QED
      BY <2>1, <2>4, <2>5
<1> QED
    BY <1>4, <1>5

LEMMA CommitKeepsBooks ==
    ASSUME Typed, Books, NEW u \in Users, Commit(u)
    PROVE  Books'
<1> DEFINE m == seen[u].month
           action == commands[u].action
<1>1. /\ m \in Months
      /\ action \in {"SUBMIT", "REQUEST_CHANGES", "APPROVE", "LOCK"}
      /\ periods[m].status \in AllowedFrom[action]
      /\ periods'[m].status = NextStatus[action]
      /\ \A n \in Months \ {m} : periods'[n] = periods[n]
    BY CommitFacts
<1>2. UNCHANGED <<projections, applied, entries, adjustments>>
    BY DEF Commit
<1>3. adjustments[m] = <<>>
    BY <1>1 DEF AllowedFrom, OpenStatuses, Books, AdjustedAreLocked
<1>4. \A n \in Months \ {m} : snapshots'[n] = snapshots[n]
  <2>1. \E new : \/ snapshots' = snapshots
                 \/ snapshots' = [snapshots EXCEPT ![m] = Append(@, new)]
      BY DEF Commit
  <2>2. DOMAIN snapshots = Months
      BY DEF Typed, Tables
  <2> QED
      BY <2>1, <2>2
<1>5. periods'[m].status \in {"APPROVED", "LOCKED"} =>
          /\ Last(snapshots'[m]).ledgerPeriodDelta = SumMinutes(EntriesOf(m))
          /\ Last(snapshots'[m]).ledgerPeriodDelta \in Int
          /\ Last(snapshots'[m]).rows \in [DatesOf(m) -> Nat]
  <2> SUFFICES ASSUME periods'[m].status \in {"APPROVED", "LOCKED"}
               PROVE  action \in {"APPROVE", "LOCK"}
      BY CommitCloses
  <2> QED
      BY <1>1 DEF NextStatus
<1> HIDE DEF m, action
<1>6. BooksTyped' /\ ProjectionsMatchLedger' /\ ReversalsTakeBack'
    BY <1>2 DEF Books, BooksTyped, ProjectionsMatchLedger, LedgerReconciled, ReversalsTakeBack
<1>7. SnapshotsTyped'
    BY <1>1, <1>4, <1>5 DEF Books, SnapshotsTyped, ClosedMonths
<1>8. AdjustedAreLocked'
    BY <1>1, <1>2, <1>3 DEF Books, AdjustedAreLocked
<1>9. ClosedMonthsBooked'
  <2> SUFFICES ASSUME NEW n \in Months, periods'[n].status \in {"APPROVED", "LOCKED"}
               PROVE  Last(snapshots'[n]).ledgerPeriodDelta + AllAdjustments(n)
                          = SumMinutes(EntriesOf(n))
      BY <1>2 DEF ClosedMonthsBooked, ClosedMonths, AllAdjustments, SumAdjustments, EntriesOf
  <2>1. CASE n = m
      BY <1>3, <1>5, <2>1, Unadjusted
  <2>2. CASE n # m
      BY <1>1, <1>4, <2>2 DEF Books, ClosedMonthsBooked, ClosedMonths
  <2> QED
      BY <2>1, <2>2
<1>10. AdjustmentsTelescope'
  <2> SUFFICES ASSUME NEW n \in Months, periods'[n].status = "LOCKED", NEW d \in DatesOf(n)
               PROVE  Last(snapshots'[n]).rows[d] + SumAdjustments(n, AdjustmentsOf(n, d)) =
                          IF AdjustmentsOf(n, d) = {} THEN Last(snapshots'[n]).rows[d]
                          ELSE adjustments[n][Max(AdjustmentsOf(n, d))].proposedWorkedMinutes
    <3>1. ASSUME NEW CONSTANT n, NEW CONSTANT d PROVE AdjustmentsOf(n, d)' = AdjustmentsOf(n, d)
        BY <1>2 DEF AdjustmentsOf
    <3>2. ASSUME NEW CONSTANT n, NEW CONSTANT d
          PROVE  SumAdjustments(n, AdjustmentsOf(n, d))' = SumAdjustments(n, AdjustmentsOf(n, d))
        BY <1>2, <3>1 DEF SumAdjustments
    <3> QED
        BY <1>2, <3>1, <3>2 DEF AdjustmentsTelescope, AdjustedWorkedMinutes, StandsAt
  <2>1. CASE n = m
    <3>1. Last(snapshots'[m]).rows[d] \in Nat
        BY <1>5, <2>1
    <3> QED
        BY <1>3, <2>1, <3>1, Unadjusted
  <2>2. CASE n # m
      BY <1>1, <1>4, <2>2 DEF Books, AdjustmentsTelescope, AdjustedWorkedMinutes, StandsAt
  <2> QED
      BY <2>1, <2>2
<1>11. AdjustmentChain'
  <2>1. \A n \in Months : adjustments[n] # <<>> => snapshots'[n] = snapshots[n]
      BY <1>3, <1>4
  <2>2. \A n \in Months : DOMAIN adjustments[n] # {} => adjustments[n] # <<>>
      OBVIOUS
  <2>3. \A n \in Months : \A i \in DOMAIN adjustments[n] : snapshots'[n] = snapshots[n]
      BY <2>1, <2>2
  <2> QED
      BY <1>2, <2>3, ChainIsLinked DEF Books
<1> QED
    BY <1>6, <1>7, <1>8, <1>9, <1>10, <1>11 DEF Books

\* The entries that daily recalculations posted for a date.
DailyOf(d) == {e \in entries : e.localDate = d /\ e.entryType = "DAILY_RECALCULATION_DELTA"}

\* Posting for a request that was not applied before adds its minutes to its
\* month, and to its date if it recalculates the day.
LEMMA Posted ==
    ASSUME BooksTyped, NEW c \in Corrections, c \notin applied, applied' = applied \cup {c},
           requests[c].localDate \in Dates, NEW minutes \in Int,
           NEW type \in {"DAILY_RECALCULATION_DELTA", "POST_LOCK_ADJUSTMENT"},
           Post(c, minutes, type)
    PROVE  LET d == requests[c].localDate
           IN  /\ IsFiniteSet(entries')
               /\ entries' \subseteq EntryType
               /\ \A e \in entries' : e.source \in applied'
               /\ \A m : SumMinutes(EntriesOf(m)') =
                             SumMinutes(EntriesOf(m)) + IF MonthOf[d] = m THEN minutes ELSE 0
               /\ \A x : SumMinutes(DailyOf(x)') =
                             SumMinutes(DailyOf(x)) +
                                 IF x = d /\ type = "DAILY_RECALCULATION_DELTA" THEN minutes ELSE 0
<1> DEFINE d == requests[c].localDate
           row == [source |-> c, minutes |-> minutes, entryType |-> type, localDate |-> d]
<1>1. \A m : SumMinutes(EntriesOf(m)) \in Int
    BY EntriesTyped DEF EntriesOf
<1>2. \A x : SumMinutes(DailyOf(x)) \in Int
    BY EntriesTyped DEF DailyOf
<1>3. CASE minutes = 0
  <2>1. entries' = entries
      BY <1>3 DEF Post
  <2>2. \A m : EntriesOf(m)' = EntriesOf(m)
      BY <2>1 DEF EntriesOf
  <2>3. \A x : DailyOf(x)' = DailyOf(x)
      BY <2>1 DEF DailyOf
  <2> QED
      BY <1>1, <1>2, <1>3, <2>1, <2>2, <2>3 DEF BooksTyped
<1>4. CASE minutes # 0
  <2>1. entries' = entries \cup {row}
      BY <1>4 DEF Post
  <2>2. row.source = c /\ row.minutes = minutes /\ row.entryType = type /\ row.localDate = d
      OBVIOUS
  <2>3. row \in EntryType
      BY DEF EntryType
  <2> HIDE DEF row
  <2>4. row \notin entries
      BY <2>2 DEF BooksTyped
  <2>5. IsFiniteSet(entries')
      BY <2>1, FS_AddElement DEF BooksTyped
  <2>6. \A e \in entries' : e.source \in applied'
      BY <2>1, <2>2 DEF BooksTyped
  <2>7. entries' \subseteq EntryType
      BY <2>1, <2>3 DEF BooksTyped
  <2>8. \A E \in SUBSET entries : SumMinutes(E \cup {row}) = SumMinutes(E) + minutes
      BY <2>2, <2>4, EntriesTyped, SumMinutesAdd
  <2>9. ASSUME NEW m
        PROVE  SumMinutes(EntriesOf(m)') =
                   SumMinutes(EntriesOf(m)) + IF MonthOf[d] = m THEN minutes ELSE 0
    <3>1. EntriesOf(m) \in SUBSET entries
        BY DEF EntriesOf
    <3>2. EntriesOf(m)' = IF MonthOf[d] = m THEN EntriesOf(m) \cup {row} ELSE EntriesOf(m)
        BY <2>1, <2>2 DEF EntriesOf
    <3> QED
        BY <1>1, <2>8, <3>1, <3>2
  <2>10. ASSUME NEW x
         PROVE  SumMinutes(DailyOf(x)') =
                    SumMinutes(DailyOf(x)) +
                        IF x = d /\ type = "DAILY_RECALCULATION_DELTA" THEN minutes ELSE 0
    <3>1. DailyOf(x) \in SUBSET entries
        BY DEF DailyOf
    <3>2. DailyOf(x)' = IF x = d /\ type = "DAILY_RECALCULATION_DELTA"
                        THEN DailyOf(x) \cup {row} ELSE DailyOf(x)
        BY <2>1, <2>2 DEF DailyOf
    <3> QED
        BY <1>2, <2>8, <3>1, <3>2
  <2> HIDE DEF d
  <2>11. /\ \A m : SumMinutes(EntriesOf(m)') =
                       SumMinutes(EntriesOf(m)) + IF MonthOf[d] = m THEN minutes ELSE 0
         /\ \A x : SumMinutes(DailyOf(x)') =
                       SumMinutes(DailyOf(x)) +
                           IF x = d /\ type = "DAILY_RECALCULATION_DELTA" THEN minutes ELSE 0
      BY <2>9, <2>10
  <2> QED
      BY <2>5, <2>6, <2>7, <2>11 DEF d
<1> QED
    BY <1>3, <1>4

\* The dates' balances are the sums of their daily entries.
LEMMA LedgerIsDaily ==
    /\ ProjectionsMatchLedger <=>
           \A d \in Dates : projections[d].workedMinutes = SumMinutes(DailyOf(d))
    /\ ProjectionsMatchLedger' <=>
           \A d \in Dates : projections'[d].workedMinutes = SumMinutes(DailyOf(d)')
    BY MonthsAssumption DEF ProjectionsMatchLedger, LedgerReconciled, DatesOf, DailyOf

\* An ordinary correction moves a date that no closed month has, and posts what
\* it moves it by.
LEMMA ApplyKeepsBooks ==
    ASSUME Typed, Inv, Books, NEW c \in Corrections, Apply(c)
    PROVE  Books'
<1> DEFINE d == requests[c].localDate
           delta == requests[c].workedMinutes - projections[d].workedMinutes
<1>1. /\ d \in Dates
      /\ requests[c].workedMinutes \in Nat
      /\ projections[d].workedMinutes \in Nat
      /\ projections \in [Dates -> [workedMinutes : Nat, projectionVersion : Nat \ {0}]]
    BY MonthsAssumption DEF Apply, Typed, TypeOK, RequestType
<1>2. MonthOf[d] \notin ClosedMonths
    BY DEF Inv, ClosedMonthsResolved, Unresolved, Apply, ClosedMonths
<1>3. /\ c \notin applied
      /\ applied' = applied \cup {c}
      /\ projections'[d].workedMinutes = requests[c].workedMinutes
      /\ \A x \in Dates \ {d} : projections'[x] = projections[x]
      /\ Post(c, delta, "DAILY_RECALCULATION_DELTA")
      /\ UNCHANGED <<periods, snapshots, adjustments>>
    BY <1>1 DEF Apply
<1>4. delta \in Int
    BY <1>1
<1> HIDE DEF delta
<1>5. /\ IsFiniteSet(entries')
      /\ entries' \subseteq EntryType
      /\ \A e \in entries' : e.source \in applied'
      /\ \A m : SumMinutes(EntriesOf(m)') =
                    SumMinutes(EntriesOf(m)) + IF MonthOf[d] = m THEN delta ELSE 0
      /\ \A x : SumMinutes(DailyOf(x)') = SumMinutes(DailyOf(x)) + IF x = d THEN delta ELSE 0
    BY <1>1, <1>3, <1>4, Posted DEF Books
<1> HIDE DEF d
<1>6. BooksTyped'
    BY <1>3, <1>5 DEF Books, BooksTyped
<1>7. SnapshotsTyped' /\ AdjustedAreLocked' /\ ReversalsTakeBack'
    BY <1>3 DEF Books, SnapshotsTyped, ClosedMonths, AdjustedAreLocked, ReversalsTakeBack
<1>8. ProjectionsMatchLedger'
  <2> SUFFICES ASSUME NEW x \in Dates
               PROVE  projections'[x].workedMinutes = SumMinutes(DailyOf(x)')
      BY LedgerIsDaily
  <2>1. projections[x].workedMinutes = SumMinutes(DailyOf(x))
      BY LedgerIsDaily DEF Books
  <2>2. projections[x].workedMinutes \in Nat
      BY <1>1
  <2> QED
      BY <1>1, <1>3, <1>5, <2>1, <2>2 DEF delta, d
<1>9. ClosedMonthsBooked'
  <2> SUFFICES ASSUME NEW m \in ClosedMonths
               PROVE  Last(snapshots[m]).ledgerPeriodDelta + AllAdjustments(m)
                          = SumMinutes(EntriesOf(m)')
      BY <1>3 DEF ClosedMonthsBooked, ClosedMonths, AllAdjustments, SumAdjustments
  <2>1. SumMinutes(EntriesOf(m)) \in Int
      BY EntriesTyped DEF Books, EntriesOf
  <2>2. SumMinutes(EntriesOf(m)') = SumMinutes(EntriesOf(m))
      BY <1>2, <1>5, <2>1
  <2> QED
      BY <2>2 DEF Books, ClosedMonthsBooked
<1>10. AdjustmentsTelescope'
  <2>1. \A m, x : AdjustmentsOf(m, x)' = AdjustmentsOf(m, x)
      BY <1>3 DEF AdjustmentsOf
  <2>2. \A m, I : SumAdjustments(m, I)' = SumAdjustments(m, I)
      BY <1>3 DEF SumAdjustments
  <2> QED
      BY <1>3, <2>1, <2>2 DEF Books, AdjustmentsTelescope, AdjustedWorkedMinutes, StandsAt
<1>11. AdjustmentChain'
    BY <1>3, ChainIsLinked DEF Books
<1> QED
    BY <1>6, <1>7, <1>8, <1>9, <1>10, <1>11 DEF Books

\* The adjustments of the same date before an adjustment.
Before(q, i) == {j \in 1..(i - 1) : q[j].localDate = q[i].localDate}

LEMMA LinkedBefore ==
    ASSUME NEW q, NEW rows, NEW i
    PROVE  Linked(q, rows, i) <=>
               /\ q[i].previousAdjustedWorkedMinutes =
                      IF Before(q, i) = {} THEN rows[q[i].localDate]
                      ELSE q[Max(Before(q, i))].proposedWorkedMinutes
               /\ q[i].reversesAdjustment # None =>
                      /\ q[i].reversesAdjustment \in Before(q, i)
                      /\ q[q[i].reversesAdjustment].previousAdjustedWorkedMinutes =
                             q[i].proposedWorkedMinutes
                      /\ \A j \in Before(q, i) :
                            q[j].reversesAdjustment # q[i].reversesAdjustment
    BY DEF Linked, Before

\* A history goes on with an adjustment that starts where it stands and reverses
\* nothing twice.
LEMMA LinkedAppend ==
    ASSUME NEW q \in Seq(AdjustmentType), NEW a \in AdjustmentType, NEW rows,
           \A i \in DOMAIN q : Linked(q, rows, i),
           NEW I, I = {i \in DOMAIN q : q[i].localDate = a.localDate},
           a.previousAdjustedWorkedMinutes =
               IF I = {} THEN rows[a.localDate] ELSE q[Max(I)].proposedWorkedMinutes,
           a.reversesAdjustment # None =>
               /\ a.reversesAdjustment \in I
               /\ q[a.reversesAdjustment].previousAdjustedWorkedMinutes = a.proposedWorkedMinutes
               /\ \A j \in I : q[j].reversesAdjustment # a.reversesAdjustment
    PROVE  \A i \in DOMAIN Append(q, a) : Linked(Append(q, a), rows, i)
<1> DEFINE r == Append(q, a)
           n == Len(q) + 1
<1>1. /\ DOMAIN q = 1..Len(q) /\ Len(q) \in Nat
      /\ DOMAIN r = DOMAIN q \cup {n}
      /\ \A i \in DOMAIN q : r[i] = q[i]
      /\ r[n] = a
    OBVIOUS
<1> HIDE DEF r
<1>2. ASSUME NEW i \in DOMAIN q PROVE Linked(r, rows, i)
  <2>1. \A j \in 1..(i - 1) : j \in DOMAIN q
      BY <1>1
  <2>2. Before(r, i) = Before(q, i)
      BY <1>1, <2>1 DEF Before
  <2>3. Before(q, i) \in SUBSET (1..(i - 1)) /\ i - 1 \in Nat
      BY <1>1 DEF Before
  <2>4. Before(q, i) # {} => Max(Before(q, i)) \in DOMAIN q
      BY <2>1, <2>3, LastPosition
  <2>5. \A j \in Before(q, i) : r[j] = q[j]
      BY <1>1, <2>1, <2>3
  <2>6. Before(q, i) # {} => r[Max(Before(q, i))] = q[Max(Before(q, i))]
      BY <1>1, <2>4
  <2>7. r[i] = q[i]
      BY <1>1
  <2>8. Linked(q, rows, i)
      OBVIOUS
  <2>9. q[i].reversesAdjustment \in Before(q, i) =>
            r[q[i].reversesAdjustment] = q[q[i].reversesAdjustment]
      BY <2>5
  <2> DEFINE b == Before(q, i)
  <2>10. /\ q[i].previousAdjustedWorkedMinutes =
                IF b = {} THEN rows[q[i].localDate] ELSE q[Max(b)].proposedWorkedMinutes
         /\ q[i].reversesAdjustment # None =>
                /\ q[i].reversesAdjustment \in b
                /\ q[q[i].reversesAdjustment].previousAdjustedWorkedMinutes =
                       q[i].proposedWorkedMinutes
                /\ \A j \in b : q[j].reversesAdjustment # q[i].reversesAdjustment
      BY <2>8, LinkedBefore
  <2>11. Linked(r, rows, i) <=>
             /\ r[i].previousAdjustedWorkedMinutes =
                    IF b = {} THEN rows[r[i].localDate] ELSE r[Max(b)].proposedWorkedMinutes
             /\ r[i].reversesAdjustment # None =>
                    /\ r[i].reversesAdjustment \in b
                    /\ r[r[i].reversesAdjustment].previousAdjustedWorkedMinutes =
                           r[i].proposedWorkedMinutes
                    /\ \A j \in b : r[j].reversesAdjustment # r[i].reversesAdjustment
      BY <2>2, LinkedBefore
  <2> HIDE DEF b
  <2> QED
      BY <2>5, <2>6, <2>7, <2>9, <2>10, <2>11 DEF b
<1>3. Linked(r, rows, n)
  <2>1. Before(r, n) = I
    <3>1. n - 1 = Len(q)
        BY <1>1
    <3> QED
        BY <1>1, <3>1 DEF Before
  <2>2. I \in SUBSET (1..Len(q))
      BY <1>1
  <2>3. I # {} => Max(I) \in DOMAIN q
      BY <1>1, <2>2, LastPosition
  <2>4. I # {} => r[Max(I)] = q[Max(I)]
      BY <1>1, <2>3
  <2>5. \A j \in I : r[j] = q[j]
      BY <1>1
  <2>6. Linked(r, rows, n) <=>
            /\ r[n].previousAdjustedWorkedMinutes =
                   IF I = {} THEN rows[r[n].localDate] ELSE r[Max(I)].proposedWorkedMinutes
            /\ r[n].reversesAdjustment # None =>
                   /\ r[n].reversesAdjustment \in I
                   /\ r[r[n].reversesAdjustment].previousAdjustedWorkedMinutes =
                          r[n].proposedWorkedMinutes
                   /\ \A j \in I : r[j].reversesAdjustment # r[n].reversesAdjustment
      BY <2>1, LinkedBefore
  <2> QED
      BY <1>1, <2>4, <2>5, <2>6
<1> QED
    BY <1>1, <1>2, <1>3 DEF r

\* An adjustment is found to be reversed only by what takes it back exactly, and
\* only if it is not reversed already: it is the latest that changed anything,
\* and what reverses it came later and changed something too.
LEMMA ReversesLatest ==
    ASSUME Books, NEW m \in Months, NEW d, NEW delta, NEW proposed, NEW r,
           r = ReversedAdjustment(m, d, delta, proposed), r # None
    PROVE  /\ r \in AdjustmentsOf(m, d)
           /\ adjustments[m][r].minutes # 0
           /\ delta = -adjustments[m][r].minutes
           /\ proposed = adjustments[m][r].previousAdjustedWorkedMinutes
           /\ \A j \in AdjustmentsOf(m, d) : adjustments[m][j].reversesAdjustment # r
<1> DEFINE q == adjustments[m]
           changing == {i \in AdjustmentsOf(m, d) : q[i].minutes # 0}
<1>1. /\ changing # {}
      /\ r = Max(changing)
      /\ delta = -q[r].minutes
      /\ proposed = q[r].previousAdjustedWorkedMinutes
    BY DEF ReversedAdjustment
<1>2. q \in Seq(AdjustmentType) /\ DOMAIN q = 1..Len(q) /\ Len(q) \in Nat
    BY DEF Books, BooksTyped
<1>3. changing \in SUBSET (1..Len(q))
    BY <1>2 DEF AdjustmentsOf
<1>4. r \in changing /\ \A j \in changing : j <= r
    BY <1>1, <1>2, <1>3, LastPosition
<1>5. ASSUME NEW j \in AdjustmentsOf(m, d), q[j].reversesAdjustment = r PROVE FALSE
  <2>1. j \in DOMAIN q /\ j \in 1..Len(q)
      BY <1>2 DEF AdjustmentsOf
  <2>2. q[j].minutes = -q[r].minutes /\ q[r].minutes # 0
      BY <1>5, <2>1 DEF Books, ReversalsTakeBack
  <2>3. q[j] \in AdjustmentType /\ q[r] \in AdjustmentType
      BY <1>2, <1>3, <1>4, <2>1
  <2>4. q[j].minutes # 0
      BY <2>2, <2>3 DEF AdjustmentType
  <2>5. j <= r
      BY <1>4, <2>4
  <2>6. Linked(q, Last(snapshots[m]).rows, j)
      BY <2>1, ChainIsLinked DEF Books
  <2>7. r \in Before(q, j)
      BY <1>5, <2>6, LinkedBefore
  <2>8. r \in 1..(j - 1)
      BY <2>7 DEF Before
  <2>9. j \in Nat /\ r \in Nat
      BY <1>2, <1>3, <1>4, <2>1
  <2> HIDE DEF q
  <2> QED
      BY <2>5, <2>8, <2>9
<1> QED
    BY <1>1, <1>4, <1>5

\* What an adjustment adds to the books of its locked month.
LEMMA AdjustFacts ==
    ASSUME Typed, Inv, Books, NEW c \in Corrections, requests[c] # None,
           requests[c].lockedMonthlySnapshot # None, Adjust(c)
    PROVE  LET d == requests[c].localDate
               m == MonthOf[d]
               q == adjustments[m]
               I == AdjustmentsOf(m, d)
           IN  /\ d \in Dates /\ m \in Months /\ periods[m].status = "LOCKED"
               /\ q \in Seq(AdjustmentType)
               /\ \E a \in AdjustmentType :
                     /\ adjustments' = [adjustments EXCEPT ![m] = Append(q, a)]
                     /\ a.localDate = d
                     /\ a.previousAdjustedWorkedMinutes = StandsAt(m, d)
                     /\ a.proposedWorkedMinutes = a.previousAdjustedWorkedMinutes + a.minutes
                     /\ a.reversesAdjustment # None =>
                           /\ a.reversesAdjustment \in I
                           /\ q[a.reversesAdjustment].minutes # 0
                           /\ a.minutes = -q[a.reversesAdjustment].minutes
                           /\ q[a.reversesAdjustment].previousAdjustedWorkedMinutes =
                                  a.proposedWorkedMinutes
                           /\ \A j \in I : q[j].reversesAdjustment # a.reversesAdjustment
                     /\ Post(c, a.minutes, "POST_LOCK_ADJUSTMENT")
<1> DEFINE d == requests[c].localDate
           m == MonthOf[d]
           q == adjustments[m]
           proposed == requests[c].workedMinutes
           previous == AdjustedWorkedMinutes(m, d)
           delta == proposed - previous
           reversed == ReversedAdjustment(m, d, delta, proposed)
           a == [correctionRequest |-> c, localDate |-> d, minutes |-> delta,
                 previousAdjustedWorkedMinutes |-> previous,
                 proposedWorkedMinutes |-> proposed,
                 reversesAdjustment |-> reversed]
<1>1. d \in Dates /\ m \in Months /\ proposed \in Nat
    BY MonthsAssumption DEF Typed, TypeOK, RequestType
<1>2. /\ periods[m].status = "LOCKED"
      /\ adjustments' = [adjustments EXCEPT ![m] = Append(q, a)]
      /\ Post(c, delta, "POST_LOCK_ADJUSTMENT")
    BY DEF Adjust
<1>3. m \in ClosedMonths /\ d \in DatesOf(m)
    BY <1>1, <1>2 DEF ClosedMonths, DatesOf
<1>4. previous = StandsAt(m, d)
    BY <1>1, <1>2, <1>3 DEF Books, AdjustmentsTelescope
<1>5. q \in Seq(AdjustmentType)
    BY <1>1 DEF Books, BooksTyped
<1>6. previous \in Int
  <2>1. Last(snapshots[m]).rows[d] \in Nat
      BY <1>3 DEF Books, SnapshotsTyped
  <2>2. AdjustmentsOf(m, d) \in SUBSET DOMAIN q
      BY DEF AdjustmentsOf
  <2>3. SumFunctionOnSet(Values(q), AdjustmentsOf(m, d)) \in Int
      BY <1>5, <2>2, ValuesTyped
  <2>4. SumAdjustments(m, AdjustmentsOf(m, d)) \in Int
      BY <2>3, SumAdjustmentsValues
  <2> QED
      BY <2>1, <2>4 DEF AdjustedWorkedMinutes
<1>7. delta \in Int /\ proposed = previous + delta
    BY <1>1, <1>6
<1> HIDE DEF delta, previous
<1>8. reversed # None =>
          /\ reversed \in AdjustmentsOf(m, d)
          /\ q[reversed].minutes # 0
          /\ delta = -q[reversed].minutes
          /\ proposed = q[reversed].previousAdjustedWorkedMinutes
          /\ \A j \in AdjustmentsOf(m, d) : q[j].reversesAdjustment # reversed
    BY <1>1, ReversesLatest
<1>9. reversed \in Nat \cup {None}
    BY <1>5, <1>8 DEF AdjustmentsOf
<1> HIDE DEF reversed, proposed
<1>10. /\ a.correctionRequest = c /\ a.localDate = d /\ a.minutes = delta
       /\ a.previousAdjustedWorkedMinutes = previous
       /\ a.proposedWorkedMinutes = proposed
       /\ a.reversesAdjustment = reversed
    OBVIOUS
<1>11. a \in AdjustmentType
    BY <1>1, <1>6, <1>7, <1>9 DEF AdjustmentType
<1> HIDE DEF a
<1> QED
    BY <1>1, <1>2, <1>4, <1>5, <1>7, <1>8, <1>10, <1>11

\* The rows after a new adjustment.
LEMMA AppendAdjustment ==
    ASSUME NEW q \in Seq(AdjustmentType), NEW a \in AdjustmentType
    PROVE  /\ Append(q, a) \in Seq(AdjustmentType)
           /\ Append(q, a) # <<>>
           /\ DOMAIN q = 1..Len(q) /\ Len(q) \in Nat /\ Len(q) + 1 \in Nat
           /\ DOMAIN Append(q, a) = DOMAIN q \cup {Len(q) + 1} /\ Len(q) + 1 \notin DOMAIN q
           /\ Append(q, a)[Len(q) + 1] = a
           /\ \A i \in DOMAIN q : Append(q, a)[i] = q[i]
<1>1. /\ Append(q, a) \in Seq(AdjustmentType) /\ Len(Append(q, a)) = Len(q) + 1
      /\ DOMAIN q = 1..Len(q) /\ Len(q) \in Nat
      /\ Append(q, a)[Len(q) + 1] = a
      /\ \A i \in DOMAIN q : Append(q, a)[i] = q[i]
    OBVIOUS
<1>2. DOMAIN Append(q, a) = DOMAIN q \cup {Len(q) + 1}
    OBVIOUS
<1> QED
    BY <1>1, <1>2

\* An adjustment of a locked date goes on from where the date stands, and the
\* ledger is told what it adds.
LEMMA AdjustKeepsBooks ==
    ASSUME Typed, Inv, Books, NEW c \in Corrections, requests[c] # None,
           requests[c].lockedMonthlySnapshot # None, Adjust(c), UNCHANGED <<periods, snapshots>>
    PROVE  Books'
<1> DEFINE d == requests[c].localDate
           m == MonthOf[d]
           q == adjustments[m]
           I == AdjustmentsOf(m, d)
           n == Len(q) + 1
           rows == Last(snapshots[m]).rows
<1>1. /\ d \in Dates /\ m \in Months /\ periods[m].status = "LOCKED"
      /\ q \in Seq(AdjustmentType)
    BY AdjustFacts
<1>2. PICK a \in AdjustmentType :
         /\ adjustments' = [adjustments EXCEPT ![m] = Append(q, a)]
         /\ a.localDate = d
         /\ a.previousAdjustedWorkedMinutes = StandsAt(m, d)
         /\ a.proposedWorkedMinutes = a.previousAdjustedWorkedMinutes + a.minutes
         /\ a.reversesAdjustment # None =>
               /\ a.reversesAdjustment \in I
               /\ q[a.reversesAdjustment].minutes # 0
               /\ a.minutes = -q[a.reversesAdjustment].minutes
               /\ q[a.reversesAdjustment].previousAdjustedWorkedMinutes = a.proposedWorkedMinutes
               /\ \A j \in I : q[j].reversesAdjustment # a.reversesAdjustment
         /\ Post(c, a.minutes, "POST_LOCK_ADJUSTMENT")
    BY AdjustFacts
<1>3. c \notin applied /\ applied' = applied \cup {c} /\ UNCHANGED projections
    BY DEF Adjust
<1>4. /\ a.minutes \in Int /\ a.previousAdjustedWorkedMinutes \in Int
      /\ a.reversesAdjustment \in Nat \cup {None}
    BY DEF AdjustmentType
<1>5. /\ IsFiniteSet(entries')
      /\ entries' \subseteq EntryType
      /\ \A e \in entries' : e.source \in applied'
      /\ \A x : SumMinutes(EntriesOf(x)') =
                    SumMinutes(EntriesOf(x)) + IF m = x THEN a.minutes ELSE 0
      /\ \A x : SumMinutes(DailyOf(x)') = SumMinutes(DailyOf(x)) + 0
    BY <1>1, <1>2, <1>3, <1>4, Posted DEF Books
<1>6. adjustments \in [Months -> Seq(AdjustmentType)]
    BY DEF Books, BooksTyped
<1>7. /\ adjustments'[m] = Append(q, a)
      /\ \A x \in Months \ {m} : adjustments'[x] = adjustments[x]
    BY <1>1, <1>2, <1>6
<1>8. /\ Append(q, a) \in Seq(AdjustmentType)
      /\ Append(q, a) # <<>>
      /\ DOMAIN q = 1..Len(q) /\ Len(q) \in Nat /\ n \in Nat
      /\ DOMAIN Append(q, a) = DOMAIN q \cup {n} /\ n \notin DOMAIN q
      /\ Append(q, a)[n] = a
      /\ \A i \in DOMAIN q : Append(q, a)[i] = q[i]
    BY <1>1, AppendAdjustment
<1> HIDE DEF m, q, n, rows
<1> HIDE DEF d
<1>9. BooksTyped'
  <2>1. adjustments' \in [Months -> Seq(AdjustmentType)]
      BY <1>1, <1>2, <1>6, <1>8
  <2> QED
      BY <1>3, <1>5, <2>1 DEF BooksTyped
<1>10. SnapshotsTyped'
    BY DEF Books, SnapshotsTyped, ClosedMonths
<1>11. AdjustedAreLocked'
  <2>1. \A i \in DOMAIN q : MonthOf[q[i].localDate] = m
      BY <1>1 DEF Books, AdjustedAreLocked, q
  <2>2. MonthOf[a.localDate] = m
      BY <1>2 DEF m
  <2> QED
      BY <1>1, <1>7, <1>8, <2>1, <2>2 DEF Books, AdjustedAreLocked
<1>12. ProjectionsMatchLedger'
  <2>1. \A x : SumMinutes(DailyOf(x)) \in Int
      BY EntriesTyped DEF Books, DailyOf
  <2> QED
      BY <1>3, <1>5, <2>1, LedgerIsDaily DEF Books
<1>13. ClosedMonthsBooked'
  <2> SUFFICES ASSUME NEW x \in ClosedMonths
               PROVE  Last(snapshots[x]).ledgerPeriodDelta + AllAdjustments(x)'
                          = SumMinutes(EntriesOf(x)')
      BY DEF ClosedMonthsBooked, ClosedMonths
  <2>1. /\ SumMinutes(EntriesOf(x)) \in Int
        /\ Last(snapshots[x]).ledgerPeriodDelta \in Int
        /\ Last(snapshots[x]).ledgerPeriodDelta + AllAdjustments(x) = SumMinutes(EntriesOf(x))
      BY EntriesTyped DEF Books, EntriesOf, SnapshotsTyped, ClosedMonthsBooked
  <2>2. /\ AllAdjustments(x) = SumFunctionOnSet(Values(adjustments[x]), DOMAIN adjustments[x])
        /\ AllAdjustments(x)' = SumFunctionOnSet(Values(adjustments'[x]), DOMAIN adjustments'[x])
      BY DEF AllAdjustments, SumAdjustments, Values
  <2>3. CASE x = m
    <3>1. SumFunctionOnSet(Values(Append(q, a)), DOMAIN q \cup {n}) =
              SumFunctionOnSet(Values(q), DOMAIN q) + a.minutes
        BY <1>1, AdjustmentAdds DEF n
    <3>2. adjustments[x] = q /\ adjustments'[x] = Append(q, a)
        BY <1>7, <2>3 DEF q
    <3>3. SumFunctionOnSet(Values(q), DOMAIN q) \in Int
        BY <1>1, ValuesTyped
    <3>4. AllAdjustments(x) \in Int /\ AllAdjustments(x)' = AllAdjustments(x) + a.minutes
        BY <1>8, <2>2, <3>1, <3>2, <3>3
    <3>5. SumMinutes(EntriesOf(x)') = SumMinutes(EntriesOf(x)) + a.minutes
        BY <1>5, <2>3
    <3> QED
        BY <1>4, <2>1, <3>4, <3>5
  <2>4. CASE x # m
    <3>1. adjustments'[x] = adjustments[x]
        BY <1>7, <2>4 DEF ClosedMonths
    <3> QED
        BY <1>5, <2>1, <2>2, <2>4, <3>1
  <2> QED
      BY <2>3, <2>4
<1>14. AdjustmentsTelescope'
  <2> SUFFICES ASSUME NEW x \in Months, periods[x].status = "LOCKED", NEW y \in DatesOf(x)
               PROVE  AdjustedWorkedMinutes(x, y)' = StandsAt(x, y)'
      BY DEF AdjustmentsTelescope, DatesOf
  <2>1. /\ AdjustedWorkedMinutes(x, y) = StandsAt(x, y)
        /\ Last(snapshots[x]).rows[y] \in Nat
      BY DEF Books, AdjustmentsTelescope, SnapshotsTyped, ClosedMonths
  <2>2. /\ AdjustedWorkedMinutes(x, y) =
               Last(snapshots[x]).rows[y]
                   + SumFunctionOnSet(Values(adjustments[x]), AdjustmentsOf(x, y))
        /\ AdjustedWorkedMinutes(x, y)' =
               Last(snapshots[x]).rows[y]
                   + SumFunctionOnSet(Values(adjustments'[x]), AdjustmentsOf(x, y)')
      BY DEF AdjustedWorkedMinutes, SumAdjustments, Values
  <2>3. StandsAt(x, y)' = IF AdjustmentsOf(x, y)' = {} THEN Last(snapshots[x]).rows[y]
                          ELSE adjustments'[x][Max(AdjustmentsOf(x, y)')].proposedWorkedMinutes
      BY DEF StandsAt
  <2>4. CASE x # m
    <3>1. adjustments'[x] = adjustments[x]
        BY <1>7, <2>4
    <3>2. AdjustmentsOf(x, y)' = AdjustmentsOf(x, y)
        BY <3>1 DEF AdjustmentsOf
    <3> QED
        BY <2>1, <2>2, <2>3, <3>1, <3>2 DEF StandsAt
  <2>5. ASSUME x = m, y # d PROVE AdjustedWorkedMinutes(x, y)' = StandsAt(x, y)'
    <3>1. AdjustmentsOf(x, y)' = AdjustmentsOf(x, y)
        BY <1>2, <1>7, <1>8, <2>5 DEF AdjustmentsOf, q
    <3>2. AdjustmentsOf(x, y) \in SUBSET DOMAIN q
        BY <2>5 DEF AdjustmentsOf, q
    <3>3. SumFunctionOnSet(Values(Append(q, a)), AdjustmentsOf(x, y)) =
              SumFunctionOnSet(Values(q), AdjustmentsOf(x, y))
        BY <1>1, <3>2, AdjustmentAdds
    <3>4. AdjustmentsOf(x, y) # {} => Max(AdjustmentsOf(x, y)) \in DOMAIN q
        BY <1>8, <3>2, LastPosition
    <3>5. StandsAt(x, y)' = StandsAt(x, y)
        BY <1>7, <1>8, <2>3, <2>5, <3>1, <3>4 DEF StandsAt, q
    <3>6. AdjustedWorkedMinutes(x, y)' = AdjustedWorkedMinutes(x, y)
        BY <1>7, <2>2, <2>5, <3>1, <3>3 DEF q
    <3> QED
        BY <2>1, <3>5, <3>6
  <2>6. ASSUME x = m, y = d PROVE AdjustedWorkedMinutes(x, y)' = StandsAt(x, y)'
    <3>0. adjustments[x] = q /\ adjustments'[x] = Append(q, a) /\ I = AdjustmentsOf(x, y)
        BY <1>7, <2>6 DEF q
    <3>1. AdjustmentsOf(x, y)' = AdjustmentsOf(x, y) \cup {n}
        BY <1>2, <1>8, <2>6, <3>0 DEF AdjustmentsOf
    <3>2. I \in SUBSET DOMAIN q
        BY <3>0 DEF AdjustmentsOf
    <3> HIDE DEF I
    <3>3. SumFunctionOnSet(Values(Append(q, a)), I \cup {n}) =
              SumFunctionOnSet(Values(q), I) + a.minutes
        BY <1>1, <3>2, AdjustmentAdds DEF n
    <3>4. SumFunctionOnSet(Values(q), I) \in Int
        BY <1>1, <3>2, ValuesTyped
    <3>5. Max(I \cup {n}) = n
        BY <1>8, <3>2, NewPositionIsLast DEF n
    <3>6. StandsAt(x, y)' = a.proposedWorkedMinutes
        BY <1>8, <2>3, <3>0, <3>1, <3>5
    <3>7. AdjustedWorkedMinutes(x, y)' = AdjustedWorkedMinutes(x, y) + a.minutes
        BY <1>4, <2>1, <2>2, <3>0, <3>1, <3>3, <3>4
    <3>8. StandsAt(x, y) = a.previousAdjustedWorkedMinutes
        BY <1>2, <2>6
    <3> QED
        BY <1>2, <2>1, <3>6, <3>7, <3>8
  <2> QED
      BY <2>4, <2>5, <2>6
<1>15. ReversalsTakeBack'
  <2> SUFFICES ASSUME NEW x \in Months, NEW i \in DOMAIN adjustments'[x],
                      adjustments'[x][i].reversesAdjustment # None
               PROVE  LET r == adjustments'[x][i].reversesAdjustment
                      IN  /\ r \in DOMAIN adjustments'[x]
                          /\ adjustments'[x][i].minutes = -adjustments'[x][r].minutes
                          /\ adjustments'[x][r].minutes # 0
      BY DEF ReversalsTakeBack
  <2>1. CASE x # m
      BY <1>7, <2>1 DEF Books, ReversalsTakeBack
  <2>2. ASSUME x = m, i # n
        PROVE  LET r == q[i].reversesAdjustment
               IN  /\ i \in DOMAIN q
                   /\ r \in DOMAIN q
                   /\ q[i].minutes = -q[r].minutes
                   /\ q[r].minutes # 0
      BY <1>1, <1>7, <1>8, <2>2 DEF Books, ReversalsTakeBack, q
  <2>3. I \in SUBSET DOMAIN q
      BY DEF AdjustmentsOf, q
  <2>4. CASE x = m /\ i = n
      BY <1>2, <1>7, <1>8, <2>3, <2>4
  <2>5. CASE x = m /\ i # n
      BY <1>7, <1>8, <2>2, <2>5
  <2> QED
      BY <2>1, <2>4, <2>5
<1>16. AdjustmentChain'
  <2>1. \A i \in DOMAIN q : Linked(q, rows, i)
      BY <1>1, ChainIsLinked DEF Books, q, rows
  <2>2. I = {i \in DOMAIN q : q[i].localDate = a.localDate}
      BY <1>2 DEF AdjustmentsOf, q
  <2>3. a.previousAdjustedWorkedMinutes =
            IF I = {} THEN rows[a.localDate] ELSE q[Max(I)].proposedWorkedMinutes
      BY <1>2 DEF StandsAt, q, rows
  <2> HIDE DEF I
  <2>4. \A i \in DOMAIN Append(q, a) : Linked(Append(q, a), rows, i)
      BY <1>1, <1>2, <2>1, <2>2, <2>3, LinkedAppend
  <2>5. \A x \in Months : \A i \in DOMAIN adjustments'[x] :
            Linked(adjustments'[x], Last(snapshots[x]).rows, i)
      BY <1>7, <2>4, ChainIsLinked DEF Books, rows
  <2> QED
      BY <2>5, ChainIsLinked
<1> QED
    BY <1>9, <1>10, <1>11, <1>12, <1>13, <1>14, <1>15, <1>16 DEF Books

LEMMA BooksStep == Typed /\ Inv /\ Books /\ [Next]_vars => Books'
<1> SUFFICES ASSUME Typed, Inv, Books, [Next]_vars PROVE Books'
    OBVIOUS
<1>1. CASE UNCHANGED books
    BY <1>1, BooksUnchanged
<1>2. ASSUME NEW u \in Users, Commit(u) PROVE Books'
    BY <1>2, CommitKeepsBooks
<1>3. ASSUME NEW c \in Corrections, Apply(c) PROVE Books'
    BY <1>3, ApplyKeepsBooks
<1>4. ASSUME NEW c \in Corrections, NEW action \in DOMAIN Decided, Decide(c, action)
      PROVE  Books'
  <2>1. requests[c] # None /\ UNCHANGED <<periods, snapshots>>
      BY <1>4 DEF Decide
  <2>2. CASE requests[c].lockedMonthlySnapshot # None /\ Adjust(c)
      BY <2>1, <2>2, AdjustKeepsBooks
  <2>3. CASE UNCHANGED <<applied, adjustments, entries, projections>>
      BY <2>1, <2>3, <1>1 DEF books
  <2> QED
      BY <1>4, <2>2, <2>3 DEF Decide
<1>5. ASSUME Next PROVE UNCHANGED books \/ Books'
  <2>1. ASSUME NEW u \in Users, NEW m \in Months, See(u, m) PROVE UNCHANGED books
      BY <2>1 DEF See, books
  <2>2. ASSUME NEW u \in Users, NEW action \in ActionsOf(u), Begin(u, action)
        PROVE  UNCHANGED books
      BY <2>2 DEF Begin, books
  <2>3. ASSUME NEW u \in Users, Fail(u) PROVE UNCHANGED books
      BY <2>3 DEF Fail, books
  <2>4. ASSUME NEW c \in Corrections, NEW d \in Dates, NEW minutes \in Minutes,
               StartCorrection(c, d, minutes)
        PROVE  UNCHANGED books
      BY <2>4 DEF StartCorrection, books
  <2>5. ASSUME NEW c \in Corrections, InsertCorrection(c) \/ RollBackCorrection(c)
        PROVE  UNCHANGED books
      BY <2>5 DEF InsertCorrection, RollBackCorrection, books
  <2> QED
      BY <1>2, <1>3, <1>4, <1>5, <2>1, <2>2, <2>3, <2>4, <2>5 DEF Next
<1> QED
    BY <1>1, <1>5 DEF vars, books

-----------------------------------------------------------------------------
(* What the books promise *)

\* The posted entries of every date add up to the worked minutes of its
\* projection, whatever corrections overlap: no month is ever refused for its
\* ledger.
THEOREM ProjectionsAlwaysMatchLedger == Spec => []ProjectionsMatchLedger
<1>1. Books => ProjectionsMatchLedger
    BY DEF Books
<1> QED
    BY <1>1, TypedInit, TypedStep, InvInit, InvStep, BooksInit, BooksStep, PTL DEF Spec

\* The minutes approved for a locked month and its adjustments add up to what the
\* ledger holds for the month.
THEOREM LockedMonthsReconcile == Spec => []LockedMonthReconciles
<1>1. Books => LockedMonthReconciles
    BY DEF Books, ClosedMonthsBooked, ClosedMonths, EntriesOf, LockedMonthReconciles
<1> QED
    BY <1>1, TypedInit, TypedStep, InvInit, InvStep, BooksInit, BooksStep, PTL DEF Spec

\* The adjustments of a locked date are one history from the approved value on,
\* in which nothing is reversed twice.
THEOREM AdjustmentsChain == Spec => []AdjustmentChain
<1>1. Books => AdjustmentChain
    BY DEF Books
<1> QED
    BY <1>1, TypedInit, TypedStep, InvInit, InvStep, BooksInit, BooksStep, PTL DEF Spec
=============================================================================
