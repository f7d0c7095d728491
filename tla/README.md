# WorkLedger: specifications, model checks and proofs

WorkLedger records the working time of employees: punch events, the time account they
add up to, absences, corrections, and the monthly closing in which employee and reviewers
agree on a month and lock it. It is a PostgreSQL application: a Fastify API
(`apps/api`), pure rules (`packages/domain`), a schema and repositories
(`packages/database`) and a React client (`apps/web`). Almost everything that can go
wrong without a test noticing goes wrong *between* requests: two devices, a lost answer, a
reviewer looking at yesterday's page, a transaction that cannot see another one's insert,
legal commands in an order nobody thought of. That is what these modules are about.

Paths below are relative to the repository; `AS`, `PG`, ... are spelled out where first
used. `tlc -config X.cfg M` checks a configuration, `tlapm M.tla` checks the proofs.

## 1. Inventory

| Component | State | Operations | Talks to | Modelled |
|---|---|---|---|---|
| Attendance commands (`api/attendance/attendance-command-service.ts`, `domain/attendance-transition.ts`, `attendance-reconstruction.ts`) | head row (state, revision, next sequence), immutable punch events, idempotency records | clock in, start break, resume, clock out | client (HTTP with an idempotency key), transactions | `AttendanceTransition`, `Attendance`, `AttendanceLog` |
| Today page (`web/today-page.tsx` and its query and client code) | cached view, pending mutation, connection state | press a control, retry, refresh, go offline and online | attendance commands | `AttendanceClient` |
| Monthly periods (`api/monthly/monthly-period-service.ts`, `domain/monthly-period.ts`) | status, version, submitted fingerprint, approved snapshots, decisions | submit, request changes, approve, lock, review | corrections, ledger, absences | `MonthlyPeriod`, and in `Absence` as far as absences see them |
| Corrections and post-lock adjustments (`api/corrections`, `api/approvals`) | requests, applied corrections, adjustments | submit, decide, apply, adjust | months (share lock), ledger, projections | `MonthlyPeriod` |
| Time-account ledger (`domain/time-account-ledger.ts`) | entries with a source | append | months, corrections | `MonthlyPeriod`, `Absence` (per-month booking) |
| Absences (`api/absence`, `api/approvals/detail-service.ts`) | requests, coverage, effects with versions, cancellations, snapshot links | submit vacation, report and review sickness, decide, cancel, withdraw, decide cancellation | entitlement ledger, months, schedule, holidays | `Absence` |
| Leave-entitlement ledger (`domain/leave-entitlement-ledger.ts`) | entries per type and source | reserve, release, deduct, restore | absences | `Absence` |
| Holidays, schedules, policies (`api/absence-administration`, `api/time-administration`) | holidays, effective-dated assignments | create holiday, replace assignment | absences | `Absence`, the two operations that change what absences are worth |
| Transactions (`database/client.ts`) | isolation, reruns | `database.transaction`, `serializable` | every service | inside `Attendance`, `MonthlyPeriod` and `Administration` |
| Authorization | accounts, roles, relations | authorize | every service | as guards (loss of authorization, self-review, HR authority) |
| Daily calculation (`domain/current-day-attendance.ts`, `local-date-interval-splitting.ts`, `daily-attendance-calculation.ts`, `api/attendance/today-service.ts`) | none of its own | `getToday`: events, schedule, absences to minutes of the current date | punch events, clock, time zone | `Today` |
| Administration (`api/administration/service.ts`, `domain/effective-assignment.ts`) | employees, employment periods, effective-dated managers and teams, accounts, roles, invitations | hire, assign, activate, deactivate, invite, roles, system accounts | authorization | `Administration` |
| Notifications (`api/notifications`) | notifications, delivery attempts | record in the command's transaction, deliver after the commit, list, dismiss | decisions, mail adapter, retention | `Housekeeping` |
| Retention and exports (`api/retention`) | export requests, files, executions | purge by class; request, generate, download and purge exports | everything | `Housekeeping`: delivery attempts and exports |
| Topic suggestions and AI provider (`api/insights/employee-insight-topics.ts`, `insights/routes.ts`, `api/ai/ollama-adapter.ts`, `ai/startup.ts`, rate limiter of `database/auth-database.ts`) | accounts with a suggestion in flight, limiter rows, slots, admitted addresses and health of the adapter | suggest a topic, check the server at startup, generate, time out, cancel | DNS, Ollama server, authorization | `TopicSuggestions` |
| Authentication, self-service | sessions | log in, log out, change password | external library | not modelled but for the rate limiter: the library's state |
| Audit, reports, inbox, calendar, insights | none of their own, or append-only | queries | | not modelled: they change nothing the other parts read |
| Contracts, i18n, UI | none | schemas, rendering | | not modelled: no state of the system |

`PROJECT.json` lists the same components with their sources, and under `hazards` every
behaviour that is hard to test, at the line where it bites, with the properties that
guard it. The hard behaviours in short:

* **Concurrency.** Punch commands are serializable transactions that meet at a unique
  index and at a row lock; corrections are submitted in *read-committed* transactions
  that serializable month commands cannot see.
* **Failure.** Serialization failures rerun a command up to three times; processes die;
  answers get lost; the client repeats requests under the same key.
* **Ordering.** Refreshes overtake each other and the answers of commands; requests,
  cancellations, decisions and month commands come in any order.
* **Staleness.** Reviewers approve pages they saw earlier; coverage is recomputed under
  a schedule that changed since the reservation.
* **Clocks.** Instants are floored to minutes and server clocks may step back; an
  instant is read before the snapshot it is compared with; local midnights are skipped,
  repeated, or 23 hours apart.
* **Beside the database.** Mails and files are not transactional: a process can die between
  a file and the row that names it, or between a message and the record of its delivery.
* **Outside the process.** DNS and the model server answer late, differently or never, while
  requests are cancelled and slots are given back.

What makes each component correct: attendance - the head never diverges from the
events, each revision is consumed once, each key is decided once and the client is told
that decision; client - it tells the truth and never goes back in time; months - what is
locked is what was approved, is what the employee acknowledged, and never changes
afterwards; corrections - every minute of the ledger is explained; absences - no date is
covered twice (with the exception of section 5), and entitlement, effects and locked months stay reconciled;
administration - nobody is their own manager's manager on any date, the past and the plans
of others stand, a used or replaced invitation opens nothing, an administrator remains;
mails and exports - what the lists say is what happened, and files come and go with their
rows; the Today page - it counts every minute of its local date once; suggestions - every
one ends, none shuts its account out, no account exceeds its rate, no connection leaves the
addresses it was given, and of the connections only those of refused answers escape the limit.

## 2. Modules

```
AttendanceTransition            pure rules
   |            \
Attendance       AttendanceLog          Attendance => AttendanceLog (refinement)
   |                  \
Attendance_proofs      AttendanceClient (composes the page with the log)
                              |
                       TodayPage_proofs -- Today (what the page shows)
                              |
                          LedgerSums

MonthlyPeriod -- MonthlyPeriod_proofs          Absence -- Absence_proofs
                         \                             /
                          LedgerSums (lemmas about sums)

Administration -- Administration_proofs        Housekeeping -- Housekeeping_proofs

AttendanceTransition -- Today (above)          TopicSuggestions -- TopicSuggestions_proofs
```

Each `MC*` module instantiates one specification for TLC. `Variant` definitions in the
modules are faulty versions of the definition below them; they are not used by any
specification, but show for every property that it can fail (`mutants` in
`PROJECT.json`).

### AttendanceTransition
The transition table and the reconstruction automaton of `packages/domain`.
`StateBefore` replaces the loop of `reconstructAttendance`: the state the automaton is in
depends on the last event only, so that no recursion is needed.

### Attendance
The handler of `POST /v1/me/attendance/...` as the statements of its transaction:
`Prepare` (the pre-validation hook), `BeginTransaction` (the first statement fixes the
snapshot and authorizes again), `Claim` (`INSERT ... ON CONFLICT` of the idempotency
record), `LockHead` (`ensureHead`, `SELECT ... FOR UPDATE`), `Decide` (the body of
`execute`), `Commit`. `SerializationFailure` is the rerun of `database.transaction`;
`Abort` is PostgreSQL's right to refuse a serializable transaction at any statement;
`Crash` loses the process; `Commit` may succeed without the client learning it.
One employee is modelled: no row or unique index is shared between employees. A row
that an uncommitted transaction wrote is visible to others only as a lock they wait for
(`headLock`, `keyLock`), and a committed row that is newer than the snapshot is a
serialization failure, as PostgreSQL has it at this isolation level.

### AttendanceLog
What the service promises: one atomic decision per key against the state of a single
revision. `Attendance` implements it under the mapping `state <- head.state`,
`revision <- head.attendanceRevision`, `decisions <- records` (`ImplementsLog`): reruns,
crashes, duplicates and unacknowledged commits all map to a decision or to a stutter
(checked by `attendance_day`, proved in `Attendance_proofs`).

### AttendanceClient
Today pages and another device (`Elsewhere`), composed with `AttendanceLog` - the promise
rather than the implementation, which is what the refinement is for. A request is a pair of key and
transmission number; it may be lost, arrive late (after its client gave up) or be answered
with a failure although it took effect. `Newest` is `preferNewestTodayAttendance`, the
rule that lets refreshes arrive in any order.

### MonthlyPeriod
Months, corrections, projections and the ledger. A month command has two steps:
`Begin` takes its snapshot; `Commit` locks the row, which waits for the share locks of
correction drafts, and validates against the snapshot. Serializable transactions take
effect one after the other, so a command that another serializable commit overtakes counts
as not begun (`Overtake`: its rerun takes a new snapshot). Read-committed inserts are not
ordered with it: they stay `hidden` from its snapshot, which is where the difficulty of
this component lies. `See` gives a user the review (version, fingerprint, approval cycle)
that the command later carries. A fingerprint is the source it is computed from:
`Source` is an injective stand-in for the hash. Minutes are relative to the expected time
of a date. Versions of correction requests are abstracted: commands with a stale one have
no effect.

### Absence
Vacation, sickness, cancellations, the entitlement ledger and the months as far as they
lock absences. Each command is one step, as each is a serializable transaction, but for the
acknowledgement of sickness and the withdrawal of a cancellation, which are a single
conditional `UPDATE` (and therefore one step as well). Dates are covered in full days.
Schedule assignments and holidays can change under a request that waits, because the code
computes coverage again when it decides. `AtLeastAsText` is the comparison the code really
makes of two counts (section 5). `SUBMITTED` stands for submitted and approved months: the
absence code treats them alike.

### Administration
The commands of `administration/service.ts`, each a serializable transaction. As such
transactions take effect one after the other, `Begin` fixes the date of the request and a
snapshot, and every `Commit` refreshes the snapshots of the open commands (their rerun):
what a rerun does *not* refresh is the date. `Plannable` and `Replaced` are
`planEffectiveAssignmentTransition`; `GraphValid` is `validateManagerAssignmentGraph`, which
looks only at the dates on which some assignment starts; `Invited`, `Expired` and
`Activatable` are what `auth_verifications` keeps of invitations. An employee and the
employee's account are one identity. Passwords and sessions are left out: each command ends
the sessions of the account it changes, and each request reads roles and activity anew.

### Housekeeping
What happens beside the transactions: `Notify` commits with a decision, `Deliver` and
`RecordAttempt` are the two halves of `deliverCommittedNotification`, at most twice;
`RequestExport`, `WriteFile`, `StoreArtifact` are the steps of `createUserExport`;
`FindExpired`, `Unlink`, `DeleteExpired` those of `purgeExpiredExports`. `Crash` stops
whatever runs, at any of these points, and nothing in the code resumes it. Two history
variables make the promises sayable: `confirmed`, what the mail system said it sent, and
`disturbed`, the notifications and exports that met a fault the code has no answer to.

### Today
`getToday` as two steps, because the request fixes its instant (`CallToday`) before the
transaction takes its snapshot (`GetToday`), with the punches of `AttendanceTransition` between
them. `Calculation` is the answer: the events it loads (`SourceEvents`, `NewestSource`), their
intervals, the split at local midnights (`SegmentStarts`; the loop of the code as a recursive
function), the minutes of the date, the estimated finish. A zone has an offset before and after
one transition, which is all that one interval of a few dates can meet; `NextMidnight` is
Temporal's "compatible" disambiguation of a local time that is skipped or repeated. `DayFacts`
is what the records of other modules may say of a date. The reference that the properties
compare with counts minutes one by one.

### TopicSuggestions
One API process: the handler (`Ask`, `ReadSession`), `suggest` between its awaits
(`Authorize`, `ConsumeRateLimit` with `Generate`, `Reauthorize`), and the operations of the
adapter, among them the check at startup. An operation is the number of the HTTP call it is
in and what that call awaits: each looks the host up again, compares the answer with what the
check found (`ResolveHost`) and connects (`Connect`). `Deadline` and `Disconnect` abort it at
any time; an aborted lookup goes on without anybody (`ADRIFT`) and returns later
(`LookupEnds`). What becomes of the connection depends on how its call ends. An abort, a body
that ends or is too large, and an error take it down (`Abort`, `ServerAnswers`); an answer
whose head is refused - a redirect, another status, no JSON - is only resumed
(`RefuseAnswer`): the operation fails and gives its slot back, the connection joins `refused`
and stays there until the server ends the body (`EndBody`). Addresses are lists, as DNS
answers them: `addressSetsMatch` compares their lengths and looks up each of the one in the
other, and a call goes to the first. `Consumed` and `Allowed` are what `consumeRateLimit`
makes of a row; `starts` is a history of what it let through. The clock of this model never
steps back, and no other process writes the limiter's rows: both would let the limiter admit
more than its window says, or less.

## 3. Runs

| Run | Question | Bounds, and why they are enough |
|---|---|---|
| `attendance_day` | Do head, events, keys and answers stay consistent, and is every decision atomic? | Three concurrent requests, three keys, eight intents that reach every state, both outcomes of the confirmation, stale revisions and a key reused for another command; a clock of two ticks per minute that may step back. One attempt: an aborted attempt differs from a rerun only in what follows it. |
| `attendance_live` | Do reruns punch twice, can refused requests punch, does every request end? | Two attempts of three requests on two keys: a rerun, and a duplicate waiting for it. The code's third attempt repeats the second. |
| `client_page` | Does the user learn the truth, do views stay consistent, do commands settle and pages converge? | One page with two keys and another device that uses a third one at any time (`OtherDevice`), one retry (code: two), two refreshes in flight: the least with which an old refresh overtakes a new one while somebody else changes the state. Pages share nothing but the log, so that a second page does what the other device does. |
| `month_race` | What do concurrent corrections and month commands do to a month, and how do projections, ledger and journal stay together? | Two months of one date each, of which users review the second (`Reviewed`): the first stays open and its corrections move the ledger, and so the balance, of the second at any time, between approval and lock too. Two corrections of either date, employee and one reviewer, versions up to 6 (submission, approval and lock, with one round in which the month goes back); either correction may be submitted before or after the lock. After it corrections adjust the month and supersede each other. |
| `absences` | Do absences, entitlement and locked months stay reconciled? | A vacation and a sickness report over three dates of two months that overlap or cross the boundary, two cancellations, one date that becomes a holiday or changes schedule, both authorities, a balance that approvals make negative. |
| `organization` | What can overlapping commands on managers, teams, employment, accounts and roles do to each other? | Two open transactions, three employees, one technical account, three dates: the least with which two reassignments form a circle, an assignment lies between others, and a command runs with the date before. A behaviour is about one of six subsets of the operations (`Questions`), chosen by the tables they share; all six are explored. |
| `housekeeping` | Do statuses, downloads and files tell what happened? | One notification (they share nothing), two exports, two purges, lifetimes of one tick and four readings of the clock, so that an export expires while it is made and while it is purged; a crash at any point, as often as there is work. |
| `today` | Does the page count every minute of the local date once, and does its estimate stand? | Days of three units, so that a transition moves a third of a day (a larger shift, relative to the day, than any zone has), three dates, six calendars: midnights that are ordinary, skipped or repeated, and a repetition or gap elsewhere in the day; four events of which three are loaded; punches that commit one unit after their instant. |
| `topics` | Do suggestions stay within slots, addresses and limits, and does every one end? | Two open requests of two accounts beside the check at startup, one slot, two suggestions per window of two ticks, three readings of the clock: a third suggestion of an account meets a full, a half-expired and an expired window; DNS fails, answers as before, with another private address, or with a public one, at every call; one refused answer whose body has not ended. Three calls of a check and two of a generation (code: five and three): a first call, one between (of the check) and a last one, which are all that differ. |
| `month_submitted`, `month_readable`, `absence_ten_days` | Runs that end in a violation: section 5. | |

The safety properties, by module (each is stated in full, with its reason, above its
definition):

* `Attendance`: `HeadMirrorsEvents`, `EventsCreatedOnce`, `AnswersAreStored`, the action property `HistoryIsImmutable`, and the refinement
  `ImplementsLog`.
* `AttendanceClient`: `ToldTheTruth`, `OnlyStaleIntentsRefused`, `ViewsNeverGoBack`.
* `MonthlyPeriod`: `ClosedMonthsResolved`, `ApprovedIsAcknowledged`,
  `ProjectionsMatchLedger`, `LockedMonthReconciles`, `AdjustmentChain`,
  `JournalTellsHistory`, `LockFixesApproved`, `ClosedMonthsAreFrozen`.
* `Absence`: `NoDoubleCoverage`, `DeductionsMatchEffects`, `LockedMonthsReconcile`,
  `OpenCancellationsAreApplicable`, `SubmittedEffectsStand`, `DecidedHoldNothing`.
* `Administration`: `NoManagementCycles`, `InvitationsAreCurrent`,
  `InactiveTeamsAreEmpty`, `AdministratorRemains`, the action property
  `PastAndPlansStand`.
* `Housekeeping`: `StatusTellsDelivery`, `DownloadsHaveFiles`, `FilesGoWithRows`.
* `Today`: `AnswersCountTheDate`, the action property `EstimatedFinishStands`.
* `TopicSuggestions`: `ConnectionsAreAllowed`, `OneSuggestionPerAccount`,
  `StartsWithinWindow`.

The type invariants are proved (section 4), and so is that a revision of the head is consumed
once (`RevisionsConsumedOnce`).

**Symmetry** is used for requests, corrections, cancellations, transactions,
purges and exports in safety runs only; runs with liveness properties use none.
**Deadlock** is checked except where a system with bounded inputs really stops: in the
runs of months, absences, administration, housekeeping and the Today page.

**Liveness and fairness.** `EveryRequestEnds` assumes weak fairness of each request's
next statement: the event loop and PostgreSQL run every transaction on, and a lock is
waited for only by a transaction whose holder is itself fairly scheduled. Nothing is
assumed of crashes, aborts or the clock. `EveryIntentSettles` and `OnlineTabsConverge`
assume that a `fetch` always settles (weak fairness of answer or transport failure), that
a refresh in flight arrives or fails, that polling goes on while the browser is online,
and - strong fairness - that not every refresh fails forever: with a network that always
fails no page can converge. `EverySuggestionEnds` assumes that the transactions of a request
end and that the timer of an operation fires; nothing of DNS, the server or the client.

**Bounds that are not in the code** are constants named as such: `MaxClock` and
`TicksPerMinute` (clock readings), `MaxAnswers` (refreshes in flight), `MaxVersion`
(versions a month reaches), `Early` (corrections submitted before a lock), `Changes`
(dates whose calendar changes), `LastDate`, `MaxIssued` (invitations), `MaxTime` (readings
of the clock), `MaxEvents` (punches), `MaxDelay` (from the instant of a punch to its commit),
`Sent` (what the other device may send), `LastTime` (readings of the clock of the process),
`Lookups` (what DNS may answer), `MaxRefused` (refused answers whose bodies have not ended),
`Reviewed` (months that users look at),
and the `Scenarios` that say what a behaviour of `Administration` and `Today` is about.
`MaxAttempts`, `RetryLimit`, `SourceLimit`, `Lifetime`, `Retention`, `ConcurrencyLimit`,
`RateMaximum`, `RateWindow`, `CheckCalls` and `GenerationCalls` are the code's own
numbers with smaller values.

## 4. Proofs

TLC explores the instances above. The theorems hold for every value of the constants,
from the assumptions named in the modules (`AttendanceAssumption`, `ClientAssumption`, `MonthsAssumption`,
`AbsenceAssumption`, `AdministrationAssumption`, `HousekeepingAssumption`, `TopicAssumption`,
`TodayAssumption`), which the runs evaluate. They say that constants have the types of the code, that `None` is none of
the values it stands beside, and in `AbsenceAssumption` that the identities a system ever
meets are finitely many, without which sums over them mean nothing.

**`Attendance_proofs`.** `TypeCorrect`; `HeadAlwaysMirrorsEvents`. `HeadMirrorsEvents` is
not inductive: what a committing transaction writes was computed earlier, from a head that
might have changed. The strengthening says who may be between `Decide` and `Commit` (the
one request that holds the row lock), and that the writes it holds extend the present
events in a way that mirrors the head it will write. The proof follows the statements of
the transaction, one step per action.

Its second half proves `AttendanceImplementsLog`, `AnswersAreAlwaysStored`,
`HistoryStaysImmutable`, `RevisionsAreConsumedOnce`, `EventsAreCreatedOnce`: with the two
theorems above, every safety property of the service. Only `Commit` writes (`OnlyCommitsWrite`); the question is
whether what it writes is what the log would decide *at that moment*. `RequestInv` says so
phase by phase: from its claim to its end a transaction holds its key, which stays
undecided, and from its decision on the head does not move under it, so that `Accepted` or
`Refused`, computed at `Decide`, still hold at `Commit`. An answered request finds its
answer stored. `RevisionsConsumedOnce` is then inductive as it stands; `EventsCreatedOnce`
needs to know besides that no stored outcome names an event that does not exist yet.

**`TodayPage_proofs`**, the commands. `PagesTellTheTruth`, `PagesMeetOnlyStaleness`, `TabsGoForward`:
every safety property of the client, for any number of tabs and keys and whatever other
devices send. None of the properties is inductive. `ClientInv` relates what
lies around in the network and in the pages to the log: a key belongs to one intent
(`OwnKeys`, `KeysIssued`), so that a decision under it is the decision of that intent
(`OwnDecisions`) and a reply that waits reports it (`RepliesTrue`); a cached view or an answer
on its way shows some revision with the state it had (`ViewsShow`), so that an intent made
from it is legal unless the revision has moved on (`IntentsLegal`). With
`AttendanceImplementsLog` these theorems speak of pages over what the service promises, which
is what the service does.

**`TodayPage_proofs`**, the calculation. `TodayCounts` (`AnswersCountTheDate`) and
`TodayFinishStands` (`EstimatedFinishStands`), for any calendar, length of a day, number of
punches, delay of their commits and limit of what is read. The argument follows the minutes
through the code. *Time.* The instant that `nextLocalMidnight` returns is where the local date
ends (`NextMidnightEndsDate`): no minute before it is of the next date and none from it on is
of this one. So the loop of `splitAttendanceIntervalAtLocalMidnight` never fails
(`SplitNeverFails`), begins an interval's segments at its start and where a date begins
(`SegmentStartsAre`, by an induction over the loop's recursive function), and the
segment of a date is exactly the interval's minutes of that date (`SegmentIsDate`).
*Sums.* The segments of a state are disjoint, so the sum of their lengths is the number of minutes
they hold together (`MinutesAreCounted`, from `SumOfSizes` in `LedgerSums`). *Events.* What
`loadSource` reads is a run of the stored events without a gap, up to the last one not after
the instant, that begins at the anchor or has nothing before it that is not of the date
(`SourceIsRun`); what is cut off makes the calculation incomplete (`NewestIsAll`). A
minute of the date then lies in the interval of the last event before it, whose type gives the
state that all stored events give it (`StateAt`, `StateOfMinute`). *Steps.* `TodayInv` says
that the events are numbered, ordered in time and mirrored by the head
(`EventsInv`), that the last answer counts what was stored when it was computed (`AnswerInv`) -
later punches are appended and cannot change it (`SpentStays`) - and what its finish was made
of (`FinishInv`). The estimate stands because a minute that passes without a punch while
working is added to the minutes worked and to the instant, and is taken off the rest (`SpentGrows`).

Both theorems have a hypothesis, `MidnightsAreKept`: the one transition of the zone repeats and
skips no midnight but one that it starts at or ends at. It is needed. Where a clock
goes back over midnight to the previous date, local dates are no intervals of instants, and TLC
finds an answer with wrong minutes in such a zone (`Zone(2, 2, 0)` or
`Zone(2, 0, 2)` with days of three units added to `Calendars`). Newfoundland put its clock back at 00:01 until 2011; we
know of no zone that has done so since. A date that is left out altogether (Samoa, 2011) satisfies the hypothesis.
The run's calendars satisfy it, which TLC evaluates (`CalendarsAssumption`).

**`MonthlyPeriod_proofs`.** `TypeCorrect`, `ClosedMonthsStayResolved`,
`ClosedMonthsStayFrozen`, `LocksFixApproved`, `ApprovedWasAcknowledged`, `JournalsTellHistory`,
`ProjectionsAlwaysMatchLedger`, `LockedMonthsReconcile`, `AdjustmentsChain`: every property of
the component that the code satisfies. Here the hidden
inserts are the difficulty. `DraftsFitMonths`: while a draft of an ordinary correction is
open, its share lock keeps the month open. `HiddenAreOpen`: hence what a running month
command cannot see concerns an open month. Approval and lock start from a month that is
*not* open, so nothing of it is hidden from them, and what they find resolved is
resolved. (A *submission* does start from an open month; that is the run
`month_submitted`.) `JournalsTellHistory` needs no more than the types of the journal besides:
the status of a month says which decision was its last, and so which may follow. `Books` is the
argument about the accounts. The entries of a date are what its projection moved by; the
entries of a closed month are its snapshot's delta and its adjustments (`ClosedMonthsBooked`);
the adjustments of a date telescope to what the last one proposed (`AdjustmentsTelescope`),
which is where the next one starts, and a reversal takes back what the adjustment it names
gave (`ReversalsTakeBack`). Each of them needs another: that a lock starts an account which
balances needs the projections to match the ledger at the approval, and
that nothing of the month changes from there to the lock.

**`Absence_proofs`.** `TypeCorrect`, `OpenCancellationsStayApplicable`,
`SubmittedEffectsDoStand`, `NoDateIsCoveredTwice`, `DecidedHoldsNothing`,
`DeductionsAlwaysMatchEffects`, `LockedMonthsStayReconciled`: every property of the component.
The invariant relates the tables:
effects exist exactly for the dates of requests that took effect; cancellations that wait
or were approved name such dates, and none twice; what waits keeps a month from being
submitted; snapshots of locked months agree with the effects except for the dates that
cancellations took since. `NoDateIsCoveredTwice` holds for any number of dates: while none of
two requests `MayHaveEndedEarly`, both block their dates until the last one is cancelled. A
request may have ended early if it has ten dates or more, some of them cancelled; with fewer,
comparing counts as texts is comparing them as numbers (`OneDigit`, `StatusAfterIsRight`).
The exception is needed: with a vacation of ten dates of which two are cancelled, TLC finds
two absences on one date within seven steps (section 5).
The accounts come second. As long as HR leaves the calendar of a coverage alone, its
reservation is what the coverage is worth (`ReservationsStand`); a cancellation restores
nothing before it is approved (`RestoredByApproved`), and then exactly what its dates still
cover, because no other approved cancellation names them. `Adjusted` counts adjustments per
date and per month: only approvals add any, for dates of locked months only, and each books
what the effects of all requests lose on that date (`DatesReconcile`), from which the months
follow by adding up the dates.

**`Administration_proofs`.** `TypeCorrect`, `ManagersAreAcyclic`, `InvitationsStayCurrent`,
`ClosedTeamsAreEmpty`, `AnAdministratorRemains`, `PastAndPlansDoStand`: all properties of the
component. `Snap` says what serializability gives: every
open command sees the tables as they are and carries a date up to today, so that what a
guard found in the snapshot holds of the tables that are written. The graph is checked on
the dates on which an assignment starts only (`GraphInv`); that this is enough on every date
is `AcyclicOnBoundaries`: the assignments of a circle on any date all hold on the latest date
one of them starts on, so that the circle is there too. `AccountInv` - who is employed or
invited has an account - is what makes a new employee's invitation the only one.
`PastAndPlansDoStand` rests on a lemma about `planEffectiveAssignmentTransition`
(`ReplacedChanges`): what it returns differs from what it was given from the new start to the
start of the next assignment and nowhere else.

**`Housekeeping_proofs`.** `TypeCorrect`, `StatusIsTrue`, `OfferedIsComplete`, `NoFileIsLeft`:
all three properties of the component, with a process that may die at every step. `MailOf`
ties what a delivering process has in memory to what it may already have stored. `StagesOf`
and `KeptOf` say that an export carries its path before it can expire unless it was made too
late, and hence that a purge that will delete a row has found its file.

**`TopicSuggestions_proofs`.** `TypeCorrect`, `ConnectionsStayAllowed`, `OneSuggestionAtATime`,
`StartsStayWithinWindow`: every safety property of the component. `StepCases` reduces the steps
to what an operation can do (fail, move, finish). `SlotInv` counts the running operations;
`AddressInv` says that no suggestion runs while the check does, so that what the check found is
fixed for all of them, also for those whose answers were refused and whose connections are
still open. `MarkInv` makes marks and holders one to one, from which the starts of
an account follow each other in time (`StartInv`). `RowInv` is the argument about the limiter:
the starts before those in its count lie a window before them, hence every start lies a window
after the one `RateMaximum` before it (`RowAdvances`), and no window holds more
(`SpacedStarts`).

**`LedgerSums`.** What the accounts of months and absences and the minutes of a date add up to: a sum of integers is an
integer, moves by what one of its terms moves by, splits over disjoint sets, adds up to the
sum of its parts, and an extremum of a finite set of numbers is in it. The community modules
define sums by recursion over subsets of a finite set. That the recursion has a solution at
all, and each of these facts, is an induction; the prover cannot instantiate an induction
theorem with a predicate, so each takes the set of counterexamples and its smallest member
instead (`SmallestSubset`, `SubsetInduction`, from the well-foundedness of the strict subset
ordering).

**Only model-checked.** Liveness (`EveryRequestEnds`, `EveryIntentSettles`,
`OnlineTabsConverge`, `EverySuggestionEnds`): fairness and `ENABLED` are beyond the
prover. Every safety property that the code satisfies is proved; the three that it does not
satisfy are those of `month_submitted`, `month_readable` and `absence_ten_days`.

## 5. What the models found

1. **A vacation of ten dates is cancelled by cancelling two of them**
   (`absence_ten_days`). The driver delivers `count()` as text and the code compares texts:
   `"2" >= "10"`. The request becomes `CANCELLED`, its other dates keep their effects but
   no longer block, so that another absence may cover them.
2. **A correction of an earlier month makes a later locked month unreadable**
   (`month_readable`). The review compares the snapshot's closing balance and the month's
   own adjustments with a ledger that an adjustment of an earlier month has changed, and
   answers 503.
3. **A correction is applied in a submitted month** (`month_submitted`). A correction
   inserted while the month is being submitted is hidden from the submission; `Apply`
   refuses locked months only. The proofs show what still holds: such a month can be
   neither approved nor locked with it unresolved.

Seen while modelling, without a run of their own. *Absences and months:*

* A decision releases another amount than was reserved when one of its dates became a
  holiday, or its schedule changed, since the submission: coverage is computed anew, and the
  rest of the reservation stays for good. `DecidedHoldNothing` says what holds otherwise.
* After a partial cancellation, a cancellation without an explicit selection is refused:
  it names every segment, the cancelled ones included
  (`docs/72-absence-cancellation.md:11` describes it as the remaining coverage).
* No command accepts a vacation request that reviewers sent back: it stays
  `CHANGES_REQUESTED`, keeps its dates blocked and its month from being submitted.
* Approving an absence or a cancellation in an open month does not recalculate the
  projections of its dates.
* A locked month with adjustments reports the blocker `LEDGER_SOURCE_MISMATCH`, although
  its ledger is explained.

*Administration:*

* HR can end the employment of the only system administrator: the command asks for HR
  authority only (`AdministratorRemains` says what is left).
* Assignments outlive the employment they belong to: reports keep a manager who is inactive
  and can decide nothing.
* Ending and resuming the employment of somebody who was invited activates the account
  without a password; reissuing the invitation is then refused, because the account is active.
* A technical account whose role is revoked before its owner opened the invitation cannot be
  activated by it any more.
* A command that started before midnight and is rerun after it still plans from the day
  before (`PastAndPlansStand` speaks of the command's own date).

*Mails, exports, retention:*

* A process that dies between writing the file of an export and storing its path leaves a
  file that no purge finds, for ever; one that dies between commit and delivery leaves the
  notification pending.
* A message that was sent is shown as `PENDING` once its attempts are purged, and as `FAILED`
  when only its second, successful attempt could not be recorded.
* Rows that triggers make immutable (`packages/database/migrations/0001_integrity_constraints.sql:83`,
  `0004_audit_foundation.sql:68`, `0014_adorable_piledriver.sql:166`) let the purge of technical audit events and the minimization of sensitive
  HR data fail as soon as one row qualifies, although
  `docs/107-retention-and-minimization.md` promises both; the integration test runs them on
  an empty database (`apps/api/test/retention.integration.test.ts:177`). Names of inactive
  employees are minimized by the age of their record, not by the date they left.

*Topic suggestions:*

* A refused answer (`api/ai/ollama-adapter.ts:419-438`) leaves its connection to the server: the
  response is resumed, but the abort listener is removed (384), the timer cleared (501), the
  slot given back (121), and no timeout of the socket is set. A server that answers 500 with a
  body that does not end keeps the readiness and the connection, so that the next suggestion
  opens one more than `docs/adr/0014-deterministic-insights-and-local-ai-boundary.md:213` allows ("two
  provider requests in flight"); the model has the behaviour (`RefuseAnswer`), and TLC finds it when
  `Resumed` is counted with `Open`. `ConnectionsAreAllowed` leaves these connections out of the
  limit and holds them to the admitted addresses.

*Today and daily records:*

* A punch that commits between the instant of a request and its snapshot makes the answer
  `INCOMPLETE` with `ATTENDANCE_INVALID_EVENT_ORDER`; when two such punches return to the same
  state, the minutes are right but the estimate ignores the break
  (`EstimatedFinishStands` leaves such answers out).
* `domain/local-date-interval-splitting.ts` takes the next midnight as an instant. In a zone in
  which a midnight lies strictly inside a gap it would count minutes for the wrong date, and
  in one whose clock goes back over midnight to the previous date it would refuse the
  interval. The theorems about the calculation exclude such zones by `MidnightsAreKept`
  (section 4); we know of none today.
* A half-day absence on a date that becomes a holiday makes the expectation negative: the date
  has no calculation (`HolidayOfAbsence` in `MCToday`).
* `time/daily-time-service.ts` reads the punches up to the end of the date and shows closed
  intervals only, so that work across midnight is missing from the record of its first date;
  `docs/60-daily-time-record-detail.md:19` says that intervals are split at the local midnight.

*Topic suggestions:*

* A client that leaves while its session or its CSRF token is read is not noticed: the handler
  listens only afterwards (`insights/routes.ts:250`), although
  `docs/adr/0015-english-local-ai-topic-suggestions.md:39` has cancellation end the provider's work. The
  deadline of the operation ends it.
* A suggestion that is refused because all slots are taken has been counted by the limiter.
* A changed DNS answer, or one invalid answer of the server, makes the adapter misconfigured
  until the process restarts: health is checked only then.

## 6. Not modelled, and why

Validation of the intervals of a correction, part-day coverage, carryover and expiry of
entitlement, versions of absence types, and the contents of notifications and audit
events: they are data that none of the properties above tells apart. Several employees,
outside `Administration`: no other modelled command reads rows of two employees but for
roles and relations, which are guards. Of the Today page's calculation, warnings and the
order of blockers, manual intervals and part-day absences (their minutes enter as numbers
of the date). Of retention, the classes that delete by age alone and the record of each
execution: one conditional `DELETE` each, with no other step to interleave with. Of
administration, passwords and sessions; sign-in belongs to the external authentication
library. Of the AI provider, the contents of prompts and answers (valid or not, they end an
operation in one of three ways), and the interpretation service and the identity check, which
no server wires. The other components marked as not modelled keep no state that
others read.

## 7. Plan

In order of importance; what stands is marked.

1. *Done:* attendance commands with their log, refinement, client; months and corrections;
   absences; administration; notifications and exports; the calculation of the current
   date; topic suggestions; the theorems of section 4.
2. **Proofs:** *done* for every safety property that the code satisfies. The hypothesis of the
   two theorems about the current date could be weakened to what it says about the dates that
   are asked for.
3. **Stored projections in `Absence`:** the recalculation that is missing when an absence is
   approved in an open month, with `Calculation` of `Today` for a finished date.
4. **Sessions in `Administration`:** sign-in runs in the library's own transactions beside
   the commands that end sessions.
