-------------------------- MODULE AttendanceClient --------------------------
(***************************************************************************)
(* The Today page of several tabs or devices of one employee, composed     *)
(* with what the attendance service promises (AttendanceLog, which         *)
(* Attendance implements): intents with a fresh idempotency key, automatic *)
(* retries of the same request, lost answers, offline periods, refreshes.  *)
(*                                                                         *)
(* A request is a pair <<key, n>>: the n-th transmission of the intent     *)
(* made under key.  Pages meet only in the server, so that further devices *)
(* may be left to Sent: the intents, each under its own key, that they     *)
(* decide.  Deactivation of the account is left to Attendance.             *)
(***************************************************************************)
EXTENDS AttendanceLog, FiniteSets

CONSTANTS
    Tabs,        \* open Today pages of the employee
    MaxAnswers,  \* bound: GET answers in flight to one tab
    RetryLimit   \* ATTENDANCE_AUTOMATIC_RETRY_LIMIT (2)

Requests == Keys \X (0..RetryLimit)

Intents ==
    [idempotencyKey : Keys, command : AttendanceCommands,
     expectedAttendanceRevision : Nat, confirmActiveBreak : BOOLEAN]

Views == [attendanceRevision : Nat, state : AttendanceStates]

Mutations == [key : Keys, failures : 0..RetryLimit]

Verdicts == {"OK", "IDEMPOTENCY_KEY_CONFLICT", "ATTENDANCE_STATE_CHANGED",
             "ATTENDANCE_BREAK_CONFIRMATION_REQUIRED", "ATTENDANCE_ALREADY_WORKING",
             "ATTENDANCE_ALREADY_OFF_WORK", "ATTENDANCE_NOT_ON_BREAK",
             "ATTENDANCE_NOT_WORKING", "ATTENDANCE_ALREADY_ON_BREAK"}

Decisions ==
    [fingerprint : [command : AttendanceCommands, expectedAttendanceRevision : Nat,
                    confirmActiveBreak : BOOLEAN],
     outcome : [code : Verdicts, attendanceRevision : Nat, state : AttendanceStates,
                createdEvents : SUBSET Nat]]

ASSUME ClientAssumption ==
    /\ RetryLimit \in Nat
    /\ Sent \subseteq Intents
    /\ None \notin Intents \cup Views \cup Mutations \cup Decisions
    /\ None \notin Verdicts \cup {"FAILED", "UNCERTAIN"}

VARIABLES
    wire,      \* requests sent and not received by the API
    replies,   \* per key, the code the API replied to its current transmission
    intents,   \* per key, the immutable variables of its mutation
    mutation,  \* per tab, the key and the failure count of the pending mutation
    view,      \* per tab, the cached attendance of the Today query
    answers,   \* per tab, GET answers on their way back
    link,      \* per tab, OFFLINE, STALE (a reconnect refresh or an error is open) or READY
    told       \* per key, what the user was told about the intent

clientVars == <<wire, replies, intents, mutation, view, answers, link, told>>
systemVars == <<logVars, clientVars>>

\* What the Today query answers.
ServerView == [attendanceRevision |-> revision, state |-> state]

ClientInit ==
    /\ wire = {}
    /\ replies = [k \in Keys |-> None]
    /\ intents = [k \in Keys |-> None]
    /\ mutation = [t \in Tabs |-> None]
    /\ view = [t \in Tabs |-> None]
    /\ answers = [t \in Tabs |-> {}]
    /\ link = [t \in Tabs |-> "READY"]
    /\ told = [k \in Keys |-> None]

-----------------------------------------------------------------------------
(* Commands *)

\* onAttendanceCommand: a control of the cached state is pressed; clocking out
\* of a break goes through the confirmation dialog.
Activate(t, command, key) ==
    /\ link[t] = "READY"
    /\ mutation[t] = None
    /\ view[t] # None
    /\ command \in AcceptedCommands[view[t].state]
    /\ intents[key] = None
    /\ key \notin {in.idempotencyKey : in \in Sent}
    /\ intents' = [intents EXCEPT ![key] =
           [idempotencyKey |-> key, command |-> command,
            expectedAttendanceRevision |-> view[t].attendanceRevision,
            confirmActiveBreak |-> ConfirmationMissing(view[t].state, command, FALSE)]]
    /\ mutation' = [mutation EXCEPT ![t] = [key |-> key, failures |-> 0]]
    /\ wire' = wire \cup {<<key, 0>>}
    /\ UNCHANGED <<logVars, replies, view, answers, link, told>>

\* Some page still waits for the answer to this transmission.
AwaitedBy(r, t) == mutation[t] = [key |-> r[1], failures |-> r[2]]

\* A transmission reaches the API, now or long after its client gave up: its
\* key is decided, replayed or in conflict; a 5xx may or may not have decided.
Handle(r) ==
    LET in == intents[r[1]]
        stored == decisions[r[1]]
        reply(code) == replies' = IF \E t \in Tabs : AwaitedBy(r, t)
                                  THEN [replies EXCEPT ![r[1]] = code] ELSE replies
    IN  /\ r \in wire
        /\ wire' = wire \ {r}
        /\ \/ /\ Accept(in) \/ Refuse(in)
              /\ reply(decisions'[r[1]].outcome.code) \/ reply("FAILED")
           \/ /\ stored # None
              /\ reply(IF stored.fingerprint = Identity(in) THEN stored.outcome.code
                       ELSE "IDEMPOTENCY_KEY_CONFLICT")
              /\ UNCHANGED logVars
           \/ /\ reply("FAILED")
              /\ UNCHANGED logVars
        /\ UNCHANGED <<intents, mutation, view, answers, link, told>>

Online(t) == link[t] # "OFFLINE"

\* getToday reads the head and its state in one repeatable-read snapshot; its
\* answer is on its way until it arrives or is lost.
Ask(t) ==
    answers' = [answers EXCEPT ![t] =
        IF Online(t) THEN @ \cup {ServerView} ELSE @]

\* The mutation is over: the user is told and the Today query is invalidated.
Settle(t, verdict) ==
    /\ told' = [told EXCEPT ![mutation[t].key] = verdict]
    /\ mutation' = [mutation EXCEPT ![t] = None]
    /\ replies' = [replies EXCEPT ![mutation[t].key] = None]
    /\ Ask(t)
    /\ UNCHANGED <<logVars, wire, intents, view, link>>

\* The mutation function runs again with the same variables.
Resend(t) ==
    LET key == mutation[t].key
        n == mutation[t].failures + 1
    IN  /\ mutation' = [mutation EXCEPT ![t].failures = n]
        /\ wire' = wire \cup {<<key, n>>}
        /\ replies' = [replies EXCEPT ![key] = None]
        /\ UNCHANGED <<logVars, view, answers, link, told>>

\* Variant: a retry uses the revision the page shows now.
RetryAtCurrentView(t) ==
    IF mutation[t].failures < RetryLimit /\ Online(t)
    THEN /\ Resend(t)
         /\ intents' = [intents EXCEPT ![mutation[t].key].expectedAttendanceRevision =
                            view[t].attendanceRevision]
    ELSE Settle(t, "UNCERTAIN")

\* Variant: a mutation that runs out of retries is reported as refused.
RetryOrReportRefusal(t) ==
    IF mutation[t].failures < RetryLimit /\ Online(t)
    THEN Resend(t) /\ UNCHANGED intents ELSE Settle(t, "ATTENDANCE_STATE_CHANGED")

\* Variant: failures are not counted.
RetryForever(t) ==
    IF Online(t)
    THEN /\ wire' = wire \cup {<<mutation[t].key, mutation[t].failures>>}
         /\ replies' = [replies EXCEPT ![mutation[t].key] = None]
         /\ UNCHANGED <<logVars, intents, mutation, view, answers, link, told>>
    ELSE Settle(t, "UNCERTAIN")

\* A transport failure or a 5xx: the same request is sent again while retries
\* are left and the browser is online, else the outcome is uncertain.
RetryOrGiveUp(t) ==
    IF mutation[t].failures < RetryLimit /\ Online(t)
    THEN Resend(t) /\ UNCHANGED intents
    ELSE Settle(t, "UNCERTAIN")

\* The answer to the current transmission arrives.
ResponseArrives(t) ==
    LET code == replies[mutation[t].key]
    IN  /\ mutation[t] # None
        /\ Online(t)
        /\ \/ code \in Verdicts /\ Settle(t, code)
           \/ code = "FAILED" /\ RetryOrGiveUp(t)

\* fetch rejects: the request or its answer is lost, delayed or timed out.
TransportFails(t) == mutation[t] # None /\ RetryOrGiveUp(t)

-----------------------------------------------------------------------------
(* The Today query *)

\* The polling interval, a focus change or the user asks for a refresh.
Refresh(t) ==
    /\ Online(t)
    /\ Cardinality(answers[t]) < MaxAnswers
    /\ Ask(t)
    /\ UNCHANGED <<logVars, replies, wire, intents, mutation, view, link, told>>

\* Variant: a cached answer is never replaced.
FirstArrival(previous, next) == IF previous # None THEN previous ELSE next

\* Variant: the answer that arrives last wins.
NewestArrival(previous, next) == next

\* preferNewestTodayAttendance.
Newest(previous, next) ==
    IF previous # None /\ next.attendanceRevision < previous.attendanceRevision
    THEN previous ELSE next

\* An answer arrives, in any order; the page may be used again.
TodayArrives(t, v) ==
    /\ v \in answers[t]
    /\ answers' = [answers EXCEPT ![t] = @ \ {v}]
    /\ view' = [view EXCEPT ![t] = Newest(@, v)]
    /\ link' = [link EXCEPT ![t] = "READY"]
    /\ UNCHANGED <<logVars, replies, wire, intents, mutation, told>>

\* The query fails: the controls are disabled until a refresh succeeds.
TodayFails(t, v) ==
    /\ v \in answers[t]
    /\ answers' = [answers EXCEPT ![t] = @ \ {v}]
    /\ link' = [link EXCEPT ![t] = "STALE"]
    /\ UNCHANGED <<logVars, replies, wire, intents, mutation, view, told>>

GoOffline(t) ==
    /\ Online(t)
    /\ link' = [link EXCEPT ![t] = "OFFLINE"]
    /\ answers' = [answers EXCEPT ![t] = {}]
    /\ UNCHANGED <<logVars, replies, wire, intents, mutation, view, told>>

\* Reconnecting asks for an authoritative snapshot before the page is usable.
GoOnline(t) ==
    /\ ~Online(t)
    /\ link' = [link EXCEPT ![t] = "STALE"]
    /\ answers' = [answers EXCEPT ![t] = {ServerView}]
    /\ UNCHANGED <<logVars, replies, wire, intents, mutation, view, told>>

\* A command of another device, of which this one sees what it decided.
Elsewhere == LogNext /\ UNCHANGED clientVars

-----------------------------------------------------------------------------
ClientNext ==
    \/ \E r \in wire : Handle(r)
    \/ Elsewhere
    \/ \E t \in Tabs :
          \/ \E c \in AttendanceCommands, k \in Keys : Activate(t, c, k)
          \/ ResponseArrives(t)
          \/ TransportFails(t)
          \/ Refresh(t)
          \/ \E v \in answers[t] : TodayArrives(t, v) \/ TodayFails(t, v)
          \/ GoOffline(t)
          \/ GoOnline(t)

SystemInit == LogInit /\ ClientInit

SystemSpec == SystemInit /\ [][ClientNext]_systemVars

FreshTodayArrives(t) ==
    \E v \in answers[t] : v.attendanceRevision = revision /\ TodayArrives(t, v)

SomeTodaySettles(t) == \E v \in answers[t] : TodayArrives(t, v) \/ TodayFails(t, v)

\* fetch always settles, polling goes on while the browser is online, and not
\* every refresh fails.
SystemFairness ==
    \A t \in Tabs : /\ WF_systemVars(ResponseArrives(t) \/ TransportFails(t))
                    /\ WF_systemVars(SomeTodaySettles(t))
                    /\ WF_systemVars(Refresh(t))
                    /\ SF_systemVars(FreshTodayArrives(t))

LiveSystem == SystemSpec /\ SystemFairness

-----------------------------------------------------------------------------
(* Properties *)

\* What the user is told is what happened, although an earlier transmission of
\* the intent may still be running or may arrive later: a reported success has
\* punched, a reported refusal has not and never will.
ToldTheTruth ==
    \A k \in Keys :
        told[k] \in Verdicts =>
            /\ decisions[k] # None
            /\ decisions[k].outcome.code = told[k]

\* The page offers only commands of a state the server was in at that revision,
\* so the only refusal it can meet is that the state has changed: illegal
\* transitions, missing confirmations and key conflicts do not reach a user.
OnlyStaleIntentsRefused ==
    \A k \in Keys : told[k] \in {None, "OK", "UNCERTAIN", "ATTENDANCE_STATE_CHANGED"}

\* A tab never goes back to an older revision, in whatever order answers arrive.
ViewsNeverGoBack ==
    [][\A t \in Tabs :
          view[t] # None => /\ view'[t] # None
                            /\ view'[t].attendanceRevision >= view[t].attendanceRevision]_systemVars

\* Every pressed control leads to a verdict.
EveryIntentSettles == \A t \in Tabs : mutation[t] # None ~> mutation[t] = None

\* A tab that stays online converges: again and again its controls are usable
\* and it shows the server's revision.
OnlineTabsConverge ==
    \A t \in Tabs :
        <>[](Online(t)) =>
            []<>(view[t] # None /\ view[t].attendanceRevision = revision)
=============================================================================
