----------------------------- MODULE Attendance -----------------------------
(***************************************************************************)
(* The attendance command service: POST /v1/me/attendance/{clock-in, ...}. *)
(* Every request runs in its own SERIALIZABLE PostgreSQL transaction that  *)
(* claims an idempotency key, locks the attendance head, appends immutable *)
(* punch events and stores the outcome under the key.  Requests, possibly  *)
(* of several API processes, interleave at their database statements.      *)
(*                                                                         *)
(* The module follows one employee: heads, events and keys of different    *)
(* employees (actors) never meet in a row or a unique index.               *)
(***************************************************************************)
EXTENDS AttendanceTransition, FiniteSets

CONSTANTS
    Requests,        \* HTTP requests; each one is handled at most once
    Keys,            \* idempotency keys
    Sent,            \* the intents (key, command, revision, confirmation) sent
    MaxAttempts,     \* transaction attempts before the error is raised (3)
    TicksPerMinute,  \* resolution of the server clock below a minute
    MaxClock         \* bound: the largest reading of the server clock

VARIABLES
    head,        \* the row of attendance_heads
    punchEvents, \* the rows of punch_events, in the order they were inserted
    records,     \* the rows of idempotency_records, by key
    headLock,    \* the request whose transaction holds the row lock of head
    keyLock,     \* per key, the request with an uncommitted insert of its row
    authorized,  \* account and employee are active and may clock
    clock,       \* what now() reads, in ticks
    phase,       \* per request, the statement its handler is about to run
    intent,      \* per request, the command, revision, confirmation and key
    attempt,     \* per request, the attempt counter of database.transaction
    snapshot,    \* per request, what its transaction's snapshot shows
    pending,     \* per request, the uncommitted writes of its transaction
    response     \* per request, what the handler answered

database == <<head, punchEvents, records>>
locks == <<headLock, keyLock>>
environment == <<authorized, clock>>
handlers == <<phase, intent, attempt, snapshot, pending, response>>
vars == <<database, locks, environment, handlers>>

-----------------------------------------------------------------------------
Heads == [exists : BOOLEAN, state : AttendanceStates,
          attendanceRevision : Nat, nextEventSequence : Nat \ {0}]

Events == [eventSequence : Nat \ {0}, type : PunchEventTypes,
           occurredAt : Nat, command : Requests]

Intents == [idempotencyKey : Keys, command : AttendanceCommands,
            expectedAttendanceRevision : Nat, confirmActiveBreak : BOOLEAN]

Fingerprints == [command : AttendanceCommands,
                 expectedAttendanceRevision : Nat, confirmActiveBreak : BOOLEAN]

ErrorCodes == {"ATTENDANCE_STATE_CHANGED", "ATTENDANCE_BREAK_CONFIRMATION_REQUIRED",
               "ATTENDANCE_ALREADY_WORKING", "ATTENDANCE_ALREADY_OFF_WORK",
               "ATTENDANCE_NOT_ON_BREAK", "ATTENDANCE_NOT_WORKING",
               "ATTENDANCE_ALREADY_ON_BREAK"}

\* A terminal outcome; code "OK" is kind SUCCESS with status 200, any other
\* code is kind ERROR with status 409.
Outcomes == [code : ErrorCodes \cup {"OK"}, attendanceRevision : Nat,
             state : AttendanceStates, createdEvents : SUBSET Nat]

Records == [fingerprint : Fingerprints, outcome : Outcomes]

Snapshots == [head : Heads, record : Records \cup {None}]

Writes == [head : Heads, events : Seq(Events), outcome : Outcomes]

Phases == {"IDLE", "PREPARED", "CLAIM", "LOCK", "DECIDE", "COMMIT", "DONE"}

\* OUTCOME: a fresh terminal outcome; REPLAY: the stored one; FAILED: a 5xx;
\* LOST: the process or its connection died before anything was sent.
ResponseKinds == {"NONE", "OUTCOME", "REPLAY", "KEY_CONFLICT", "DENIED", "FAILED", "LOST"}

Responses == [kind : ResponseKinds, outcome : Outcomes \cup {None}]

ASSUME AttendanceAssumption ==
    /\ Sent \subseteq Intents
    /\ MaxAttempts \in Nat \ {0}
    /\ TicksPerMinute \in Nat \ {0}
    /\ MaxClock \in Nat
    /\ None \notin Requests \cup Intents \cup Records \cup Outcomes

TypeOK ==
    /\ head \in Heads
    /\ punchEvents \in Seq(Events)
    /\ records \in [Keys -> Records \cup {None}]
    /\ headLock \in Requests \cup {None}
    /\ keyLock \in [Keys -> Requests \cup {None}]
    /\ authorized \in BOOLEAN
    /\ clock \in 0..MaxClock
    /\ phase \in [Requests -> Phases]
    /\ intent \in [Requests -> Intents \cup {None}]
    /\ attempt \in [Requests -> 1..MaxAttempts]
    /\ snapshot \in [Requests -> Snapshots \cup {None}]
    /\ pending \in [Requests -> Writes \cup {None}]
    /\ response \in [Requests -> Responses]

Init ==
    /\ head = [exists |-> FALSE, state |-> "OFF_WORK",
               attendanceRevision |-> 0, nextEventSequence |-> 1]
    /\ punchEvents = <<>>
    /\ records = [k \in Keys |-> None]
    /\ headLock = None
    /\ keyLock = [k \in Keys |-> None]
    /\ authorized = TRUE
    /\ clock = 0
    /\ phase = [r \in Requests |-> "IDLE"]
    /\ intent = [r \in Requests |-> None]
    /\ attempt = [r \in Requests |-> 1]
    /\ snapshot = [r \in Requests |-> None]
    /\ pending = [r \in Requests |-> None]
    /\ response = [r \in Requests |-> [kind |-> "NONE", outcome |-> None]]

-----------------------------------------------------------------------------
\* createAttendanceFingerprint: confirmation counts for CLOCK_OUT only.
Fingerprint(in) ==
    [command |-> in.command,
     expectedAttendanceRevision |-> in.expectedAttendanceRevision,
     confirmActiveBreak |-> in.command = "CLOCK_OUT" /\ in.confirmActiveBreak]

FloorToMinute(t) == (t \div TicksPerMinute) * TicksPerMinute

\* The locks of r's transaction are released when it ends.
ReleaseLocks(r) ==
    /\ headLock' = IF headLock = r THEN None ELSE headLock
    /\ keyLock' = [k \in Keys |-> IF keyLock[k] = r THEN None ELSE keyLock[k]]

\* The handler answers and the request is over.
Answer(r, kind, outcome) ==
    /\ phase' = [phase EXCEPT ![r] = "DONE"]
    /\ pending' = [pending EXCEPT ![r] = None]
    /\ response' = [response EXCEPT ![r] = [kind |-> kind, outcome |-> outcome]]
    /\ UNCHANGED <<intent, attempt, snapshot>>

\* Variant: the failed attempt is not rolled back before the next one.
RetryKeepingLocks(r) ==
    /\ attempt[r] < MaxAttempts
    /\ attempt' = [attempt EXCEPT ![r] = @ + 1]
    /\ phase' = [phase EXCEPT ![r] = "PREPARED"]
    /\ UNCHANGED <<database, environment, locks, intent, snapshot, pending, response>>

\* A 40001 or 40P01 error: roll back and run the whole operation again, until
\* the attempts are used up and the error reaches the client as a 5xx.
SerializationFailure(r) ==
    /\ ReleaseLocks(r)
    /\ \/ /\ attempt[r] < MaxAttempts
          /\ attempt' = [attempt EXCEPT ![r] = @ + 1]
          /\ phase' = [phase EXCEPT ![r] = "PREPARED"]
          /\ pending' = [pending EXCEPT ![r] = None]
          /\ UNCHANGED <<intent, snapshot, response>>
       \/ /\ attempt[r] = MaxAttempts
          /\ Answer(r, "FAILED", None)
    /\ UNCHANGED <<database, environment>>

-----------------------------------------------------------------------------
\* The preValidation hook: session, CSRF and a first authorization.
Prepare(r, in) ==
    /\ phase[r] = "IDLE"
    /\ intent' = [intent EXCEPT ![r] = in]
    /\ IF authorized
       THEN /\ phase' = [phase EXCEPT ![r] = "PREPARED"]
            /\ UNCHANGED response
       ELSE /\ phase' = [phase EXCEPT ![r] = "DONE"]
            /\ response' = [response EXCEPT ![r] = [kind |-> "DENIED", outcome |-> None]]
    /\ UNCHANGED <<database, locks, environment, attempt, snapshot, pending>>

\* The first statement (findContext) fixes the snapshot; the actor is
\* authorized again from it.
BeginTransaction(r) ==
    /\ phase[r] = "PREPARED"
    /\ IF authorized
       THEN /\ phase' = [phase EXCEPT ![r] = "CLAIM"]
            /\ snapshot' = [snapshot EXCEPT ![r] =
                   [head |-> head, record |-> records[intent[r].idempotencyKey]]]
            /\ UNCHANGED <<intent, attempt, pending, response>>
       ELSE Answer(r, "DENIED", None)
    /\ UNCHANGED <<database, locks, environment>>

\* Variant: the claim does not look for an earlier use of the key.
ClaimAnew(r) ==
    /\ phase[r] = "CLAIM"
    /\ keyLock[intent[r].idempotencyKey] = None
    /\ keyLock' = [keyLock EXCEPT ![intent[r].idempotencyKey] = r]
    /\ phase' = [phase EXCEPT ![r] = "LOCK"]
    /\ UNCHANGED <<database, headLock, environment,
                   intent, attempt, snapshot, pending, response>>

\* Variant: a stored outcome is replayed without comparing fingerprints.
ClaimByKeyOnly(r) ==
    LET stored == records[intent[r].idempotencyKey]
    IN  /\ phase[r] = "CLAIM"
        /\ IF stored = None THEN ClaimAnew(r)
           ELSE /\ Answer(r, "REPLAY", stored.outcome)
                /\ UNCHANGED <<database, locks, environment>>

\* attendanceIdempotency.claim: INSERT ... ON CONFLICT DO NOTHING waits for an
\* uncommitted insert of the same key; a committed row the snapshot does not
\* show is a serialization failure, a visible one is replayed or in conflict.
Claim(r) ==
    LET key == intent[r].idempotencyKey
        stored == records[key]
    IN  /\ phase[r] = "CLAIM"
        /\ keyLock[key] = None
        /\ \/ /\ stored = None
              /\ keyLock' = [keyLock EXCEPT ![key] = r]
              /\ phase' = [phase EXCEPT ![r] = "LOCK"]
              /\ UNCHANGED <<database, headLock, environment,
                             intent, attempt, snapshot, pending, response>>
           \/ /\ stored # None
              /\ snapshot[r].record = stored
              /\ IF stored.fingerprint = Fingerprint(intent[r])
                 THEN Answer(r, "REPLAY", stored.outcome)
                 ELSE Answer(r, "KEY_CONFLICT", None)
              /\ UNCHANGED <<database, locks, environment>>
           \/ /\ stored # None
              /\ snapshot[r].record # stored
              /\ SerializationFailure(r)

\* Variant: the head is read without FOR UPDATE.
ReadHead(r) ==
    /\ phase[r] = "LOCK"
    /\ phase' = [phase EXCEPT ![r] = "DECIDE"]
    /\ UNCHANGED <<database, locks, environment,
                   intent, attempt, snapshot, pending, response>>

\* ensureHead and lockHead: both wait for a transaction that holds the row;
\* if it changed (or inserted) the row after our snapshot, we fail.
LockHead(r) ==
    /\ phase[r] = "LOCK"
    /\ headLock = None
    /\ \/ /\ head = snapshot[r].head
          /\ headLock' = r
          /\ phase' = [phase EXCEPT ![r] = "DECIDE"]
          /\ UNCHANGED <<database, keyLock, environment,
                         intent, attempt, snapshot, pending, response>>
       \/ /\ head # snapshot[r].head
          /\ SerializationFailure(r)

-----------------------------------------------------------------------------
\* completeAttendanceError: the claim is completed with a terminal 409.
DecideError(r, code) ==
    /\ pending' = [pending EXCEPT ![r] =
           [head |-> [head EXCEPT !.exists = TRUE],
            events |-> <<>>,
            outcome |-> [code |-> code, attendanceRevision |-> head.attendanceRevision,
                         state |-> head.state, createdEvents |-> {}]]]
    /\ phase' = [phase EXCEPT ![r] = "COMMIT"]
    /\ UNCHANGED <<intent, attempt, snapshot, response>>

LatestSequence ==
    IF punchEvents = <<>> THEN 0 ELSE punchEvents[Len(punchEvents)].eventSequence

\* Variant: the clock is trusted to go forward.
InconsistentSequence == LatestSequence # head.nextEventSequence - 1

\* The stored events disagree with the head, or the clock is behind the
\* latest event: internalAttendanceError, everything is rolled back.
Inconsistent ==
    \/ LatestSequence # head.nextEventSequence - 1
    \/ /\ punchEvents # <<>>
       /\ FloorToMinute(clock) < punchEvents[Len(punchEvents)].occurredAt

\* appendPunchEvents and advanceHead.
DecideSuccess(r) ==
    LET types == EventTypesOf(head.state, intent[r].command)
        next == StateAfterCommand[intent[r].command]
        first == head.nextEventSequence
        revision == head.attendanceRevision + 1
        event(i) == [eventSequence |-> first + i - 1, type |-> types[i],
                     occurredAt |-> FloorToMinute(clock), command |-> r]
    IN  /\ pending' = [pending EXCEPT ![r] =
               [head |-> [exists |-> TRUE, state |-> next, attendanceRevision |-> revision,
                          nextEventSequence |-> first + Len(types)],
                events |-> [i \in 1..Len(types) |-> event(i)],
                outcome |-> [code |-> "OK", attendanceRevision |-> revision, state |-> next,
                             createdEvents |-> first..(first + Len(types) - 1)]]]
        /\ phase' = [phase EXCEPT ![r] = "COMMIT"]
        /\ UNCHANGED <<intent, attempt, snapshot, response>>

\* The body of execute under the row lock.
Decide(r) ==
    LET in == intent[r]
    IN  /\ phase[r] = "DECIDE"
        /\ \/ /\ in.expectedAttendanceRevision # head.attendanceRevision
              /\ DecideError(r, "ATTENDANCE_STATE_CHANGED")
              /\ UNCHANGED locks
           \/ /\ in.expectedAttendanceRevision = head.attendanceRevision
              /\ ~TransitionAllowed(head.state, in.command, in.confirmActiveBreak)
              /\ DecideError(r, TransitionError(head.state, in.command))
              /\ UNCHANGED locks
           \/ /\ in.expectedAttendanceRevision = head.attendanceRevision
              /\ TransitionAllowed(head.state, in.command, in.confirmActiveBreak)
              /\ IF Inconsistent
                 THEN Answer(r, "FAILED", None) /\ ReleaseLocks(r)
                 ELSE DecideSuccess(r) /\ UNCHANGED locks
        /\ UNCHANGED <<database, environment>>

\* COMMIT: the writes become visible and the locks are released.  The answer
\* is the outcome, unless the connection breaks before COMMIT is confirmed:
\* then the driver's error is answered although the transaction took effect.
Commit(r) ==
    LET write == pending[r]
    IN  /\ phase[r] = "COMMIT"
        /\ head' = write.head
        /\ punchEvents' = punchEvents \o write.events
        /\ records' = [records EXCEPT ![intent[r].idempotencyKey] =
               [fingerprint |-> Fingerprint(intent[r]), outcome |-> write.outcome]]
        /\ ReleaseLocks(r)
        /\ \/ Answer(r, "OUTCOME", write.outcome)
           \/ Answer(r, "FAILED", None)
        /\ UNCHANGED environment

Running(r) == phase[r] \notin {"IDLE", "DONE"}
InTransaction(r) == phase[r] \in {"CLAIM", "LOCK", "DECIDE", "COMMIT"}

\* PostgreSQL may refuse any serializable transaction, at any statement and
\* at COMMIT: its conflict detection is conservative.
Abort(r) == InTransaction(r) /\ SerializationFailure(r)

\* The API process or its connection dies: PostgreSQL rolls back.
Crash(r) ==
    /\ Running(r)
    /\ ReleaseLocks(r)
    /\ Answer(r, "LOST", None)
    /\ UNCHANGED <<database, environment>>

-----------------------------------------------------------------------------
\* The wall clock of the answering process: it may step back.
ReadClock(t) ==
    /\ clock' = t
    /\ UNCHANGED <<database, locks, handlers, authorized>>

\* An administrator deactivates the account, the link or the employee.
Deauthorize ==
    /\ authorized
    /\ authorized' = FALSE
    /\ UNCHANGED <<database, locks, handlers, clock>>

Step(r) == BeginTransaction(r) \/ Claim(r) \/ LockHead(r) \/ Decide(r) \/ Commit(r)

Next ==
    \/ \E r \in Requests : \/ \E in \in Sent : Prepare(r, in)
                           \/ BeginTransaction(r)
                           \/ Claim(r)
                           \/ LockHead(r)
                           \/ Decide(r)
                           \/ Commit(r)
                           \/ Abort(r)
                           \/ Crash(r)
    \/ \E t \in 0..MaxClock : ReadClock(t)
    \/ Deauthorize

Spec == Init /\ [][Next]_vars

\* The event loop and PostgreSQL run every transaction on.
Fairness == \A r \in Requests : WF_vars(Step(r))

LiveSpec == Spec /\ Fairness

-----------------------------------------------------------------------------
(* Safety *)

Decided(k) == records[k] # None
Succeeded(k) == Decided(k) /\ records[k].outcome.code = "OK"

Mirrors(h, events) ==
    /\ Reconstructible(events, TicksPerMinute)
    /\ \A i \in 1..Len(events) : events[i].eventSequence = i
    /\ h.nextEventSequence = Len(events) + 1
    /\ h.state = ReconstructedState(events)

\* The stored events always reconstruct, in sequence order without gaps, to the
\* state and the next sequence number the locked head row claims: the row and
\* the immutable events never diverge, whatever the clock did in between.
HeadMirrorsEvents == Mirrors(head, punchEvents)

\* Every stored event was created under exactly one key, by one execution of
\* that key's command: concurrent duplicates, retries of a lost answer and
\* reruns after a serialization failure never punch twice.
EventsCreatedOnce ==
    \A i \in 1..Len(punchEvents) :
        \E k \in Keys :
            /\ Succeeded(k)
            /\ i \in records[k].outcome.createdEvents
            /\ \A j \in records[k].outcome.createdEvents :
                   /\ j \in 1..Len(punchEvents)
                   /\ punchEvents[j].command = punchEvents[i].command
            /\ \A other \in Keys \ {k} :
                   Decided(other) => i \notin records[other].outcome.createdEvents

\* No lost update: a command succeeds only against the revision its client
\* saw, each revision is consumed by one command, and none beyond the head's.
RevisionsConsumedOnce ==
    \A k \in Keys :
        Succeeded(k) =>
            LET made == records[k].outcome.attendanceRevision
            IN  /\ made = records[k].fingerprint.expectedAttendanceRevision + 1
                /\ made <= head.attendanceRevision
                /\ \A other \in Keys \ {k} :
                       Succeeded(other) => records[other].outcome.attendanceRevision # made

\* Whatever a client is told as the outcome of its intent is what is stored
\* for that key and that request: the first answer and every replay agree.
AnswersAreStored ==
    \A r \in Requests :
        response[r].kind \in {"OUTCOME", "REPLAY"} =>
            LET k == intent[r].idempotencyKey
            IN  /\ Decided(k)
                /\ records[k].fingerprint = Fingerprint(intent[r])
                /\ response[r].outcome = records[k].outcome

-----------------------------------------------------------------------------
(* Action properties *)

\* Punch events and terminal outcomes are immutable: a step may append events
\* and decide undecided keys, never change or drop what is stored.
HistoryIsImmutable ==
    [][/\ Len(punchEvents) <= Len(punchEvents')
       /\ \A i \in 1..Len(punchEvents) : punchEvents'[i] = punchEvents[i]
       /\ \A k \in Keys : Decided(k) => records'[k] = records[k]]_vars

-----------------------------------------------------------------------------
(* Liveness *)

\* Every admitted request is answered (or its process dies): waiting for the
\* key and then for the head row never ends in a circle of waiting requests.
EveryRequestEnds ==
    \A r \in Requests : phase[r] = "PREPARED" ~> phase[r] = "DONE"

-----------------------------------------------------------------------------
(* Refinement *)

Log == INSTANCE AttendanceLog WITH
    state <- head.state,
    revision <- head.attendanceRevision,
    nextSequence <- head.nextEventSequence,
    decisions <- records

\* The interleaved transactions, with their retries, crashes and duplicates,
\* behave as if every key were decided once, atomically.
ImplementsLog == Log!LogSpec
=============================================================================
