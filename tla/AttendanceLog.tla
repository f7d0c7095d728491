---------------------------- MODULE AttendanceLog ----------------------------
(***************************************************************************)
(* What the attendance service promises its clients: one atomic decision   *)
(* per idempotency key, taken against the attendance state of a single     *)
(* revision.  No requests, transactions, locks or retries appear here.     *)
(***************************************************************************)
EXTENDS AttendanceTransition

CONSTANTS Keys, Sent

VARIABLES
    state,         \* the attendance state
    revision,      \* how many commands have been accepted
    nextSequence,  \* the sequence number of the next punch event
    decisions      \* per key, the intent decided and its outcome, or None

logVars == <<state, revision, nextSequence, decisions>>

LogInit ==
    /\ state = "OFF_WORK"
    /\ revision = 0
    /\ nextSequence = 1
    /\ decisions = [k \in Keys |-> None]

\* The parts of an intent that identify a request under its key.
Identity(in) ==
    [command |-> in.command,
     expectedAttendanceRevision |-> in.expectedAttendanceRevision,
     confirmActiveBreak |-> in.command = "CLOCK_OUT" /\ in.confirmActiveBreak]

Record(in, outcome) ==
    /\ decisions[in.idempotencyKey] = None
    /\ decisions' = [decisions EXCEPT ![in.idempotencyKey] =
                        [fingerprint |-> Identity(in), outcome |-> outcome]]

\* The intent was formed at the current revision and is legal: it happens.
Accept(in) ==
    LET last == nextSequence + Len(EventTypesOf(state, in.command)) - 1
    IN  /\ in.expectedAttendanceRevision = revision
        /\ TransitionAllowed(state, in.command, in.confirmActiveBreak)
        /\ Record(in, [code |-> "OK", attendanceRevision |-> revision + 1,
                       state |-> StateAfterCommand[in.command],
                       createdEvents |-> nextSequence..last])
        /\ state' = StateAfterCommand[in.command]
        /\ revision' = revision + 1
        /\ nextSequence' = last + 1

\* The intent is stale or illegal: the refusal is final for its key.
Refuse(in) ==
    /\ \/ in.expectedAttendanceRevision # revision
       \/ ~TransitionAllowed(state, in.command, in.confirmActiveBreak)
    /\ Record(in, [code |-> IF in.expectedAttendanceRevision # revision
                            THEN "ATTENDANCE_STATE_CHANGED"
                            ELSE TransitionError(state, in.command),
                   attendanceRevision |-> revision, state |-> state,
                   createdEvents |-> {}])
    /\ UNCHANGED <<state, revision, nextSequence>>

LogNext == \E in \in Sent : Accept(in) \/ Refuse(in)

LogSpec == LogInit /\ [][LogNext]_logVars
=============================================================================
