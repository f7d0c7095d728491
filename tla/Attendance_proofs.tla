-------------------------- MODULE Attendance_proofs --------------------------
(***************************************************************************)
(* Proofs about Attendance for every set of requests and keys.             *)
(*                                                                         *)
(* Argument: a request decides and commits only while it holds the row     *)
(* lock of the head (LocksHeld), so what it computed under the lock is     *)
(* still what the head and the events call for when it commits             *)
(* (PendingMirrors).  The second half proves that Attendance implements    *)
(* AttendanceLog and what follows from it.                                 *)
(***************************************************************************)
EXTENDS Attendance, TLAPS

\* What the phase of a handler says about its own variables.
HandlerShape ==
    \A r \in Requests :
        /\ phase[r] \notin {"IDLE", "DONE"} => intent[r] \in Intents
        /\ phase[r] = "COMMIT" => pending[r] \in Writes

\* A handler past LockHead owns the head row: at most one is.
LocksHeld ==
    \A r \in Requests : phase[r] \in {"DECIDE", "COMMIT"} => headLock = r

\* The writes of a committing handler fit the events stored so far.
PendingMirrors ==
    \A r \in Requests :
        phase[r] = "COMMIT" => Mirrors(pending[r].head, punchEvents \o pending[r].events)

Typed == TypeOK /\ HandlerShape

-----------------------------------------------------------------------------
(* Lemmas about the pure rules *)

\* The rules stay inside their sets.
LEMMA RuleTypes ==
    ASSUME NEW s \in AttendanceStates, NEW c \in AttendanceCommands
    PROVE  /\ StateAfterCommand[c] \in AttendanceStates
           /\ EventTypesOf(s, c) \in Seq(PunchEventTypes)
           /\ Len(EventTypesOf(s, c)) \in {1, 2}
           /\ TransitionError(s, c) \in ErrorCodes
<1>1. /\ StateAfterCommand[c] \in AttendanceStates
      /\ TransitionError(s, c) \in ErrorCodes
    BY DEF AttendanceStates, AttendanceCommands, StateAfterCommand, TransitionError,
           RejectionCode, ErrorCodes, AcceptedCommands
<1>2. ASSUME NEW e \in PunchEventTypes, NEW f \in PunchEventTypes
      PROVE  /\ <<e>> \in Seq(PunchEventTypes) /\ Len(<<e>>) = 1
             /\ <<e, f>> \in Seq(PunchEventTypes) /\ Len(<<e, f>>) = 2
    OBVIOUS
<1>3. \/ \E e \in PunchEventTypes : EventTypesOf(s, c) = <<e>>
      \/ \E e, f \in PunchEventTypes : EventTypesOf(s, c) = <<e, f>>
  <2>1. CASE c = "CLOCK_IN"
    BY <2>1 DEF PunchEventTypes, EventTypesOf, EventOfCommand
  <2>2. CASE c = "START_BREAK"
    BY <2>2 DEF PunchEventTypes, EventTypesOf, EventOfCommand
  <2>3. CASE c = "RESUME"
    BY <2>3 DEF PunchEventTypes, EventTypesOf, EventOfCommand
  <2>4. CASE c = "CLOCK_OUT"
    BY <2>4 DEF PunchEventTypes, EventTypesOf, EventOfCommand
  <2> QED
    BY <2>1, <2>2, <2>3, <2>4 DEF AttendanceCommands
<1> QED
    BY <1>1, <1>2, <1>3

\* An accepted command appends a legal continuation of one or two events that
\* ends in the command's next state.
LEMMA RulesAgree ==
    ASSUME NEW s \in AttendanceStates, NEW c \in AcceptedCommands[s]
    PROVE  LET t == EventTypesOf(s, c)
           IN  /\ t[1] \in EventTypesAllowedIn[s]
               /\ Len(t) = 2 => t[2] \in EventTypesAllowedIn[StateAfterEvent[t[1]]]
               /\ StateAfterEvent[t[Len(t)]] = StateAfterCommand[c]
    BY DEF AttendanceStates, AcceptedCommands, EventTypesOf, EventOfCommand, EventTypesAllowedIn,
           StateAfterEvent, StateAfterCommand

\* Rounding the clock down to a minute gives a minute-aligned natural number.
LEMMA FloorIsAligned ==
    ASSUME NEW t \in Nat
    PROVE  FloorToMinute(t) \in Nat /\ FloorToMinute(t) % TicksPerMinute = 0
    BY AttendanceAssumption DEF FloorToMinute

-----------------------------------------------------------------------------
(* Type correctness *)

\* A fingerprint is well formed.
LEMMA FingerprintType ==
    ASSUME NEW in \in Intents
    PROVE  Fingerprint(in) \in Fingerprints
    BY DEF Fingerprint, Fingerprints, Intents

\* Releasing locks keeps the lock owners well typed.
LEMMA ReleaseLocksType ==
    ASSUME Typed, NEW r \in Requests, ReleaseLocks(r)
    PROVE  headLock' \in Requests \cup {None} /\ keyLock' \in [Keys -> Requests \cup {None}]
    BY DEF Typed, TypeOK, ReleaseLocks

\* Answering a request keeps the handler variables well typed.
LEMMA AnswerType ==
    ASSUME Typed, NEW r \in Requests, NEW kind \in ResponseKinds,
           NEW outcome \in Outcomes \cup {None}, Answer(r, kind, outcome)
    PROVE  /\ phase' \in [Requests -> Phases]
           /\ intent' \in [Requests -> Intents \cup {None}]
           /\ attempt' \in [Requests -> 1..MaxAttempts]
           /\ snapshot' \in [Requests -> Snapshots \cup {None}]
           /\ pending' \in [Requests -> Writes \cup {None}]
           /\ response' \in [Requests -> Responses]
           /\ HandlerShape'
    BY DEF Typed, TypeOK, HandlerShape, Answer, Phases, Responses

\* A rolled back attempt keeps everything well typed.
LEMMA SerializationFailureType ==
    ASSUME Typed, NEW r \in Requests, phase[r] \notin {"IDLE", "DONE"},
           SerializationFailure(r)
    PROVE  Typed'
<1>1. headLock' \in Requests \cup {None} /\ keyLock' \in [Keys -> Requests \cup {None}]
    BY ReleaseLocksType DEF SerializationFailure
<1>2. UNCHANGED <<head, punchEvents, records, authorized, clock>>
    BY DEF SerializationFailure, database, environment
<1>3. CASE Answer(r, "FAILED", None)
    BY <1>1, <1>2, <1>3, AnswerType DEF Typed, TypeOK, ResponseKinds
<1>4. CASE /\ attempt[r] < MaxAttempts
           /\ attempt' = [attempt EXCEPT ![r] = @ + 1]
           /\ phase' = [phase EXCEPT ![r] = "PREPARED"]
           /\ pending' = [pending EXCEPT ![r] = None]
           /\ UNCHANGED <<intent, snapshot, response>>
  <2>1. attempt' \in [Requests -> 1..MaxAttempts]
    BY <1>4, AttendanceAssumption DEF Typed, TypeOK
  <2> QED
    BY <1>1, <1>2, <1>4, <2>1 DEF Typed, TypeOK, HandlerShape, Phases
<1> QED
    BY <1>3, <1>4 DEF SerializationFailure

\* The service starts well typed.
LEMMA TypedInit == Init => Typed
    BY AttendanceAssumption
    DEF Init, Typed, TypeOK, HandlerShape, Heads, AttendanceStates, Phases, Responses,
        ResponseKinds

\* Every step keeps the service well typed.
LEMMA TypedStep == Typed /\ [Next]_vars => Typed'
<1> SUFFICES ASSUME Typed, [Next]_vars PROVE Typed'
    OBVIOUS
<1>1. ASSUME NEW r \in Requests, NEW in \in Sent, Prepare(r, in) PROVE Typed'
  <2>1. /\ in \in Intents
        /\ [kind |-> "DENIED", outcome |-> None] \in Responses
    BY AttendanceAssumption DEF Responses, ResponseKinds
  <2>2. UNCHANGED <<head, punchEvents, records, headLock, keyLock, authorized, clock,
                    attempt, snapshot, pending>>
    BY <1>1 DEF Prepare, database, locks, environment
  <2>3. /\ intent' \in [Requests -> Intents \cup {None}] /\ intent'[r] \in Intents
        /\ phase' \in [Requests -> Phases] /\ phase'[r] # "COMMIT"
        /\ response' \in [Requests -> Responses]
        /\ \A q \in Requests \ {r} : phase'[q] = phase[q] /\ intent'[q] = intent[q]
    BY <1>1, <2>1 DEF Prepare, Typed, TypeOK, Phases
  <2> QED
    BY <2>2, <2>3 DEF Typed, TypeOK, HandlerShape
<1>2. ASSUME NEW r \in Requests, BeginTransaction(r) PROVE Typed'
  <2>1. CASE authorized
    <3>1. intent[r] \in Intents /\ intent[r].idempotencyKey \in Keys
      BY <1>2 DEF BeginTransaction, Typed, HandlerShape, Intents
    <3>2. [head |-> head, record |-> records[intent[r].idempotencyKey]] \in Snapshots
      BY <3>1 DEF Typed, TypeOK, Snapshots
    <3> QED
      BY <1>2, <2>1, <3>2 DEF Typed, TypeOK, HandlerShape, BeginTransaction, Phases,
         database, locks, environment
  <2>2. CASE ~authorized
    BY <1>2, <2>2, AnswerType DEF Typed, TypeOK, BeginTransaction, ResponseKinds,
       database, locks, environment
  <2> QED
    BY <2>1, <2>2
<1>3. ASSUME NEW r \in Requests, Claim(r) PROVE Typed'
  <2> DEFINE key == intent[r].idempotencyKey
  <2>1. phase[r] = "CLAIM" /\ key \in Keys
    BY <1>3 DEF Claim, Typed, HandlerShape, Intents
  <2>2. CASE /\ keyLock' = [keyLock EXCEPT ![key] = r]
             /\ phase' = [phase EXCEPT ![r] = "LOCK"]
             /\ UNCHANGED <<database, headLock, environment,
                            intent, attempt, snapshot, pending, response>>
    BY <2>1, <2>2 DEF Typed, TypeOK, HandlerShape, Phases, database, environment
  <2>3. CASE /\ records[key] # None
             /\ \/ Answer(r, "REPLAY", records[key].outcome)
                \/ Answer(r, "KEY_CONFLICT", None)
             /\ UNCHANGED <<database, locks, environment>>
    <3>1. records[key].outcome \in Outcomes
      BY <2>1, <2>3 DEF Typed, TypeOK, Records
    <3> QED
      BY <2>3, <3>1, AnswerType DEF Typed, TypeOK, ResponseKinds, database, locks, environment
  <2>4. CASE SerializationFailure(r)
    BY <2>1, <2>4, SerializationFailureType
  <2> QED
    BY <1>3, <2>2, <2>3, <2>4 DEF Claim
<1>4. ASSUME NEW r \in Requests, LockHead(r) PROVE Typed'
  <2>1. CASE SerializationFailure(r)
    BY <1>4, <2>1, SerializationFailureType DEF LockHead
  <2>2. CASE ~SerializationFailure(r)
    BY <1>4, <2>2 DEF LockHead, Typed, TypeOK, HandlerShape, Phases, database, environment
  <2> QED
    BY <2>1, <2>2
<1>5. ASSUME NEW r \in Requests, Decide(r) PROVE Typed'
  <2>1. /\ phase[r] = "DECIDE" /\ intent[r] \in Intents
        /\ UNCHANGED <<database, environment>>
    BY <1>5 DEF Decide, Typed, HandlerShape
  <2>2. ASSUME NEW code \in ErrorCodes, DecideError(r, code), UNCHANGED locks PROVE Typed'
    <3> DEFINE outcome == [code |-> code, attendanceRevision |-> head.attendanceRevision,
                           state |-> head.state, createdEvents |-> {}]
    <3>2. [head EXCEPT !.exists = TRUE] \in Heads /\ outcome \in Outcomes
      BY DEF Typed, TypeOK, Heads, Outcomes
    <3>3. pending'[r] = [head |-> [head EXCEPT !.exists = TRUE], events |-> <<>>,
                         outcome |-> outcome]
      BY <2>2 DEF DecideError, Typed, TypeOK
    <3>1. pending'[r] \in Writes
      BY <3>2, <3>3 DEF Writes
    <3> QED
      BY <2>1, <2>2, <3>1 DEF DecideError, Typed, TypeOK, HandlerShape, Phases, database,
         locks, environment
  <2>3. CASE DecideSuccess(r) /\ UNCHANGED locks
    <3> DEFINE types == EventTypesOf(head.state, intent[r].command)
               first == head.nextEventSequence
    <3>1. /\ head.state \in AttendanceStates /\ intent[r].command \in AttendanceCommands
          /\ first \in Nat \ {0} /\ head.attendanceRevision \in Nat
          /\ clock \in Nat
      BY <2>1, AttendanceAssumption DEF Typed, TypeOK, Heads, Intents
    <3>2. /\ StateAfterCommand[intent[r].command] \in AttendanceStates
          /\ types \in Seq(PunchEventTypes) /\ Len(types) \in {1, 2}
      BY <3>1, RuleTypes
    <3> HIDE DEF types
    <3>3. \A i \in 1..Len(types) :
             [eventSequence |-> first + i - 1, type |-> types[i],
              occurredAt |-> FloorToMinute(clock), command |-> r] \in Events
      <4> SUFFICES ASSUME NEW i \in 1..Len(types)
                   PROVE  /\ first + i - 1 \in Nat \ {0} /\ types[i] \in PunchEventTypes
                          /\ FloorToMinute(clock) \in Nat
        BY DEF Events
      <4>1. types[i] \in PunchEventTypes
        BY <3>2
      <4>2. first + i - 1 \in Nat \ {0}
        BY <3>1, <3>2
      <4>3. FloorToMinute(clock) \in Nat
        BY <3>1, FloorIsAligned
      <4> QED
        BY <4>1, <4>2, <4>3
    <3>4. pending[r]' \in Writes
      <4>1. pending'[r] =
               [head |-> [exists |-> TRUE, state |-> StateAfterCommand[intent[r].command],
                          attendanceRevision |-> head.attendanceRevision + 1,
                          nextEventSequence |-> first + Len(types)],
                events |-> [i \in 1..Len(types) |->
                              [eventSequence |-> first + i - 1, type |-> types[i],
                               occurredAt |-> FloorToMinute(clock), command |-> r]],
                outcome |-> [code |-> "OK",
                             attendanceRevision |-> head.attendanceRevision + 1,
                             state |-> StateAfterCommand[intent[r].command],
                             createdEvents |-> first..(first + Len(types) - 1)]]
        BY <2>3 DEF DecideSuccess, Typed, TypeOK, types
      <4>2. pending'[r].events \in Seq(Events)
        BY <3>2, <3>3, <4>1
      <4>3. pending'[r].head \in Heads /\ pending'[r].outcome \in Outcomes
        <5>1. /\ first + Len(types) \in Nat \ {0}
              /\ head.attendanceRevision + 1 \in Nat
              /\ first..(first + Len(types) - 1) \in SUBSET Nat
          BY <3>1, <3>2
        <5> QED
          BY <3>1, <3>2, <4>1, <5>1 DEF Heads, Outcomes
      <4> QED
        BY <4>1, <4>2, <4>3 DEF Writes
    <3> QED
      BY <2>1, <2>3, <3>4 DEF DecideSuccess, Typed, TypeOK, HandlerShape, Phases, database,
         locks, environment
  <2>4. CASE Answer(r, "FAILED", None) /\ ReleaseLocks(r)
    BY <2>1, <2>4, AnswerType, ReleaseLocksType DEF Typed, TypeOK, ResponseKinds, database,
       environment
  <2>5. /\ "ATTENDANCE_STATE_CHANGED" \in ErrorCodes
        /\ TransitionError(head.state, intent[r].command) \in ErrorCodes
    BY <2>1, RuleTypes DEF ErrorCodes, Typed, TypeOK, Heads, Intents
  <2> QED
    BY <1>5, <2>2, <2>3, <2>4, <2>5 DEF Decide
<1>6. ASSUME NEW r \in Requests, Commit(r) PROVE Typed'
  <2>1. /\ phase[r] = "COMMIT" /\ intent[r] \in Intents /\ pending[r] \in Writes
        /\ intent[r].idempotencyKey \in Keys
    BY <1>6 DEF Commit, Typed, HandlerShape, Intents
  <2>2. /\ pending[r].head \in Heads /\ pending[r].events \in Seq(Events)
        /\ pending[r].outcome \in Outcomes
    BY <2>1 DEF Writes
  <2>3. head' \in Heads /\ punchEvents' \in Seq(Events)
    BY <1>6, <2>2 DEF Commit, Typed, TypeOK
  <2>4. records' \in [Keys -> Records \cup {None}]
    BY <1>6, <2>1, <2>2, FingerprintType DEF Commit, Typed, TypeOK, Records
  <2> QED
    BY <1>6, <2>2, <2>3, <2>4, AnswerType, ReleaseLocksType
    DEF Commit, Typed, TypeOK, ResponseKinds, environment
<1>7. ASSUME NEW r \in Requests, Abort(r) PROVE Typed'
    BY <1>7, SerializationFailureType DEF Abort, InTransaction
<1>8. ASSUME NEW r \in Requests, Crash(r) PROVE Typed'
    BY <1>8, AnswerType, ReleaseLocksType
    DEF Crash, Typed, TypeOK, ResponseKinds, database, environment
<1>9. ASSUME NEW t \in 0..MaxClock, ReadClock(t) PROVE Typed'
    BY <1>9 DEF ReadClock, Typed, TypeOK, HandlerShape, database, locks, handlers
<1>10. CASE Deauthorize
    BY <1>10 DEF Deauthorize, Typed, TypeOK, HandlerShape, database, locks, handlers
<1>11. CASE UNCHANGED vars
    BY <1>11 DEF vars, Typed, TypeOK, HandlerShape, database, locks, environment, handlers
<1> QED
    BY <1>1, <1>2, <1>3, <1>4, <1>5, <1>6, <1>7, <1>8, <1>9, <1>10, <1>11 DEF Next

\* Every variable keeps its type, in every behaviour.
THEOREM TypeCorrect == Spec => []TypeOK
<1>1. Typed => TypeOK
    BY DEF Typed
<1> QED
    BY <1>1, TypedInit, TypedStep, PTL DEF Spec

-----------------------------------------------------------------------------
(* The head mirrors the events *)

\* A stored sequence without gaps that reconstructs.
WellFormed(events) ==
    /\ Reconstructible(events, TicksPerMinute)
    /\ \A i \in 1..Len(events) : events[i].eventSequence = i

\* Appending one legal, later event keeps the sequence well formed.
LEMMA AppendOne ==
    ASSUME NEW es \in Seq(Events), WellFormed(es), NEW e \in Events,
           e.eventSequence = Len(es) + 1,
           e.occurredAt % TicksPerMinute = 0,
           e.type \in EventTypesAllowedIn[ReconstructedState(es)],
           es # <<>> => e.occurredAt >= es[Len(es)].occurredAt
    PROVE  /\ Append(es, e) \in Seq(Events)
           /\ Len(Append(es, e)) = Len(es) + 1
           /\ Append(es, e)[Len(es) + 1] = e
           /\ WellFormed(Append(es, e))
           /\ ReconstructedState(Append(es, e)) = StateAfterEvent[e.type]
<1> DEFINE new == Append(es, e)
           n == Len(es)
<1>1. /\ new \in Seq(Events) /\ Len(new) = n + 1 /\ n \in Nat
      /\ new[n + 1] = e /\ \A i \in 1..n : new[i] = es[i]
    OBVIOUS
<1> HIDE DEF new
<1>2. \A i \in 1..n + 1 : StateBefore(new, i) = StateBefore(es, i)
    BY <1>1 DEF StateBefore
<1>3. ReconstructedState(new) = StateAfterEvent[e.type]
    BY <1>1 DEF ReconstructedState, StateBefore
<1>4. ASSUME NEW i \in 1..n + 1
      PROVE  /\ new[i].eventSequence = i
             /\ new[i].eventSequence > 0
             /\ new[i].occurredAt % TicksPerMinute = 0
             /\ new[i].type \in EventTypesAllowedIn[StateBefore(new, i)]
             /\ i > 1 => /\ new[i].eventSequence > new[i - 1].eventSequence
                         /\ new[i].occurredAt >= new[i - 1].occurredAt
  <2>1. CASE i \in 1..n
    <3>1. new[i] = es[i] /\ (i > 1 => new[i - 1] = es[i - 1])
      BY <1>1, <2>1
    <3>2. StateBefore(new, i) = StateBefore(es, i)
      BY <1>2, <2>1
    <3> QED
      BY <2>1, <3>1, <3>2 DEF WellFormed, Reconstructible
  <2>2. CASE i = n + 1
    <3>1. new[i] = e /\ StateBefore(new, i) = ReconstructedState(es)
      BY <1>1, <1>2, <2>2 DEF ReconstructedState
    <3>2. ASSUME i > 1
          PROVE  /\ new[i - 1] = es[n] /\ es # <<>>
                 /\ es[n].eventSequence = n
      BY <1>1, <2>2, <3>2 DEF WellFormed
    <3> QED
      BY <1>1, <2>2, <3>1, <3>2
  <2> QED
    BY <2>1, <2>2
<1>5. WellFormed(new)
    BY <1>1, <1>4 DEF WellFormed, Reconstructible
<1> QED
    BY <1>1, <1>3, <1>5 DEF new

\* What DecideSuccess prepares fits the events stored when it is prepared.
LEMMA DecideSuccessMirrors ==
    ASSUME Typed, HeadMirrorsEvents, NEW r \in Requests, intent[r] \in Intents,
           TransitionAllowed(head.state, intent[r].command, intent[r].confirmActiveBreak),
           ~Inconsistent, DecideSuccess(r)
    PROVE  Mirrors(pending'[r].head, punchEvents \o pending'[r].events)
<1> DEFINE s == head.state
           c == intent[r].command
           types == EventTypesOf(s, c)
           first == head.nextEventSequence
           at == FloorToMinute(clock)
           ev(i) == [eventSequence |-> first + i - 1, type |-> types[i],
                     occurredAt |-> at, command |-> r]
           es == punchEvents
<1>1. /\ s \in AttendanceStates /\ c \in AcceptedCommands[s] /\ c \in AttendanceCommands
      /\ es \in Seq(Events) /\ clock \in Nat
    BY AttendanceAssumption DEF Typed, TypeOK, Heads, Intents, TransitionAllowed
<1>2. /\ at \in Nat /\ at % TicksPerMinute = 0
      /\ es # <<>> => at >= es[Len(es)].occurredAt
  <2>1. at \in Nat /\ at % TicksPerMinute = 0
    BY <1>1, FloorIsAligned
  <2>2. es # <<>> => es[Len(es)] \in Events
    BY <1>1
  <2>3. es # <<>> => es[Len(es)].occurredAt \in Nat
    BY <2>2 DEF Events
  <2> QED
    BY <2>1, <2>3 DEF Inconsistent
<1>3. first = Len(es) + 1 /\ s = ReconstructedState(es) /\ WellFormed(es) /\ Len(es) \in Nat
    BY <1>1 DEF HeadMirrorsEvents, Mirrors, WellFormed
<1>4. /\ types \in Seq(PunchEventTypes) /\ Len(types) \in {1, 2}
      /\ types[1] \in EventTypesAllowedIn[s]
      /\ Len(types) = 2 => types[2] \in EventTypesAllowedIn[StateAfterEvent[types[1]]]
      /\ StateAfterEvent[types[Len(types)]] = StateAfterCommand[c]
    BY <1>1, RuleTypes, RulesAgree
<1>5. /\ pending'[r].head.nextEventSequence = first + Len(types)
      /\ pending'[r].head.state = StateAfterCommand[c]
      /\ pending'[r].events = [i \in 1..Len(types) |-> ev(i)]
    BY DEF DecideSuccess, Typed, TypeOK
<1> HIDE DEF types, s, c, at, first, es
<1>6. ev(1) \in Events /\ ev(1).eventSequence = Len(es) + 1 /\ ev(1).type = types[1]
      /\ ev(1).occurredAt = at
    BY <1>2, <1>3, <1>4 DEF Events
<1> DEFINE one == Append(es, ev(1))
<1>7. /\ one \in Seq(Events) /\ Len(one) = Len(es) + 1 /\ one[Len(one)] = ev(1)
      /\ WellFormed(one) /\ ReconstructedState(one) = StateAfterEvent[types[1]]
    BY <1>1, <1>2, <1>3, <1>4, <1>6, AppendOne
<1>8. CASE Len(types) = 1
  <2>1. es \o pending'[r].events = one
    BY <1>1, <1>5, <1>6, <1>8
  <2> QED
    BY <1>3, <1>4, <1>5, <1>7, <1>8, <2>1 DEF Mirrors, WellFormed, es
<1>9. CASE Len(types) = 2
  <2>1. ev(2) \in Events /\ ev(2).eventSequence = Len(one) + 1 /\ ev(2).type = types[2]
        /\ ev(2).occurredAt = at
    <3>1. types[2] \in PunchEventTypes
      <4>1. types \in Seq(PunchEventTypes) /\ 2 \in 1..Len(types)
        BY <1>4, <1>9
      <4> QED
        BY <4>1
    <3>2. first + 2 - 1 = Len(one) + 1 /\ first + 2 - 1 \in Nat \ {0}
      BY <1>3, <1>7
    <3> QED
      BY <1>2, <3>1, <3>2 DEF Events
  <2>2. one # <<>> => ev(2).occurredAt >= one[Len(one)].occurredAt
    BY <1>2, <1>6, <1>7, <2>1
  <2> DEFINE two == Append(one, ev(2))
  <2>3. es \o pending'[r].events = two
    <3>1. pending'[r].events = <<ev(1), ev(2)>>
      BY <1>5, <1>9
    <3> QED
      BY <1>1, <1>6, <2>1, <3>1
  <2> HIDE DEF one
  <2>4. /\ Len(two) = Len(one) + 1 /\ WellFormed(two)
        /\ ReconstructedState(two) = StateAfterEvent[types[2]]
    <3>1. /\ ev(2).occurredAt % TicksPerMinute = 0
          /\ ev(2).type \in EventTypesAllowedIn[ReconstructedState(one)]
      BY <1>2, <1>4, <1>7, <1>9, <2>1
    <3> QED
      BY <1>7, <2>1, <2>2, <3>1, AppendOne
  <2> HIDE DEF two
  <2>5. es \o pending'[r].events = two
    BY <2>3
  <2>6. /\ pending'[r].head.nextEventSequence = Len(two) + 1
        /\ pending'[r].head.state = ReconstructedState(two)
    BY <1>3, <1>4, <1>5, <1>7, <1>9, <2>4
  <2>7. Mirrors(pending'[r].head, two)
    BY <2>4, <2>6 DEF Mirrors, WellFormed
  <2> QED
    BY <2>5, <2>7 DEF es
<1> QED
    BY <1>4, <1>8, <1>9

-----------------------------------------------------------------------------
(* The inductive invariant *)

Inv == Typed /\ LocksHeld /\ PendingMirrors /\ HeadMirrorsEvents

\* The empty ledger of events mirrors the default head.
LEMMA InvInit == Init => Inv
<1> SUFFICES ASSUME Init PROVE Inv
    OBVIOUS
<1>1. Typed
    BY TypedInit
<1>2. LocksHeld /\ PendingMirrors
    BY DEF Init, LocksHeld, PendingMirrors
<1>3. HeadMirrorsEvents
    BY DEF Init, HeadMirrorsEvents, Mirrors, Reconstructible, ReconstructedState, StateBefore
<1> QED
    BY <1>1, <1>2, <1>3 DEF Inv

\* A request that leaves its transaction, whatever its answer, disturbs nothing
\* the other requests rely on as long as the database is untouched.
LEMMA LeaveKeepsInv ==
    ASSUME Inv, Typed', NEW r \in Requests, ReleaseLocks(r),
           phase'[r] \notin {"DECIDE", "COMMIT"},
           \A q \in Requests \ {r} : phase'[q] = phase[q] /\ pending'[q] = pending[q],
           UNCHANGED database
    PROVE  Inv'
    BY DEF Inv, LocksHeld, PendingMirrors, HeadMirrorsEvents, Mirrors, ReleaseLocks, database

\* So does a step that moves one request to a phase before its commit, taking
\* the head lock only if it is free.
LEMMA AdvanceKeepsInv ==
    ASSUME Inv, Typed', NEW r \in Requests,
           phase'[r] # "COMMIT", phase'[r] = "DECIDE" => headLock' = r,
           headLock' = headLock \/ headLock = None,
           phase[r] \notin {"DECIDE", "COMMIT"},
           \A q \in Requests \ {r} : phase'[q] = phase[q] /\ pending'[q] = pending[q],
           UNCHANGED database
    PROVE  Inv'
<1>1. LocksHeld'
    BY AttendanceAssumption DEF Inv, LocksHeld
<1>2. PendingMirrors' /\ HeadMirrorsEvents'
    BY DEF Inv, PendingMirrors, HeadMirrorsEvents, Mirrors, database
<1> QED
    BY <1>1, <1>2 DEF Inv

\* What Answer and SerializationFailure do to the phases and pending writes.
LEMMA AnswerFrame ==
    ASSUME Typed, NEW r \in Requests, NEW kind, NEW outcome, Answer(r, kind, outcome)
    PROVE  /\ phase'[r] = "DONE"
           /\ \A q \in Requests \ {r} : phase'[q] = phase[q] /\ pending'[q] = pending[q]
    BY DEF Answer, Typed, TypeOK

LEMMA SerializationFailureKeepsInv ==
    ASSUME Inv, Typed', NEW r \in Requests, SerializationFailure(r)
    PROVE  Inv'
<1>1. /\ phase'[r] \in {"PREPARED", "DONE"}
      /\ \A q \in Requests \ {r} : phase'[q] = phase[q] /\ pending'[q] = pending[q]
    BY AnswerFrame DEF SerializationFailure, Inv, Typed, TypeOK
<1> QED
    BY <1>1, LeaveKeepsInv DEF SerializationFailure

\* Every step keeps the invariant.
LEMMA InvStep == Inv /\ [Next]_vars => Inv'
<1> SUFFICES ASSUME Inv, [Next]_vars PROVE Inv'
    OBVIOUS
<1>0. Typed /\ Typed'
    BY TypedStep DEF Inv
<1>1. ASSUME NEW r \in Requests, NEW in \in Sent, Prepare(r, in) PROVE Inv'
    BY <1>0, <1>1, AdvanceKeepsInv DEF Prepare, Typed, TypeOK, locks
<1>2. ASSUME NEW r \in Requests, BeginTransaction(r) PROVE Inv'
    BY <1>0, <1>2, AdvanceKeepsInv, AnswerFrame DEF BeginTransaction, Typed, TypeOK, locks
<1>3. ASSUME NEW r \in Requests, Claim(r) PROVE Inv'
  <2>1. CASE SerializationFailure(r)
    BY <1>0, <2>1, SerializationFailureKeepsInv
  <2>2. CASE ~SerializationFailure(r)
    BY <1>0, <1>3, <2>2, AdvanceKeepsInv, AnswerFrame DEF Claim, Typed, TypeOK, locks
  <2> QED
    BY <2>1, <2>2
<1>4. ASSUME NEW r \in Requests, LockHead(r) PROVE Inv'
  <2>1. CASE SerializationFailure(r)
    BY <1>0, <2>1, SerializationFailureKeepsInv
  <2>2. CASE ~SerializationFailure(r)
    BY <1>0, <1>4, <2>2, AdvanceKeepsInv DEF LockHead, Typed, TypeOK
  <2> QED
    BY <2>1, <2>2
<1>5. ASSUME NEW r \in Requests, Decide(r) PROVE Inv'
  <2>1. /\ phase[r] = "DECIDE" /\ headLock = r /\ intent[r] \in Intents
        /\ UNCHANGED <<head, punchEvents, records>>
        /\ HeadMirrorsEvents' /\ HeadMirrorsEvents
    BY <1>5 DEF Decide, Inv, LocksHeld, Typed, HandlerShape, HeadMirrorsEvents, Mirrors,
       database
  <2>2. ASSUME Mirrors(pending'[r].head, punchEvents \o pending'[r].events),
               UNCHANGED locks, phase' = [phase EXCEPT ![r] = "COMMIT"],
               \A q \in Requests \ {r} : pending'[q] = pending[q]
        PROVE  Inv'
    <3>1. LocksHeld'
      BY <1>0, <2>1, <2>2 DEF Inv, LocksHeld, locks, Typed, TypeOK
    <3>2. PendingMirrors'
      BY <1>0, <2>1, <2>2 DEF Inv, PendingMirrors, Mirrors, Typed, TypeOK
    <3> QED
      BY <1>0, <2>1, <3>1, <3>2 DEF Inv
  <2>3. ASSUME NEW code, DecideError(r, code), UNCHANGED locks PROVE Inv'
    <3>1. /\ pending'[r].head = [head EXCEPT !.exists = TRUE] /\ pending'[r].events = <<>>
          /\ phase' = [phase EXCEPT ![r] = "COMMIT"]
          /\ \A q \in Requests \ {r} : pending'[q] = pending[q]
      BY <1>0, <2>3 DEF DecideError, Typed, TypeOK
    <3>2. punchEvents \o pending'[r].events = punchEvents
      BY <1>0, <3>1 DEF Typed, TypeOK
    <3>3. /\ [head EXCEPT !.exists = TRUE].state = head.state
          /\ [head EXCEPT !.exists = TRUE].nextEventSequence = head.nextEventSequence
      BY <1>0 DEF Typed, TypeOK, Heads
    <3>4. Mirrors(pending'[r].head, punchEvents \o pending'[r].events)
      BY <2>1, <3>1, <3>2, <3>3 DEF HeadMirrorsEvents, Mirrors
    <3> QED
      BY <2>2, <2>3, <3>1, <3>4
  <2>4. ASSUME DecideSuccess(r), UNCHANGED locks, ~Inconsistent,
               TransitionAllowed(head.state, intent[r].command, intent[r].confirmActiveBreak)
        PROVE  Inv'
    <3>1. Mirrors(pending'[r].head, punchEvents \o pending'[r].events)
      BY <1>0, <2>1, <2>4, DecideSuccessMirrors
    <3>2. /\ phase' = [phase EXCEPT ![r] = "COMMIT"]
          /\ \A q \in Requests \ {r} : pending'[q] = pending[q]
      BY <1>0, <2>4 DEF DecideSuccess, Typed, TypeOK
    <3> QED
      BY <2>2, <2>4, <3>1, <3>2
  <2>5. CASE Answer(r, "FAILED", None) /\ ReleaseLocks(r)
    BY <1>0, <2>1, <2>5, AnswerFrame, LeaveKeepsInv DEF database
  <2> QED
    BY <1>5, <2>3, <2>4, <2>5 DEF Decide
<1>6. ASSUME NEW r \in Requests, Commit(r) PROVE Inv'
  <2>1. /\ phase[r] = "COMMIT" /\ headLock = r
        /\ head' = pending[r].head /\ punchEvents' = punchEvents \o pending[r].events
        /\ phase'[r] = "DONE" /\ ReleaseLocks(r)
        /\ \A q \in Requests \ {r} : phase'[q] = phase[q] /\ pending'[q] = pending[q]
    BY <1>0, <1>6, AnswerFrame DEF Commit, Inv, LocksHeld
  <2>2. HeadMirrorsEvents'
    BY <2>1 DEF Inv, PendingMirrors, HeadMirrorsEvents
  <2>3. \A q \in Requests : phase'[q] \notin {"DECIDE", "COMMIT"}
    BY <2>1 DEF Inv, LocksHeld
  <2> QED
    BY <1>0, <2>2, <2>3 DEF Inv, LocksHeld, PendingMirrors
<1>7. ASSUME NEW r \in Requests, Abort(r) PROVE Inv'
    BY <1>0, <1>7, SerializationFailureKeepsInv DEF Abort
<1>8. ASSUME NEW r \in Requests, Crash(r) PROVE Inv'
    BY <1>0, <1>8, AnswerFrame, LeaveKeepsInv DEF Crash
<1>9. ASSUME NEW t \in 0..MaxClock, ReadClock(t) PROVE Inv'
    BY <1>0, <1>9 DEF ReadClock, Inv, LocksHeld, PendingMirrors, HeadMirrorsEvents, Mirrors,
       database, locks, handlers
<1>10. CASE Deauthorize
    BY <1>0, <1>10 DEF Deauthorize, Inv, LocksHeld, PendingMirrors, HeadMirrorsEvents,
       Mirrors, database, locks, handlers
<1>11. CASE UNCHANGED vars
    BY <1>0, <1>11 DEF vars, Inv, LocksHeld, PendingMirrors, HeadMirrorsEvents, Mirrors,
       database, locks, handlers
<1> QED
    BY <1>1, <1>2, <1>3, <1>4, <1>5, <1>6, <1>7, <1>8, <1>9, <1>10, <1>11 DEF Next

\* The attendance head never diverges from the immutable punch events.
THEOREM HeadAlwaysMirrorsEvents == Spec => []HeadMirrorsEvents
<1>1. Inv => HeadMirrorsEvents
    BY DEF Inv
<1> QED
    BY <1>1, InvInit, InvStep, PTL DEF Spec

-----------------------------------------------------------------------------
(* Attendance implements AttendanceLog, and what follows for keys,          *)
(* revisions and events.  From its claim on, a request holds its key, which *)
(* stays undecided; from its decision on, it holds the head, so that what   *)
(* it has decided is still what the log would decide when it commits        *)
(* (RequestInv).  Every other step leaves the database alone.               *)

Key(r) == intent[r].idempotencyKey

\* The request is about to commit what the log's Accept decides.
Accepted(r) ==
    LET in == intent[r]
        n == Len(EventTypesOf(head.state, in.command))
        next == pending[r].head
    IN  /\ in.expectedAttendanceRevision = head.attendanceRevision
        /\ TransitionAllowed(head.state, in.command, in.confirmActiveBreak)
        /\ next.state = StateAfterCommand[in.command]
        /\ next.attendanceRevision = head.attendanceRevision + 1
        /\ next.nextEventSequence = head.nextEventSequence + n
        /\ Len(pending[r].events) = n
        /\ \A i \in 1..n : pending[r].events[i].command = r
        /\ pending[r].outcome =
              [code |-> "OK", attendanceRevision |-> head.attendanceRevision + 1,
               state |-> StateAfterCommand[in.command],
               createdEvents |-> head.nextEventSequence..(head.nextEventSequence + n - 1)]

\* The request is about to commit what the log's Refuse decides.
Refused(r) ==
    LET in == intent[r]
        stale == in.expectedAttendanceRevision # head.attendanceRevision
        next == pending[r].head
    IN  /\ stale \/ ~TransitionAllowed(head.state, in.command, in.confirmActiveBreak)
        /\ next.state = head.state
        /\ next.attendanceRevision = head.attendanceRevision
        /\ next.nextEventSequence = head.nextEventSequence
        /\ pending[r].events = <<>>
        /\ pending[r].outcome =
              [code |-> IF stale THEN "ATTENDANCE_STATE_CHANGED"
                                 ELSE TransitionError(head.state, in.command),
               attendanceRevision |-> head.attendanceRevision, state |-> head.state,
               createdEvents |-> {}]

\* The answer of a request is what is stored.
AnswerIsStored(r) ==
    response[r].kind \in {"OUTCOME", "REPLAY"} =>
        /\ Decided(Key(r))
        /\ records[Key(r)].fingerprint = Fingerprint(intent[r])
        /\ response[r].outcome = records[Key(r)].outcome

\* What is known of a request from its phase.
RequestInv(r) ==
    /\ phase[r] # "IDLE" => intent[r] \in Sent
    /\ response[r].kind # "NONE" => phase[r] = "DONE"
    /\ phase[r] \in {"LOCK", "DECIDE", "COMMIT"} => keyLock[Key(r)] = r /\ records[Key(r)] = None
    /\ phase[r] = "COMMIT" => Accepted(r) \/ Refused(r)
    /\ AnswerIsStored(r)

LogInv == Inv /\ \A r \in Requests : RequestInv(r)

-----------------------------------------------------------------------------
(* Steps that leave the database alone *)

\* A request keeps what is known of it while others move.
LEMMA OthersKeep ==
    ASSUME LogInv, NEW q \in Requests, UNCHANGED database,
           phase'[q] = phase[q], intent'[q] = intent[q], pending'[q] = pending[q],
           response'[q] = response[q], \A k \in Keys : keyLock[k] = q => keyLock'[k] = q
    PROVE  RequestInv(q)'
<1>1. RequestInv(q)
    BY DEF LogInv
<1>2. head' = head /\ records' = records /\ punchEvents' = punchEvents
    BY DEF database
<1>3. phase[q] \in {"LOCK", "DECIDE", "COMMIT"} => Key(q) \in Keys
    BY DEF LogInv, Inv, Typed, HandlerShape, Intents, Key
<1>4. phase[q] \in {"LOCK", "DECIDE", "COMMIT"} => keyLock'[Key(q)] = q
    BY <1>1, <1>3 DEF RequestInv
<1>5. Accepted(q)' = Accepted(q) /\ Refused(q)' = Refused(q)
    BY <1>2 DEF Accepted, Refused
<1>6. AnswerIsStored(q)'
    BY <1>1, <1>2 DEF RequestInv, AnswerIsStored, Decided, Key
<1> QED
    BY <1>1, <1>2, <1>4, <1>5, <1>6 DEF RequestInv, Key

\* A request that begins anew or ends without an outcome has nothing to keep.
LEMMA LeavingKeeps ==
    ASSUME LogInv, NEW r \in Requests, UNCHANGED database,
           phase[r] \notin {"IDLE", "DONE"}, intent'[r] = intent[r],
           \/ phase'[r] = "PREPARED" /\ response'[r] = response[r]
           \/ phase'[r] = "DONE" /\ response'[r].kind \notin {"NONE", "OUTCOME", "REPLAY"}
    PROVE  RequestInv(r)'
<1>1. RequestInv(r)
    BY DEF LogInv
<1> QED
    BY <1>1 DEF RequestInv, AnswerIsStored

\* A released lock was held by the request that releases it.
LEMMA ReleaseKeeps ==
    ASSUME LogInv, NEW r \in Requests, NEW q \in Requests \ {r}, ReleaseLocks(r)
    PROVE  \A k \in Keys : keyLock[k] = q => keyLock'[k] = q
    BY DEF ReleaseLocks

\* What Answer does to the requests.
LEMMA AnswerDoes ==
    ASSUME Typed, NEW r \in Requests, NEW kind, NEW outcome, Answer(r, kind, outcome)
    PROVE  /\ phase'[r] = "DONE" /\ intent'[r] = intent[r]
           /\ response'[r].kind = kind /\ response'[r].outcome = outcome
           /\ \A q \in Requests \ {r} :
                 /\ phase'[q] = phase[q] /\ intent'[q] = intent[q]
                 /\ pending'[q] = pending[q] /\ response'[q] = response[q]
    BY DEF Answer, Typed, TypeOK

\* A rolled back attempt keeps what is known of the requests.
LEMMA FailureKeeps ==
    ASSUME LogInv, NEW r \in Requests, phase[r] \notin {"IDLE", "DONE"}, SerializationFailure(r)
    PROVE  \A q \in Requests : RequestInv(q)'
<1>1. /\ ReleaseLocks(r) /\ UNCHANGED database
      /\ intent'[r] = intent[r]
      /\ \/ phase'[r] = "PREPARED" /\ response'[r] = response[r]
         \/ phase'[r] = "DONE" /\ response'[r].kind \notin {"NONE", "OUTCOME", "REPLAY"}
      /\ \A q \in Requests \ {r} :
            /\ phase'[q] = phase[q] /\ intent'[q] = intent[q]
            /\ pending'[q] = pending[q] /\ response'[q] = response[q]
  <2>1. CASE Answer(r, "FAILED", None)
    <3>1. Typed /\ ReleaseLocks(r) /\ UNCHANGED database
      BY DEF LogInv, Inv, SerializationFailure
    <3> QED
      BY <2>1, <3>1, AnswerDoes
  <2>2. CASE ~Answer(r, "FAILED", None)
    BY <2>2 DEF LogInv, Inv, Typed, TypeOK, SerializationFailure
  <2> QED
    BY <2>1, <2>2
<1>2. RequestInv(r)'
    BY <1>1, LeavingKeeps
<1>3. ASSUME NEW q \in Requests \ {r} PROVE RequestInv(q)'
    BY <1>1, ReleaseKeeps, OthersKeep
<1> QED
    BY <1>2, <1>3

\* A request that enters has a sent intent and no answer but a refusal.
LEMMA PrepareKeeps ==
    ASSUME LogInv, NEW r \in Requests, NEW in \in Sent, Prepare(r, in)
    PROVE  \A q \in Requests : RequestInv(q)'
<1>1. /\ UNCHANGED database /\ phase[r] = "IDLE" /\ UNCHANGED keyLock
      /\ intent'[r] = in /\ phase'[r] \in {"PREPARED", "DONE"}
      /\ \/ response'[r] = response[r]
         \/ phase'[r] = "DONE" /\ response'[r].kind = "DENIED"
      /\ \A q \in Requests \ {r} :
            /\ phase'[q] = phase[q] /\ intent'[q] = intent[q]
            /\ pending'[q] = pending[q] /\ response'[q] = response[q]
    BY DEF Prepare, LogInv, Inv, Typed, TypeOK, locks
<1>2. response[r].kind = "NONE"
    BY <1>1 DEF LogInv, RequestInv
<1>3. RequestInv(r)'
    BY <1>1, <1>2 DEF RequestInv, AnswerIsStored
<1>4. ASSUME NEW q \in Requests \ {r} PROVE RequestInv(q)'
    BY <1>1, OthersKeep
<1> QED
    BY <1>3, <1>4

\* A transaction that begins has no answer to keep.
LEMMA BeginTransactionKeeps ==
    ASSUME LogInv, NEW r \in Requests, BeginTransaction(r)
    PROVE  \A q \in Requests : RequestInv(q)'
<1>1. /\ UNCHANGED database /\ phase[r] = "PREPARED" /\ UNCHANGED keyLock
      /\ intent'[r] = intent[r]
      /\ \/ phase'[r] = "CLAIM" /\ response'[r] = response[r]
         \/ phase'[r] = "DONE" /\ response'[r].kind = "DENIED"
      /\ \A q \in Requests \ {r} :
            /\ phase'[q] = phase[q] /\ intent'[q] = intent[q]
            /\ pending'[q] = pending[q] /\ response'[q] = response[q]
  <2>1. CASE authorized
    BY <2>1 DEF BeginTransaction, LogInv, Inv, Typed, TypeOK, locks
  <2>2. CASE ~authorized
    <3>1. Typed /\ Answer(r, "DENIED", None)
      BY <2>2 DEF BeginTransaction, LogInv, Inv
    <3> QED
      BY <3>1, AnswerDoes DEF BeginTransaction, locks
  <2> QED
    BY <2>1, <2>2
<1>2. RequestInv(r)
    BY DEF LogInv
<1>3. RequestInv(r)'
    BY <1>1, <1>2 DEF RequestInv, AnswerIsStored
<1>4. ASSUME NEW q \in Requests \ {r} PROVE RequestInv(q)'
    BY <1>1, OthersKeep
<1> QED
    BY <1>3, <1>4

\* A claim takes a free key that is undecided, or answers with what is stored.
LEMMA ClaimKeeps ==
    ASSUME LogInv, NEW r \in Requests, Claim(r)
    PROVE  \A q \in Requests : RequestInv(q)'
<1> DEFINE stored == records[Key(r)]
<1>1. phase[r] = "CLAIM" /\ keyLock[Key(r)] = None /\ Key(r) \in Keys /\ RequestInv(r) /\ Typed
    BY DEF Claim, LogInv, Inv, Typed, HandlerShape, Intents, Key
<1>2. CASE SerializationFailure(r)
    BY <1>1, <1>2, FailureKeeps
<1>3. CASE /\ stored = None
           /\ keyLock' = [keyLock EXCEPT ![Key(r)] = r]
           /\ phase' = [phase EXCEPT ![r] = "LOCK"]
           /\ UNCHANGED <<database, intent, pending, response>>
  <2>1. /\ phase'[r] = "LOCK" /\ keyLock'[Key(r)] = r
        /\ \A q \in Requests \ {r} : phase'[q] = phase[q]
        /\ \A q \in Requests \ {r} : \A k \in Keys : keyLock[k] = q => keyLock'[k] = q
    BY <1>1, <1>3, AttendanceAssumption DEF Typed, TypeOK
  <2>2. RequestInv(r)'
    BY <1>1, <1>3, <2>1 DEF RequestInv, AnswerIsStored, Key, database
  <2>3. ASSUME NEW q \in Requests \ {r} PROVE RequestInv(q)'
    BY <1>3, <2>1, OthersKeep
  <2> QED
    BY <2>2, <2>3
<1>4. ASSUME NEW kind \in {"REPLAY", "KEY_CONFLICT"}, NEW outcome, Answer(r, kind, outcome),
             UNCHANGED <<database, keyLock>>, stored # None,
             kind = "REPLAY" => outcome = stored.outcome /\ stored.fingerprint = Fingerprint(intent[r])
      PROVE  \A q \in Requests : RequestInv(q)'
  <2>1. /\ phase'[r] = "DONE" /\ intent'[r] = intent[r]
        /\ response'[r].kind = kind /\ response'[r].outcome = outcome
        /\ \A q \in Requests \ {r} :
              /\ phase'[q] = phase[q] /\ intent'[q] = intent[q]
              /\ pending'[q] = pending[q] /\ response'[q] = response[q]
    BY <1>1, <1>4, AnswerDoes
  <2>2. AnswerIsStored(r)'
    BY <1>4, <2>1 DEF AnswerIsStored, Decided, Key, database, Fingerprint
  <2>3. RequestInv(r)'
    BY <1>1, <2>1, <2>2 DEF RequestInv
  <2>4. ASSUME NEW q \in Requests \ {r} PROVE RequestInv(q)'
    BY <1>4, <2>1, OthersKeep
  <2> QED
    BY <2>3, <2>4
<1> QED
    BY <1>2, <1>3, <1>4 DEF Claim, Key, locks

\* The request that locks the head keeps its key.
LEMMA LockHeadKeeps ==
    ASSUME LogInv, NEW r \in Requests, LockHead(r)
    PROVE  \A q \in Requests : RequestInv(q)'
<1>1. phase[r] = "LOCK" /\ RequestInv(r) /\ Typed
    BY DEF LockHead, LogInv, Inv
<1>2. CASE SerializationFailure(r)
    BY <1>1, <1>2, FailureKeeps
<1>3. CASE ~SerializationFailure(r)
  <2>1. /\ phase'[r] = "DECIDE" /\ UNCHANGED <<database, keyLock, intent, pending, response>>
        /\ \A q \in Requests \ {r} : phase'[q] = phase[q]
    BY <1>1, <1>3 DEF LockHead, Typed, TypeOK
  <2>2. RequestInv(r)'
    BY <1>1, <2>1 DEF RequestInv, AnswerIsStored, Key, database
  <2>3. ASSUME NEW q \in Requests \ {r} PROVE RequestInv(q)'
    BY <2>1, OthersKeep
  <2> QED
    BY <2>2, <2>3
<1> QED
    BY <1>2, <1>3

\* A decision that the log would take is what a request may commit.
LEMMA DecidingKeeps ==
    ASSUME LogInv, NEW r \in Requests, phase[r] = "DECIDE", UNCHANGED <<database, locks>>,
           phase' = [phase EXCEPT ![r] = "COMMIT"], UNCHANGED <<intent, response>>,
           \A q \in Requests \ {r} : pending'[q] = pending[q],
           (Accepted(r) \/ Refused(r))'
    PROVE  \A q \in Requests : RequestInv(q)'
<1>1. /\ phase'[r] = "COMMIT" /\ RequestInv(r)
      /\ \A q \in Requests \ {r} : phase'[q] = phase[q]
    BY DEF LogInv, Inv, Typed, TypeOK
<1>2. RequestInv(r)'
    BY <1>1 DEF RequestInv, AnswerIsStored, Key, database, locks
<1>3. ASSUME NEW q \in Requests \ {r} PROVE RequestInv(q)'
    BY <1>1, OthersKeep DEF locks
<1> QED
    BY <1>2, <1>3

\* What is decided is what the log decides.
LEMMA DecideKeeps ==
    ASSUME LogInv, NEW r \in Requests, Decide(r)
    PROVE  \A q \in Requests : RequestInv(q)'
<1> DEFINE in == intent[r]
           stale == in.expectedAttendanceRevision # head.attendanceRevision
           allowed == TransitionAllowed(head.state, in.command, in.confirmActiveBreak)
<1>1. /\ phase[r] = "DECIDE" /\ Typed /\ in \in Intents
      /\ UNCHANGED database /\ head' = head
    BY DEF Decide, LogInv, Inv, Typed, HandlerShape, database
<1>2. CASE Answer(r, "FAILED", None) /\ ReleaseLocks(r)
  <2>1. /\ phase'[r] = "DONE" /\ intent'[r] = intent[r]
        /\ response'[r].kind = "FAILED"
        /\ \A q \in Requests \ {r} :
              /\ phase'[q] = phase[q] /\ intent'[q] = intent[q]
              /\ pending'[q] = pending[q] /\ response'[q] = response[q]
    BY <1>1, <1>2, AnswerDoes
  <2>2. RequestInv(r)'
    BY <1>1, <2>1, LeavingKeeps
  <2>3. ASSUME NEW q \in Requests \ {r} PROVE RequestInv(q)'
    BY <1>1, <1>2, <2>1, ReleaseKeeps, OthersKeep
  <2> QED
    BY <2>2, <2>3
<1>3. ASSUME NEW code, DecideError(r, code), UNCHANGED locks, stale \/ ~allowed,
             code = IF stale THEN "ATTENDANCE_STATE_CHANGED" ELSE TransitionError(head.state, in.command)
      PROVE  \A q \in Requests : RequestInv(q)'
  <2>1. /\ phase' = [phase EXCEPT ![r] = "COMMIT"] /\ UNCHANGED <<intent, response>>
        /\ pending'[r] = [head |-> [head EXCEPT !.exists = TRUE], events |-> <<>>,
                          outcome |-> [code |-> code, attendanceRevision |-> head.attendanceRevision,
                                       state |-> head.state, createdEvents |-> {}]]
        /\ \A q \in Requests \ {r} : pending'[q] = pending[q]
    BY <1>1, <1>3 DEF DecideError, Typed, TypeOK
  <2>2. /\ pending'[r].head.state = head.state
        /\ pending'[r].head.attendanceRevision = head.attendanceRevision
        /\ pending'[r].head.nextEventSequence = head.nextEventSequence
        /\ pending'[r].events = <<>>
        /\ pending'[r].outcome = [code |-> code, attendanceRevision |-> head.attendanceRevision,
                                  state |-> head.state, createdEvents |-> {}]
    <3> DEFINE existing == [head EXCEPT !.exists = TRUE]
    <3>1. head \in Heads
      BY <1>1 DEF Typed, TypeOK
    <3>2. /\ existing.state = head.state
          /\ existing.attendanceRevision = head.attendanceRevision
          /\ existing.nextEventSequence = head.nextEventSequence
      BY <3>1 DEF Heads
    <3> HIDE DEF existing
    <3>3. pending'[r].head = existing
      BY <2>1 DEF existing
    <3>4. /\ pending'[r].events = <<>>
          /\ pending'[r].outcome = [code |-> code, attendanceRevision |-> head.attendanceRevision,
                                    state |-> head.state, createdEvents |-> {}]
      BY <2>1
    <3> QED
      BY <3>2, <3>3, <3>4
  <2>3. /\ intent' = intent /\ head' = head
        /\ stale \/ ~TransitionAllowed(head.state, in.command, in.confirmActiveBreak)
        /\ code = IF stale THEN "ATTENDANCE_STATE_CHANGED" ELSE TransitionError(head.state, in.command)
    BY <1>1, <1>3, <2>1
  <2>4. Refused(r)'
    BY <2>2, <2>3 DEF Refused
  <2> QED
    BY <1>1, <1>3, <2>1, <2>4, DecidingKeeps
<1>4. ASSUME DecideSuccess(r), UNCHANGED locks, ~stale, allowed
      PROVE  \A q \in Requests : RequestInv(q)'
  <2> DEFINE types == EventTypesOf(head.state, in.command)
             n == Len(types)
             first == head.nextEventSequence
             ev(i) == [eventSequence |-> first + i - 1, type |-> types[i],
                       occurredAt |-> FloorToMinute(clock), command |-> r]
  <2>1. /\ phase' = [phase EXCEPT ![r] = "COMMIT"] /\ UNCHANGED <<intent, response>>
        /\ pending'[r] =
             [head |-> [exists |-> TRUE, state |-> StateAfterCommand[in.command],
                        attendanceRevision |-> head.attendanceRevision + 1,
                        nextEventSequence |-> first + n],
              events |-> [i \in 1..n |-> ev(i)],
              outcome |-> [code |-> "OK", attendanceRevision |-> head.attendanceRevision + 1,
                           state |-> StateAfterCommand[in.command],
                           createdEvents |-> first..(first + n - 1)]]
        /\ \A q \in Requests \ {r} : pending'[q] = pending[q]
    BY <1>1, <1>4 DEF DecideSuccess, Typed, TypeOK
  <2>2. n \in Nat
    BY <1>1, RuleTypes DEF Typed, TypeOK, Heads, Intents
  <2>3. /\ pending'[r].events = [i \in 1..n |-> ev(i)]
        /\ Len(pending'[r].events) = n
        /\ \A i \in 1..n : pending'[r].events[i].command = r
    BY <2>1, <2>2
  <2> HIDE DEF ev
  <2>4. Accepted(r)'
    BY <1>1, <1>4, <2>1, <2>3 DEF Accepted
  <2> QED
    BY <1>1, <1>4, <2>1, <2>4, DecidingKeeps
<1> QED
  <2>1. Decide(r)
    OBVIOUS
  <2> QED
    BY <1>2, <1>3, <1>4, <2>1 DEF Decide

-----------------------------------------------------------------------------
(* Commits *)

\* What a commit does, and that its key was undecided.
LEMMA CommitDoes ==
    ASSUME LogInv, NEW r \in Requests, Commit(r)
    PROVE  /\ phase[r] = "COMMIT" /\ RequestInv(r) /\ intent[r] \in Intents \cap Sent
           /\ Key(r) \in Keys /\ records[Key(r)] = None /\ pending[r] \in Writes
           /\ Accepted(r) \/ Refused(r)
           /\ head' = pending[r].head
           /\ punchEvents' = punchEvents \o pending[r].events
           /\ records' = [records EXCEPT ![Key(r)] = [fingerprint |-> Fingerprint(intent[r]),
                                                     outcome |-> pending[r].outcome]]
<1>1. phase[r] = "COMMIT" /\ RequestInv(r) /\ intent[r] \in Intents /\ pending[r] \in Writes
    BY DEF Commit, LogInv, Inv, Typed, HandlerShape
<1>2. Key(r) \in Keys
    BY <1>1 DEF Intents, Key
<1> QED
    BY <1>1, <1>2 DEF RequestInv, Commit, Key

\* A commit answers what it stores, and decides no key another request holds or
\* was answered for.
LEMMA CommitKeeps ==
    ASSUME LogInv, NEW r \in Requests, Commit(r)
    PROVE  \A q \in Requests : RequestInv(q)'
<1>1. /\ Typed /\ ReleaseLocks(r)
      /\ phase'[r] = "DONE" /\ intent'[r] = intent[r]
      /\ \/ response'[r].kind = "OUTCOME" /\ response'[r].outcome = pending[r].outcome
         \/ response'[r].kind = "FAILED"
      /\ \A q \in Requests \ {r} :
            /\ phase'[q] = phase[q] /\ intent'[q] = intent[q]
            /\ pending'[q] = pending[q] /\ response'[q] = response[q]
  <2>1. /\ Typed /\ ReleaseLocks(r)
        /\ Answer(r, "OUTCOME", pending[r].outcome) \/ Answer(r, "FAILED", None)
    BY DEF Commit, LogInv, Inv
  <2> QED
    BY <2>1, AnswerDoes
<1>2. /\ phase[r] = "COMMIT" /\ RequestInv(r) /\ Key(r) \in Keys /\ records[Key(r)] = None
      /\ records' = [records EXCEPT ![Key(r)] = [fingerprint |-> Fingerprint(intent[r]),
                                                outcome |-> pending[r].outcome]]
    BY CommitDoes
<1>3. /\ records'[Key(r)].fingerprint = Fingerprint(intent[r])
      /\ records'[Key(r)].outcome = pending[r].outcome
      /\ records'[Key(r)] # None
      /\ \A k \in Keys \ {Key(r)} : records'[k] = records[k]
  <2>1. /\ records'[Key(r)] = [fingerprint |-> Fingerprint(intent[r]), outcome |-> pending[r].outcome]
        /\ \A k \in Keys \ {Key(r)} : records'[k] = records[k]
    BY <1>1, <1>2 DEF Typed, TypeOK
  <2>2. records'[Key(r)] \in Records
    <3>1. intent[r] \in Intents /\ pending[r] \in Writes
      BY CommitDoes
    <3> QED
      BY <2>1, <3>1, FingerprintType DEF Records, Writes
  <2> QED
    BY <2>1, <2>2, AttendanceAssumption
<1>4. RequestInv(r)'
  <2>1. AnswerIsStored(r)'
    BY <1>1, <1>3 DEF AnswerIsStored, Decided, Key, Fingerprint
  <2> QED
    BY <1>1, <1>2, <2>1 DEF RequestInv
<1>5. ASSUME NEW q \in Requests \ {r} PROVE RequestInv(q)'
  <2>1. RequestInv(q)
    BY DEF LogInv
  <2>2. phase[q] # "COMMIT"
    BY <1>2 DEF LogInv, Inv, LocksHeld
  <2>3. phase[q] \in {"LOCK", "DECIDE"} =>
           keyLock'[Key(q)] = q /\ records'[Key(q)] = None
    <3> SUFFICES ASSUME phase[q] \in {"LOCK", "DECIDE"}
                 PROVE  keyLock'[Key(q)] = q /\ records'[Key(q)] = None
      OBVIOUS
    <3>1. Key(q) \in Keys /\ keyLock[Key(q)] = q /\ records[Key(q)] = None
      BY <2>1 DEF LogInv, Inv, Typed, HandlerShape, Intents, Key, RequestInv
    <3>2. Key(q) # Key(r)
      BY <1>2, <3>1 DEF RequestInv
    <3> QED
      BY <1>1, <1>3, <3>1, <3>2, ReleaseKeeps
  <2>4. AnswerIsStored(q)'
    <3> SUFFICES ASSUME response[q].kind \in {"OUTCOME", "REPLAY"}
                 PROVE  /\ records'[Key(q)] = records[Key(q)]
                        /\ Decided(Key(q))
                        /\ records[Key(q)].fingerprint = Fingerprint(intent[q])
                        /\ response[q].outcome = records[Key(q)].outcome
      BY <1>1 DEF AnswerIsStored, Decided, Key, Fingerprint
    <3>1. /\ Decided(Key(q)) /\ records[Key(q)].fingerprint = Fingerprint(intent[q])
          /\ response[q].outcome = records[Key(q)].outcome
      BY <2>1 DEF RequestInv, AnswerIsStored
    <3>2. Key(q) # Key(r) /\ Key(q) \in Keys
      <4>1. phase[q] # "IDLE" /\ intent[q] \in Sent
        BY <2>1 DEF RequestInv
      <4> QED
        BY <1>2, <3>1, <4>1, AttendanceAssumption DEF Decided, Key, Intents
    <3> QED
      BY <1>3, <3>1, <3>2
  <2> QED
    BY <1>1, <2>1, <2>2, <2>3, <2>4 DEF RequestInv, Key
<1> QED
    BY <1>4, <1>5

-----------------------------------------------------------------------------
(* The invariant *)

\* Nothing is known of a request that has not entered.
LEMMA LogInvInit == Init => LogInv
<1>1. Init => Inv
    BY InvInit
<1>2. ASSUME Init, NEW r \in Requests PROVE RequestInv(r)
    BY <1>2 DEF Init, RequestInv, AnswerIsStored
<1> QED
    BY <1>1, <1>2 DEF LogInv

\* A request whose process dies leaves its key and its answer behind.
LEMMA CrashKeeps ==
    ASSUME LogInv, NEW r \in Requests, Crash(r)
    PROVE  \A q \in Requests : RequestInv(q)'
<1>1. /\ Typed /\ ReleaseLocks(r) /\ UNCHANGED database
      /\ phase[r] \notin {"IDLE", "DONE"} /\ Answer(r, "LOST", None)
    BY DEF LogInv, Inv, Crash, Running
<1>2. /\ phase'[r] = "DONE" /\ intent'[r] = intent[r]
      /\ response'[r].kind = "LOST"
      /\ \A q \in Requests \ {r} :
            /\ phase'[q] = phase[q] /\ intent'[q] = intent[q]
            /\ pending'[q] = pending[q] /\ response'[q] = response[q]
    BY <1>1, AnswerDoes
<1>3. RequestInv(r)'
    BY <1>1, <1>2, LeavingKeeps
<1>4. ASSUME NEW q \in Requests \ {r} PROVE RequestInv(q)'
    BY <1>1, <1>2, ReleaseKeeps, OthersKeep
<1> QED
    BY <1>3, <1>4

\* Every step keeps what is known of every request.
LEMMA LogInvStep == LogInv /\ [Next]_vars => LogInv'
<1> SUFFICES ASSUME LogInv, [Next]_vars PROVE LogInv'
    OBVIOUS
<1>1. Inv'
    BY InvStep DEF LogInv
<1>2. ASSUME UNCHANGED <<database, locks, handlers>> PROVE \A q \in Requests : RequestInv(q)'
  <2>1. UNCHANGED <<database, keyLock, phase, intent, pending, response>>
    BY <1>2 DEF locks, handlers
  <2> QED
    BY <2>1, OthersKeep
<1>3. ASSUME NEW r \in Requests, NEW in \in Sent, Prepare(r, in)
      PROVE  \A q \in Requests : RequestInv(q)'
    BY <1>3, PrepareKeeps
<1>4. ASSUME NEW r \in Requests, BeginTransaction(r) PROVE \A q \in Requests : RequestInv(q)'
    BY <1>4, BeginTransactionKeeps
<1>5. ASSUME NEW r \in Requests, Claim(r) PROVE \A q \in Requests : RequestInv(q)'
    BY <1>5, ClaimKeeps
<1>6. ASSUME NEW r \in Requests, LockHead(r) PROVE \A q \in Requests : RequestInv(q)'
    BY <1>6, LockHeadKeeps
<1>7. ASSUME NEW r \in Requests, Decide(r) PROVE \A q \in Requests : RequestInv(q)'
    BY <1>7, DecideKeeps
<1>8. ASSUME NEW r \in Requests, Commit(r) PROVE \A q \in Requests : RequestInv(q)'
    BY <1>8, CommitKeeps
<1>9. ASSUME NEW r \in Requests, Abort(r) PROVE \A q \in Requests : RequestInv(q)'
    BY <1>9, FailureKeeps DEF Abort, InTransaction
<1>10. ASSUME NEW r \in Requests, Crash(r) PROVE \A q \in Requests : RequestInv(q)'
    BY <1>10, CrashKeeps
<1>11. ASSUME (\E t \in 0..MaxClock : ReadClock(t)) \/ Deauthorize \/ UNCHANGED vars
       PROVE  UNCHANGED <<database, locks, handlers>>
    BY <1>11 DEF ReadClock, Deauthorize, vars
<1>12. \A q \in Requests : RequestInv(q)'
    BY <1>2, <1>3, <1>4, <1>5, <1>6, <1>7, <1>8, <1>9, <1>10, <1>11 DEF Next
<1> QED
    BY <1>1, <1>12 DEF LogInv

\* Only a commit writes to the database.
LEMMA OnlyCommitsWrite ==
    [Next]_vars => UNCHANGED database \/ \E r \in Requests : Commit(r)
    BY DEF Next, vars, Prepare, BeginTransaction, Claim, LockHead, Decide, Abort, Crash,
           ReadClock, Deauthorize, SerializationFailure

\* A commit appends events and decides one key that was undecided.
LEMMA CommitAppends ==
    ASSUME LogInv, NEW r \in Requests, Commit(r)
    PROVE  /\ Len(punchEvents') = Len(punchEvents) + Len(pending[r].events)
           /\ \A i \in 1..Len(punchEvents) : punchEvents'[i] = punchEvents[i]
           /\ \A i \in 1..Len(pending[r].events) :
                 punchEvents'[Len(punchEvents) + i] = pending[r].events[i]
           /\ records'[Key(r)] = [fingerprint |-> Fingerprint(intent[r]),
                                  outcome |-> pending[r].outcome]
           /\ records'[Key(r)] # None
           /\ \A k \in Keys \ {Key(r)} : records'[k] = records[k]
<1>1. /\ punchEvents \in Seq(Events) /\ records \in [Keys -> Records \cup {None}]
      /\ pending[r].events \in Seq(Events)
    BY CommitDoes DEF LogInv, Inv, Typed, TypeOK, Writes
<1>2. /\ Len(punchEvents') = Len(punchEvents) + Len(pending[r].events)
      /\ \A i \in 1..Len(punchEvents) : punchEvents'[i] = punchEvents[i]
      /\ \A i \in 1..Len(pending[r].events) :
            punchEvents'[Len(punchEvents) + i] = pending[r].events[i]
    BY <1>1, CommitDoes
<1>3. /\ records'[Key(r)] = [fingerprint |-> Fingerprint(intent[r]), outcome |-> pending[r].outcome]
      /\ \A k \in Keys \ {Key(r)} : records'[k] = records[k]
    BY <1>1, CommitDoes
<1>4. records'[Key(r)] # None
  <2>1. records'[Key(r)] \in Records
    BY <1>3, CommitDoes, FingerprintType DEF Records, Writes
  <2> QED
    BY <2>1, AttendanceAssumption
<1> QED
    BY <1>2, <1>3, <1>4

-----------------------------------------------------------------------------
(* Theorems *)

\* The log decides by the same rules as the service.
LEMMA SameRules ==
    /\ Log!StateAfterCommand = StateAfterCommand
    /\ \A s, c : Log!EventTypesOf(s, c) = EventTypesOf(s, c)
    /\ \A s, c : Log!TransitionError(s, c) = TransitionError(s, c)
    /\ \A s, c, confirmed :
          Log!TransitionAllowed(s, c, confirmed) = TransitionAllowed(s, c, confirmed)
<1>1. /\ Log!StateAfterCommand = StateAfterCommand
      /\ Log!EventOfCommand = EventOfCommand
      /\ Log!AcceptedCommands = AcceptedCommands
    BY DEF Log!StateAfterCommand, StateAfterCommand, Log!EventOfCommand, EventOfCommand,
           Log!AcceptedCommands, AcceptedCommands
<1>2. \A s : Log!RejectionCode(s) = RejectionCode(s)
    BY DEF Log!RejectionCode, RejectionCode
<1>3. \A s, c : Log!EventTypesOf(s, c) = EventTypesOf(s, c)
    BY <1>1 DEF Log!EventTypesOf, EventTypesOf
<1>4. \A s, c : Log!TransitionError(s, c) = TransitionError(s, c)
    BY <1>1, <1>2 DEF Log!TransitionError, TransitionError
<1>5. \A s, c, confirmed :
          Log!TransitionAllowed(s, c, confirmed) = TransitionAllowed(s, c, confirmed)
    BY <1>1 DEF Log!TransitionAllowed, TransitionAllowed, Log!ConfirmationMissing,
           ConfirmationMissing
<1> QED
    BY <1>1, <1>3, <1>4, <1>5

\* The interleaved transactions, with their reruns, crashes, lost answers and
\* duplicates, decide every key once, atomically, as the log does.
THEOREM AttendanceImplementsLog == Spec => ImplementsLog
<1>1. Init => Log!LogInit
    BY DEF Init, Log!LogInit
<1>2. ASSUME LogInv, NEW r \in Requests, Commit(r) PROVE Log!LogNext
  <2> DEFINE in == intent[r]
             n == Len(EventTypesOf(head.state, in.command))
  <2>1. /\ in \in Sent /\ head' = pending[r].head
        /\ Accepted(r) \/ Refused(r)
    BY <1>2, CommitDoes
  <2>2. Log!Record(in, pending[r].outcome)
    BY <1>2, CommitDoes DEF Log!Record, Log!Identity, Fingerprint, Key
  <2>3. head.nextEventSequence \in Nat /\ n \in Nat
    BY <1>2, CommitDoes, RuleTypes DEF LogInv, Inv, Typed, TypeOK, Heads, Intents
  <2>4. CASE Accepted(r)
    <3>1. (head.nextEventSequence + n - 1) + 1 = head.nextEventSequence + n
      BY <2>3
    <3>2. Log!Accept(in)
      BY <2>1, <2>2, <2>4, <3>1, SameRules DEF Accepted, Log!Accept
    <3> QED
      BY <2>1, <3>2 DEF Log!LogNext
  <2>5. CASE Refused(r)
    <3>1. Log!Refuse(in)
      BY <2>1, <2>2, <2>5, SameRules DEF Refused, Log!Refuse
    <3> QED
      BY <2>1, <3>1 DEF Log!LogNext
  <2> QED
    BY <2>1, <2>4, <2>5
<1>3. LogInv /\ [Next]_vars => [Log!LogNext]_(Log!logVars)
    BY <1>2, OnlyCommitsWrite DEF database, Log!logVars
<1> QED
    BY <1>1, <1>3, LogInvInit, LogInvStep, PTL DEF Spec, ImplementsLog, Log!LogSpec

\* The first answer to an intent and every replay are what is stored for its key.
THEOREM AnswersAreAlwaysStored == Spec => []AnswersAreStored
<1>1. LogInv => AnswersAreStored
    BY DEF LogInv, RequestInv, AnswerIsStored, AnswersAreStored, Key
<1> QED
    BY <1>1, LogInvInit, LogInvStep, PTL DEF Spec

\* Punch events and decisions are never changed or dropped once stored.
THEOREM HistoryStaysImmutable == Spec => HistoryIsImmutable
<1> DEFINE Kept == /\ Len(punchEvents) <= Len(punchEvents')
                   /\ \A i \in 1..Len(punchEvents) : punchEvents'[i] = punchEvents[i]
                   /\ \A k \in Keys : Decided(k) => records'[k] = records[k]
<1>1. ASSUME LogInv, UNCHANGED database PROVE Kept
    BY <1>1 DEF database, LogInv, Inv, Typed, TypeOK
<1>2. ASSUME LogInv, NEW r \in Requests, Commit(r) PROVE Kept
  <2>1. /\ Len(punchEvents) \in Nat /\ Len(pending[r].events) \in Nat
        /\ records[Key(r)] = None
    BY <1>2, CommitDoes DEF LogInv, Inv, Typed, TypeOK, Writes
  <2>2. /\ Len(punchEvents') = Len(punchEvents) + Len(pending[r].events)
        /\ \A i \in 1..Len(punchEvents) : punchEvents'[i] = punchEvents[i]
        /\ \A k \in Keys \ {Key(r)} : records'[k] = records[k]
    BY <1>2, CommitAppends
  <2> QED
    BY <2>1, <2>2 DEF Decided
<1>3. LogInv /\ [Next]_vars => [Kept]_vars
    BY <1>1, <1>2, OnlyCommitsWrite
<1> QED
    BY <1>3, LogInvInit, LogInvStep, PTL DEF Spec, HistoryIsImmutable

\* Each revision of the head is consumed by the one command that saw it.
THEOREM RevisionsAreConsumedOnce == Spec => []RevisionsConsumedOnce
<1> DEFINE IInv == LogInv /\ RevisionsConsumedOnce
<1>1. Init => IInv
    BY LogInvInit DEF Init, RevisionsConsumedOnce, Succeeded, Decided
<1>2. ASSUME IInv, UNCHANGED database PROVE RevisionsConsumedOnce'
    BY <1>2 DEF database, RevisionsConsumedOnce, Succeeded, Decided
<1>3. ASSUME IInv, NEW r \in Requests, Commit(r) PROVE RevisionsConsumedOnce'
  <2>0. PICK key \in Keys : key = Key(r)
    BY <1>3, CommitDoes
  <2>1. /\ head.attendanceRevision \in Nat
        /\ head' = pending[r].head
        /\ intent[r] \in Intents /\ head.state \in AttendanceStates
    BY <1>3, CommitDoes DEF LogInv, Inv, Typed, TypeOK, Heads
  <2>2. /\ records'[key].outcome = pending[r].outcome
        /\ records'[key].fingerprint.expectedAttendanceRevision
              = intent[r].expectedAttendanceRevision
        /\ \A k \in Keys \ {key} : records'[k] = records[k]
    <3>1. /\ records'[Key(r)] = [fingerprint |-> Fingerprint(intent[r]),
                                 outcome |-> pending[r].outcome]
          /\ \A k \in Keys \ {Key(r)} : records'[k] = records[k]
      BY <1>3, CommitAppends
    <3>2. Fingerprint(intent[r]).expectedAttendanceRevision
              = intent[r].expectedAttendanceRevision
      BY DEF Fingerprint
    <3> QED
      BY <2>0, <3>1, <3>2
  <2>3. \A k \in Keys : Succeeded(k) => records[k].outcome.attendanceRevision <= head.attendanceRevision
    BY <1>3 DEF RevisionsConsumedOnce
  <2>4. \A k \in Keys : Succeeded(k) => records[k].outcome.attendanceRevision \in Nat
    BY <1>3 DEF LogInv, Inv, Typed, TypeOK, Succeeded, Decided, Records, Outcomes
  <2>5. \A k \in Keys \ {key} : Succeeded(k)' = Succeeded(k)
    BY <2>2 DEF Succeeded, Decided
  <2>6. CASE Accepted(r)
    <3>1. /\ head'.attendanceRevision = head.attendanceRevision + 1
          /\ records'[key].outcome.attendanceRevision = head.attendanceRevision + 1
          /\ records'[key].fingerprint.expectedAttendanceRevision = head.attendanceRevision
      BY <2>1, <2>2, <2>6 DEF Accepted
    <3> QED
      BY <1>3, <2>1, <2>2, <2>3, <2>4, <2>5, <3>1 DEF RevisionsConsumedOnce
  <2>7. CASE Refused(r)
    <3>1. head'.attendanceRevision = head.attendanceRevision /\ ~Succeeded(key)'
      <4>1. TransitionError(head.state, intent[r].command) \in ErrorCodes
        BY <2>1, RuleTypes DEF Intents
      <4>2. pending[r].outcome.code # "OK"
        BY <2>7, <4>1 DEF Refused, ErrorCodes
      <4>3. ~Succeeded(key)'
        BY <2>2, <4>2 DEF Succeeded
      <4>4. head'.attendanceRevision = head.attendanceRevision
        BY <2>1, <2>7 DEF Refused
      <4> QED
        BY <4>3, <4>4
    <3> SUFFICES ASSUME NEW k \in Keys, Succeeded(k)'
                 PROVE  LET made == records'[k].outcome.attendanceRevision
                        IN  /\ made = records'[k].fingerprint.expectedAttendanceRevision + 1
                            /\ made <= head'.attendanceRevision
                            /\ \A other \in Keys \ {k} :
                                  Succeeded(other)'
                                    => records'[other].outcome.attendanceRevision # made
      BY DEF RevisionsConsumedOnce
    <3>2. k # key /\ Succeeded(k) /\ records'[k] = records[k]
      BY <2>2, <3>1 DEF Succeeded, Decided
    <3>3. \A other \in Keys \ {k} :
             Succeeded(other)' => Succeeded(other) /\ records'[other] = records[other]
      BY <2>2, <3>1 DEF Succeeded, Decided
    <3> QED
      BY <1>3, <3>1, <3>2, <3>3 DEF RevisionsConsumedOnce
  <2> QED
    BY <1>3, <2>6, <2>7, CommitDoes
<1>4. IInv /\ [Next]_vars => IInv'
    BY <1>2, <1>3, OnlyCommitsWrite, LogInvStep
<1> QED
    BY <1>1, <1>4, PTL DEF Spec

\* Every event was created under one key, by one execution of its command.
THEOREM EventsAreCreatedOnce == Spec => []EventsCreatedOnce
<1> DEFINE Stored == \A k \in Keys :
               Decided(k) => \A i \in records[k].outcome.createdEvents : i \in 1..Len(punchEvents)
           IInv == LogInv /\ Stored /\ EventsCreatedOnce
<1>1. Init => IInv
  <2>1. Init => Stored
    BY DEF Init, Decided
  <2>2. Init => EventsCreatedOnce
    BY DEF Init, EventsCreatedOnce
  <2> QED
    BY <2>1, <2>2, LogInvInit
<1>2. ASSUME IInv, UNCHANGED database PROVE Stored' /\ EventsCreatedOnce'
    BY <1>2 DEF database, EventsCreatedOnce, Succeeded, Decided
<1>3. ASSUME IInv, NEW r \in Requests, Commit(r) PROVE Stored' /\ EventsCreatedOnce'
  <2> DEFINE length == Len(punchEvents)
             created(k) == records[k].outcome.createdEvents
             n == Len(pending[r].events)
  <2>1. PICK key \in Keys : key = Key(r)
    BY <1>3, CommitDoes
  <2>2. /\ length \in Nat /\ n \in Nat /\ head.nextEventSequence = length + 1
        /\ records[key] = None
    <3>1. pending[r].events \in Seq(Events) /\ records[key] = None
      BY <1>3, <2>1, CommitDoes DEF Writes
    <3>2. punchEvents \in Seq(Events) /\ head.nextEventSequence = length + 1
      BY <1>3 DEF LogInv, Inv, HeadMirrorsEvents, Mirrors, Typed, TypeOK
    <3> QED
      BY <3>1, <3>2
  <2>3. /\ Len(punchEvents') = length + n
        /\ \A i \in 1..length : punchEvents'[i] = punchEvents[i]
        /\ \A i \in 1..n : punchEvents'[length + i] = pending[r].events[i]
        /\ records'[key] # None
        /\ \A k \in Keys \ {key} : records'[k] = records[k]
    BY <1>3, <2>1, CommitAppends
  <2>4. records'[key].outcome = pending[r].outcome
    <3>1. records'[key] = [fingerprint |-> Fingerprint(intent[r]), outcome |-> pending[r].outcome]
      BY <1>3, <2>1, CommitAppends
    <3> QED
      BY <3>1
  <2>5. /\ records'[key].outcome.createdEvents \subseteq (length + 1)..(length + n)
        /\ n > 0 => /\ records'[key].outcome.code = "OK"
                    /\ records'[key].outcome.createdEvents = (length + 1)..(length + n)
                    /\ \A i \in 1..n : pending[r].events[i].command = r
    <3>1. CASE Accepted(r)
      <4>1. /\ Len(EventTypesOf(head.state, intent[r].command)) = n
            /\ pending[r].outcome.code = "OK"
            /\ pending[r].outcome.createdEvents
                  = head.nextEventSequence..(head.nextEventSequence + n - 1)
            /\ \A i \in 1..n : pending[r].events[i].command = r
        BY <3>1 DEF Accepted
      <4>2. head.nextEventSequence..(head.nextEventSequence + n - 1) = (length + 1)..(length + n)
        <5>1. \A p, q \in Nat : \A s : s = p + 1 => s..(s + q - 1) = (p + 1)..(p + q)
          OBVIOUS
        <5> QED
          BY <2>2, <5>1
      <4> QED
        BY <2>4, <4>1, <4>2
    <3>2. CASE Refused(r)
      <4>1. pending[r].events = <<>> /\ pending[r].outcome.createdEvents = {}
        BY <3>2 DEF Refused
      <4> QED
        BY <2>4, <4>1
    <3> QED
      BY <1>3, <3>1, <3>2, CommitDoes
  <2>6. \A k \in Keys : Decided(k) => \A i \in created(k) : i \in 1..length
    BY <1>3
  <2>7. Stored'
    <3> SUFFICES ASSUME NEW k \in Keys, records'[k] # None,
                        NEW i \in records'[k].outcome.createdEvents
                 PROVE  i \in 1..Len(punchEvents')
      BY DEF Decided
    <3>1. CASE k = key
      BY <2>2, <2>3, <2>5, <3>1
    <3>2. CASE k # key
      BY <2>2, <2>3, <2>6, <3>2 DEF Decided
    <3> QED
      BY <3>1, <3>2
  <2>8. ASSUME NEW i \in 1..(length + n)
        PROVE  \E k \in Keys :
                  /\ records'[k] # None /\ records'[k].outcome.code = "OK"
                  /\ i \in records'[k].outcome.createdEvents
                  /\ \A j \in records'[k].outcome.createdEvents :
                        /\ j \in 1..(length + n)
                        /\ punchEvents'[j].command = punchEvents'[i].command
                  /\ \A other \in Keys \ {k} :
                        records'[other] # None => i \notin records'[other].outcome.createdEvents
    <3>1. CASE i <= length
      <4>1. PICK k \in Keys :
                  /\ Succeeded(k) /\ i \in created(k)
                  /\ \A j \in created(k) :
                        j \in 1..length /\ punchEvents[j].command = punchEvents[i].command
                  /\ \A other \in Keys \ {k} : Decided(other) => i \notin created(other)
        BY <1>3, <2>2, <3>1 DEF EventsCreatedOnce
      <4>2. k # key /\ records'[k] = records[k] /\ records[k] # None /\ records[k].outcome.code = "OK"
        BY <2>2, <2>3, <4>1 DEF Succeeded, Decided
      <4>3. \A j \in created(k) :
               j \in 1..(length + n) /\ punchEvents'[j].command = punchEvents'[i].command
        BY <2>2, <2>3, <3>1, <4>1
      <4>4. i \notin records'[key].outcome.createdEvents
        BY <2>2, <2>5, <3>1
      <4>5. \A other \in Keys \ {k} :
               records'[other] # None => i \notin records'[other].outcome.createdEvents
        BY <2>3, <4>1, <4>4 DEF Decided
      <4> QED
        BY <4>1, <4>2, <4>3, <4>5
    <3>2. CASE i > length
      <4>1. n > 0 /\ i \in (length + 1)..(length + n)
        BY <2>2, <3>2
      <4>2. \A j \in (length + 1)..(length + n) : punchEvents'[j].command = r
        <5> TAKE j \in (length + 1)..(length + n)
        <5>1. j - length \in 1..n /\ length + (j - length) = j
          BY <2>2
        <5>2. PICK m \in 1..n : length + m = j
          BY <5>1
        <5>3. punchEvents'[length + m] = pending[r].events[m]
          BY <2>3
        <5>4. pending[r].events[m].command = r
          BY <2>5, <4>1
        <5> QED
          BY <5>2, <5>3, <5>4
      <4>3. \A j \in (length + 1)..(length + n) : j \in 1..(length + n)
        BY <2>2
      <4>4. \A other \in Keys \ {key} :
               records'[other] # None => i \notin records'[other].outcome.createdEvents
        BY <2>2, <2>3, <2>6, <3>2 DEF Decided
      <4> QED
        BY <2>3, <2>5, <4>1, <4>2, <4>3, <4>4
    <3> QED
      BY <2>2, <3>1, <3>2
  <2> QED
    BY <2>3, <2>7, <2>8 DEF EventsCreatedOnce, Succeeded, Decided
<1>4. IInv /\ [Next]_vars => IInv'
    BY <1>2, <1>3, OnlyCommitsWrite, LogInvStep
<1> QED
    BY <1>1, <1>4, PTL DEF Spec
=============================================================================
