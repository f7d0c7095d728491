-------------------------- MODULE TodayPage_proofs --------------------------
(***************************************************************************)
(* Proofs about the Today page: about the commands its tabs send, for any  *)
(* number of tabs, keys and retries and whatever other devices send, and   *)
(* about the calculation it shows, for any calendar, zone and clock.       *)
(*                                                                         *)
(* Argument for the commands: a key belongs to one intent (OwnKeys), so    *)
(* that what is decided under it is decided for that intent                *)
(* (OwnDecisions), and what a page is told is read from the decision,      *)
(* which is final (RepliesTrue).  A page knows some revision of the server *)
(* with the state it had (ViewsShow), so its intent is legal as long as    *)
(* the revision is that one (IntentsLegal), and is refused only when the   *)
(* revision has moved on.                                                  *)
(*                                                                         *)
(* Argument for the calculation: the next midnight ends the local date     *)
(* (NextMidnightEndsDate), so that an interval has one segment for each    *)
(* date it reaches (SegmentStartsAre), which has its minutes of that date. *)
(* Segments do not overlap, so their lengths add up to how many minutes    *)
(* they have together (MinutesAreCounted).  The events that are read have  *)
(* no gap up to the instant, and begin before the date if others precede   *)
(* them (SourceIsRun), so a minute of the date lies in the interval of the *)
(* last event before it (StateOfMinute).  TodayInv keeps what an answer    *)
(* was computed from; without a punch, minutes that pass are worked and    *)
(* taken off the rest (SpentGrows).                                        *)
(***************************************************************************)
EXTENDS AttendanceClient, Today, LedgerSums, SequenceTheorems, TLAPS

-----------------------------------------------------------------------------
(* The commands of the tabs *)

Typed ==
    /\ state \in AttendanceStates
    /\ revision \in Nat
    /\ nextSequence \in Nat
    /\ decisions \in [Keys -> Decisions \cup {None}]
    /\ wire \subseteq Requests
    /\ replies \in [Keys -> Verdicts \cup {None, "FAILED"}]
    /\ intents \in [Keys -> Intents \cup {None}]
    /\ mutation \in [Tabs -> Mutations \cup {None}]
    /\ view \in [Tabs -> Views \cup {None}]
    /\ answers \in [Tabs -> SUBSET Views]
    /\ link \in [Tabs -> {"OFFLINE", "STALE", "READY"}]
    /\ told \in [Keys -> Verdicts \cup {None, "UNCERTAIN"}]

\* An intent of a page has a key of its own.
OwnKeys ==
    \A k \in Keys : intents[k] # None =>
        /\ intents[k].idempotencyKey = k
        /\ \A in \in Sent : in.idempotencyKey # k

\* Whatever is on its way, pending, told or decided belongs to an intent.
KeysIssued ==
    /\ \A r \in wire : intents[r[1]] # None
    /\ \A t \in Tabs : mutation[t] # None => intents[mutation[t].key] # None
    /\ \A k \in Keys : told[k] # None => intents[k] # None
    /\ \A k \in Keys : decisions[k] # None =>
          intents[k] # None \/ \E in \in Sent : in.idempotencyKey = k

\* A view is of the past or of now.
Shows(v, rev, st) ==
    /\ v.attendanceRevision <= rev
    /\ v.attendanceRevision = rev => v.state = st

ViewsShow ==
    \A t \in Tabs :
        /\ view[t] # None => Shows(view[t], revision, state)
        /\ \A v \in answers[t] : Shows(v, revision, state)

\* An intent that is not stale is legal.
Legal(in, rev, st) ==
    /\ in.expectedAttendanceRevision <= rev
    /\ in.expectedAttendanceRevision = rev =>
           TransitionAllowed(st, in.command, in.confirmActiveBreak)

IntentsLegal == \A k \in Keys : intents[k] # None => Legal(intents[k], revision, state)

OwnDecisions ==
    \A k \in Keys : (decisions[k] # None /\ intents[k] # None) =>
        /\ decisions[k].fingerprint = Identity(intents[k])
        /\ decisions[k].outcome.code \in {"OK", "ATTENDANCE_STATE_CHANGED"}

RepliesTrue ==
    \A k \in Keys : replies[k] \in Verdicts =>
        decisions[k] # None /\ decisions[k].outcome.code = replies[k]

ClientInv ==
    /\ Typed
    /\ OwnKeys
    /\ KeysIssued
    /\ ViewsShow
    /\ IntentsLegal
    /\ OwnDecisions
    /\ RepliesTrue
    /\ ToldTheTruth


-----------------------------------------------------------------------------
(* Decisions *)

\* The codes and states of the transition table.
LEMMA RuleTypes ==
    /\ \A c \in AttendanceCommands : StateAfterCommand[c] \in AttendanceStates
    /\ \A st \in AttendanceStates, c \in AttendanceCommands :
          /\ TransitionError(st, c) \in Verdicts
          /\ Len(EventTypesOf(st, c)) \in {1, 2}
<1>1. \A c \in AttendanceCommands : StateAfterCommand[c] \in AttendanceStates
    BY DEF AttendanceCommands, StateAfterCommand, AttendanceStates
<1>2. ASSUME NEW st \in AttendanceStates, NEW c \in AttendanceCommands
      PROVE  TransitionError(st, c) \in Verdicts
    BY DEF AttendanceCommands, TransitionError, RejectionCode, Verdicts
<1>3. ASSUME NEW st \in AttendanceStates, NEW c \in AttendanceCommands
      PROVE  Len(EventTypesOf(st, c)) \in {1, 2}
    BY DEF EventTypesOf
<1> QED
    BY <1>1, <1>2, <1>3

\* A decision is written once, under the key of its intent; it accepts or says
\* that the state has changed, unless the intent was illegal where it was made.
LEMMA DecisionWritten ==
    ASSUME Typed, NEW in \in Intents, Accept(in) \/ Refuse(in)
    PROVE  /\ decisions[in.idempotencyKey] = None
           /\ \E row \in Decisions :
                 /\ decisions' = [decisions EXCEPT ![in.idempotencyKey] = row]
                 /\ row.fingerprint = Identity(in)
                 /\ Legal(in, revision, state) =>
                        row.outcome.code \in {"OK", "ATTENDANCE_STATE_CHANGED"}
           /\ state' \in AttendanceStates /\ revision' \in Nat /\ nextSequence' \in Nat
           /\ revision <= revision'
           /\ revision' = revision => state' = state
<1>1. /\ in.command \in AttendanceCommands /\ in.idempotencyKey \in Keys
      /\ in.expectedAttendanceRevision \in Nat /\ in.confirmActiveBreak \in BOOLEAN
    BY DEF Intents
<1>2. Identity(in) \in [command : AttendanceCommands, expectedAttendanceRevision : Nat,
                        confirmActiveBreak : BOOLEAN]
    BY <1>1 DEF Identity
<1>3. state \in AttendanceStates /\ revision \in Nat /\ nextSequence \in Nat
    BY DEF Typed
<1>4. CASE Accept(in)
  <2> DEFINE last == nextSequence + Len(EventTypesOf(state, in.command)) - 1
             outcome == [code |-> "OK", attendanceRevision |-> revision + 1,
                         state |-> StateAfterCommand[in.command],
                         createdEvents |-> nextSequence..last]
             row == [fingerprint |-> Identity(in), outcome |-> outcome]
  <2>1. /\ decisions[in.idempotencyKey] = None
        /\ decisions' = [decisions EXCEPT ![in.idempotencyKey] = row]
        /\ state' = StateAfterCommand[in.command]
        /\ revision' = revision + 1
        /\ nextSequence' = last + 1
      BY <1>4 DEF Accept, Record
  <2>2. Len(EventTypesOf(state, in.command)) \in {1, 2}
      BY <1>1, <1>3, RuleTypes
  <2>3. last + 1 \in Nat /\ nextSequence..last \in SUBSET Nat
      BY <1>3, <2>2
  <2>4. StateAfterCommand[in.command] \in AttendanceStates
      BY <1>1, RuleTypes
  <2>5. outcome \in [code : Verdicts, attendanceRevision : Nat, state : AttendanceStates,
                     createdEvents : SUBSET Nat]
    <3>1. "OK" \in Verdicts /\ revision + 1 \in Nat
        BY <1>3 DEF Verdicts
    <3> HIDE DEF last
    <3> QED
        BY <2>3, <2>4, <3>1
  <2>6. outcome.code = "OK"
      OBVIOUS
  <2> HIDE DEF outcome
  <2>7. row \in Decisions /\ row.fingerprint = Identity(in) /\ row.outcome.code = "OK"
      BY <1>2, <2>5, <2>6 DEF Decisions
  <2>8. revision' \in Nat /\ revision <= revision' /\ revision' # revision
      BY <1>3, <2>1
  <2>9. nextSequence' \in Nat /\ state' \in AttendanceStates
      BY <2>1, <2>3, <2>4
  <2> HIDE DEF row, last
  <2>10. \E some \in Decisions :
            /\ decisions' = [decisions EXCEPT ![in.idempotencyKey] = some]
            /\ some.fingerprint = Identity(in)
            /\ Legal(in, revision, state) =>
                   some.outcome.code \in {"OK", "ATTENDANCE_STATE_CHANGED"}
    <3>1. row.outcome.code \in {"OK", "ATTENDANCE_STATE_CHANGED"}
        BY <2>7
    <3> QED
        BY <2>1, <2>7, <3>1, Zenon
  <2> QED
      BY <2>1, <2>8, <2>9, <2>10, Zenon
<1>5. CASE Refuse(in)
  <2> DEFINE code == IF in.expectedAttendanceRevision # revision
                     THEN "ATTENDANCE_STATE_CHANGED" ELSE TransitionError(state, in.command)
             outcome == [code |-> code, attendanceRevision |-> revision, state |-> state,
                         createdEvents |-> {}]
             row == [fingerprint |-> Identity(in), outcome |-> outcome]
  <2>1. /\ decisions[in.idempotencyKey] = None
        /\ decisions' = [decisions EXCEPT ![in.idempotencyKey] = row]
        /\ UNCHANGED <<state, revision, nextSequence>>
        /\ \/ in.expectedAttendanceRevision # revision
           \/ ~TransitionAllowed(state, in.command, in.confirmActiveBreak)
      BY <1>5 DEF Refuse, Record
  <2>2. code \in Verdicts
      BY <1>1, <1>3, RuleTypes DEF Verdicts
  <2>3. Legal(in, revision, state) => code = "ATTENDANCE_STATE_CHANGED"
      BY <2>1 DEF Legal
  <2> HIDE DEF code
  <2>4. /\ outcome.code = code
        /\ outcome \in [code : Verdicts, attendanceRevision : Nat, state : AttendanceStates,
                        createdEvents : SUBSET Nat]
      BY <1>3, <2>2
  <2> HIDE DEF outcome
  <2>5. row \in Decisions /\ row.fingerprint = Identity(in) /\ row.outcome.code = code
      BY <1>2, <2>4 DEF Decisions
  <2>6. revision <= revision /\ revision' = revision /\ state' = state
      BY <1>3, <2>1
  <2> HIDE DEF row
  <2>7. Legal(in, revision, state) =>
            row.outcome.code \in {"OK", "ATTENDANCE_STATE_CHANGED"}
      BY <2>3, <2>5
  <2>8. \E some \in Decisions :
            /\ decisions' = [decisions EXCEPT ![in.idempotencyKey] = some]
            /\ some.fingerprint = Identity(in)
            /\ Legal(in, revision, state) =>
                   some.outcome.code \in {"OK", "ATTENDANCE_STATE_CHANGED"}
      BY <2>1, <2>5, <2>7, Zenon
  <2> QED
      BY <1>3, <2>1, <2>6, <2>8
<1> QED
    BY <1>4, <1>5

\* A decision leaves the other ones, and what pages know stays true.
LEMMA DecisionKeeps ==
    ASSUME ClientInv, NEW in \in Intents, Accept(in) \/ Refuse(in)
    PROVE  /\ state' \in AttendanceStates /\ revision' \in Nat /\ nextSequence' \in Nat
           /\ decisions' \in [Keys -> Decisions \cup {None}]
           /\ decisions'[in.idempotencyKey] # None
           /\ decisions'[in.idempotencyKey].outcome.code \in Verdicts
           /\ decisions'[in.idempotencyKey].fingerprint = Identity(in)
           /\ Legal(in, revision, state) =>
                  decisions'[in.idempotencyKey].outcome.code \in {"OK", "ATTENDANCE_STATE_CHANGED"}
           /\ decisions[in.idempotencyKey] = None
           /\ \A k \in Keys \ {in.idempotencyKey} : decisions'[k] = decisions[k]
           /\ \A v \in Views : Shows(v, revision, state) => Shows(v, revision', state')
           /\ \A other \in Intents : Legal(other, revision, state) => Legal(other, revision', state')
<1>1. PICK row \in Decisions :
         /\ decisions' = [decisions EXCEPT ![in.idempotencyKey] = row]
         /\ row.fingerprint = Identity(in)
         /\ Legal(in, revision, state) =>
                row.outcome.code \in {"OK", "ATTENDANCE_STATE_CHANGED"}
    BY DecisionWritten DEF ClientInv
<1>2. /\ decisions[in.idempotencyKey] = None
      /\ state' \in AttendanceStates /\ revision' \in Nat /\ nextSequence' \in Nat
      /\ revision <= revision'
      /\ revision' = revision => state' = state
    BY DecisionWritten DEF ClientInv
<1>3. in.idempotencyKey \in Keys /\ revision \in Nat
    BY DEF Intents, ClientInv, Typed
<1>4. decisions \in [Keys -> Decisions \cup {None}]
    BY DEF ClientInv, Typed
<1>5. row # None /\ row.outcome.code \in Verdicts
    BY ClientAssumption DEF Decisions
<1>6. /\ decisions' \in [Keys -> Decisions \cup {None}]
      /\ decisions'[in.idempotencyKey] = row
      /\ \A k \in Keys \ {in.idempotencyKey} : decisions'[k] = decisions[k]
    BY <1>1, <1>3, <1>4
<1>7. ASSUME NEW v \in Views, Shows(v, revision, state) PROVE Shows(v, revision', state')
  <2>1. v.attendanceRevision \in Nat
      BY DEF Views
  <2> QED
      BY <1>2, <1>3, <1>7, <2>1 DEF Shows
<1>8. ASSUME NEW other \in Intents, Legal(other, revision, state)
      PROVE  Legal(other, revision', state')
  <2>1. other.expectedAttendanceRevision \in Nat
      BY DEF Intents
  <2> QED
      BY <1>2, <1>3, <1>8, <2>1 DEF Legal
<1> QED
    BY <1>1, <1>2, <1>5, <1>6, <1>7, <1>8

-----------------------------------------------------------------------------
(* Steps of the server *)

\* What a decision for another key or for this intent leaves of the invariant.
LEMMA DecidedKeeps ==
    ASSUME ClientInv, NEW in \in Intents, Accept(in) \/ Refuse(in),
           UNCHANGED <<intents, mutation, view, answers, link, told>>,
           in \in Sent \/ in = intents[in.idempotencyKey]
    PROVE  /\ OwnKeys' /\ ViewsShow' /\ IntentsLegal' /\ OwnDecisions' /\ ToldTheTruth'
           /\ \A k \in Keys : decisions'[k] # None =>
                 intents[k] # None \/ \E other \in Sent : other.idempotencyKey = k
<1> DEFINE key == in.idempotencyKey
<1>1. key \in Keys
    BY DEF Intents
<1>2. /\ \A k \in Keys \ {key} : decisions'[k] = decisions[k]
      /\ decisions[key] = None
      /\ decisions'[key].fingerprint = Identity(in)
      /\ Legal(in, revision, state) =>
             decisions'[key].outcome.code \in {"OK", "ATTENDANCE_STATE_CHANGED"}
    BY DecisionKeeps
<1>3. OwnKeys'
    BY DEF ClientInv, OwnKeys
<1>4. ViewsShow'
  <2>1. \A v \in Views : Shows(v, revision, state) => Shows(v, revision', state')
      BY DecisionKeeps
  <2> QED
      BY <2>1 DEF ClientInv, Typed, ViewsShow
<1>5. IntentsLegal'
  <2>1. \A other \in Intents : Legal(other, revision, state) => Legal(other, revision', state')
      BY DecisionKeeps
  <2> QED
      BY <2>1 DEF ClientInv, Typed, IntentsLegal
<1>6. OwnDecisions'
  <2> SUFFICES ASSUME NEW k \in Keys, decisions'[k] # None, intents[k] # None
               PROVE  /\ decisions'[k].fingerprint = Identity(intents[k])
                      /\ decisions'[k].outcome.code \in {"OK", "ATTENDANCE_STATE_CHANGED"}
      BY DEF OwnDecisions
  <2>1. CASE k # key
      BY <1>2, <2>1 DEF ClientInv, OwnDecisions
  <2>2. CASE k = key
    <3>1. in = intents[k]
        BY <2>2 DEF ClientInv, OwnKeys
    <3>2. Legal(in, revision, state)
        BY <3>1 DEF ClientInv, IntentsLegal
    <3> QED
        BY <1>2, <2>2, <3>1, <3>2
  <2> QED
      BY <2>1, <2>2
<1>7. ToldTheTruth'
  <2> SUFFICES ASSUME NEW k \in Keys, told[k] \in Verdicts
               PROVE  decisions'[k] # None /\ decisions'[k].outcome.code = told[k]
      BY DEF ToldTheTruth
  <2>1. decisions[k] # None /\ decisions[k].outcome.code = told[k]
      BY DEF ClientInv, ToldTheTruth
  <2> QED
      BY <1>2, <2>1
<1>8. \A k \in Keys : decisions'[k] # None =>
         intents[k] # None \/ \E other \in Sent : other.idempotencyKey = k
  <2> SUFFICES ASSUME NEW k \in Keys, decisions'[k] # None
               PROVE  intents[k] # None \/ \E other \in Sent : other.idempotencyKey = k
      OBVIOUS
  <2>1. CASE k # key
      BY <1>2, <2>1 DEF ClientInv, KeysIssued
  <2>2. CASE k = key
    <3>1. in # None
        BY ClientAssumption
    <3> QED
        BY <2>2, <3>1
  <2> QED
      BY <2>1, <2>2
<1> QED
    BY <1>3, <1>4, <1>5, <1>6, <1>7, <1>8

LEMMA ElsewhereKeeps ==
    ASSUME ClientInv, Elsewhere
    PROVE  ClientInv'
<1>1. PICK in \in Sent : Accept(in) \/ Refuse(in)
    BY DEF Elsewhere, LogNext
<1>2. UNCHANGED <<wire, replies, intents, mutation, view, answers, link, told>>
    BY DEF Elsewhere, clientVars
<1>3. in \in Intents
    BY ClientAssumption
<1>4. /\ OwnKeys' /\ ViewsShow' /\ IntentsLegal' /\ OwnDecisions' /\ ToldTheTruth'
      /\ \A k \in Keys : decisions'[k] # None =>
            intents[k] # None \/ \E other \in Sent : other.idempotencyKey = k
    BY <1>1, <1>2, <1>3, DecidedKeeps
<1>5. Typed'
  <2>1. /\ state' \in AttendanceStates /\ revision' \in Nat /\ nextSequence' \in Nat
        /\ decisions' \in [Keys -> Decisions \cup {None}]
      BY <1>1, <1>3, DecisionKeeps
  <2> QED
      BY <1>2, <2>1 DEF ClientInv, Typed
<1>6. KeysIssued'
    BY <1>2, <1>4 DEF ClientInv, KeysIssued
<1>7. RepliesTrue'
  <2>1. /\ decisions[in.idempotencyKey] = None
        /\ \A k \in Keys \ {in.idempotencyKey} : decisions'[k] = decisions[k]
      BY <1>1, <1>3, DecisionKeeps
  <2> QED
      BY <1>2, <2>1 DEF ClientInv, RepliesTrue
<1> QED
    BY <1>4, <1>5, <1>6, <1>7 DEF ClientInv

\* The reply to a transmission is what was decided, or a failure.
LEMMA ReplyKeeps ==
    ASSUME Typed, NEW key \in Keys, NEW code \in Verdicts \cup {"FAILED"},
           code \in Verdicts => decisions'[key] # None /\ decisions'[key].outcome.code = code,
           \A k \in Keys \ {key} : decisions'[k] = decisions[k],
           decisions[key] # None => decisions'[key] = decisions[key],
           RepliesTrue,
           replies' = [replies EXCEPT ![key] = code] \/ replies' = replies
    PROVE  /\ replies' \in [Keys -> Verdicts \cup {None, "FAILED"}]
           /\ RepliesTrue'
<1>1. replies \in [Keys -> Verdicts \cup {None, "FAILED"}]
    BY DEF Typed
<1>2. CASE replies' = replies
    BY <1>1, <1>2 DEF RepliesTrue
<1>3. CASE replies' = [replies EXCEPT ![key] = code]
    BY <1>1, <1>3 DEF RepliesTrue
<1> QED
    BY <1>2, <1>3

LEMMA HandleKeeps ==
    ASSUME ClientInv, NEW r \in wire, Handle(r)
    PROVE  ClientInv'
<1> SUFFICES ASSUME NEW key, key = r[1], NEW in, in = intents[key] PROVE ClientInv'
    OBVIOUS
<1> DEFINE Reply(code) == replies' = [replies EXCEPT ![key] = code] \/ replies' = replies
<1>1. key \in Keys
    BY DEF ClientInv, Typed, Requests
<1>2. /\ in \in Intents /\ in # None /\ in.idempotencyKey = key
      /\ \A other \in Sent : other.idempotencyKey # key
    BY <1>1 DEF ClientInv, KeysIssued, OwnKeys, Typed
<1>3. /\ wire' \subseteq wire
      /\ UNCHANGED <<intents, mutation, view, answers, link, told>>
      /\ \/ /\ Accept(in) \/ Refuse(in)
            /\ Reply(decisions'[key].outcome.code) \/ Reply("FAILED")
         \/ /\ decisions[key] # None
            /\ Reply(IF decisions[key].fingerprint = Identity(in) THEN decisions[key].outcome.code
                     ELSE "IDEMPOTENCY_KEY_CONFLICT")
            /\ UNCHANGED logVars
         \/ /\ Reply("FAILED")
            /\ UNCHANGED logVars
    BY DEF Handle
<1>4. CASE Accept(in) \/ Refuse(in)
  <2>1. /\ OwnKeys' /\ ViewsShow' /\ IntentsLegal' /\ OwnDecisions' /\ ToldTheTruth'
        /\ \A k \in Keys : decisions'[k] # None =>
              intents[k] # None \/ \E other \in Sent : other.idempotencyKey = k
      BY <1>2, <1>3, <1>4, DecidedKeeps
  <2>2. /\ state' \in AttendanceStates /\ revision' \in Nat /\ nextSequence' \in Nat
        /\ decisions' \in [Keys -> Decisions \cup {None}]
        /\ decisions[key] = None /\ decisions'[key] # None
        /\ decisions'[key].outcome.code \in Verdicts
        /\ \A k \in Keys \ {key} : decisions'[k] = decisions[k]
      BY <1>2, <1>4, DecisionKeeps
  <2>3. Reply(decisions'[key].outcome.code) \/ Reply("FAILED")
      BY <1>3, <2>2 DEF logVars
  <2>4. replies' \in [Keys -> Verdicts \cup {None, "FAILED"}] /\ RepliesTrue'
      BY <1>1, <2>2, <2>3, ReplyKeeps DEF ClientInv, Verdicts
  <2>5. Typed'
      BY <1>3, <2>2, <2>4 DEF ClientInv, Typed
  <2>6. KeysIssued'
      BY <1>3, <2>1 DEF ClientInv, KeysIssued
  <2> QED
      BY <2>1, <2>4, <2>5, <2>6 DEF ClientInv
<1>5. CASE UNCHANGED logVars
  <2>1. UNCHANGED <<state, revision, nextSequence, decisions>>
      BY <1>5 DEF logVars
  <2>2. decisions[key] # None =>
            /\ decisions[key].fingerprint = Identity(in)
            /\ decisions[key].outcome.code \in Verdicts
      BY <1>1, <1>2 DEF ClientInv, OwnDecisions, Verdicts
  <2>3. \/ decisions[key] # None /\ Reply(decisions[key].outcome.code)
        \/ Reply("FAILED")
        \/ Accept(in) \/ Refuse(in)
      BY <1>3, <2>2
  <2>4. ~(Accept(in) \/ Refuse(in))
    <3>1. ASSUME Accept(in) \/ Refuse(in) PROVE FALSE
      <4>1. decisions[key] = None /\ decisions'[key] # None
          BY <1>2, <3>1, DecisionKeeps
      <4> QED
          BY <2>1, <4>1
    <3> QED
        BY <3>1
  <2>5. replies' \in [Keys -> Verdicts \cup {None, "FAILED"}] /\ RepliesTrue'
    <3>1. CASE Reply("FAILED")
        BY <1>1, <2>1, <3>1, ReplyKeeps DEF ClientInv, Verdicts
    <3>2. CASE decisions[key] # None /\ Reply(decisions[key].outcome.code)
        BY <1>1, <2>1, <2>2, <3>2, ReplyKeeps DEF ClientInv
    <3> QED
        BY <2>3, <2>4, <3>1, <3>2
  <2>6. Typed'
      BY <1>3, <2>1, <2>5 DEF ClientInv, Typed
  <2>7. OwnKeys' /\ KeysIssued'
      BY <1>3, <2>1 DEF ClientInv, OwnKeys, KeysIssued
  <2>8. ViewsShow' /\ IntentsLegal'
      BY <1>3, <2>1 DEF ClientInv, ViewsShow, IntentsLegal
  <2>9. OwnDecisions' /\ ToldTheTruth'
      BY <1>3, <2>1 DEF ClientInv, OwnDecisions, ToldTheTruth
  <2> QED
      BY <2>5, <2>6, <2>7, <2>8, <2>9 DEF ClientInv
<1> QED
    BY <1>3, <1>4, <1>5


-----------------------------------------------------------------------------
(* Steps of a page *)

\* A new question adds what the server shows now, or nothing.
LEMMA AskKeeps ==
    ASSUME ClientInv, NEW t \in Tabs, Ask(t), UNCHANGED <<logVars, view>>
    PROVE  answers' \in [Tabs -> SUBSET Views] /\ ViewsShow'
<1>1. /\ state \in AttendanceStates /\ revision \in Nat
      /\ answers \in [Tabs -> SUBSET Views]
      /\ UNCHANGED <<state, revision, view>>
    BY DEF ClientInv, Typed, logVars
<1>2. ServerView \in Views /\ Shows(ServerView, revision, state)
    BY <1>1 DEF ServerView, Views, Shows
<1>3. /\ answers' \in [Tabs -> SUBSET Views]
      /\ \A u \in Tabs : answers'[u] \subseteq answers[u] \cup {ServerView}
    BY <1>1, <1>2 DEF Ask
<1>4. ViewsShow'
  <2> SUFFICES ASSUME NEW u \in Tabs
               PROVE  /\ view[u] # None => Shows(view[u], revision, state)
                      /\ \A v \in answers'[u] : Shows(v, revision, state)
      BY <1>1 DEF ViewsShow
  <2> QED
      BY <1>2, <1>3 DEF ClientInv, ViewsShow
<1> QED
    BY <1>3, <1>4

\* What the user is told is what was decided, or that the outcome is unknown.
LEMMA SettleKeeps ==
    ASSUME ClientInv, NEW t \in Tabs, mutation[t] # None,
           NEW verdict \in Verdicts \cup {"UNCERTAIN"}, Settle(t, verdict),
           verdict \in Verdicts => /\ decisions[mutation[t].key] # None
                                   /\ decisions[mutation[t].key].outcome.code = verdict
    PROVE  ClientInv'
<1> SUFFICES ASSUME NEW key, key = mutation[t].key PROVE ClientInv'
    OBVIOUS
<1>1. key \in Keys /\ intents[key] # None
    BY DEF ClientInv, Typed, KeysIssued, Mutations
<1>2. /\ told' = [told EXCEPT ![key] = verdict]
      /\ mutation' = [mutation EXCEPT ![t] = None]
      /\ replies' = [replies EXCEPT ![key] = None]
      /\ Ask(t)
      /\ UNCHANGED <<state, revision, nextSequence, decisions, wire, intents, view, link>>
    BY DEF Settle, logVars
<1>3. answers' \in [Tabs -> SUBSET Views] /\ ViewsShow'
    BY <1>2, AskKeeps DEF logVars
<1>4. /\ told \in [Keys -> Verdicts \cup {None, "UNCERTAIN"}]
      /\ mutation \in [Tabs -> Mutations \cup {None}]
      /\ replies \in [Keys -> Verdicts \cup {None, "FAILED"}]
    BY DEF ClientInv, Typed
<1>5. /\ told' \in [Keys -> Verdicts \cup {None, "UNCERTAIN"}]
      /\ mutation' \in [Tabs -> Mutations \cup {None}]
      /\ replies' \in [Keys -> Verdicts \cup {None, "FAILED"}]
    BY <1>1, <1>2, <1>4
<1>6. Typed'
    BY <1>2, <1>3, <1>5 DEF ClientInv, Typed
<1>7. OwnKeys' /\ IntentsLegal' /\ OwnDecisions'
    BY <1>2 DEF ClientInv, OwnKeys, IntentsLegal, OwnDecisions
<1>8. KeysIssued'
  <2>1. \A r \in wire' : intents'[r[1]] # None
      BY <1>2 DEF ClientInv, KeysIssued
  <2>2. \A u \in Tabs : mutation'[u] # None => intents'[mutation'[u].key] # None
      BY <1>2, <1>4 DEF ClientInv, KeysIssued
  <2>3. \A k \in Keys : told'[k] # None => intents'[k] # None
      BY <1>1, <1>2, <1>4 DEF ClientInv, KeysIssued
  <2>4. \A k \in Keys : decisions'[k] # None =>
           intents'[k] # None \/ \E in \in Sent : in.idempotencyKey = k
      BY <1>2 DEF ClientInv, KeysIssued
  <2> QED
      BY <2>1, <2>2, <2>3, <2>4 DEF KeysIssued
<1>9. RepliesTrue'
  <2>1. None \notin Verdicts
      BY ClientAssumption
  <2> QED
      BY <1>1, <1>2, <1>4, <2>1 DEF ClientInv, RepliesTrue
<1>10. ToldTheTruth'
  <2> SUFFICES ASSUME NEW k \in Keys, told'[k] \in Verdicts
               PROVE  decisions[k] # None /\ decisions[k].outcome.code = told'[k]
      BY <1>2 DEF ToldTheTruth
  <2>1. CASE k = key
      BY <1>1, <1>2, <1>4, <2>1
  <2>2. CASE k # key
    <3>1. told'[k] = told[k]
        BY <1>1, <1>2, <1>4, <2>2
    <3> QED
        BY <3>1 DEF ClientInv, ToldTheTruth
  <2> QED
      BY <2>1, <2>2
<1> QED
    BY <1>3, <1>6, <1>7, <1>8, <1>9, <1>10 DEF ClientInv

\* The next transmission is of the same intent.
LEMMA ResendKeeps ==
    ASSUME ClientInv, NEW t \in Tabs, mutation[t] # None,
           mutation[t].failures < RetryLimit, Resend(t), UNCHANGED intents
    PROVE  ClientInv'
<1> SUFFICES ASSUME NEW m, m = mutation[t] PROVE ClientInv'
    OBVIOUS
<1>1. /\ m \in Mutations /\ m.key \in Keys /\ m.failures \in 0..RetryLimit
      /\ intents[m.key] # None
    BY DEF ClientInv, Typed, KeysIssued, Mutations
<1>2. m.failures + 1 \in 0..RetryLimit
    BY <1>1, ClientAssumption
<1>3. /\ mutation' = [mutation EXCEPT ![t].failures = m.failures + 1]
      /\ wire' = wire \cup {<<m.key, m.failures + 1>>}
      /\ replies' = [replies EXCEPT ![m.key] = None]
      /\ UNCHANGED <<state, revision, nextSequence, decisions, intents, view, answers, link, told>>
    BY DEF Resend, logVars
<1>4. /\ mutation \in [Tabs -> Mutations \cup {None}]
      /\ wire \subseteq Requests
      /\ replies \in [Keys -> Verdicts \cup {None, "FAILED"}]
    BY DEF ClientInv, Typed
<1>5. mutation'[t] \in Mutations /\ mutation'[t].key = m.key
  <2>1. mutation' = [mutation EXCEPT ![t] = [m EXCEPT !.failures = m.failures + 1]]
      BY <1>3
  <2>2. [m EXCEPT !.failures = m.failures + 1] \in Mutations
      BY <1>1, <1>2 DEF Mutations
  <2>3. [m EXCEPT !.failures = m.failures + 1].key = m.key
      BY <1>1 DEF Mutations
  <2> QED
      BY <1>4, <2>1, <2>2, <2>3
<1>6. \A u \in Tabs \ {t} : mutation'[u] = mutation[u]
    BY <1>3, <1>4
<1>7. mutation' \in [Tabs -> Mutations \cup {None}]
    BY <1>3, <1>4, <1>5, <1>6
<1>8. <<m.key, m.failures + 1>> \in Requests
    BY <1>1, <1>2 DEF Requests
<1>9. Typed'
  <2>1. wire' \subseteq Requests
      BY <1>3, <1>4, <1>8
  <2>2. replies' \in [Keys -> Verdicts \cup {None, "FAILED"}]
      BY <1>3, <1>4
  <2> QED
      BY <1>3, <1>7, <2>1, <2>2 DEF ClientInv, Typed
<1>10. KeysIssued'
  <2>1. \A r \in wire' : intents'[r[1]] # None
    <3> SUFFICES ASSUME NEW r \in wire' PROVE intents[r[1]] # None
        BY <1>3
    <3>1. CASE r \in wire
        BY <3>1 DEF ClientInv, KeysIssued
    <3>2. CASE r = <<m.key, m.failures + 1>>
        BY <1>1, <3>2
    <3> QED
        BY <1>3, <3>1, <3>2
  <2>2. \A u \in Tabs : mutation'[u] # None => intents'[mutation'[u].key] # None
      BY <1>1, <1>3, <1>5, <1>6 DEF ClientInv, KeysIssued
  <2> QED
      BY <1>3, <2>1, <2>2 DEF ClientInv, KeysIssued
<1>11. RepliesTrue'
  <2>1. None \notin Verdicts
      BY ClientAssumption
  <2> QED
      BY <1>1, <1>3, <1>4, <2>1 DEF ClientInv, RepliesTrue
<1>12. OwnKeys' /\ ViewsShow' /\ IntentsLegal' /\ OwnDecisions' /\ ToldTheTruth'
  <2>1. OwnKeys' /\ OwnDecisions' /\ ToldTheTruth'
      BY <1>3 DEF ClientInv, OwnKeys, OwnDecisions, ToldTheTruth
  <2>2. ViewsShow' /\ IntentsLegal'
      BY <1>3 DEF ClientInv, ViewsShow, IntentsLegal
  <2> QED
      BY <2>1, <2>2
<1> QED
    BY <1>9, <1>10, <1>11, <1>12 DEF ClientInv

LEMMA RetryOrGiveUpKeeps ==
    ASSUME ClientInv, NEW t \in Tabs, mutation[t] # None, RetryOrGiveUp(t)
    PROVE  ClientInv'
<1>1. CASE mutation[t].failures < RetryLimit /\ Online(t)
    BY <1>1, ResendKeeps DEF RetryOrGiveUp
<1>2. CASE ~(mutation[t].failures < RetryLimit /\ Online(t))
  <2>1. Settle(t, "UNCERTAIN") /\ "UNCERTAIN" \notin Verdicts
      BY <1>2 DEF RetryOrGiveUp, Verdicts
  <2> QED
      BY <2>1, SettleKeeps
<1> QED
    BY <1>1, <1>2

LEMMA ResponseArrivesKeeps ==
    ASSUME ClientInv, NEW t \in Tabs, ResponseArrives(t)
    PROVE  ClientInv'
<1> SUFFICES ASSUME NEW code, code = replies[mutation[t].key] PROVE ClientInv'
    OBVIOUS
<1>1. mutation[t] # None
    BY DEF ResponseArrives
<1>2. \/ code \in Verdicts /\ Settle(t, code)
      \/ RetryOrGiveUp(t)
    BY DEF ResponseArrives
<1>3. CASE code \in Verdicts /\ Settle(t, code)
  <2>1. mutation[t].key \in Keys
      BY <1>1 DEF ClientInv, Typed, Mutations
  <2>2. decisions[mutation[t].key] # None /\ decisions[mutation[t].key].outcome.code = code
      BY <1>3, <2>1 DEF ClientInv, RepliesTrue
  <2> QED
      BY <1>1, <1>3, <2>2, SettleKeeps
<1>4. CASE RetryOrGiveUp(t)
    BY <1>1, <1>4, RetryOrGiveUpKeeps
<1> QED
    BY <1>2, <1>3, <1>4


\* A fresh intent has a key of its own and is legal where its page looked.
LEMMA ActivateKeeps ==
    ASSUME ClientInv, NEW t \in Tabs, NEW c \in AttendanceCommands, NEW key \in Keys,
           Activate(t, c, key)
    PROVE  ClientInv'
<1> DEFINE confirmed == ConfirmationMissing(view[t].state, c, FALSE)
           in == [idempotencyKey |-> key, command |-> c,
                  expectedAttendanceRevision |-> view[t].attendanceRevision,
                  confirmActiveBreak |-> confirmed]
           m == [key |-> key, failures |-> 0]
<1>1. /\ view[t] # None /\ c \in AcceptedCommands[view[t].state]
      /\ intents[key] = None
      /\ \A other \in Sent : other.idempotencyKey # key
      /\ intents' = [intents EXCEPT ![key] = in]
      /\ mutation' = [mutation EXCEPT ![t] = m]
      /\ wire' = wire \cup {<<key, 0>>}
      /\ UNCHANGED <<state, revision, nextSequence, decisions, replies, view, answers, link, told>>
    BY DEF Activate, logVars
<1>2. view[t] \in Views /\ Shows(view[t], revision, state)
    BY <1>1 DEF ClientInv, Typed, ViewsShow
<1>3. /\ in \in Intents /\ in.idempotencyKey = key
      /\ Legal(in, revision, state)
  <2>1. view[t].attendanceRevision \in Nat /\ confirmed \in BOOLEAN
      BY <1>2 DEF Views, ConfirmationMissing
  <2>2. view[t].attendanceRevision = revision =>
            TransitionAllowed(state, c, confirmed)
      BY <1>1, <1>2 DEF Shows, TransitionAllowed, ConfirmationMissing
  <2> HIDE DEF confirmed
  <2> QED
      BY <1>2, <2>1, <2>2 DEF Intents, Legal, Shows
<1>4. m \in Mutations /\ m.key = key /\ <<key, 0>> \in Requests
    BY ClientAssumption DEF Mutations, Requests
<1>5. in # None /\ m # None
    BY <1>3, <1>4, ClientAssumption
<1> HIDE DEF in, m
<1>6. /\ wire \subseteq Requests
      /\ intents \in [Keys -> Intents \cup {None}]
      /\ mutation \in [Tabs -> Mutations \cup {None}]
    BY DEF ClientInv, Typed
<1>7. /\ intents' \in [Keys -> Intents \cup {None}]
      /\ intents'[key] = in
      /\ \A k \in Keys \ {key} : intents'[k] = intents[k]
    BY <1>1, <1>3, <1>6
<1>8. /\ mutation' \in [Tabs -> Mutations \cup {None}]
      /\ mutation'[t] = m
      /\ \A u \in Tabs \ {t} : mutation'[u] = mutation[u]
    BY <1>1, <1>4, <1>6
<1>9. \A k \in Keys : intents[k] # None => intents'[k] = intents[k]
    BY <1>1, <1>7
<1>10. Typed'
  <2>1. wire' \subseteq Requests
      BY <1>1, <1>4, <1>6
  <2> QED
      BY <1>1, <1>7, <1>8, <2>1 DEF ClientInv, Typed
<1>11. OwnKeys'
    BY <1>1, <1>3, <1>7 DEF ClientInv, OwnKeys
<1>12. KeysIssued'
  <2>1. \A r \in wire' : intents'[r[1]] # None
    <3> SUFFICES ASSUME NEW r \in wire' PROVE intents'[r[1]] # None
        OBVIOUS
    <3>1. CASE r \in wire
      <4>1. r[1] \in Keys /\ intents[r[1]] # None
          BY <1>6, <3>1 DEF ClientInv, KeysIssued, Requests
      <4> QED
          BY <1>9, <4>1
    <3>2. CASE r = <<key, 0>>
        BY <1>5, <1>7, <3>2
    <3> QED
        BY <1>1, <3>1, <3>2
  <2>2. \A u \in Tabs : mutation'[u] # None => intents'[mutation'[u].key] # None
    <3> SUFFICES ASSUME NEW u \in Tabs, mutation'[u] # None
                 PROVE  intents'[mutation'[u].key] # None
        OBVIOUS
    <3>1. CASE u = t
        BY <1>4, <1>5, <1>7, <1>8, <3>1
    <3>2. CASE u # t
      <4>1. mutation'[u] = mutation[u] /\ mutation[u] \in Mutations
          BY <1>6, <1>8, <3>2
      <4>2. mutation[u].key \in Keys /\ intents[mutation[u].key] # None
          BY <4>1 DEF ClientInv, KeysIssued, Mutations
      <4> QED
          BY <1>9, <4>1, <4>2
    <3> QED
        BY <3>1, <3>2
  <2>3. \A k \in Keys : told'[k] # None => intents'[k] # None
      BY <1>1, <1>9 DEF ClientInv, KeysIssued
  <2>4. \A k \in Keys : decisions'[k] # None =>
           intents'[k] # None \/ \E other \in Sent : other.idempotencyKey = k
      BY <1>1, <1>9 DEF ClientInv, KeysIssued
  <2> QED
      BY <2>1, <2>2, <2>3, <2>4 DEF KeysIssued
<1>13. IntentsLegal'
  <2> SUFFICES ASSUME NEW k \in Keys, intents'[k] # None
               PROVE  Legal(intents'[k], revision, state)
      BY <1>1 DEF IntentsLegal
  <2> QED
      BY <1>3, <1>7 DEF ClientInv, IntentsLegal
<1>14. OwnDecisions'
  <2>1. decisions[key] = None
      BY <1>1 DEF ClientInv, KeysIssued
  <2> SUFFICES ASSUME NEW k \in Keys, decisions[k] # None, intents'[k] # None
               PROVE  /\ decisions[k].fingerprint = Identity(intents'[k])
                      /\ decisions[k].outcome.code \in {"OK", "ATTENDANCE_STATE_CHANGED"}
      BY <1>1 DEF OwnDecisions
  <2>2. intents'[k] = intents[k]
      BY <1>7, <2>1
  <2> QED
      BY <2>2 DEF ClientInv, OwnDecisions
<1>15. ViewsShow' /\ RepliesTrue' /\ ToldTheTruth'
    BY <1>1 DEF ClientInv, ViewsShow, RepliesTrue, ToldTheTruth
<1> QED
    BY <1>10, <1>11, <1>12, <1>13, <1>14, <1>15 DEF ClientInv

\* Asking, answering, failing, losing and regaining the connection concern
\* what one page shows.
QuerySteps(t) ==
    \/ Refresh(t)
    \/ \E v \in answers[t] : TodayArrives(t, v) \/ TodayFails(t, v)
    \/ GoOffline(t)
    \/ GoOnline(t)

LEMMA QueryStepsChange ==
    ASSUME ClientInv, NEW t \in Tabs, QuerySteps(t)
    PROVE  /\ UNCHANGED <<logVars, replies, wire, intents, mutation, told>>
           /\ answers' \in [Tabs -> SUBSET Views]
           /\ view' \in [Tabs -> Views \cup {None}]
           /\ link' \in [Tabs -> {"OFFLINE", "STALE", "READY"}]
           /\ ViewsShow'
<1>1. /\ state \in AttendanceStates /\ revision \in Nat
      /\ answers \in [Tabs -> SUBSET Views]
      /\ view \in [Tabs -> Views \cup {None}]
      /\ link \in [Tabs -> {"OFFLINE", "STALE", "READY"}]
    BY DEF ClientInv, Typed
<1>2. ServerView \in Views /\ Shows(ServerView, revision, state)
    BY <1>1 DEF ServerView, Views, Shows
<1>3. \A u \in Tabs : /\ view[u] # None => Shows(view[u], revision, state)
                      /\ \A v \in answers[u] : Shows(v, revision, state)
    BY DEF ClientInv, ViewsShow
<1>4. CASE Refresh(t)
  <2>1. Ask(t) /\ UNCHANGED <<logVars, replies, wire, intents, mutation, view, link, told>>
      BY <1>4 DEF Refresh
  <2> QED
      BY <1>1, <2>1, AskKeeps
<1>5. ASSUME NEW v \in answers[t], TodayArrives(t, v)
      PROVE  /\ UNCHANGED <<logVars, replies, wire, intents, mutation, told>>
             /\ answers' \in [Tabs -> SUBSET Views]
             /\ view' \in [Tabs -> Views \cup {None}]
             /\ link' \in [Tabs -> {"OFFLINE", "STALE", "READY"}]
             /\ ViewsShow'
  <2>1. /\ answers' = [answers EXCEPT ![t] = @ \ {v}]
        /\ view' = [view EXCEPT ![t] = Newest(view[t], v)]
        /\ link' = [link EXCEPT ![t] = "READY"]
        /\ UNCHANGED <<logVars, replies, wire, intents, mutation, told>>
      BY <1>5 DEF TodayArrives
  <2>2. v \in Views /\ Shows(v, revision, state)
      BY <1>1, <1>3
  <2>3. /\ Newest(view[t], v) \in Views \cup {None}
        /\ Newest(view[t], v) # None => Shows(Newest(view[t], v), revision, state)
      BY <1>1, <1>3, <2>2 DEF Newest
  <2>4. ViewsShow'
    <3>1. state' = state /\ revision' = revision
        BY <2>1 DEF logVars
    <3> SUFFICES ASSUME NEW u \in Tabs
                 PROVE  /\ view'[u] # None => Shows(view'[u], revision, state)
                        /\ \A w \in answers'[u] : Shows(w, revision, state)
        BY <3>1 DEF ViewsShow
    <3>2. answers'[u] \subseteq answers[u]
        BY <1>1, <2>1
    <3>3. view'[u] = IF u = t THEN Newest(view[t], v) ELSE view[u]
        BY <1>1, <2>1
    <3> QED
        BY <1>3, <2>3, <3>2, <3>3
  <2>5. view' \in [Tabs -> Views \cup {None}]
      BY <1>1, <2>1, <2>3
  <2> QED
      BY <1>1, <2>1, <2>4, <2>5
<1>6. ASSUME NEW v \in answers[t], TodayFails(t, v)
      PROVE  /\ UNCHANGED <<logVars, replies, wire, intents, mutation, told>>
             /\ answers' \in [Tabs -> SUBSET Views]
             /\ view' \in [Tabs -> Views \cup {None}]
             /\ link' \in [Tabs -> {"OFFLINE", "STALE", "READY"}]
             /\ ViewsShow'
  <2>1. /\ answers' = [answers EXCEPT ![t] = @ \ {v}]
        /\ link' = [link EXCEPT ![t] = "STALE"]
        /\ UNCHANGED <<logVars, replies, wire, intents, mutation, view, told>>
      BY <1>6 DEF TodayFails
  <2>2. \A u \in Tabs : answers'[u] \subseteq answers[u]
      BY <1>1, <2>1
  <2> QED
      BY <1>1, <1>3, <2>1, <2>2 DEF ViewsShow, logVars
<1>7. CASE GoOffline(t)
  <2>1. /\ link' = [link EXCEPT ![t] = "OFFLINE"]
        /\ answers' = [answers EXCEPT ![t] = {}]
        /\ UNCHANGED <<logVars, replies, wire, intents, mutation, view, told>>
      BY <1>7 DEF GoOffline
  <2>2. \A u \in Tabs : answers'[u] \subseteq answers[u]
      BY <1>1, <2>1
  <2> QED
      BY <1>1, <1>3, <2>1, <2>2 DEF ViewsShow, logVars
<1>8. CASE GoOnline(t)
  <2>1. /\ link' = [link EXCEPT ![t] = "STALE"]
        /\ answers' = [answers EXCEPT ![t] = {ServerView}]
        /\ UNCHANGED <<logVars, replies, wire, intents, mutation, view, told>>
      BY <1>8 DEF GoOnline
  <2>2. \A u \in Tabs : answers'[u] \subseteq answers[u] \cup {ServerView}
      BY <1>1, <2>1
  <2> QED
      BY <1>1, <1>2, <1>3, <2>1, <2>2 DEF ViewsShow, logVars
<1> QED
    BY <1>4, <1>5, <1>6, <1>7, <1>8 DEF QuerySteps

LEMMA QueryStepsKeep ==
    ASSUME ClientInv, NEW t \in Tabs, QuerySteps(t)
    PROVE  ClientInv'
<1>1. /\ UNCHANGED <<state, revision, nextSequence, decisions>>
      /\ UNCHANGED <<replies, wire, intents, mutation, told>>
      /\ answers' \in [Tabs -> SUBSET Views]
      /\ view' \in [Tabs -> Views \cup {None}]
      /\ link' \in [Tabs -> {"OFFLINE", "STALE", "READY"}]
      /\ ViewsShow'
    BY QueryStepsChange DEF logVars
<1>2. Typed'
    BY <1>1 DEF ClientInv, Typed
<1>3. OwnKeys' /\ KeysIssued' /\ IntentsLegal'
    BY <1>1 DEF ClientInv, OwnKeys, KeysIssued, IntentsLegal
<1>4. OwnDecisions' /\ RepliesTrue' /\ ToldTheTruth'
    BY <1>1 DEF ClientInv, OwnDecisions, RepliesTrue, ToldTheTruth
<1> QED
    BY <1>1, <1>2, <1>3, <1>4 DEF ClientInv


-----------------------------------------------------------------------------
(* The invariant and the properties *)

LEMMA ClientInvInit == SystemInit => ClientInv
<1> SUFFICES ASSUME SystemInit PROVE ClientInv
    OBVIOUS
<1> USE DEF SystemInit, LogInit, ClientInit
<1>1. None \notin Verdicts
    BY ClientAssumption
<1>2. Typed
    BY DEF Typed, AttendanceStates, Requests
<1>3. OwnKeys /\ KeysIssued /\ ViewsShow /\ IntentsLegal
    BY DEF OwnKeys, KeysIssued, ViewsShow, IntentsLegal
<1>4. OwnDecisions /\ RepliesTrue /\ ToldTheTruth
    BY <1>1 DEF OwnDecisions, RepliesTrue, ToldTheTruth
<1> QED
    BY <1>2, <1>3, <1>4 DEF ClientInv

LEMMA ClientInvStep == ClientInv /\ [ClientNext]_systemVars => ClientInv'
<1> SUFFICES ASSUME ClientInv, [ClientNext]_systemVars PROVE ClientInv'
    OBVIOUS
<1>1. ASSUME NEW r \in wire, Handle(r) PROVE ClientInv'
    BY <1>1, HandleKeeps
<1>2. CASE Elsewhere
    BY <1>2, ElsewhereKeeps
<1>3. ASSUME NEW t \in Tabs, NEW c \in AttendanceCommands, NEW k \in Keys, Activate(t, c, k)
      PROVE  ClientInv'
    BY <1>3, ActivateKeeps
<1>4. ASSUME NEW t \in Tabs, ResponseArrives(t) PROVE ClientInv'
    BY <1>4, ResponseArrivesKeeps
<1>5. ASSUME NEW t \in Tabs, TransportFails(t) PROVE ClientInv'
    BY <1>5, RetryOrGiveUpKeeps DEF TransportFails
<1>6. ASSUME NEW t \in Tabs, QuerySteps(t) PROVE ClientInv'
    BY <1>6, QueryStepsKeep
<1>7. CASE UNCHANGED systemVars
  <2>1. UNCHANGED <<state, revision, nextSequence, decisions>>
      BY <1>7 DEF systemVars, logVars
  <2>2. UNCHANGED <<wire, replies, intents, mutation, view, answers, link, told>>
      BY <1>7 DEF systemVars, clientVars
  <2>3. Typed' /\ OwnKeys' /\ KeysIssued'
      BY <2>1, <2>2 DEF ClientInv, Typed, OwnKeys, KeysIssued
  <2>4. ViewsShow' /\ IntentsLegal'
      BY <2>1, <2>2 DEF ClientInv, ViewsShow, IntentsLegal
  <2>5. OwnDecisions' /\ RepliesTrue' /\ ToldTheTruth'
      BY <2>1, <2>2 DEF ClientInv, OwnDecisions, RepliesTrue, ToldTheTruth
  <2> QED
      BY <2>3, <2>4, <2>5 DEF ClientInv
<1> QED
    BY <1>1, <1>2, <1>3, <1>4, <1>5, <1>6, <1>7 DEF ClientNext, QuerySteps

\* What pages know is what the server did (processAttendanceCommand's stored
\* outcomes, the client's immutable mutation variables).
THEOREM ClientInvariant == SystemSpec => []ClientInv
<1> QED
    BY ClientInvInit, ClientInvStep, PTL DEF SystemSpec

\* The user is never told of a punch that was not made nor of a refusal that
\* turns into a punch later, whatever is lost, late or sent twice
\* (useAttendanceCommandMutation and the idempotent replay).
THEOREM PagesTellTheTruth == SystemSpec => []ToldTheTruth
<1>1. ClientInv => ToldTheTruth
    BY DEF ClientInv
<1> QED
    BY <1>1, ClientInvariant, PTL

\* A page offers only commands that were legal at the revision it shows, so
\* the one refusal a user meets is that the state has changed.
THEOREM PagesMeetOnlyStaleness == SystemSpec => []OnlyStaleIntentsRefused
<1>1. ClientInv => OnlyStaleIntentsRefused
  <2> SUFFICES ASSUME ClientInv, NEW k \in Keys
               PROVE  told[k] \in {None, "OK", "UNCERTAIN", "ATTENDANCE_STATE_CHANGED"}
      BY DEF OnlyStaleIntentsRefused
  <2>1. told[k] \in Verdicts \cup {None, "UNCERTAIN"}
      BY DEF ClientInv, Typed
  <2>2. CASE told[k] \in Verdicts /\ told[k] # None
    <3>1. decisions[k] # None /\ decisions[k].outcome.code = told[k]
        BY <2>2 DEF ClientInv, ToldTheTruth
    <3>2. intents[k] # None
        BY <2>2 DEF ClientInv, KeysIssued
    <3> QED
        BY <3>1, <3>2 DEF ClientInv, OwnDecisions
  <2> QED
      BY <2>1, <2>2
<1> QED
    BY <1>1, ClientInvariant, PTL

\* A tab never goes back to an older revision, in whatever order its questions
\* are answered (preferNewestTodayAttendance).
THEOREM TabsGoForward == SystemSpec => ViewsNeverGoBack
<1> DEFINE Forward ==
        \A t \in Tabs :
            view[t] # None => /\ view'[t] # None
                              /\ view'[t].attendanceRevision >= view[t].attendanceRevision
<1>1. ClientInv /\ [ClientNext]_systemVars => [Forward]_systemVars
  <2> SUFFICES ASSUME ClientInv, ClientNext PROVE Forward
      OBVIOUS
  <2>1. view \in [Tabs -> Views \cup {None}] /\ answers \in [Tabs -> SUBSET Views]
      BY DEF ClientInv, Typed
  <2>2. \A v \in Views : v.attendanceRevision \in Nat
      BY DEF Views
  <2>3. CASE view' = view
      BY <2>1, <2>2, <2>3
  <2>4. ASSUME NEW t \in Tabs, NEW v \in answers[t], TodayArrives(t, v) PROVE Forward
    <3>1. view' = [view EXCEPT ![t] = Newest(view[t], v)]
        BY <2>4 DEF TodayArrives
    <3>2. v \in Views /\ v # None
        BY <2>1, ClientAssumption
    <3>3. view[t] # None =>
              /\ Newest(view[t], v) # None
              /\ Newest(view[t], v).attendanceRevision >= view[t].attendanceRevision
        BY <2>1, <2>2, <3>2 DEF Newest
    <3> QED
        BY <2>1, <2>2, <3>1, <3>3
  <2>5. \/ view' = view
        \/ \E t \in Tabs : \E v \in answers[t] : TodayArrives(t, v)
      BY DEF ClientNext, Handle, Elsewhere, clientVars, Activate, ResponseArrives,
             TransportFails, RetryOrGiveUp, Resend, Settle, Refresh, TodayFails,
             GoOffline, GoOnline
  <2> HIDE DEF Forward
  <2> QED
      BY <2>3, <2>4, <2>5
<1> QED
    BY <1>1, ClientInvariant, PTL DEF SystemSpec, ViewsNeverGoBack

-----------------------------------------------------------------------------
(* Dates *)

\* The zone of the organization, as the theorems take it.
ZoneInv ==
    /\ zone \in [transition : Nat, before : Nat, after : Nat]
    /\ NoMidnightBetween(zone.transition + zone.before, zone.transition + zone.after)
    /\ NoMidnightBetween(zone.transition + zone.after, zone.transition + zone.before)

\* A date is the midnights that have passed.
LEMMA DateBounds ==
    ASSUME NEW x \in Nat
    PROVE  /\ x \div Day \in Nat
           /\ (x \div Day) * Day <= x
           /\ x < (x \div Day) * Day + Day
    BY TodayAssumption

LEMMA NextDayLater ==
    ASSUME NEW d \in Nat, NEW e \in Nat, d < e
    PROVE  d * Day + Day <= e * Day /\ d * Day \in Nat /\ e * Day \in Nat
<1>1. Day \in Nat /\ e - d - 1 \in Nat
    BY TodayAssumption
<1>2. (e - d - 1) * Day >= 0
    BY <1>1
<1>3. (e - d - 1) * Day = e * Day - d * Day - Day
    BY <1>1
<1> QED
    BY <1>1, <1>2, <1>3

\* Between midnights there is one date.
LEMMA DateIs ==
    ASSUME NEW x \in Nat, NEW d \in Nat, d * Day <= x, x < d * Day + Day
    PROVE  x \div Day = d
<1> DEFINE q == x \div Day
<1>1. q \in Nat /\ q * Day <= x /\ x < q * Day + Day
    BY DateBounds
<1> HIDE DEF q
<1>2. ~(q < d)
    BY <1>1, NextDayLater, TodayAssumption
<1>3. ~(d < q)
    BY <1>1, NextDayLater, TodayAssumption
<1>4. q = d
    BY <1>1, <1>2, <1>3
<1> QED
    BY <1>4 DEF q

LEMMA DivMonotone ==
    ASSUME NEW x \in Nat, NEW y \in Nat, x <= y
    PROVE  x \div Day <= y \div Day
<1> DEFINE d == x \div Day
           e == y \div Day
<1>1. d \in Nat /\ d * Day <= x /\ e \in Nat /\ y < e * Day + Day
    BY DateBounds
<1> HIDE DEF d, e
<1>2. ~(e < d)
    BY <1>1, NextDayLater, TodayAssumption
<1>3. d <= e
    BY <1>1, <1>2
<1> QED
    BY <1>3 DEF d, e

LEMMA LocalTimes ==
    ASSUME ZoneInv, NEW t \in Nat
    PROVE  /\ LocalTime(t) \in Nat
           /\ LocalDate(t) = LocalTime(t) \div Day
           /\ LocalDate(t) \in Nat
           /\ t < zone.transition => LocalTime(t) = t + zone.before
           /\ t >= zone.transition => LocalTime(t) = t + zone.after
<1>1. /\ LocalTime(t) \in Nat
      /\ t < zone.transition => LocalTime(t) = t + zone.before
      /\ t >= zone.transition => LocalTime(t) = t + zone.after
    BY DEF LocalTime, ZoneInv
<1> QED
    BY <1>1, DateBounds DEF LocalDate

\* The clock may go back, the date does not.
LEMMA DatesGoForward ==
    ASSUME ZoneInv, NEW t \in Nat, NEW u \in Nat, t <= u
    PROVE  LocalDate(t) <= LocalDate(u)
<1> DEFINE from == zone.transition + zone.before
           to == zone.transition + zone.after
<1>1. /\ zone.transition \in Nat /\ zone.before \in Nat /\ zone.after \in Nat
      /\ from \in Nat /\ to \in Nat
      /\ to < from => (from - 1) \div Day <= to \div Day
    BY DEF ZoneInv, NoMidnightBetween
<1>2. CASE u < zone.transition \/ zone.transition <= t
  <2>1. LocalTime(t) <= LocalTime(u)
      BY <1>1, <1>2, LocalTimes
  <2> QED
      BY <2>1, LocalTimes, DivMonotone
<1>3. CASE t < zone.transition /\ zone.transition <= u
  <2>1. /\ LocalTime(t) <= from - 1 /\ from - 1 \in Nat
        /\ to <= LocalTime(u)
      BY <1>1, <1>3, LocalTimes
  <2> HIDE DEF from, to
  <2>2. LocalDate(t) <= (from - 1) \div Day /\ to \div Day <= LocalDate(u)
      BY <1>1, <2>1, LocalTimes, DivMonotone
  <2>3. (from - 1) \div Day <= to \div Day
      BY <1>1, <2>1, DivMonotone
  <2>4. (from - 1) \div Day \in Nat /\ to \div Day \in Nat
      BY <1>1, <2>1, DateBounds
  <2> QED
      BY <2>2, <2>3, <2>4, LocalTimes
<1> QED
    BY <1>1, <1>2, <1>3

\* The next midnight ends the date: the clock may go back over it only after it
\* has been reached, and a skipped one is the instant of the transition.
LEMMA NextMidnightEndsDate ==
    ASSUME ZoneInv, NEW t \in 0..MaxTime
    PROVE  /\ NextMidnight(t) \in Nat
           /\ t < NextMidnight(t)
           /\ \A u \in t..(NextMidnight(t) - 1) : LocalDate(u) = LocalDate(t)
           /\ LocalDate(t) < LocalDate(NextMidnight(t))
<1> DEFINE d == LocalDate(t)
           start == d * Day
           midnight == (LocalDate(t) + 1) * Day
           tr == zone.transition
           b == zone.before
           a == zone.after
           possible == {u \in Instants : LocalTime(u) = midnight}
           next == NextMidnight(t)
<1>1. /\ tr \in Nat /\ b \in Nat /\ a \in Nat /\ Day \in Nat /\ Day > 0
      /\ MaxTime \in Nat /\ t \in Nat /\ t <= MaxTime
    BY TodayAssumption DEF ZoneInv
<1>2. d \in Nat /\ d = LocalTime(t) \div Day
    BY <1>1, LocalTimes
<1>3. /\ start \in Nat /\ midnight = start + Day
      /\ start <= LocalTime(t) /\ LocalTime(t) < midnight
  <2>1. LocalTime(t) \in Nat
      BY <1>1, LocalTimes
  <2>2. d * Day <= LocalTime(t) /\ LocalTime(t) < d * Day + Day
      BY <1>2, <2>1, DateBounds
  <2>3. (d + 1) * Day = d * Day + Day /\ d * Day \in Nat
      BY <1>1, <1>2
  <2> QED
      BY <2>2, <2>3
<1>4. \A u \in Nat : start <= LocalTime(u) /\ LocalTime(u) < midnight => LocalDate(u) = d
    BY <1>2, <1>3, DateIs, LocalTimes
<1>5. \A u \in Nat : midnight <= LocalTime(u) => d < LocalDate(u)
  <2> SUFFICES ASSUME NEW u \in Nat, midnight <= LocalTime(u) PROVE d < LocalDate(u)
      OBVIOUS
  <2>1. (d + 1) \in Nat /\ midnight \in Nat /\ midnight = (d + 1) * Day
      BY <1>1, <1>2, <1>3
  <2>2. midnight \div Day = d + 1
      BY <1>1, <2>1, DateIs
  <2>3. midnight \div Day <= LocalTime(u) \div Day
      BY <2>1, DivMonotone, LocalTimes
  <2> QED
      BY <1>2, <2>2, <2>3, LocalTimes
<1>6. \A u \in Nat : u < t => LocalTime(u) < midnight
  <2> SUFFICES ASSUME NEW u \in Nat, u < t, ~(LocalTime(u) < midnight) PROVE FALSE
      OBVIOUS
  <2>1. LocalTime(u) \in Nat /\ midnight \in Nat /\ midnight <= LocalTime(u)
      BY <1>1, <1>3, LocalTimes
  <2>2. d < LocalDate(u) /\ LocalDate(u) <= d
      BY <1>1, <1>5, <2>1, DatesGoForward
  <2> QED
      BY <1>2, <2>2, LocalTimes
<1>7. \A x, y \in Nat : NoMidnightBetween(x, y) => ~(x < midnight /\ midnight < y)
  <2> SUFFICES ASSUME NEW x \in Nat, NEW y \in Nat, NoMidnightBetween(x, y),
                      x < midnight, midnight < y
               PROVE  FALSE
      OBVIOUS
  <2>1. (y - 1) \div Day <= x \div Day
      BY <1>1, <1>3 DEF NoMidnightBetween
  <2>2. /\ midnight \in Nat /\ y - 1 \in Nat /\ midnight <= y - 1
        /\ midnight - 1 \in Nat /\ x <= midnight - 1
    <3>1. midnight \in Nat /\ midnight > 0
        BY <1>1, <1>3
    <3> HIDE DEF midnight
    <3> QED
        BY <3>1
  <2>3. midnight \div Day = d + 1
      BY <1>1, <1>2, <1>3, <2>2, DateIs
  <2>4. (midnight - 1) \div Day = d
    <3>1. start <= midnight - 1 /\ midnight - 1 < start + Day
      <4> HIDE DEF start, midnight
      <4> QED
          BY <1>1, <1>3, <2>2
    <3> QED
        BY <1>2, <2>2, <3>1, DateIs
  <2>5. d + 1 <= (y - 1) \div Day /\ x \div Day <= d
      BY <2>2, <2>3, <2>4, DivMonotone
  <2>6. (y - 1) \div Day \in Nat /\ x \div Day \in Nat
      BY <2>2, DateBounds
  <2> QED
      BY <1>2, <2>1, <2>5, <2>6
<1>8. /\ ~(tr + b < midnight /\ midnight < tr + a)
      /\ ~(tr + a < midnight /\ midnight < tr + b)
  <2>1. tr + a \in Nat /\ tr + b \in Nat
      BY <1>1
  <2> QED
      BY <1>7, <2>1 DEF ZoneInv
<1>9. \A u \in Nat : LocalTime(u) = IF u < tr THEN u + b ELSE u + a
    BY <1>1, LocalTimes
<1>10. next = IF possible # {} THEN Min(possible) ELSE midnight - b
    BY DEF NextMidnight
<1>11. Instants = 0..(MaxTime + 2 * Day)
    BY DEF Instants
<1>12. possible # {} => next \in possible /\ \A u \in possible : next <= u
  <2>1. possible \in SUBSET Nat
      BY <1>1, <1>11
  <2> HIDE DEF possible, next
  <2> QED
      BY <1>10, <2>1, MinOfNumbers
<1>13. midnight \in Nat /\ LocalTime(t) \in Nat
    BY <1>1, <1>3, LocalTimes
<1> HIDE DEF d, start, midnight, tr, b, a, next, Instants
<1>14. LocalTime(t) = IF t < tr THEN t + b ELSE t + a
    BY <1>1, <1>9
<1>15. \A u \in possible : u \in Nat /\ u > t /\ LocalTime(u) = midnight
    BY <1>1, <1>3, <1>6, <1>11
<1>16. \A u \in Nat : t <= u => start <= LocalTime(u)
  <2> SUFFICES ASSUME NEW u \in Nat, t <= u PROVE start <= LocalTime(u)
      OBVIOUS
  <2> DEFINE e == LocalTime(u) \div Day
  <2>1. d <= e
      BY <1>1, <1>2, DatesGoForward, LocalTimes DEF d
  <2>2. e \in Nat /\ e * Day <= LocalTime(u) /\ LocalTime(u) \in Nat
      BY LocalTimes, DateBounds
  <2> HIDE DEF e
  <2>3. start <= e * Day /\ e * Day \in Nat
    <3>1. CASE d < e
        BY <1>1, <1>2, <2>2, <3>1, NextDayLater DEF start
    <3>2. CASE d = e
        BY <1>3, <3>2 DEF start
    <3> QED
        BY <1>2, <2>1, <2>2, <3>1, <3>2
  <2> QED
      BY <1>3, <2>2, <2>3
<1>17. ASSUME next \in Nat, t < next, midnight <= LocalTime(next),
              \A u \in Nat : t <= u /\ u < next => LocalTime(u) < midnight
       PROVE  /\ next \in Nat
              /\ t < next
              /\ \A u \in t..(next - 1) : LocalDate(u) = d
              /\ d < LocalDate(next)
  <2>1. \A u \in t..(next - 1) : u \in Nat /\ t <= u /\ u < next
      BY <1>1, <1>17
  <2> QED
      BY <1>4, <1>5, <1>16, <1>17, <2>1
<1>18. CASE tr <= t \/ (midnight - b >= tr /\ midnight - a >= tr)
  \* The midnight follows the transition.
  <2>1. midnight - a \in Nat /\ midnight - a >= tr /\ midnight - a > t
      BY <1>1, <1>3, <1>13, <1>14, <1>18
  <2>2. \A u \in possible : u >= tr
    <3> SUFFICES ASSUME NEW u \in possible, u < tr PROVE FALSE
        BY <1>1, <1>15
    <3>1. u = midnight - b
        BY <1>1, <1>9, <1>13, <1>15
    <3>2. CASE tr <= t
        BY <1>1, <1>15, <3>1, <3>2
    <3> QED
        BY <1>1, <1>13, <1>18, <3>1, <3>2
  <2>3. midnight - a <= MaxTime + 2 * Day
    <3>1. CASE tr <= t
        BY <1>1, <1>3, <1>13, <1>14, <3>1
    <3>2. CASE t < tr
      <4>1. start <= tr + a
          BY <1>1, <1>9, <1>16, <3>2
      <4>2. midnight - b >= tr /\ start <= t + b
          BY <1>1, <1>3, <1>14, <1>18, <3>2
      <4> QED
          BY <1>1, <1>3, <1>13, <4>1, <4>2
    <3> QED
        BY <1>1, <3>1, <3>2
  <2>4. LocalTime(midnight - a) = midnight
      BY <1>1, <1>9, <1>13, <2>1
  <2>5. midnight - a \in possible
      BY <1>1, <1>11, <2>1, <2>3, <2>4
  <2>6. next \in possible /\ next <= midnight - a
      BY <1>12, <2>5
  <2>7. next = midnight - a
      BY <1>1, <1>9, <1>13, <1>15, <2>2, <2>6
  <2>8. \A u \in Nat : t <= u /\ u < next => LocalTime(u) < midnight
    <3> SUFFICES ASSUME NEW u \in Nat, t <= u, u < next PROVE LocalTime(u) < midnight
        OBVIOUS
    <3>1. LocalTime(u) = IF u < tr THEN u + b ELSE u + a
        BY <1>9
    <3> HIDE DEF possible
    <3> QED
        BY <1>1, <1>13, <1>18, <2>7, <3>1
  <2> HIDE DEF possible
  <2>9. next \in Nat /\ t < next /\ midnight <= LocalTime(next)
      BY <1>13, <2>1, <2>4, <2>7
  <2> QED
      BY <1>17, <2>8, <2>9 DEF next, d
<1>19. CASE t < tr /\ midnight - b < tr
  <2>1. midnight - b \in Nat /\ midnight - b > t /\ midnight - b <= t + Day
      BY <1>1, <1>3, <1>13, <1>14, <1>19
  <2>2. LocalTime(midnight - b) = midnight
      BY <1>1, <1>9, <1>13, <1>19, <2>1
  <2>3. midnight - b <= MaxTime + 2 * Day
      BY <1>1, <2>1
  <2>4. midnight - b \in possible
      BY <1>1, <1>11, <2>1, <2>2, <2>3
  <2>5. next \in possible /\ next <= midnight - b
      BY <1>12, <2>4
  <2>6. next = midnight - b
      BY <1>1, <1>9, <1>13, <1>15, <1>19, <2>5
  <2>7. \A u \in Nat : t <= u /\ u < next => LocalTime(u) < midnight
    <3> SUFFICES ASSUME NEW u \in Nat, t <= u, u < next PROVE LocalTime(u) < midnight
        OBVIOUS
    <3>1. LocalTime(u) = IF u < tr THEN u + b ELSE u + a
        BY <1>9
    <3> HIDE DEF possible
    <3> QED
        BY <1>1, <1>13, <1>19, <2>6, <3>1
  <2> HIDE DEF possible
  <2>8. next \in Nat /\ t < next /\ midnight <= LocalTime(next)
      BY <1>13, <2>1, <2>2, <2>6
  <2> QED
      BY <1>17, <2>7, <2>8 DEF next, d
<1>20. CASE t < tr /\ midnight - b >= tr /\ midnight - a < tr
  \* The transition skips the midnight.
  <2>1. tr + b = midnight
      BY <1>1, <1>8, <1>13, <1>20
  <2>2. possible = {}
    <3> SUFFICES ASSUME NEW u \in possible PROVE FALSE
        OBVIOUS
    <3>1. u \in Nat /\ LocalTime(u) = midnight
        BY <1>15
    <3>2. LocalTime(u) = IF u < tr THEN u + b ELSE u + a
        BY <1>9, <3>1
    <3> HIDE DEF possible
    <3> QED
        BY <1>1, <1>13, <1>20, <2>1, <3>1, <3>2
  <2>3. next = tr
      BY <1>1, <1>10, <1>13, <2>1, <2>2
  <2> HIDE DEF possible
  <2>4. LocalTime(tr) = tr + a
      BY <1>1, <1>9
  <2>5. \A u \in Nat : t <= u /\ u < next => LocalTime(u) < midnight
    <3> SUFFICES ASSUME NEW u \in Nat, t <= u, u < next PROVE LocalTime(u) < midnight
        OBVIOUS
    <3>1. LocalTime(u) = IF u < tr THEN u + b ELSE u + a
        BY <1>9
    <3> QED
        BY <1>1, <1>13, <2>1, <2>3, <3>1
  <2>6. next \in Nat /\ t < next /\ midnight <= LocalTime(next)
      BY <1>1, <1>13, <1>20, <2>3, <2>4
  <2> QED
      BY <1>17, <2>5, <2>6 DEF next, d
<1> HIDE DEF possible
<1> QED
    BY <1>1, <1>13, <1>18, <1>19, <1>20

-----------------------------------------------------------------------------
(* Segments *)

\* Where the segments of an interval begin: where it does, and on every date
\* that it reaches.
Begins(interval, t) ==
    {t} \cup {u \in (t + 1)..(interval.to - 1) : LocalDate(u - 1) < LocalDate(u)}

\* The equation of the recursion.
SegmentsFrom(g, interval) ==
    g = [t \in Instants |->
            IF NextMidnight(t) \in (t + 1)..(interval.to - 1)
            THEN {t} \cup g[NextMidnight(t)] ELSE {t}]

\* An interval ends in the model's time and does not begin after its end.
Proper(interval) ==
    /\ interval.from \in Nat /\ interval.to \in 0..MaxTime
    /\ interval.from <= interval.to

LEMMA InstantsAre == Instants = 0..(MaxTime + 2 * Day) /\ Day \in Nat /\ Day > 0 /\ MaxTime \in Nat
    BY TodayAssumption DEF Instants

\* Where there are dates to come, the next one begins at the next midnight.
LEMMA BeginsNext ==
    ASSUME ZoneInv, NEW interval, interval.to \in 0..MaxTime, NEW t \in Instants
    PROVE  Begins(interval, t) =
               IF NextMidnight(t) \in (t + 1)..(interval.to - 1)
               THEN {t} \cup Begins(interval, NextMidnight(t)) ELSE {t}
<1> DEFINE to == interval.to
           next == NextMidnight(t)
           Later(x) == {u \in (x + 1)..(to - 1) : LocalDate(u - 1) < LocalDate(u)}
<1>1. t \in Nat /\ to \in Nat /\ to <= MaxTime /\ MaxTime \in Nat
    BY InstantsAre
<1>2. Begins(interval, t) = {t} \cup Later(t) /\ Begins(interval, next) = {next} \cup Later(next)
    BY DEF Begins
<1>3. CASE t >= to
  <2>1. Later(t) = {} /\ (t + 1)..(to - 1) = {}
      BY <1>1, <1>3
  <2> QED
      BY <1>2, <2>1
<1>4. CASE t < to
  <2>1. t \in 0..MaxTime
      BY <1>1, <1>4
  <2>2. /\ next \in Nat /\ t < next
        /\ \A u \in t..(next - 1) : LocalDate(u) = LocalDate(t)
        /\ LocalDate(t) < LocalDate(next)
      BY <2>1, NextMidnightEndsDate
  <2> HIDE DEF next
  <2>3. \A u \in (t + 1)..(next - 1) : ~(LocalDate(u - 1) < LocalDate(u))
    <3> SUFFICES ASSUME NEW u \in (t + 1)..(next - 1) PROVE ~(LocalDate(u - 1) < LocalDate(u))
        OBVIOUS
    <3>1. u \in t..(next - 1) /\ u - 1 \in t..(next - 1)
        BY <1>1, <2>2
    <3>2. LocalDate(u) = LocalDate(t) /\ LocalDate(u - 1) = LocalDate(t) /\ LocalDate(t) \in Nat
        BY <1>1, <2>2, <3>1, LocalTimes
    <3> QED
        BY <3>2
  <2>4. CASE next \in (t + 1)..(to - 1)
    <3>1. LocalDate(next - 1) < LocalDate(next)
      <4>1. next - 1 \in t..(next - 1)
          BY <1>1, <2>2
      <4> QED
          BY <2>2, <4>1
    <3>2. Later(t) = {next} \cup Later(next)
      <4>1. ASSUME NEW u \in Later(t) PROVE u \in {next} \cup Later(next)
        <5>1. u \notin (t + 1)..(next - 1)
            BY <2>3, <4>1
        <5> QED
            BY <1>1, <2>2, <4>1, <5>1
      <4>2. ASSUME NEW u \in Later(next) PROVE u \in Later(t)
          BY <1>1, <2>2, <4>2
      <4>3. next \in Later(t)
          BY <2>4, <3>1
      <4> HIDE DEF Later
      <4> QED
          BY <4>1, <4>2, <4>3
    <3> QED
        BY <1>2, <2>4, <3>2 DEF next
  <2>5. CASE next \notin (t + 1)..(to - 1)
    <3>1. Later(t) = {}
      <4> SUFFICES ASSUME NEW u \in Later(t) PROVE FALSE
          OBVIOUS
      <4>1. u \in (t + 1)..(next - 1)
          BY <1>1, <2>2, <2>5
      <4> QED
          BY <2>3, <4>1
    <3> QED
        BY <1>2, <2>5, <3>1 DEF next
  <2> QED
      BY <2>4, <2>5
<1> QED
    BY <1>1, <1>3, <1>4

\* The recursion ends at the end of the interval, so its equation has one
\* solution.
LEMMA SegmentStartsAre ==
    ASSUME ZoneInv, NEW interval, Proper(interval)
    PROVE  SegmentStarts(interval) = Begins(interval, interval.from)
<1> DEFINE G == [t \in Instants |-> Begins(interval, t)]
           g == CHOOSE g : SegmentsFrom(g, interval)
<1>0. /\ interval.from \in Nat /\ interval.to \in 0..MaxTime
      /\ interval.to \in Nat /\ interval.to <= MaxTime /\ interval.from <= interval.to
      /\ MaxTime \in Nat
    BY InstantsAre DEF Proper
<1>1. \A t \in Instants : NextMidnight(t) \in (t + 1)..(interval.to - 1) => NextMidnight(t) \in Instants
    BY <1>0, InstantsAre
<1>2. SegmentsFrom(G, interval)
    BY <1>0, <1>1, BeginsNext DEF SegmentsFrom
<1>3. SegmentsFrom(g, interval)
    BY <1>2
<1>4. SegmentStarts(interval) = g[interval.from]
    BY DEF SegmentStarts, SegmentsFrom
<1> HIDE DEF g
<1>5. \A t \in Instants : g[t] = Begins(interval, t)
  <2> DEFINE Wrong == {t \in Instants : g[t] # Begins(interval, t)}
             Distance == {MaxTime + 2 * Day - t : t \in Wrong}
  <2> SUFFICES ASSUME Wrong # {} PROVE FALSE
      OBVIOUS
  <2>1. Distance \in SUBSET Nat /\ Distance # {}
      BY InstantsAre
  <2> HIDE DEF Distance
  <2>2. PICK m \in Distance : \A n \in Distance : m <= n
      BY <2>1, SmallestNumber
  <2> USE DEF Distance
  <2>3. PICK t \in Wrong : m = MaxTime + 2 * Day - t
      BY <2>2
  <2>4. \A u \in Wrong : u <= t
    <3> SUFFICES ASSUME NEW u \in Wrong PROVE u <= t
        OBVIOUS
    <3>1. m <= MaxTime + 2 * Day - u
        BY <2>2
    <3> QED
        BY <2>3, <3>1, InstantsAre
  <2> HIDE DEF Distance
  <2>5. t \in Nat /\ t \in Instants
      BY InstantsAre
  <2>6. g[t] = IF NextMidnight(t) \in (t + 1)..(interval.to - 1)
               THEN {t} \cup g[NextMidnight(t)] ELSE {t}
      BY <1>3, <2>5 DEF SegmentsFrom
  <2>7. ASSUME NextMidnight(t) \in (t + 1)..(interval.to - 1)
        PROVE  g[NextMidnight(t)] = Begins(interval, NextMidnight(t))
    <3>1. ~(NextMidnight(t) <= t) /\ NextMidnight(t) \in Instants
        BY <1>0, <1>1, <2>5, <2>7
    <3> QED
        BY <2>4, <3>1
  <2>8. g[t] = Begins(interval, t)
      BY <1>0, <2>5, <2>6, <2>7, BeginsNext
  <2> QED
      BY <2>8
<1>6. interval.from \in Instants
    BY <1>0, InstantsAre
<1> QED
    BY <1>4, <1>5, <1>6

\* The minutes of an interval on a date.
MinutesOn(interval, date) ==
    {t \in Nat : interval.from <= t /\ t < interval.to /\ LocalDate(t) = date}

\* A loop never finds that the next midnight does not lie ahead.
LEMMA SplitNeverFails ==
    ASSUME ZoneInv, NEW interval, Proper(interval)
    PROVE  ~SplitFails(interval)
<1> SUFFICES ASSUME interval.from < interval.to, NEW t \in Begins(interval, interval.from)
             PROVE  ~(NextMidnight(t) <= t)
    BY SegmentStartsAre DEF SplitFails
<1>1. t \in 0..MaxTime
    BY InstantsAre DEF Begins, Proper
<1>2. NextMidnight(t) \in Nat /\ t < NextMidnight(t)
    BY <1>1, NextMidnightEndsDate
<1> QED
    BY <1>1, <1>2

\* The segment of an interval on a date has its minutes of that date.
LEMMA SegmentIsDate ==
    ASSUME ZoneInv, NEW interval, Proper(interval),
           NEW t \in SegmentStarts(interval),
           NEW end, end = Min({interval.to, NextMidnight(t)})
    PROVE  /\ t \in Nat /\ end \in Nat /\ t <= end
           /\ MinutesOn(interval, LocalDate(t)) = t..(end - 1)
<1> DEFINE next == NextMidnight(t)
           from == interval.from
           to == interval.to
<1>1. /\ from \in Nat /\ to \in Nat /\ to <= MaxTime /\ MaxTime \in Nat /\ from <= to
    BY InstantsAre DEF Proper
<1>2. /\ t \in {from} \cup ((from + 1)..(to - 1))
      /\ t # from => LocalDate(t - 1) < LocalDate(t)
    BY SegmentStartsAre DEF Begins
<1>3. t \in 0..MaxTime /\ t \in Nat /\ from <= t /\ t <= to
    BY <1>1, <1>2
<1>4. /\ next \in Nat /\ t < next
      /\ \A u \in t..(next - 1) : LocalDate(u) = LocalDate(t)
      /\ LocalDate(t) < LocalDate(next)
    BY <1>3, NextMidnightEndsDate
<1> HIDE DEF next, from, to
<1>5. end \in {to, next} /\ end <= to /\ end <= next
  <2>1. {to, next} \in SUBSET Nat /\ {to, next} # {}
      BY <1>1, <1>4
  <2>2. Min({to, next}) \in {to, next} /\ \A i \in {to, next} : Min({to, next}) <= i
      BY <2>1, MinOfNumbers
  <2> QED
      BY <2>2 DEF to, next
<1>6. end \in Nat /\ t <= end
    BY <1>1, <1>3, <1>4, <1>5
<1>7. ASSUME NEW u \in t..(end - 1) PROVE u \in MinutesOn(interval, LocalDate(t))
  <2>1. u \in Nat /\ from <= u /\ u < to /\ u \in t..(next - 1)
      BY <1>1, <1>3, <1>4, <1>5, <1>6
  <2>2. LocalDate(u) = LocalDate(t)
      BY <1>4, <2>1
  <2> QED
      BY <2>1, <2>2 DEF MinutesOn, from, to
<1>8. ASSUME NEW u \in MinutesOn(interval, LocalDate(t)) PROVE u \in t..(end - 1)
  <2>1. u \in Nat /\ from <= u /\ u < to /\ LocalDate(u) = LocalDate(t)
      BY DEF MinutesOn, from, to
  <2>2. LocalDate(t) \in Nat
      BY <1>3, LocalTimes
  <2>3. t <= u
    <3> SUFFICES ASSUME u < t PROVE FALSE
        BY <1>3, <2>1
    <3>1. t - 1 \in Nat /\ u <= t - 1 /\ t # from
        BY <1>1, <1>3, <2>1
    <3>2. LocalDate(u) <= LocalDate(t - 1) /\ LocalDate(t - 1) \in Nat
        BY <2>1, <3>1, DatesGoForward, LocalTimes
    <3> QED
        BY <1>2, <2>1, <2>2, <3>1, <3>2
  <2>4. u < next
    <3> SUFFICES ASSUME next <= u PROVE FALSE
        BY <1>4, <2>1
    <3>1. LocalDate(next) <= LocalDate(u) /\ LocalDate(next) \in Nat
        BY <1>4, <2>1, DatesGoForward, LocalTimes
    <3> QED
        BY <1>4, <2>1, <2>2, <3>1
  <2> QED
      BY <1>1, <1>3, <1>4, <1>5, <2>1, <2>3, <2>4
<1> QED
    BY <1>3, <1>6, <1>7, <1>8

\* An interval has a segment on every date on which it has minutes.
LEMMA DateHasSegment ==
    ASSUME ZoneInv, NEW interval, Proper(interval), NEW date,
           MinutesOn(interval, date) # {}
    PROVE  \E t \in SegmentStarts(interval) : LocalDate(t) = date
<1>1. MinutesOn(interval, date) \in SUBSET Nat
    BY DEF MinutesOn
<1>2. PICK t \in MinutesOn(interval, date) : \A u \in MinutesOn(interval, date) : t <= u
    BY <1>1, SmallestNumber
<1>3. /\ t \in Nat /\ interval.from <= t /\ t < interval.to /\ LocalDate(t) = date
      /\ interval.from \in Nat /\ interval.to \in Nat
    BY InstantsAre DEF MinutesOn, Proper
<1>4. t # interval.from => LocalDate(t - 1) < LocalDate(t)
  <2> SUFFICES ASSUME t # interval.from PROVE LocalDate(t - 1) < LocalDate(t)
      OBVIOUS
  <2>1. t - 1 \in Nat /\ interval.from <= t - 1 /\ t - 1 < interval.to /\ ~(t <= t - 1)
      BY <1>3
  <2>2. LocalDate(t - 1) # date
      BY <1>2, <2>1 DEF MinutesOn
  <2>3. /\ LocalDate(t - 1) <= LocalDate(t)
        /\ LocalDate(t - 1) \in Nat /\ LocalDate(t) \in Nat
      BY <1>3, <2>1, DatesGoForward, LocalTimes
  <2> QED
      BY <1>3, <2>2, <2>3
<1>5. t \in Begins(interval, interval.from)
    BY <1>3, <1>4 DEF Begins
<1> QED
    BY <1>3, <1>5, SegmentStartsAre

\* It has no two.
LEMMA OneSegmentPerDate ==
    ASSUME ZoneInv, NEW interval, Proper(interval),
           NEW t \in SegmentStarts(interval), NEW u \in SegmentStarts(interval),
           LocalDate(t) = LocalDate(u)
    PROVE  t = u
<1>1. ASSUME NEW x \in SegmentStarts(interval), NEW y \in SegmentStarts(interval),
             LocalDate(x) = LocalDate(y), x < y
      PROVE  FALSE
  <2>1. interval.from \in Nat /\ interval.to \in Nat
      BY InstantsAre DEF Proper
  <2>2. /\ x \in Nat /\ interval.from <= x
        /\ y \in Nat /\ (y # interval.from => LocalDate(y - 1) < LocalDate(y))
      BY <2>1, SegmentStartsAre DEF Begins
  <2>3. y - 1 \in Nat /\ x <= y - 1 /\ y # interval.from
      BY <1>1, <2>1, <2>2
  <2>4. /\ LocalDate(x) <= LocalDate(y - 1)
        /\ LocalDate(x) \in Nat /\ LocalDate(y - 1) \in Nat /\ LocalDate(y) \in Nat
      BY <2>2, <2>3, DatesGoForward, LocalTimes
  <2> QED
      BY <1>1, <2>2, <2>3, <2>4
<1>2. t \in Nat /\ u \in Nat
    BY InstantsAre, SegmentStartsAre DEF Begins, Proper
<1> QED
    BY <1>1, <1>2

-----------------------------------------------------------------------------
(* Minutes *)

\* Intervals that do not overlap.
Disjoint(intervals) ==
    \A i, j \in intervals :
        (\E t \in Nat : i.from <= t /\ t < i.to /\ j.from <= t /\ t < j.to) => i = j

\* A calculation counts the minutes of its date.
LEMMA MinutesAreCounted ==
    ASSUME ZoneInv, NEW intervals, IsFiniteSet(intervals),
           \A i \in intervals : Proper(i), Disjoint(intervals),
           NEW date, NEW kind
    PROVE  Minutes(Segments(intervals, date), kind) =
               Cardinality({t \in Nat : \E i \in intervals : i.kind = kind /\ t \in MinutesOn(i, date)})
<1> DEFINE Of(i) == {[interval |-> i, from |-> t, to |-> Min({i.to, NextMidnight(t)})] :
                         t \in {u \in SegmentStarts(i) : LocalDate(u) = date}}
           all == Segments(intervals, date)
           S == {s \in all : s.interval.kind = kind}
           f == [s \in all |-> s.to - s.from]
           r == [s \in all |-> s.from..(s.to - 1)]
<1>1. all = UNION {Of(i) : i \in intervals}
    BY DEF Segments
<1>2. ASSUME NEW i \in intervals PROVE IsFiniteSet(Of(i))
  <2>1. Proper(i) /\ i.from \in Nat /\ i.to \in Nat
      BY InstantsAre DEF Proper
  <2>2. SegmentStarts(i) \subseteq 0..(i.from + i.to)
      BY <2>1, SegmentStartsAre DEF Begins
  <2>3. IsFiniteSet(0..(i.from + i.to))
      BY <2>1, FS_Interval
  <2> DEFINE D == {u \in SegmentStarts(i) : LocalDate(u) = date}
  <2>4. IsFiniteSet(D)
      BY <2>2, <2>3, FS_Subset
  <2> DEFINE g == [t \in D |-> [interval |-> i, from |-> t, to |-> Min({i.to, NextMidnight(t)})]]
  <2>5. Of(i) = {g[t] : t \in D}
      OBVIOUS
  <2> HIDE DEF D, g, Of
  <2>6. IsFiniteSet({g[t] : t \in D})
      BY <2>4, FiniteImage
  <2> QED
      BY <2>5, <2>6
<1>3. IsFiniteSet(all)
  <2> DEFINE g == [i \in intervals |-> Of(i)]
             F == {g[i] : i \in intervals}
  <2> HIDE DEF Of
  <2>1. \A T \in F : IsFiniteSet(T)
      BY <1>2
  <2>2. all = UNION F
      BY <1>1
  <2>3. IsFiniteSet(F)
    <3> HIDE DEF g
    <3> QED
        BY FiniteImage
  <2> HIDE DEF F, all
  <2> QED
      BY <2>1, <2>2, <2>3, FS_UNION
<1>4. ASSUME NEW s \in all
      PROVE  /\ s.interval \in intervals
             /\ s.from \in SegmentStarts(s.interval) /\ LocalDate(s.from) = date
             /\ s = [interval |-> s.interval, from |-> s.from, to |-> s.to]
             /\ s.to = Min({s.interval.to, NextMidnight(s.from)})
  <2> HIDE DEF Of, all
  <2>1. PICK i \in intervals : s \in Of(i)
      BY <1>1
  <2>2. PICK t \in SegmentStarts(i) :
            /\ LocalDate(t) = date
            /\ s = [interval |-> i, from |-> t, to |-> Min({i.to, NextMidnight(t)})]
      BY <2>1 DEF Of
  <2>3. s.interval = i /\ s.from = t /\ s.to = Min({i.to, NextMidnight(t)})
      BY <2>2
  <2> QED
      BY <2>2, <2>3
<1>5. ASSUME NEW s \in all
      PROVE  /\ s.from \in Nat /\ s.to \in Nat /\ s.from <= s.to
             /\ r[s] = MinutesOn(s.interval, date)
             /\ IsFiniteSet(r[s]) /\ f[s] = Cardinality(r[s])
  <2>1. /\ s.from \in Nat /\ s.to \in Nat /\ s.from <= s.to
        /\ MinutesOn(s.interval, LocalDate(s.from)) = s.from..(s.to - 1)
    <3> HIDE DEF all
    <3> DEFINE i == s.interval
               t == s.from
    <3>1. /\ Proper(i) /\ t \in SegmentStarts(i)
          /\ s.to = Min({i.to, NextMidnight(t)})
        BY <1>4
    <3> HIDE DEF i, t
    <3>2. /\ t \in Nat /\ s.to \in Nat /\ t <= s.to
          /\ MinutesOn(i, LocalDate(t)) = t..(s.to - 1)
        BY <3>1, SegmentIsDate
    <3> QED
        BY <3>2 DEF i, t
  <2>2. IsFiniteSet(s.from..(s.to - 1)) /\ Cardinality(s.from..(s.to - 1)) = s.to - s.from
      BY <2>1, RangeSize
  <2> QED
      BY <1>4, <2>1, <2>2
<1>6. ASSUME NEW i \in intervals, MinutesOn(i, date) # {}
      PROVE  \E s \in all : s.interval = i
  <2>1. PICK t \in SegmentStarts(i) : LocalDate(t) = date
      BY <1>6, DateHasSegment
  <2>2. [interval |-> i, from |-> t, to |-> Min({i.to, NextMidnight(t)})] \in all
    <3>1. [interval |-> i, from |-> t, to |-> Min({i.to, NextMidnight(t)})] \in Of(i)
        BY <2>1
    <3> HIDE DEF Of, all
    <3> QED
        BY <1>1, <3>1
  <2> HIDE DEF all
  <2> QED
      BY <2>2
<1> HIDE DEF all
<1>7. ASSUME NEW x \in S, NEW y \in S, x # y PROVE r[x] \cap r[y] = {}
  <2> SUFFICES ASSUME NEW t \in r[x] \cap r[y] PROVE FALSE
      OBVIOUS
  <2>1. t \in MinutesOn(x.interval, date) /\ t \in MinutesOn(y.interval, date)
      BY <1>5
  <2>2. x.interval = y.interval
      BY <1>4, <2>1 DEF MinutesOn, Disjoint
  <2>3. x.from = y.from
      BY <1>4, <2>2, OneSegmentPerDate
  <2> QED
      BY <1>4, <1>7, <2>2, <2>3
<1>8. SumFunctionOnSet(f, S) = Cardinality(UNION {r[x] : x \in S})
  <2>1. IsFiniteSet(S)
      BY <1>3, FS_Subset
  <2>2. \A x \in S : IsFiniteSet(r[x]) /\ f[x] = Cardinality(r[x])
      BY <1>5
  <2> HIDE DEF S, f, r
  <2> QED
      BY <1>7, <2>1, <2>2, SumOfSizes
<1>9. UNION {r[x] : x \in S} = {t \in Nat : \E i \in intervals : i.kind = kind /\ t \in MinutesOn(i, date)}
  <2>1. ASSUME NEW x \in S, NEW t \in r[x]
        PROVE  t \in Nat /\ x.interval.kind = kind /\ t \in MinutesOn(x.interval, date)
      BY <1>5 DEF MinutesOn
  <2>2. ASSUME NEW t \in Nat, NEW i \in intervals, i.kind = kind, t \in MinutesOn(i, date)
        PROVE  \E x \in S : t \in r[x]
      BY <1>5, <1>6, <2>2
  <2> HIDE DEF r, S
  <2>3. \A x \in S : x.interval \in intervals
      BY <1>4 DEF S
  <2> QED
      BY <2>1, <2>2, <2>3
<1> QED
    BY <1>8, <1>9 DEF Minutes, all

-----------------------------------------------------------------------------
(* The events a calculation reads *)

PunchEvent == [eventSequence : Nat, type : PunchEventTypes, occurredAt : Nat]

\* What the events are, as the attendance commands leave them.
EventsInv ==
    /\ now \in 0..MaxTime
    /\ events \in Seq(PunchEvent)
    /\ \A i \in 1..Len(events) : events[i].eventSequence = i /\ events[i].occurredAt <= now
    /\ \A i, j \in 1..Len(events) : i <= j => events[i].occurredAt <= events[j].occurredAt
    /\ Len(events) > 0 => events[1].type = "CLOCK_IN"
    /\ head.state = ReconstructedState(events)

\* The rows R of a table in their order.
InOrder(e, R) ==
    [n \in 1..Cardinality(R) |-> e[CHOOSE i \in R : Cardinality({j \in R : j < i}) = n - 1]]

\* A run of rows: those from the a-th to the b-th.
Run(e, a, b) == [n \in 1..(b - a + 1) |-> e[a + n - 1]]

\* Rows without a gap are read in their order.
LEMMA RunOfRows ==
    ASSUME NEW a \in Nat, NEW b \in Nat, 1 <= a, a <= b + 1, NEW e
    PROVE  InOrder(e, a..b) = Run(e, a, b)
<1> DEFINE R == a..b
<1>1. Cardinality(R) = b - a + 1
  <2>1. Cardinality(a..b) = IF a > b THEN 0 ELSE b - a + 1
      BY FS_Interval
  <2> QED
      BY <2>1
<1> DEFINE Position(n) == CHOOSE i \in R : Cardinality({j \in R : j < i}) = n - 1
<1>2. ASSUME NEW i \in R PROVE Cardinality({j \in R : j < i}) = i - a
  <2>1. {j \in R : j < i} = a..(i - 1)
      OBVIOUS
  <2>2. i \in Nat /\ a <= i
      OBVIOUS
  <2>3. Cardinality(a..(i - 1)) = i - a
      BY <2>2, RangeSize
  <2> QED
      BY <2>1, <2>3
<1>3. ASSUME NEW n \in 1..(b - a + 1)
      PROVE  Position(n) = a + n - 1
  <2> DEFINE P(i) == Cardinality({j \in R : j < i}) = n - 1
  <2>1. a + n - 1 \in R
      OBVIOUS
  <2>2. P(a + n - 1)
      BY <1>2, <2>1
  <2>3. \A i \in R : P(i) => i = a + n - 1
      BY <1>2
  <2> HIDE DEF P
  <2>4. (CHOOSE i \in R : P(i)) = a + n - 1
      BY <2>1, <2>2, <2>3
  <2> QED
      BY <2>4 DEF P
<1> HIDE DEF Position
<1>4. [n \in 1..Cardinality(R) |-> e[Position(n)]] = [n \in 1..(b - a + 1) |-> e[a + n - 1]]
    BY <1>1, <1>3
<1> QED
    BY <1>4 DEF Position, InOrder, Run

\* On every instant of a date, the date has begun.
LEMMA DayStartIsFirst ==
    ASSUME ZoneInv, NEW t \in Instants
    PROVE  DayStart(LocalDate(t)) \in Nat /\ DayStart(LocalDate(t)) <= t
<1> DEFINE S == {u \in Instants : LocalTime(u) >= LocalDate(t) * Day}
<1>1. t \in Nat /\ S \in SUBSET Nat
    BY InstantsAre
<1>2. LocalTime(t) >= LocalDate(t) * Day
    BY <1>1, LocalTimes, DateBounds
<1>3. t \in S
    BY <1>2
<1>4. DayStart(LocalDate(t)) = Min(S)
    BY DEF DayStart
<1> HIDE DEF S
<1>5. Min(S) \in S /\ \A u \in S : Min(S) <= u
    BY <1>1, <1>3, MinOfNumbers
<1>6. Min(S) \in Nat /\ Min(S) <= t
    BY <1>1, <1>3, <1>5
<1> QED
    BY <1>4, <1>6

\* The events from the a-th to the b-th are what a calculation at an instant must
\* know: all until then, from the first one or from one before the date began.
Reads(a, b, asOf) ==
    /\ a \in Nat /\ b \in Nat /\ 1 <= a /\ a <= b + 1 /\ b <= Len(events)
    /\ \A i \in 1..Len(events) : events[i].occurredAt <= asOf <=> i <= b
    /\ \/ a = 1
       \/ /\ a <= b
          /\ \A t \in Instants : LocalDate(t) = LocalDate(asOf) => events[a].occurredAt <= t

\* The events that are read are all until the instant, from the first one or from
\* one before the date began.
LEMMA SourceIsRun ==
    ASSUME ZoneInv, EventsInv, NEW asOf \in 0..MaxTime
    PROVE  \E a, b : /\ Reads(a, b, asOf)
                     /\ SourceEvents(LocalDate(asOf), asOf) = Run(events, a, b)
<1> DEFINE date == LocalDate(asOf)
           n == Len(events)
           start == DayStart(date)
           anchors == {i \in DOMAIN events : events[i].type = "CLOCK_IN" /\ events[i].occurredAt < start}
           rows == {i \in DOMAIN events :
                      /\ IF anchors = {} THEN events[i].occurredAt >= start
                         ELSE events[i].eventSequence >= events[Max(anchors)].eventSequence
                      /\ events[i].occurredAt <= asOf}
           seen == {i \in 1..n : events[i].occurredAt <= asOf}
           a == IF anchors = {} THEN 1 ELSE Max(anchors)
           b == IF seen = {} THEN 0 ELSE Max(seen)
           Bounds ==
               /\ rows = a..b /\ a \in Nat /\ 1 <= a /\ a <= b + 1
               /\ \/ a = 1
                  \/ a <= b /\ \A t \in Instants : LocalDate(t) = date => events[a].occurredAt <= t
<1>1. /\ n \in Nat /\ DOMAIN events = 1..n
      /\ \A i \in 1..n : events[i].occurredAt \in Nat /\ events[i].eventSequence = i
      /\ \A i, j \in 1..n : i <= j => events[i].occurredAt <= events[j].occurredAt
      /\ n > 0 => events[1].type = "CLOCK_IN"
  <2>1. /\ events \in Seq(PunchEvent)
        /\ \A i \in 1..n : events[i].eventSequence = i
        /\ \A i, j \in 1..n : i <= j => events[i].occurredAt <= events[j].occurredAt
        /\ n > 0 => events[1].type = "CLOCK_IN"
      BY DEF EventsInv
  <2>2. n \in Nat /\ DOMAIN events = 1..n /\ \A i \in 1..n : events[i] \in PunchEvent
      BY <2>1
  <2>3. \A x \in PunchEvent : x.occurredAt \in Nat
      BY DEF PunchEvent
  <2> QED
      BY <2>1, <2>2, <2>3
<1>2. /\ asOf \in Nat /\ asOf \in Instants
      /\ start \in Nat /\ start <= asOf
      /\ \A t \in Instants : LocalDate(t) = date => start <= t
    BY InstantsAre, DayStartIsFirst
<1> HIDE DEF start, n
<1>3. b \in Nat /\ b <= n /\ \A i \in 1..n : events[i].occurredAt <= asOf <=> i <= b
  <2>1. CASE seen = {}
      BY <1>1, <2>1
  <2>2. CASE seen # {}
    <3>1. b = Max(seen) /\ seen \in SUBSET (1..n)
        BY <2>2
    <3>2. b \in seen /\ \A i \in seen : i <= b
      <4> HIDE DEF seen, b
      <4> QED
          BY <1>1, <2>2, <3>1, LastPosition
    <3>3. b \in 1..n /\ events[b].occurredAt <= asOf
        BY <3>2
    <3> HIDE DEF b
    <3>4. ASSUME NEW i \in 1..n, i <= b PROVE events[i].occurredAt <= asOf
        BY <1>1, <1>2, <3>3, <3>4
    <3>5. ASSUME NEW i \in 1..n, events[i].occurredAt <= asOf PROVE i <= b
        BY <3>2, <3>5
    <3> QED
        BY <3>3, <3>4, <3>5, <1>1
  <2> QED
      BY <2>1, <2>2
<1>4. ASSUME anchors = {} PROVE Bounds
  <2>1. a = 1
      BY <1>4
  <2>2. \A i \in 1..n : start <= events[i].occurredAt
    <3> SUFFICES ASSUME NEW i \in 1..n, events[i].occurredAt < start PROVE FALSE
        BY <1>1, <1>2
    <3>1. /\ n > 0 /\ 1 \in 1..n /\ 1 <= i
        BY <1>1
    <3>2. events[1].occurredAt <= events[i].occurredAt
        BY <1>1, <3>1
    <3>3. 1 \in anchors
        BY <1>1, <1>2, <3>1, <3>2
    <3> QED
        BY <1>4, <3>3
  <2>3. rows = {i \in 1..n : i <= b}
    <3> HIDE DEF b
    <3> QED
        BY <1>1, <1>2, <1>3, <1>4, <2>2
  <2>4. rows = a..b
    <3> HIDE DEF a, b, rows
    <3> QED
        BY <1>1, <1>3, <2>1, <2>3
  <2>5. a \in Nat /\ 1 <= a /\ a <= b + 1
    <3> HIDE DEF b
    <3> QED
      BY <1>3, <2>1
  <2> QED
      BY <2>1, <2>4, <2>5
<1>5. ASSUME anchors # {} PROVE Bounds
  <2>1. a = Max(anchors) /\ anchors \in SUBSET (1..n)
      BY <1>1, <1>5
  <2>2. a \in anchors
    <3> HIDE DEF anchors, a
    <3> QED
        BY <1>1, <1>5, <2>1, LastPosition
  <2>3. a \in 1..n /\ events[a].occurredAt < start
      BY <1>1, <2>2
  <2> HIDE DEF a, b
  <2>4. a <= b
      BY <1>1, <1>2, <1>3, <2>3
  <2>5. rows = {i \in 1..n : a <= i /\ i <= b}
      BY <1>1, <1>2, <1>3, <1>5, <2>1, <2>3
  <2>6. rows = a..b
    <3>1. n \in Nat /\ b \in Nat /\ b <= n /\ a \in Nat /\ 1 <= a /\ a <= n
        BY <1>1, <1>3, <2>3
    <3>2. {i \in 1..n : a <= i /\ i <= b} = a..b
        BY <3>1
    <3> HIDE DEF rows
    <3> QED
        BY <2>5, <3>2
  <2>7. \A t \in Instants : LocalDate(t) = date => events[a].occurredAt <= t
    <3>1. \A t \in Instants : t \in Nat
        BY InstantsAre
    <3> QED
        BY <1>1, <1>2, <2>3, <3>1
  <2> HIDE DEF rows, anchors
  <2> QED
      BY <1>1, <1>3, <2>3, <2>4, <2>6, <2>7
<1>6. Bounds
  <2> HIDE DEF Bounds
  <2> QED
      BY <1>4, <1>5
<1>7. SourceEvents(date, asOf) = InOrder(events, rows)
    BY DEF SourceEvents, InOrder, start
<1>8. /\ rows = a..b /\ a \in Nat /\ 1 <= a /\ a <= b + 1 /\ b \in Nat
      /\ \/ a = 1
         \/ a <= b /\ \A t \in Instants : LocalDate(t) = date => events[a].occurredAt <= t
    BY <1>3, <1>6
<1> HIDE DEF rows, a, b, Bounds
<1>9. InOrder(events, a..b) = Run(events, a, b)
    BY <1>8, RunOfRows
<1>10. SourceEvents(date, asOf) = Run(events, a, b)
    BY <1>7, <1>8, <1>9
<1>11. Reads(a, b, asOf)
    BY <1>3, <1>8 DEF n, Reads
<1> QED
    BY <1>10, <1>11

-----------------------------------------------------------------------------
(* What a calculation counts *)

\* The minutes of a date before an instant that were spent in a state, by the
\* first n events.
Spent(asOf, date, n, kind) ==
    Cardinality({t \in Instants : t < asOf /\ LocalDate(t) = date /\ StateDuring(t, n) = kind})

\* The interval that the m-th event opens, when the events from the a-th to the
\* b-th are read.
IntervalOf(m, a, b, asOf) ==
    [nth |-> m - a + 1, kind |-> StateAfterEvent[events[m].type],
     from |-> events[m].occurredAt,
     to |-> IF m = b THEN asOf ELSE events[m + 1].occurredAt]

Opening(a, b) == {m \in a..b : events[m].type # "CLOCK_OUT"}

\* What EventsInv says of the rows.
LEMMA EventsAre ==
    ASSUME EventsInv
    PROVE  /\ Len(events) \in Nat /\ DOMAIN events = 1..Len(events) /\ MaxTime \in Nat
           /\ events \in Seq(PunchEvent)
           /\ \A i \in 1..Len(events) : /\ events[i].type \in PunchEventTypes
                                        /\ events[i].occurredAt \in 0..MaxTime
                                        /\ events[i].eventSequence = i
           /\ \A i, j \in 1..Len(events) : i <= j => events[i].occurredAt <= events[j].occurredAt
<1> DEFINE n == Len(events)
<1>1. /\ events \in Seq(PunchEvent) /\ now \in 0..MaxTime
      /\ \A i \in 1..n : events[i].eventSequence = i /\ events[i].occurredAt <= now
      /\ \A i, j \in 1..n : i <= j => events[i].occurredAt <= events[j].occurredAt
    BY DEF EventsInv
<1>2. n \in Nat /\ DOMAIN events = 1..n /\ \A i \in 1..n : events[i] \in PunchEvent
    BY <1>1
<1>3. \A x \in PunchEvent : x.occurredAt \in Nat /\ x.type \in PunchEventTypes
    BY DEF PunchEvent
<1> QED
    BY <1>1, <1>2, <1>3, InstantsAre

\* Nothing is left out of a source that is not too long.
LEMMA NewestIsAll ==
    ASSUME EventsInv, NEW a \in Nat, NEW b \in Nat, 1 <= a, a <= b + 1, b <= Len(events),
           Len(Run(events, a, b)) <= SourceLimit
    PROVE  /\ NewestSource(Run(events, a, b)) = Run(events, a, b)
           /\ Len(Run(events, a, b)) = b - a + 1
<1> DEFINE source == Run(events, a, b)
           L == b - a + 1
<1>1. L \in Nat /\ \A n \in 1..L : events[a + n - 1] \in PunchEvent
    BY EventsAre
<1>2. source \in Seq(PunchEvent) /\ Len(source) = L
  <2>1. source = [n \in 1..L |-> events[a + n - 1]]
      BY DEF Run
  <2> HIDE DEF source, L
  <2> QED
      BY <1>1, <2>1
<1> HIDE DEF source, L
<1>3. L <= SourceLimit /\ SourceLimit \in Nat
    BY <1>2, TodayAssumption DEF source
<1>4. Max({1, L - SourceLimit + 1}) = 1
  <2>1. L - SourceLimit + 1 <= 1 /\ L - SourceLimit + 1 \in Int
      BY <1>1, <1>3
  <2> QED
      BY <2>1 DEF Max
<1>5. NewestSource(source) = SubSeq(source, 1, Len(source))
    BY <1>2, <1>4 DEF NewestSource
<1>6. SubSeq(source, 1, Len(source)) = source
    BY <1>2, SubSeqFull
<1> QED
    BY <1>2, <1>5, <1>6 DEF source, L

LEMMA IntervalsOfRun ==
    ASSUME EventsInv, NEW a \in Nat, NEW b \in Nat, 1 <= a, a <= b + 1, b <= Len(events),
           NEW asOf, Len(Run(events, a, b)) = b - a + 1
    PROVE  Intervals(Run(events, a, b), asOf) = {IntervalOf(m, a, b, asOf) : m \in Opening(a, b)}
<1> DEFINE loaded == Run(events, a, b)
           L == b - a + 1
           Of(k) == [nth |-> k, kind |-> StateAfterEvent[loaded[k].type],
                     from |-> loaded[k].occurredAt,
                     to |-> IF k = Len(loaded) THEN asOf ELSE loaded[k + 1].occurredAt]
           K == {k \in DOMAIN loaded : loaded[k].type # "CLOCK_OUT"}
<1>1. loaded = [n \in 1..L |-> events[a + n - 1]] /\ Len(loaded) = L /\ L \in Nat
    BY DEF Run
<1>2. Intervals(loaded, asOf) = {Of(k) : k \in K}
    BY DEF Intervals
<1> HIDE DEF loaded
<1>3. ASSUME NEW k \in 1..L PROVE /\ a + k - 1 \in a..b
                                  /\ loaded[k] = events[a + k - 1]
                                  /\ Of(k) = IntervalOf(a + k - 1, a, b, asOf)
  <2>1. a + k - 1 \in a..b /\ loaded[k] = events[a + k - 1] /\ (a + k - 1) - a + 1 = k
      BY <1>1
  <2>2. k = L <=> a + k - 1 = b
      OBVIOUS
  <2>3. k # L => loaded[k + 1] = events[(a + k - 1) + 1]
    <3>1. k # L => k + 1 \in 1..L /\ a + (k + 1) - 1 = (a + k - 1) + 1
        BY <1>1
    <3> QED
        BY <1>1, <3>1
  <2> HIDE DEF L
  <2>4. (IF k = Len(loaded) THEN asOf ELSE loaded[k + 1].occurredAt)
        = (IF a + k - 1 = b THEN asOf ELSE events[(a + k - 1) + 1].occurredAt)
      BY <1>1, <2>2, <2>3
  <2> QED
      BY <2>1, <2>4 DEF IntervalOf
<1>4. ASSUME NEW k \in K
      PROVE  a + k - 1 \in Opening(a, b) /\ Of(k) = IntervalOf(a + k - 1, a, b, asOf)
    BY <1>1, <1>3 DEF Opening
<1>5. ASSUME NEW m \in Opening(a, b)
      PROVE  m - a + 1 \in K /\ Of(m - a + 1) = IntervalOf(m, a, b, asOf)
  <2>1. m \in a..b /\ events[m].type # "CLOCK_OUT" /\ m - a + 1 \in 1..L
      BY DEF Opening
  <2>2. a + (m - a + 1) - 1 = m
      BY <2>1
  <2> QED
      BY <1>1, <1>3, <2>1, <2>2
<1> HIDE DEF Of, K
<1>6. {Of(k) : k \in K} = {IntervalOf(m, a, b, asOf) : m \in Opening(a, b)}
    BY <1>4, <1>5
<1> QED
    BY <1>2, <1>6 DEF loaded

\* The intervals of a run follow each other.
LEMMA IntervalsFollow ==
    ASSUME EventsInv, NEW asOf \in 0..MaxTime, NEW a, NEW b, Reads(a, b, asOf)
    PROVE  /\ IsFiniteSet({IntervalOf(m, a, b, asOf) : m \in Opening(a, b)})
           /\ \A m \in Opening(a, b) : Proper(IntervalOf(m, a, b, asOf))
           /\ Disjoint({IntervalOf(m, a, b, asOf) : m \in Opening(a, b)})
<1> DEFINE n == Len(events)
           Of(m) == IntervalOf(m, a, b, asOf)
           O == Opening(a, b)
<1>1. /\ n \in Nat /\ MaxTime \in Nat
      /\ \A i \in 1..n : events[i].occurredAt \in Nat /\ events[i].occurredAt \in 0..MaxTime
      /\ \A i, j \in 1..n : i <= j => events[i].occurredAt <= events[j].occurredAt
      /\ \A i \in 1..n : i <= b => events[i].occurredAt <= asOf
      /\ asOf \in Nat
      /\ a \in Nat /\ b \in Nat /\ 1 <= a /\ b <= n
    BY EventsAre DEF Reads
<1> HIDE DEF n
<1>2. \A m \in O : m \in a..b /\ m \in 1..n /\ (m # b => m + 1 \in 1..n /\ m + 1 <= b)
    BY <1>1 DEF Opening
<1>3. IsFiniteSet({Of(m) : m \in O})
  <2>1. O \subseteq a..b /\ IsFiniteSet(a..b)
      BY <1>1, FS_Interval DEF Opening
  <2>2. IsFiniteSet(O)
      BY <2>1, FS_Subset
  <2> DEFINE g == [m \in O |-> Of(m)]
  <2>3. {Of(m) : m \in O} = {g[m] : m \in O}
      OBVIOUS
  <2> HIDE DEF g, O, Of
  <2>4. IsFiniteSet({g[m] : m \in O})
      BY <2>2, FiniteImage
  <2> QED
      BY <2>3, <2>4
<1>4. ASSUME NEW m \in O
      PROVE  /\ Of(m).from = events[m].occurredAt
             /\ Of(m).to = IF m = b THEN asOf ELSE events[m + 1].occurredAt
    BY DEF IntervalOf
<1> HIDE DEF O, Of
<1>5. ASSUME NEW m \in O PROVE Proper(Of(m))
  <2>1. m \in 1..n /\ m <= b /\ (m # b => m + 1 \in 1..n /\ m <= m + 1)
      BY <1>1, <1>2
  <2>2. /\ events[m].occurredAt \in Nat /\ events[m].occurredAt <= asOf
        /\ m # b => events[m + 1].occurredAt \in 0..MaxTime
                    /\ events[m].occurredAt <= events[m + 1].occurredAt
      BY <1>1, <2>1
  <2> QED
      BY <1>4, <2>2 DEF Proper
<1>6. ASSUME NEW x \in O, NEW y \in O, x < y, NEW t \in Nat, t < Of(x).to, Of(y).from <= t
      PROVE  FALSE
  <2>1. /\ x \in 1..n /\ y \in 1..n /\ x # b /\ x + 1 \in 1..n /\ x + 1 <= y
      BY <1>1, <1>2, <1>6
  <2>2. events[x + 1].occurredAt <= events[y].occurredAt
      BY <1>1, <2>1
  <2>3. t < events[x + 1].occurredAt /\ events[y].occurredAt <= t
      BY <1>4, <1>6, <2>1
  <2> QED
      BY <1>1, <2>1, <2>2, <2>3
<1>7. Disjoint({Of(m) : m \in O})
  <2> SUFFICES ASSUME NEW x \in O, NEW y \in O, NEW t \in Nat,
                      Of(x).from <= t, t < Of(x).to, Of(y).from <= t, t < Of(y).to
               PROVE  Of(x) = Of(y)
      BY DEF Disjoint
  <2>1. x \in Nat /\ y \in Nat
      BY <1>2
  <2>2. ~(x < y) /\ ~(y < x)
      BY <1>6
  <2> QED
      BY <2>1, <2>2
<1> QED
    BY <1>3, <1>5, <1>7 DEF O, Of

\* The last event before a minute has passed determines what it was.
LEMMA StateAt ==
    ASSUME EventsInv, NEW n \in Nat, n <= Len(events), NEW t \in Nat, NEW m \in 1..n,
           events[m].occurredAt <= t, m # n => t < events[m + 1].occurredAt
    PROVE  StateDuring(t, n) = StateAfterEvent[events[m].type]
<1> DEFINE before == {i \in 1..n : events[i].occurredAt <= t}
<1>1. before \in SUBSET (1..n) /\ m \in before
    OBVIOUS
<1>2. StateDuring(t, n) = IF before = {} THEN "OFF_WORK" ELSE StateAfterEvent[events[Max(before)].type]
    BY DEF StateDuring
<1>3. \A i \in before : i <= m
  <2> SUFFICES ASSUME NEW i \in before, i > m PROVE FALSE
      OBVIOUS
  <2>1. m \in 1..Len(events) /\ i \in 1..Len(events) /\ m + 1 \in 1..Len(events) /\ m + 1 <= i /\ m # n
      BY EventsAre
  <2>2. events[m + 1].occurredAt <= events[i].occurredAt /\ events[i].occurredAt <= t
      BY <2>1, EventsAre
  <2>3. events[m + 1].occurredAt \in Nat /\ events[i].occurredAt \in Nat
      BY <2>1, EventsAre
  <2> QED
      BY <2>1, <2>2, <2>3
<1> HIDE DEF before
<1>4. Max(before) \in before /\ \A i \in before : i <= Max(before)
    BY <1>1, LastPosition
<1>5. Max(before) = m
  <2>1. Max(before) <= m /\ m <= Max(before) /\ Max(before) \in 1..n
      BY <1>1, <1>3, <1>4
  <2> QED
      BY <2>1
<1> QED
    BY <1>1, <1>2, <1>5

\* A minute of the date was spent in the state of the interval it is in, and
\* off work when it is in none.
LEMMA StateOfMinute ==
    ASSUME ZoneInv, EventsInv, NEW asOf \in 0..MaxTime, NEW a, NEW b, Reads(a, b, asOf),
           NEW kind \in {"WORKING", "ON_BREAK"},
           NEW t \in Instants, LocalDate(t) = LocalDate(asOf)
    PROVE  t < asOf /\ StateDuring(t, Len(events)) = kind
               <=> \E m \in Opening(a, b) : LET i == IntervalOf(m, a, b, asOf)
                                            IN  i.kind = kind /\ i.from <= t /\ t < i.to
<1> DEFINE n == Len(events)
           Occurred(m) == events[m].occurredAt
           End(m) == IF m = b THEN asOf ELSE Occurred(m + 1)
<1>1. /\ n \in Nat /\ MaxTime \in Nat /\ asOf \in Nat /\ t \in Nat
      /\ a \in Nat /\ b \in Nat /\ 1 <= a /\ a <= b + 1 /\ b <= n
      /\ a = 1 \/ (a <= b /\ Occurred(a) <= t)
      /\ \A i \in 1..n : Occurred(i) \in Nat
      /\ \A i, j \in 1..n : i <= j => Occurred(i) <= Occurred(j)
      /\ \A i \in 1..n : Occurred(i) <= asOf <=> i <= b
  <2>1. \A i \in 1..n : Occurred(i) \in 0..MaxTime
      BY EventsAre
  <2>2. /\ n \in Nat /\ MaxTime \in Nat /\ asOf \in Nat /\ t \in Nat
        /\ \A i, j \in 1..n : i <= j => Occurred(i) <= Occurred(j)
      BY EventsAre, InstantsAre
  <2>3. \A i \in 1..n : Occurred(i) \in Nat
      BY <2>1, <2>2
  <2> HIDE DEF n
  <2>4. /\ a \in Nat /\ b \in Nat /\ 1 <= a /\ a <= b + 1 /\ b <= n
        /\ a = 1 \/ (a <= b /\ Occurred(a) <= t)
        /\ \A i \in 1..n : Occurred(i) <= asOf <=> i <= b
    <3>1. a = 1 \/ (a <= b /\ \A u \in Instants : LocalDate(u) = LocalDate(asOf) => Occurred(a) <= u)
        BY DEF Reads
    <3>2. /\ a \in Nat /\ b \in Nat /\ 1 <= a /\ a <= b + 1 /\ b <= n
          /\ \A i \in 1..n : Occurred(i) <= asOf <=> i <= b
        BY DEF Reads, n
    <3> HIDE DEF Occurred
    <3> QED
        BY <3>1, <3>2
  <2> QED
      BY <2>2, <2>3, <2>4
<1>2. \A m \in a..b : m \in 1..n
    BY <1>1
<1>3. \A m \in Opening(a, b) : /\ m \in a..b /\ events[m].type # "CLOCK_OUT"
                               /\ IntervalOf(m, a, b, asOf).kind = StateAfterEvent[events[m].type]
                               /\ IntervalOf(m, a, b, asOf).from = Occurred(m)
                               /\ IntervalOf(m, a, b, asOf).to = End(m)
    BY DEF IntervalOf, Opening
<1>4. ASSUME NEW m \in a..b, Occurred(m) <= t, t < End(m)
      PROVE  t < asOf /\ StateDuring(t, n) = StateAfterEvent[events[m].type]
  <2>1. m # b => m + 1 \in 1..n /\ m + 1 <= b
      BY <1>1
  <2>2. t < asOf
    <3>1. m # b => Occurred(m + 1) <= asOf /\ Occurred(m + 1) \in Nat
        BY <1>1, <2>1
    <3> HIDE DEF Occurred
    <3> QED
        BY <1>1, <1>4, <3>1
  <2>3. m # n => t < Occurred(m + 1)
    <3>1. CASE m = b
      <4> SUFFICES ASSUME m # n PROVE t < Occurred(m + 1)
          OBVIOUS
      <4>1. m + 1 \in 1..n /\ ~(m + 1 <= b)
          BY <1>1, <3>1
      <4>2. ~(Occurred(m + 1) <= asOf) /\ Occurred(m + 1) \in Nat
          BY <1>1, <4>1
      <4> HIDE DEF Occurred
      <4> QED
          BY <1>1, <2>2, <4>2
    <3>2. CASE m # b
        BY <1>4, <3>2
    <3> QED
        BY <3>1, <3>2
  <2>4. m \in 1..n
      BY <1>2
  <2>5. StateDuring(t, n) = StateAfterEvent[events[m].type]
    <3>1. /\ events[m].occurredAt <= t /\ (m # n => t < events[m + 1].occurredAt)
          /\ n <= Len(events)
        BY <1>1, <1>4, <2>3
    <3> HIDE DEF n
    <3> QED
        BY <1>1, <2>4, <3>1, StateAt
  <2> QED
      BY <2>2, <2>5
<1>5. ASSUME t < asOf, StateDuring(t, n) = kind
      PROVE  \E m \in Opening(a, b) : /\ StateAfterEvent[events[m].type] = kind
                                      /\ Occurred(m) <= t /\ t < End(m)
  <2> DEFINE before == {i \in 1..n : Occurred(i) <= t}
             m == Max(before)
  <2>1. before # {}
      BY <1>5 DEF StateDuring
  <2>2. m \in before /\ \A i \in before : i <= m
    <3>1. before \in SUBSET (1..n)
        OBVIOUS
    <3> HIDE DEF before, n
    <3> QED
        BY <1>1, <2>1, <3>1, LastPosition
  <2>3. StateDuring(t, n) = StateAfterEvent[events[m].type]
      BY <2>1 DEF StateDuring
  <2> HIDE DEF m
  <2>4. m \in 1..n /\ Occurred(m) <= t /\ m <= b
    <3>1. m \in 1..n /\ Occurred(m) <= t
        BY <2>2
    <3>2. Occurred(m) \in Nat /\ (Occurred(m) <= asOf <=> m <= b)
        BY <1>1, <3>1
    <3> HIDE DEF Occurred, n
    <3> QED
        BY <1>1, <1>5, <3>1, <3>2
  <2>5. a <= m
    <3>1. CASE a = 1
        BY <2>4, <3>1
    <3>2. CASE a # 1
      <4>1. a \in 1..n /\ Occurred(a) <= t
          BY <1>1, <3>2
      <4> QED
          BY <2>2, <4>1
    <3> QED
        BY <3>1, <3>2
  <2>6. t < End(m)
    <3> SUFFICES ASSUME m # b PROVE t < Occurred(m + 1)
        BY <1>5
    <3>1. m + 1 \in 1..n /\ ~(m + 1 <= m)
        BY <1>1, <2>4
    <3>2. m + 1 \notin before
        BY <2>2, <3>1
    <3>3. Occurred(m + 1) \in Nat /\ ~(Occurred(m + 1) <= t)
        BY <1>1, <3>1, <3>2
    <3> HIDE DEF Occurred
    <3> QED
        BY <1>1, <3>3
  <2>7. events[m].type # "CLOCK_OUT"
      BY <1>5, <2>3 DEF StateAfterEvent
  <2>8. m \in Opening(a, b)
      BY <2>4, <2>5, <2>7 DEF Opening
  <2> QED
      BY <1>5, <2>3, <2>4, <2>6, <2>8
<1> HIDE DEF Occurred, End, n
<1>6. ASSUME NEW m \in Opening(a, b), IntervalOf(m, a, b, asOf).kind = kind,
             IntervalOf(m, a, b, asOf).from <= t, t < IntervalOf(m, a, b, asOf).to
      PROVE  t < asOf /\ StateDuring(t, n) = kind
    BY <1>3, <1>4, <1>6
<1>7. ASSUME t < asOf, StateDuring(t, n) = kind
      PROVE  \E m \in Opening(a, b) : LET i == IntervalOf(m, a, b, asOf)
                                      IN  i.kind = kind /\ i.from <= t /\ t < i.to
    BY <1>3, <1>5, <1>7
<1> QED
    BY <1>6, <1>7 DEF n

\* A calculation from all its events counts the minutes of its date.
LEMMA SourceCounts ==
    ASSUME ZoneInv, EventsInv, NEW asOf \in 0..MaxTime,
           NEW source, source = SourceEvents(LocalDate(asOf), asOf), Len(source) <= SourceLimit,
           NEW intervals, intervals = Intervals(NewestSource(source), asOf)
    PROVE  /\ \A i \in intervals : Proper(i)
           /\ \A kind \in {"WORKING", "ON_BREAK"} :
                 Minutes(Segments(intervals, LocalDate(asOf)), kind)
                     = Spent(asOf, LocalDate(asOf), Len(events), kind)
<1> DEFINE date == LocalDate(asOf)
<1>1. PICK a, b : Reads(a, b, asOf) /\ source = Run(events, a, b)
    BY SourceIsRun
<1>2. /\ a \in Nat /\ b \in Nat /\ 1 <= a /\ a <= b + 1 /\ b <= Len(events)
      /\ NewestSource(source) = source /\ Len(source) = b - a + 1
  <2>1. a \in Nat /\ b \in Nat /\ 1 <= a /\ a <= b + 1 /\ b <= Len(events)
      BY <1>1 DEF Reads
  <2> QED
      BY <1>1, <2>1, NewestIsAll
<1>3. intervals = {IntervalOf(m, a, b, asOf) : m \in Opening(a, b)}
    BY <1>1, <1>2, IntervalsOfRun
<1>4. IsFiniteSet(intervals) /\ (\A i \in intervals : Proper(i)) /\ Disjoint(intervals)
    BY <1>1, <1>3, IntervalsFollow
<1>5. ASSUME NEW kind \in {"WORKING", "ON_BREAK"}
      PROVE  Minutes(Segments(intervals, date), kind) = Spent(asOf, date, Len(events), kind)
  <2> DEFINE T == {t \in Nat : \E i \in intervals : i.kind = kind /\ t \in MinutesOn(i, date)}
             U == {t \in Instants : /\ t < asOf /\ LocalDate(t) = date
                                    /\ StateDuring(t, Len(events)) = kind}
  <2>1. Minutes(Segments(intervals, date), kind) = Cardinality(T)
    <3> HIDE DEF date
    <3> QED
        BY <1>4, MinutesAreCounted
  <2>2. ASSUME NEW t \in Instants, LocalDate(t) = date
        PROVE  t < asOf /\ StateDuring(t, Len(events)) = kind
                   <=> \E i \in intervals : i.kind = kind /\ i.from <= t /\ t < i.to
    <3>1. t < asOf /\ StateDuring(t, Len(events)) = kind
              <=> \E m \in Opening(a, b) : LET i == IntervalOf(m, a, b, asOf)
                                           IN  i.kind = kind /\ i.from <= t /\ t < i.to
        BY <1>1, <2>2, StateOfMinute
    <3> QED
        BY <1>3, <3>1
  <2>3. ASSUME NEW t \in T PROVE t \in Instants
    <3>1. PICK i \in intervals : t \in MinutesOn(i, date)
        OBVIOUS
    <3>2. t \in Nat /\ t < i.to /\ i.to \in 0..MaxTime
        BY <1>4, <3>1 DEF MinutesOn, Proper
    <3> QED
        BY <3>2, InstantsAre
  <2>4. \A t \in Instants : t \in Nat
      BY InstantsAre
  <2> HIDE DEF date
  <2>5. T = U
    <3>1. ASSUME NEW t \in T PROVE t \in U
        BY <2>2, <2>3 DEF MinutesOn
    <3>2. ASSUME NEW t \in U PROVE t \in T
        BY <2>2, <2>4 DEF MinutesOn
    <3> QED
        BY <3>1, <3>2
  <2> QED
      BY <2>1, <2>5 DEF Spent
<1> QED
    BY <1>4, <1>5

-----------------------------------------------------------------------------
(* The invariant *)

TypesInv ==
    /\ \E s \in Scenarios : zone = s.zone /\ facts = s.facts
    /\ head \in [state : AttendanceStates, attendanceRevision : Nat]
    /\ request # None => request \in 0..now

\* When the last answer was computed, and what its counts are.
AnswerInv ==
    answer # None =>
        /\ answer.asOf \in 0..now
        /\ request # None => answer.asOf <= request
        /\ answer.date = LocalDate(answer.asOf)
        /\ answer.stored \in 0..Len(events)
        /\ answer.attendanceRevision \in 0..head.attendanceRevision
        /\ answer.available =>
              /\ answer.worked = Spent(answer.asOf, answer.date, answer.stored, "WORKING")
              /\ answer.breaks = Spent(answer.asOf, answer.date, answer.stored, "ON_BREAK")

\* As long as no command is accepted, the finish of the last answer is that of
\* its calculation.
FinishInv ==
    answer # None /\ answer.attendanceRevision = head.attendanceRevision /\ answer.finish # None =>
        LET source == SourceEvents(answer.date, answer.asOf)
            day == facts[answer.date]
        IN  /\ answer.available
            /\ answer.stored = Len(events)
            /\ SourceComplete(source, NewestSource(source))
            /\ day.scheduled # None
            /\ Expected(day) >= 0
            /\ Credited(day, answer.worked) >= 0
            /\ answer.finish = EstimatedFinish(day, answer.worked, answer.asOf)

TodayInv == TypesInv /\ EventsInv /\ AnswerInv /\ FinishInv

\* The zone of a scenario keeps its midnights.
LEMMA ScenarioZone ==
    ASSUME MidnightsAreKept, TypesInv
    PROVE  ZoneInv
<1>1. PICK s \in Scenarios : zone = s.zone
    BY DEF TypesInv
<1>2. s.zone \in [transition : Nat, before : Nat, after : Nat]
    BY TodayAssumption
<1>3. /\ NoMidnightBetween(s.zone.transition + s.zone.before, s.zone.transition + s.zone.after)
      /\ NoMidnightBetween(s.zone.transition + s.zone.after, s.zone.transition + s.zone.before)
    BY DEF MidnightsAreKept
<1> QED
    BY <1>1, <1>2, <1>3 DEF ZoneInv

\* What is known of a date that the clock reads.
LEMMA ScenarioFacts ==
    ASSUME TypesInv, NEW t \in 0..MaxTime
    PROVE  facts[LocalDate(t)] \in DayFacts
<1>1. PICK s \in Scenarios : zone = s.zone /\ facts = s.facts
    BY DEF TypesInv
<1>2. \A offset \in {s.zone.before, s.zone.after} : s.facts[(t + offset) \div Day] \in DayFacts
    BY TodayAssumption
<1>3. LocalDate(t) = (t + IF t < s.zone.transition THEN s.zone.before ELSE s.zone.after) \div Day
    BY <1>1 DEF LocalDate, LocalTime
<1>4. CASE t < s.zone.transition
    BY <1>1, <1>2, <1>3, <1>4
<1>5. CASE ~(t < s.zone.transition)
    BY <1>1, <1>2, <1>3, <1>5
<1> QED
    BY <1>4, <1>5

\* The counts of the first events do not change while these do not.
LEMMA SpentStays ==
    ASSUME zone' = zone, NEW CONSTANT n \in Nat, \A i \in 1..n : events'[i] = events[i],
           NEW CONSTANT asOf, NEW CONSTANT date, NEW CONSTANT kind
    PROVE  Spent(asOf, date, n, kind)' = Spent(asOf, date, n, kind)
<1>1. ASSUME NEW CONSTANT t PROVE LocalDate(t)' = LocalDate(t)
    BY DEF LocalDate, LocalTime
<1>2. ASSUME NEW CONSTANT t PROVE StateDuring(t, n)' = StateDuring(t, n)
  <2> DEFINE before == {i \in 1..n : events[i].occurredAt <= t}
  <2>1. before' = before
      OBVIOUS
  <2>2. before # {} => Max(before) \in 1..n
    <3>1. before \in SUBSET (1..n)
        OBVIOUS
    <3> HIDE DEF before
    <3>2. before # {} => Max(before) \in before
        BY <3>1, LastPosition
    <3> QED
        BY <3>1, <3>2
  <2> QED
      BY <2>1, <2>2 DEF StateDuring
<1> QED
    BY <1>1, <1>2 DEF Spent, Instants

\* A command is accepted only in a state in which it is legal; what it appends
\* ends in the state that it leads to.
LEMMA PunchAppends ==
    ASSUME TypesInv, EventsInv, NEW command \in AttendanceCommands,
           TransitionAllowed(head.state, command, TRUE)
    PROVE  LET types == EventTypesOf(head.state, command)
           IN  /\ types \in Seq(PunchEventTypes) /\ Len(types) \in 1..2
               /\ StateAfterEvent[types[Len(types)]] = StateAfterCommand[command]
               /\ StateAfterCommand[command] \in AttendanceStates
               /\ Len(events) = 0 => types[1] = "CLOCK_IN"
<1>1. head.state \in AttendanceStates /\ command \in AcceptedCommands[head.state]
    BY DEF TypesInv, TransitionAllowed
<1>2. Len(events) = 0 => head.state = "OFF_WORK"
    BY DEF EventsInv, ReconstructedState, StateBefore
<1>3. CASE head.state = "ON_BREAK" /\ command = "CLOCK_OUT"
    BY <1>1, <1>2, <1>3 DEF EventTypesOf, PunchEventTypes, StateAfterEvent, StateAfterCommand, AttendanceStates
<1>4. CASE ~(head.state = "ON_BREAK" /\ command = "CLOCK_OUT")
  <2>1. EventTypesOf(head.state, command) = <<EventOfCommand[command]>>
      BY <1>4 DEF EventTypesOf
  <2>2. EventOfCommand[command] \in PunchEventTypes
      BY DEF EventOfCommand, PunchEventTypes, AttendanceCommands
  <2>3. /\ StateAfterEvent[EventOfCommand[command]] = StateAfterCommand[command]
        /\ StateAfterCommand[command] \in AttendanceStates
      BY DEF EventOfCommand, AttendanceCommands, StateAfterEvent, StateAfterCommand, AttendanceStates
  <2>4. Len(events) = 0 => EventOfCommand[command] = "CLOCK_IN"
      BY <1>1, <1>2 DEF AcceptedCommands, EventOfCommand
  <2> QED
      BY <2>1, <2>2, <2>3, <2>4
<1> QED
    BY <1>3, <1>4

LEMMA InitInv == ASSUME Init, MidnightsAreKept PROVE TodayInv
<1>1. TypesInv
    BY DEF Init, TypesInv, AttendanceStates
<1>2. EventsInv
  <2>1. now = 0 /\ events = <<>> /\ head.state = "OFF_WORK"
      BY DEF Init
  <2>2. events \in Seq(PunchEvent) /\ Len(events) = 0
      BY <2>1
  <2>3. head.state = ReconstructedState(events)
      BY <2>1, <2>2 DEF ReconstructedState, StateBefore
  <2> QED
      BY <2>1, <2>2, <2>3, InstantsAre DEF EventsInv
<1>3. AnswerInv /\ FinishInv
    BY DEF Init, AnswerInv, FinishInv
<1> QED
    BY <1>1, <1>2, <1>3 DEF TodayInv

\* The answer stays what it was while the clock and the events move on.
LEMMA AnswerStays ==
    ASSUME EventsInv, AnswerInv, answer' = answer, zone' = zone, now \in Nat, now' \in Nat, now <= now',
           NEW CONSTANT n \in Nat, n = Len(events),
           Len(events') \in Nat, n <= Len(events'), \A i \in 1..n : events'[i] = events[i],
           TypesInv, TypesInv', head.attendanceRevision <= head'.attendanceRevision,
           request' # None => request' = request \/ request' = now
    PROVE  AnswerInv'
<1> SUFFICES ASSUME answer # None
             PROVE  AnswerInv'
    BY DEF AnswerInv
<1> SUFFICES ASSUME NEW CONSTANT asOf, NEW CONSTANT date, NEW CONSTANT stored,
                    asOf = answer.asOf, date = answer.date, stored = answer.stored
             PROVE  AnswerInv'
    OBVIOUS
<1>1. /\ answer.asOf \in 0..now
      /\ request # None => answer.asOf <= request
      /\ answer.date = LocalDate(answer.asOf)
      /\ answer.stored \in 0..Len(events)
      /\ answer.attendanceRevision \in 0..head.attendanceRevision
      /\ answer.available =>
            /\ answer.worked = Spent(answer.asOf, answer.date, answer.stored, "WORKING")
            /\ answer.breaks = Spent(answer.asOf, answer.date, answer.stored, "ON_BREAK")
    BY DEF AnswerInv
<1>2. stored \in Nat /\ stored <= n
    BY <1>1
<1>3. \A i \in 1..stored : events'[i] = events[i]
    BY <1>2
<1>4. /\ Spent(asOf, date, stored, "WORKING")' = Spent(asOf, date, stored, "WORKING")
      /\ Spent(asOf, date, stored, "ON_BREAK")' = Spent(asOf, date, stored, "ON_BREAK")
    BY <1>2, <1>3, SpentStays
<1>5. date = LocalDate(asOf)'
    BY <1>1 DEF LocalDate, LocalTime
<1>6. /\ answer'.asOf = asOf /\ answer'.date = date /\ answer'.stored = stored
      /\ answer'.available = answer.available /\ answer'.worked = answer.worked
      /\ answer'.breaks = answer.breaks /\ answer'.attendanceRevision = answer.attendanceRevision
    OBVIOUS
<1>7. /\ answer'.asOf \in 0..now'
      /\ request' # None => answer'.asOf <= request'
    BY <1>1
<1>8. answer'.attendanceRevision \in 0..head'.attendanceRevision
  <2>1. head.attendanceRevision \in Nat /\ head'.attendanceRevision \in Nat
      BY DEF TypesInv
  <2> QED
      BY <1>1, <2>1
<1>9. answer'.stored \in 0..Len(events')
    BY <1>2, <1>6
<1>10. answer'.available =>
           /\ answer'.worked = Spent(asOf, date, stored, "WORKING")'
           /\ answer'.breaks = Spent(asOf, date, stored, "ON_BREAK")'
    BY <1>1, <1>4, <1>6
<1> QED
    BY <1>5, <1>6, <1>7, <1>8, <1>9, <1>10 DEF AnswerInv

\* What a calculation says.
LEMMA CalculationIs ==
    ASSUME ZoneInv, EventsInv, NEW asOf \in 0..MaxTime,
           NEW date, date = LocalDate(asOf),
           NEW source, source = SourceEvents(date, asOf),
           NEW worked, worked = Spent(asOf, date, Len(events), "WORKING")
    PROVE  LET c == Calculation(asOf)
               day == facts[date]
           IN  /\ c.asOf = asOf /\ c.date = date /\ c.stored = Len(events)
               /\ c.attendanceRevision = head.attendanceRevision
               /\ c.available <=> /\ SourceComplete(source, NewestSource(source))
                                  /\ day.scheduled # None
                                  /\ Expected(day) >= 0
                                  /\ Credited(day, worked) >= 0
               /\ c.available => /\ c.worked = worked
                                 /\ c.breaks = Spent(asOf, date, Len(events), "ON_BREAK")
                                 /\ c.finish = EstimatedFinish(day, worked, asOf)
               /\ ~c.available => c.finish = None
<1> DEFINE c == Calculation(asOf)
           day == facts[date]
           intervals == Intervals(NewestSource(source), asOf)
           minutes(kind) == Minutes(Segments(intervals, date), kind)
           complete == SourceComplete(source, NewestSource(source))
           available == /\ complete
                        /\ \A i \in intervals : ~SplitFails(i)
                        /\ day.scheduled # None
                        /\ Expected(day) >= 0
                        /\ Credited(day, minutes("WORKING")) >= 0
<1>1. c = [asOf |-> asOf, date |-> date, available |-> available,
           attendanceRevision |-> head.attendanceRevision, stored |-> Len(events),
           worked |-> IF available THEN minutes("WORKING") ELSE None,
           breaks |-> IF available THEN minutes("ON_BREAK") ELSE None,
           difference |-> IF available THEN Credited(day, minutes("WORKING")) - Expected(day) ELSE None,
           finish |-> IF available THEN EstimatedFinish(day, minutes("WORKING"), asOf) ELSE None]
    BY DEF Calculation
<1> HIDE DEF c, minutes, intervals, complete, day
<1>2. ASSUME complete
      PROVE  /\ \A i \in intervals : ~SplitFails(i)
             /\ minutes("WORKING") = worked
             /\ minutes("ON_BREAK") = Spent(asOf, date, Len(events), "ON_BREAK")
  <2>1. Len(source) <= SourceLimit
      BY <1>2 DEF complete, SourceComplete
  <2>2. \A i \in intervals : Proper(i)
      BY <2>1, SourceCounts DEF intervals
  <2>3. \A kind \in {"WORKING", "ON_BREAK"} :
            minutes(kind) = Spent(asOf, date, Len(events), kind)
      BY <2>1, SourceCounts DEF intervals, minutes
  <2> QED
      BY <2>2, <2>3, SplitNeverFails
<1>3. available <=> /\ complete
                    /\ day.scheduled # None
                    /\ Expected(day) >= 0
                    /\ Credited(day, worked) >= 0
    BY <1>2
<1>4. available => complete
    OBVIOUS
<1> HIDE DEF available
<1>5. /\ c.asOf = asOf /\ c.date = date /\ c.stored = Len(events)
      /\ c.attendanceRevision = head.attendanceRevision
    BY <1>1
<1>6. c.available = available
    BY <1>1
<1>7. available => /\ c.worked = minutes("WORKING") /\ c.breaks = minutes("ON_BREAK")
                   /\ c.finish = EstimatedFinish(day, minutes("WORKING"), asOf)
    BY <1>1
<1>8. ~available => c.finish = None
    BY <1>1
<1>9. available => /\ c.worked = worked
                   /\ c.breaks = Spent(asOf, date, Len(events), "ON_BREAK")
                   /\ c.finish = EstimatedFinish(day, worked, asOf)
    BY <1>2, <1>4, <1>7
<1>10. c.available <=> /\ complete
                       /\ day.scheduled # None
                       /\ Expected(day) >= 0
                       /\ Credited(day, worked) >= 0
    BY <1>3, <1>6
<1>11. /\ c.available => /\ c.worked = worked
                         /\ c.breaks = Spent(asOf, date, Len(events), "ON_BREAK")
                         /\ c.finish = EstimatedFinish(day, worked, asOf)
       /\ ~c.available => c.finish = None
    BY <1>6, <1>8, <1>9
<1> QED
    BY <1>5, <1>10, <1>11 DEF c, day, complete

\* The source of a calculation stays what it was, too.
LEMMA SourceStays ==
    ASSUME zone' = zone, events' = events, NEW CONSTANT date, NEW CONSTANT asOf
    PROVE  SourceEvents(date, asOf)' = SourceEvents(date, asOf)
    BY DEF SourceEvents, DayStart, LocalTime, Instants

LEMMA FinishStays ==
    ASSUME FinishInv, UNCHANGED <<zone, facts, head, events, answer>>
    PROVE  FinishInv'
<1> SUFFICES ASSUME NEW CONSTANT asOf, NEW CONSTANT date, asOf = answer.asOf, date = answer.date
             PROVE  FinishInv'
    OBVIOUS
<1> DEFINE source == SourceEvents(date, asOf)
<1>1. source' = source
    BY SourceStays
<1>2. SourceComplete(source, NewestSource(source)) => SourceComplete(source, NewestSource(source))'
    BY <1>1 DEF SourceComplete, NewestSource
<1>3. ASSUME NEW CONSTANT day, NEW CONSTANT worked
      PROVE  EstimatedFinish(day, worked, asOf)' = EstimatedFinish(day, worked, asOf)
    BY DEF EstimatedFinish
<1> HIDE DEF source
<1> QED
    BY <1>2, <1>3 DEF FinishInv, source

LEMMA TickInv ==
    ASSUME TodayInv, Tick PROVE TodayInv'
<1>1. /\ now \in 0..MaxTime /\ MaxTime \in Nat /\ now' = now + 1 /\ now < MaxTime
      /\ UNCHANGED <<zone, facts, head, events, request, answer>>
    BY InstantsAre DEF TodayInv, EventsInv, Tick
<1>2. now \in Nat /\ now' \in Nat /\ now <= now' /\ now' \in 0..MaxTime
    BY <1>1
<1>3. TypesInv'
    BY <1>1, <1>2 DEF TodayInv, TypesInv
<1>4. EventsInv'
  <2>1. \A i \in 1..Len(events) : events[i].occurredAt \in Nat
      BY EventsAre DEF TodayInv
  <2> QED
      BY <1>1, <1>2, <2>1 DEF TodayInv, EventsInv, ReconstructedState, StateBefore
<1>5. AnswerInv'
  <2>1. Len(events) \in Nat /\ head.attendanceRevision \in Nat
      BY EventsAre DEF TodayInv, TypesInv
  <2> QED
      BY <1>1, <1>2, <1>3, <2>1, AnswerStays DEF TodayInv
<1>6. FinishInv'
    BY <1>1, FinishStays DEF TodayInv
<1> QED
    BY <1>3, <1>4, <1>5, <1>6 DEF TodayInv

LEMMA CallTodayInv ==
    ASSUME TodayInv, CallToday PROVE TodayInv'
<1>1. /\ now \in 0..MaxTime /\ MaxTime \in Nat /\ request' = now
      /\ UNCHANGED <<now, zone, facts, head, events, answer>>
    BY InstantsAre DEF TodayInv, EventsInv, CallToday
<1>2. TypesInv'
    BY <1>1 DEF TodayInv, TypesInv
<1>3. EventsInv'
    BY <1>1 DEF TodayInv, EventsInv, ReconstructedState, StateBefore
<1>4. AnswerInv'
  <2>1. Len(events) \in Nat /\ head.attendanceRevision \in Nat
      BY EventsAre DEF TodayInv, TypesInv
  <2> QED
      BY <1>1, <1>2, <2>1, AnswerStays DEF TodayInv
<1>5. FinishInv'
    BY <1>1, FinishStays DEF TodayInv
<1> QED
    BY <1>2, <1>3, <1>4, <1>5 DEF TodayInv

\* A punch is stored after all others and not before any of them.
LEMMA PunchInv ==
    ASSUME TodayInv, NEW command \in AttendanceCommands, Punch(command) PROVE TodayInv'
<1> DEFINE types == EventTypesOf(head.state, command)
           n == Len(events)
<1>1. PICK t \in 0..now :
          /\ \A i \in DOMAIN events : events[i].occurredAt <= t
          /\ events' = events \o [i \in DOMAIN types |->
                 [eventSequence |-> Len(events) + i, type |-> types[i], occurredAt |-> t]]
    BY DEF Punch
<1>2. /\ TransitionAllowed(head.state, command, TRUE)
      /\ head' = [state |-> StateAfterCommand[command],
                  attendanceRevision |-> head.attendanceRevision + 1]
      /\ UNCHANGED <<now, zone, facts, request, answer>>
    BY DEF Punch
<1>3. /\ types \in Seq(PunchEventTypes) /\ Len(types) \in 1..2
      /\ StateAfterEvent[types[Len(types)]] = StateAfterCommand[command]
      /\ StateAfterCommand[command] \in AttendanceStates
      /\ n = 0 => types[1] = "CLOCK_IN"
    BY <1>2, PunchAppends DEF TodayInv
<1>4. /\ n \in Nat /\ DOMAIN events = 1..n /\ events \in Seq(PunchEvent)
      /\ \A i \in 1..n : events[i].occurredAt \in Nat /\ events[i].eventSequence = i
      /\ \A i, j \in 1..n : i <= j => events[i].occurredAt <= events[j].occurredAt
      /\ n > 0 => events[1].type = "CLOCK_IN"
      /\ now \in 0..MaxTime /\ MaxTime \in Nat
  <2>1. EventsInv
      BY DEF TodayInv
  <2>2. \A i \in 1..n : events[i].occurredAt \in 0..MaxTime /\ events[i].eventSequence = i
      BY <2>1, EventsAre
  <2>3. /\ n \in Nat /\ DOMAIN events = 1..n /\ events \in Seq(PunchEvent) /\ MaxTime \in Nat
        /\ \A i, j \in 1..n : i <= j => events[i].occurredAt <= events[j].occurredAt
      BY <2>1, EventsAre
  <2>4. (n > 0 => events[1].type = "CLOCK_IN") /\ now \in 0..MaxTime
      BY <2>1 DEF EventsInv
  <2>5. \A i \in 1..n : events[i].occurredAt \in Nat
      BY <2>2, <2>3
  <2> QED
      BY <2>2, <2>3, <2>4, <2>5
<1> DEFINE k == Len(types)
           new == [i \in 1..k |-> [eventSequence |-> n + i, type |-> types[i], occurredAt |-> t]]
<1>5. /\ k \in 1..2 /\ DOMAIN types = 1..k /\ \A i \in 1..k : types[i] \in PunchEventTypes
    BY <1>3
<1>6. events' = events \o new
    BY <1>1, <1>5
<1> HIDE DEF types, n, k
<1>7. new \in Seq(PunchEvent) /\ Len(new) = k
  <2>1. t \in Nat
      BY <1>4
  <2>2. \A i \in 1..k : new[i] \in PunchEvent
      BY <1>4, <1>5, <2>1 DEF PunchEvent
  <2>3. k \in Nat
      BY <1>5
  <2> QED
      BY <2>2, <2>3
<1>8. /\ events' \in Seq(PunchEvent) /\ Len(events') = n + k
      /\ \A i \in 1..n : events'[i] = events[i]
      /\ \A i \in 1..k : events'[n + i] = new[i]
  <2> HIDE DEF new
  <2>1. /\ events \o new \in Seq(PunchEvent) /\ Len(events \o new) = n + k
        /\ \A i \in 1..(n + k) : (events \o new)[i] = IF i <= n THEN events[i] ELSE new[i - n]
      BY <1>4, <1>7, ConcatProperties DEF n
  <2>2. \A i \in 1..n : i \in 1..(n + k) /\ i <= n
      BY <1>4, <1>5
  <2>3. \A i \in 1..k : n + i \in 1..(n + k) /\ ~(n + i <= n) /\ (n + i) - n = i
      BY <1>4, <1>5
  <2> QED
      BY <1>6, <2>1, <2>2, <2>3
<1>9. \A i \in 1..(n + k) :
          /\ i \notin 1..n => i - n \in 1..k /\ events'[i] = new[i - n]
          /\ events'[i].eventSequence = i
          /\ events'[i].occurredAt = IF i <= n THEN events[i].occurredAt ELSE t
  <2> SUFFICES ASSUME NEW i \in 1..(n + k)
               PROVE  /\ i \notin 1..n => i - n \in 1..k /\ events'[i] = new[i - n]
                      /\ events'[i].eventSequence = i
                      /\ events'[i].occurredAt = IF i <= n THEN events[i].occurredAt ELSE t
      OBVIOUS
  <2>1. CASE i \in 1..n
    <3>1. events'[i] = events[i] /\ i <= n /\ events[i].eventSequence = i
        BY <1>4, <1>8, <2>1
    <3> QED
        BY <2>1, <3>1
  <2>2. CASE i \notin 1..n
    <3>1. i - n \in 1..k /\ n + (i - n) = i /\ ~(i <= n)
        BY <1>4, <1>5, <2>2
    <3>2. events'[i] = new[i - n]
        BY <1>8, <3>1
    <3>3. new[i - n] = [eventSequence |-> n + (i - n), type |-> types[i - n], occurredAt |-> t]
        BY <3>1
    <3> HIDE DEF new
    <3> QED
        BY <2>2, <3>1, <3>2, <3>3
  <2> QED
      BY <2>1, <2>2
<1>10. TypesInv'
  <2>1. head.attendanceRevision + 1 \in Nat
      BY DEF TodayInv, TypesInv
  <2> QED
      BY <1>2, <1>3, <2>1 DEF TodayInv, TypesInv
<1>11. EventsInv'
  <2>1. now' \in 0..MaxTime /\ events' \in Seq(PunchEvent)
      BY <1>2, <1>4, <1>8
  <2>2. \A i \in 1..Len(events') : events'[i].eventSequence = i /\ events'[i].occurredAt <= now'
    <3> SUFFICES ASSUME NEW i \in 1..(n + k) PROVE events'[i].occurredAt <= now
        BY <1>2, <1>8, <1>9
    <3>1. i <= n => i \in 1..n
        BY <1>4, <1>5
    <3>2. i \in 1..n => events[i].occurredAt <= now
        BY DEF TodayInv, EventsInv, n
    <3>3. events'[i].occurredAt = IF i <= n THEN events[i].occurredAt ELSE t
        BY <1>9
    <3>4. events'[i].occurredAt \in {events[i].occurredAt, t} /\ (~(i <= n) => events'[i].occurredAt = t)
        BY <3>3
    <3>5. t <= now
        BY <1>4
    <3> QED
        BY <3>1, <3>2, <3>3, <3>5
  <2>3. \A i, j \in 1..Len(events') : i <= j => events'[i].occurredAt <= events'[j].occurredAt
    <3> SUFFICES ASSUME NEW i \in 1..(n + k), NEW j \in 1..(n + k), i <= j
                 PROVE  events'[i].occurredAt <= events'[j].occurredAt
        BY <1>8
    <3>1. /\ events'[i].occurredAt = IF i <= n THEN events[i].occurredAt ELSE t
          /\ events'[j].occurredAt = IF j <= n THEN events[j].occurredAt ELSE t
        BY <1>9
    <3>2. (i <= n => i \in 1..n) /\ (j <= n => j \in 1..n)
        BY <1>4, <1>5
    <3>3. i \in 1..n => events[i].occurredAt <= t
        BY <1>1, <1>4
    <3>4. i \in 1..n /\ j \in 1..n => events[i].occurredAt <= events[j].occurredAt
        BY <1>4
    <3> QED
        BY <1>4, <1>5, <3>1, <3>2, <3>3, <3>4
  <2>4. Len(events') > 0 => events'[1].type = "CLOCK_IN"
    <3>1. CASE n > 0
      <4>1. 1 \in 1..n
          BY <1>4, <3>1
      <4> QED
          BY <1>4, <1>8, <3>1, <4>1
    <3>2. CASE n = 0
      <4>1. 1 \in 1..k /\ n + 1 = 1
          BY <1>5, <3>2
      <4>2. events'[1] = new[1]
          BY <1>8, <4>1
      <4> QED
          BY <1>3, <3>2, <4>1, <4>2
    <3> QED
        BY <1>4, <3>1, <3>2
  <2>5. head'.state = ReconstructedState(events')
    <3>1. Len(events') + 1 # 1 /\ k \in 1..k /\ (Len(events') + 1) - 1 = n + k
        BY <1>4, <1>5, <1>8
    <3>2. events'[n + k] = new[k]
        BY <1>8, <3>1
    <3>3. new[k].type = types[k]
        BY <3>1
    <3>4. ReconstructedState(events') = StateAfterEvent[events'[n + k].type]
        BY <3>1 DEF ReconstructedState, StateBefore
    <3>5. head'.state = StateAfterCommand[command]
        BY <1>2
    <3>6. StateAfterEvent[types[k]] = StateAfterCommand[command]
        BY <1>3 DEF k
    <3> HIDE DEF new
    <3> QED
        BY <3>2, <3>3, <3>4, <3>5, <3>6
  <2> QED
      BY <2>1, <2>2, <2>3, <2>4, <2>5 DEF EventsInv
<1>12. AnswerInv'
  <2>1. /\ now \in Nat /\ now' \in Nat /\ now <= now'
        /\ n \in Nat /\ Len(events') \in Nat /\ n <= Len(events')
      BY <1>2, <1>4, <1>5, <1>8
  <2>2. head.attendanceRevision <= head'.attendanceRevision
      BY <1>2 DEF TodayInv, TypesInv
  <2>3. n = Len(events)
      BY DEF n
  <2> QED
      BY <1>2, <1>8, <1>10, <2>1, <2>2, <2>3, AnswerStays DEF TodayInv
<1>13. FinishInv'
  <2>1. answer # None => answer.attendanceRevision <= head.attendanceRevision
                         /\ answer.attendanceRevision \in Nat /\ head.attendanceRevision \in Nat
      BY DEF TodayInv, TypesInv, AnswerInv
  <2>2. head'.attendanceRevision = head.attendanceRevision + 1
      BY <1>2
  <2> QED
      BY <1>2, <2>1, <2>2 DEF FinishInv
<1> QED
    BY <1>10, <1>11, <1>12, <1>13 DEF TodayInv

\* An answer is a calculation at the instant of its request.
LEMMA GetTodayInv ==
    ASSUME MidnightsAreKept, TodayInv, GetToday PROVE TodayInv'
<1> SUFFICES ASSUME NEW CONSTANT asOf, asOf = request,
                    NEW CONSTANT date, date = LocalDate(asOf),
                    NEW CONSTANT n, n = Len(events)
             PROVE  TodayInv'
    OBVIOUS
<1> DEFINE c == Calculation(asOf)
           source == SourceEvents(date, asOf)
           day == facts[date]
           worked == Spent(asOf, date, n, "WORKING")
           breaks == Spent(asOf, date, n, "ON_BREAK")
<1>1. /\ request # None /\ answer' = c /\ request' = None
      /\ UNCHANGED <<now, zone, facts, head, events>>
    BY DEF GetToday
<1>2. /\ ZoneInv /\ EventsInv /\ TypesInv
      /\ now \in Nat /\ asOf \in 0..now /\ asOf \in 0..MaxTime
  <2>1. EventsInv /\ TypesInv /\ request \in 0..now /\ now \in 0..MaxTime /\ MaxTime \in Nat
      BY <1>1, InstantsAre DEF TodayInv, TypesInv, EventsInv
  <2> QED
      BY <2>1, ScenarioZone
<1>3. /\ c.asOf = asOf /\ c.date = date /\ c.stored = n
      /\ c.attendanceRevision = head.attendanceRevision
      /\ c.available <=> /\ SourceComplete(source, NewestSource(source))
                         /\ day.scheduled # None
                         /\ Expected(day) >= 0
                         /\ Credited(day, worked) >= 0
      /\ c.available => /\ c.worked = worked
                        /\ c.breaks = breaks
                        /\ c.finish = EstimatedFinish(day, worked, asOf)
      /\ ~c.available => c.finish = None
    BY <1>2, CalculationIs
<1>4. n \in Nat /\ head.attendanceRevision \in Nat
    BY <1>2, EventsAre DEF TypesInv
<1>5. /\ worked' = worked /\ breaks' = breaks
    BY <1>1, <1>4, SpentStays
<1>6. source' = source
    BY <1>1, SourceStays
<1>7. date = LocalDate(asOf)'
    BY <1>1 DEF LocalDate, LocalTime
<1> HIDE DEF c, source, day, worked, breaks
<1>8. TypesInv' /\ EventsInv'
    BY <1>1, <1>2 DEF TypesInv, EventsInv, ReconstructedState, StateBefore
<1>9. AnswerInv'
  <2>1. /\ answer'.asOf = asOf /\ answer'.date = date /\ answer'.stored = n
        /\ answer'.attendanceRevision = head.attendanceRevision
        /\ answer'.available => answer'.worked = worked' /\ answer'.breaks = breaks'
      BY <1>1, <1>3, <1>5
  <2>2. Len(events') = n /\ now' = now /\ head' = head /\ request' = None
      BY <1>1
  <2> QED
      BY <1>2, <1>4, <1>7, <2>1, <2>2 DEF AnswerInv, worked, breaks
<1>10. FinishInv'
  <2> SUFFICES ASSUME answer'.finish # None
               PROVE  FinishInv'
      BY DEF FinishInv
  <2>1. c.available
      BY <1>1, <1>3
  <2>2. /\ answer'.asOf = asOf /\ answer'.date = date /\ answer'.stored = n
        /\ answer'.available /\ answer'.worked = worked
        /\ answer'.finish = EstimatedFinish(day, worked, asOf)
        /\ Len(events') = n /\ facts' = facts
      BY <1>1, <1>3, <2>1
  <2>3. SourceComplete(source, NewestSource(source)) => SourceComplete(source, NewestSource(source))'
      BY <1>1, <1>6 DEF SourceComplete, NewestSource
  <2>4. /\ SourceComplete(source, NewestSource(source))
        /\ day.scheduled # None /\ Expected(day) >= 0 /\ Credited(day, worked) >= 0
      BY <1>3, <2>1
  <2>5. SourceComplete(source, NewestSource(source))'
      BY <2>3, <2>4
  <2>6. EstimatedFinish(facts[answer.date], answer.worked, answer.asOf)' = EstimatedFinish(day, worked, asOf)
      BY <1>1, <2>2 DEF EstimatedFinish, day
  <2> QED
      BY <2>2, <2>4, <2>5, <2>6 DEF FinishInv, source, day
<1> QED
    BY <1>8, <1>9, <1>10 DEF TodayInv

-----------------------------------------------------------------------------
(* Theorems *)

LEMMA StepInv ==
    ASSUME MidnightsAreKept, TodayInv, [Next]_vars PROVE TodayInv'
<1>1. CASE Tick
    BY <1>1, TickInv
<1>2. ASSUME NEW command \in AttendanceCommands, Punch(command) PROVE TodayInv'
    BY <1>2, PunchInv
<1>3. CASE CallToday
    BY <1>3, CallTodayInv
<1>4. CASE GetToday
    BY <1>4, GetTodayInv
<1>5. CASE UNCHANGED vars
  <2>1. UNCHANGED <<now, zone, facts, head, events, request, answer>>
      BY <1>5 DEF vars
  <2>2. TypesInv' /\ EventsInv'
      BY <2>1 DEF TodayInv, TypesInv, EventsInv, ReconstructedState, StateBefore
  <2>3. AnswerInv'
    <3>1. now \in Nat /\ Len(events) \in Nat /\ head.attendanceRevision \in Nat
        BY EventsAre, InstantsAre DEF TodayInv, TypesInv, EventsInv
    <3> QED
        BY <2>1, <2>2, <3>1, AnswerStays DEF TodayInv
  <2>4. FinishInv'
      BY <2>1, FinishStays DEF TodayInv
  <2> QED
      BY <2>2, <2>3, <2>4 DEF TodayInv
<1> QED
    BY <1>1, <1>2, <1>3, <1>4, <1>5 DEF Next

LEMMA InvCounts == ASSUME TodayInv PROVE AnswersCountTheDate
    BY DEF TodayInv, AnswerInv, AnswersCountTheDate, MinutesSpent, Spent

\* What an answer counts is what was worked and taken as a break on its date, in
\* a zone whose midnights are kept.
THEOREM TodayCounts == MidnightsAreKept => (Spec => []AnswersCountTheDate)
<1> SUFFICES ASSUME MidnightsAreKept PROVE Spec => []AnswersCountTheDate
    OBVIOUS
<1>1. Init => TodayInv
    BY InitInv
<1>2. TodayInv /\ [Next]_vars => TodayInv'
    BY StepInv
<1>3. TodayInv => AnswersCountTheDate
    BY InvCounts
<1> QED
    BY <1>1, <1>2, <1>3, PTL DEF Spec

\* The finish, when that much is still to be worked.
LEMMA FinishIs ==
    ASSUME NEW day \in DayFacts, day.scheduled # None, NEW worked \in Nat, NEW asOf \in Nat
    PROVE  LET rest == Expected(day) - Credited(day, worked)
           IN  /\ Expected(day) \in Int /\ Credited(day, worked) \in Int
               /\ Credited(day, worked) = worked + day.credit + day.adjustment
               /\ day.credit \in Int /\ day.adjustment \in Int
               /\ EstimatedFinish(day, worked, asOf) =
                      IF day.unresolved \/ head.state # "WORKING" \/ ~(rest > 0) THEN None ELSE asOf + rest
<1>1. /\ day.scheduled \in Nat /\ day.reduction \in Nat /\ day.credit \in Nat /\ day.adjustment \in Int
    BY DEF DayFacts
<1>2. /\ Expected(day) \in Int /\ Credited(day, worked) \in Int
      /\ Credited(day, worked) = worked + day.credit + day.adjustment
      /\ day.credit \in Int /\ day.adjustment \in Int
    BY <1>1 DEF Expected, Credited
<1> DEFINE rest == Expected(day) - Credited(day, worked)
<1>3. Remaining(day, worked) = IF rest > 0 THEN rest ELSE 0
    BY <1>2, MaxZero DEF Remaining
<1>4. rest \in Int
    BY <1>2
<1> HIDE DEF rest
<1>5. Remaining(day, worked) = 0 <=> ~(rest > 0)
    BY <1>3, <1>4
<1>6. EstimatedFinish(day, worked, asOf) =
          IF day.unresolved \/ head.state # "WORKING" \/ ~(rest > 0) THEN None ELSE asOf + rest
    BY <1>3, <1>5 DEF EstimatedFinish
<1> QED
    BY <1>2, <1>6 DEF rest

\* After the last event, every minute of the date is spent in the state it left.
LEMMA SpentGrows ==
    ASSUME ZoneInv, EventsInv, head.state = "WORKING",
           NEW from \in 0..MaxTime, NEW to \in 0..MaxTime, from <= to,
           NEW date, LocalDate(from) = date, LocalDate(to) = date,
           \A i \in DOMAIN events : events[i].occurredAt <= from
    PROVE  /\ Spent(from, date, Len(events), "WORKING") \in Nat
           /\ Spent(to, date, Len(events), "WORKING")
                  = Spent(from, date, Len(events), "WORKING") + (to - from)
<1> DEFINE n == Len(events)
           T(u) == {t \in Instants : t < u /\ LocalDate(t) = date /\ StateDuring(t, n) = "WORKING"}
           later == from..(to - 1)
<1>1. from \in Nat /\ to \in Nat /\ to <= MaxTime /\ MaxTime \in Nat
    BY InstantsAre
<1>2. n \in Nat /\ n # 0 /\ StateAfterEvent[events[n].type] = "WORKING"
  <2>1. n \in Nat
      BY EventsAre
  <2>2. ReconstructedState(events) = "WORKING"
      BY DEF EventsInv
  <2>3. n # 0
      BY <2>1, <2>2 DEF ReconstructedState, StateBefore
  <2>4. n + 1 # 1 /\ (n + 1) - 1 = n
      BY <2>1, <2>3
  <2> QED
      BY <2>1, <2>2, <2>3, <2>4 DEF ReconstructedState, StateBefore
<1>3. ASSUME NEW t \in later
      PROVE  t \in Instants /\ t < to /\ LocalDate(t) = date /\ StateDuring(t, n) = "WORKING"
  <2>1. t \in Nat /\ from <= t /\ t < to /\ t <= to
      BY <1>1
  <2>2. t \in Instants
      BY <1>1, <2>1, InstantsAre
  <2>3. LocalDate(t) = date
    <3>1. LocalDate(from) <= LocalDate(t) /\ LocalDate(t) <= LocalDate(to)
        BY <1>1, <2>1, DatesGoForward
    <3>2. LocalDate(from) \in Nat /\ LocalDate(t) \in Nat
        BY <1>1, <2>1, LocalTimes
    <3> QED
        BY <3>1, <3>2
  <2>4. events[n].occurredAt <= t
    <3>1. n \in DOMAIN events /\ n \in 1..n
        BY <1>2, EventsAre
    <3>2. events[n].occurredAt \in 0..MaxTime /\ events[n].occurredAt <= from
        BY <3>1, EventsAre
    <3> QED
        BY <1>1, <2>1, <3>2
  <2>5. n \in 1..n /\ n <= Len(events)
      BY <1>2
  <2> HIDE DEF n
  <2>6. StateDuring(t, n) = StateAfterEvent[events[n].type]
      BY <1>2, <2>1, <2>4, <2>5, StateAt
  <2> QED
      BY <1>2, <2>1, <2>2, <2>3, <2>6
<1>4. T(to) = T(from) \cup later
  <2>1. ASSUME NEW t \in T(to) PROVE t \in T(from) \cup later
    <3>1. t \in Nat /\ t < to
        BY InstantsAre
    <3>2. CASE t < from
        BY <3>2
    <3>3. CASE ~(t < from)
        BY <1>1, <3>1, <3>3
    <3> QED
        BY <3>2, <3>3
  <2>2. ASSUME NEW t \in T(from) PROVE t \in T(to)
    <3>1. t \in Nat /\ t < from
        BY InstantsAre
    <3>2. t < to
        BY <1>1, <3>1
    <3> QED
        BY <3>2
  <2>3. ASSUME NEW t \in later PROVE t \in T(to)
      BY <1>3
  <2> HIDE DEF T, later
  <2> QED
      BY <2>1, <2>2, <2>3
<1>5. T(from) \cap later = {}
    BY <1>1, InstantsAre
<1>6. IsFiniteSet(T(from))
  <2>1. IsFiniteSet(Instants)
      BY InstantsAre, FS_Interval
  <2>2. T(from) \subseteq Instants
      OBVIOUS
  <2> HIDE DEF T
  <2> QED
      BY <2>1, <2>2, FS_Subset
<1>7. IsFiniteSet(later) /\ Cardinality(later) = to - from
    BY <1>1, RangeSize
<1>8. /\ Spent(from, date, n, "WORKING") = Cardinality(T(from))
      /\ Spent(to, date, n, "WORKING") = Cardinality(T(to))
    BY DEF Spent
<1> HIDE DEF T, later
<1>9. Cardinality(T(from) \cup later) = Cardinality(T(from)) + Cardinality(later) - Cardinality(T(from) \cap later)
    BY <1>6, <1>7, FS_Union
<1>10. Cardinality(T(from) \cap later) = 0 /\ Cardinality(T(from)) \in Nat
    BY <1>5, <1>6, FS_EmptySet, FS_CardinalityType
<1> QED
    BY <1>1, <1>4, <1>7, <1>8, <1>9, <1>10 DEF n

\* The source is the same at a later instant of the date, when no event is later.
LEMMA SameSource ==
    ASSUME EventsInv, NEW from \in Nat, NEW to \in Nat, from <= to, NEW date,
           \A i \in DOMAIN events : events[i].occurredAt <= from
    PROVE  SourceEvents(date, to) = SourceEvents(date, from)
<1>1. \A i \in DOMAIN events : events[i].occurredAt <= from /\ events[i].occurredAt <= to
  <2>1. \A i \in DOMAIN events : events[i].occurredAt \in 0..MaxTime
      BY EventsAre
  <2> QED
      BY <2>1, InstantsAre
<1> DEFINE anchors == {i \in DOMAIN events : /\ events[i].type = "CLOCK_IN"
                                            /\ events[i].occurredAt < DayStart(date)}
           After(i) == IF anchors = {} THEN events[i].occurredAt >= DayStart(date)
                       ELSE events[i].eventSequence >= events[Max(anchors)].eventSequence
           rows(u) == {i \in DOMAIN events : After(i) /\ events[i].occurredAt <= u}
<1>2. /\ SourceEvents(date, from) = InOrder(events, rows(from))
      /\ SourceEvents(date, to) = InOrder(events, rows(to))
    BY DEF SourceEvents, InOrder
<1> HIDE DEF After
<1>3. rows(from) = rows(to)
    BY <1>1
<1> HIDE DEF rows
<1> QED
    BY <1>2, <1>3

LEMMA GetTodayFinish ==
    ASSUME MidnightsAreKept, TodayInv, GetToday,
           answer # None, answer.finish # None, answer'.date = answer.date,
           answer'.attendanceRevision = answer.attendanceRevision,
           \A i \in DOMAIN events : events[i].occurredAt <= answer.asOf
    PROVE  \/ answer'.finish = answer.finish
           \/ answer'.finish = None /\ answer'.asOf >= answer.finish
<1> SUFFICES ASSUME NEW CONSTANT asOf, asOf = request,
                    NEW CONSTANT date, date = LocalDate(asOf)
             PROVE  \/ answer'.finish = answer.finish
                    \/ answer'.finish = None /\ answer'.asOf >= answer.finish
    OBVIOUS
<1> DEFINE c == Calculation(asOf)
           source == SourceEvents(date, asOf)
           day == facts[date]
           from == answer.asOf
           before == answer.worked
           worked == Spent(asOf, date, Len(events), "WORKING")
<1>1. request # None /\ answer' = c
    BY DEF GetToday
<1>2. /\ ZoneInv /\ EventsInv /\ TypesInv
      /\ asOf \in 0..MaxTime /\ asOf \in Nat /\ day \in DayFacts
  <2>1. EventsInv /\ TypesInv /\ request \in 0..now /\ now \in 0..MaxTime /\ MaxTime \in Nat
      BY <1>1, InstantsAre DEF TodayInv, TypesInv, EventsInv
  <2>2. asOf \in 0..MaxTime
      BY <2>1
  <2> QED
      BY <2>1, <2>2, ScenarioZone, ScenarioFacts
<1>3. /\ c.asOf = asOf /\ c.date = date /\ c.attendanceRevision = head.attendanceRevision
      /\ c.available <=> /\ SourceComplete(source, NewestSource(source))
                         /\ day.scheduled # None
                         /\ Expected(day) >= 0
                         /\ Credited(day, worked) >= 0
      /\ c.available => c.finish = EstimatedFinish(day, worked, asOf)
    BY <1>2, CalculationIs
<1>4. answer.date = date /\ answer.attendanceRevision = head.attendanceRevision
    BY <1>1, <1>3
<1>5. /\ from \in 0..MaxTime /\ from \in Nat /\ from <= asOf
      /\ LocalDate(from) = date
      /\ answer.available => before = Spent(from, date, answer.stored, "WORKING")
  <2>1. AnswerInv /\ now \in 0..MaxTime /\ MaxTime \in Nat
      BY InstantsAre DEF TodayInv, EventsInv
  <2>2. /\ answer.asOf \in 0..now
        /\ request # None => answer.asOf <= request
        /\ answer.date = LocalDate(answer.asOf)
        /\ answer.available =>
              answer.worked = Spent(answer.asOf, answer.date, answer.stored, "WORKING")
      BY <2>1 DEF AnswerInv
  <2> QED
      BY <1>1, <1>4, <2>1, <2>2
<1>6. SourceEvents(date, from) = source
    BY <1>2, <1>5, SameSource
<1>7. /\ answer.available /\ answer.stored = Len(events)
      /\ SourceComplete(source, NewestSource(source))
      /\ day.scheduled # None /\ Expected(day) >= 0 /\ Credited(day, before) >= 0
      /\ answer.finish = EstimatedFinish(day, before, from)
    BY <1>4, <1>6 DEF TodayInv, FinishInv
<1>8. head.state = "WORKING" /\ ~day.unresolved
    BY <1>7 DEF EstimatedFinish
<1>9. before \in Nat /\ worked = before + (asOf - from)
  <2>1. asOf \in 0..MaxTime /\ LocalDate(asOf) = date
      BY <1>2
  <2>2. /\ Spent(from, date, Len(events), "WORKING") \in Nat
        /\ Spent(asOf, date, Len(events), "WORKING")
               = Spent(from, date, Len(events), "WORKING") + (asOf - from)
    <3> HIDE DEF from
    <3>1. \A i \in DOMAIN events : events[i].occurredAt <= from
        BY DEF from
    <3> QED
        BY <1>2, <1>5, <1>8, <2>1, <3>1, SpentGrows
  <2> QED
      BY <1>5, <1>7, <2>2
<1> HIDE DEF c, source, day, from, before, worked
<1> DEFINE rest == Expected(day) - Credited(day, before)
           left == Expected(day) - Credited(day, worked)
<1>10. worked \in Nat
    BY <1>2, <1>5, <1>9
<1>11. /\ Expected(day) \in Int /\ Credited(day, before) \in Int /\ Credited(day, worked) \in Int
       /\ day.credit \in Int /\ day.adjustment \in Int
       /\ Credited(day, before) = before + day.credit + day.adjustment
       /\ Credited(day, worked) = worked + day.credit + day.adjustment
       /\ EstimatedFinish(day, before, from) =
              IF day.unresolved \/ head.state # "WORKING" \/ ~(rest > 0) THEN None ELSE from + rest
       /\ EstimatedFinish(day, worked, asOf) =
              IF day.unresolved \/ head.state # "WORKING" \/ ~(left > 0) THEN None ELSE asOf + left
    BY <1>2, <1>5, <1>7, <1>9, <1>10, FinishIs
<1>12. /\ rest \in Int /\ left \in Int /\ asOf + left = from + rest
       /\ Credited(day, worked) >= Credited(day, before)
    BY <1>2, <1>5, <1>9, <1>10, <1>11
<1>13. c.available
    BY <1>3, <1>7, <1>11, <1>12
<1> HIDE DEF rest, left
<1>14. answer.finish = from + rest
    BY <1>7, <1>8, <1>11
<1>15. answer'.asOf = asOf /\ answer'.finish = IF ~(left > 0) THEN None ELSE asOf + left
    BY <1>1, <1>3, <1>8, <1>11, <1>13
<1>16. CASE left > 0
    BY <1>12, <1>14, <1>15, <1>16
<1>17. CASE ~(left > 0)
  <2>1. asOf >= from + rest
      BY <1>2, <1>12, <1>17
  <2> QED
      BY <1>14, <1>15, <1>17, <2>1
<1> QED
    BY <1>16, <1>17

\* The finish that an employee at work was told stays, until it is reached, when
\* nothing is punched, in a zone whose midnights are kept.
THEOREM TodayFinishStands == MidnightsAreKept => (Spec => EstimatedFinishStands)
<1> SUFFICES ASSUME MidnightsAreKept PROVE Spec => EstimatedFinishStands
    OBVIOUS
<1>1. Init => TodayInv
    BY InitInv
<1>2. TodayInv /\ [Next]_vars => TodayInv'
    BY StepInv
<1>3. TodayInv /\ [Next]_vars =>
        [ /\ answer # None /\ answer' # answer
          /\ answer.finish # None
          /\ answer'.date = answer.date
          /\ answer'.attendanceRevision = answer.attendanceRevision
          /\ \A i \in DOMAIN events : events[i].occurredAt <= answer.asOf
          => \/ answer'.finish = answer.finish
             \/ answer'.finish = None /\ answer'.asOf >= answer.finish ]_vars
  <2> SUFFICES ASSUME TodayInv, [Next]_vars,
                      answer # None, answer' # answer, answer.finish # None,
                      answer'.date = answer.date,
                      answer'.attendanceRevision = answer.attendanceRevision,
                      \A i \in DOMAIN events : events[i].occurredAt <= answer.asOf
               PROVE  \/ answer'.finish = answer.finish
                      \/ answer'.finish = None /\ answer'.asOf >= answer.finish
      OBVIOUS
  <2>1. GetToday
      BY DEF Next, vars, Tick, Punch, CallToday
  <2> QED
      BY <2>1, GetTodayFinish
<1> QED
    BY <1>1, <1>2, <1>3, PTL DEF Spec, EstimatedFinishStands
=============================================================================
