-------------------------- MODULE TopicSuggestions --------------------------
(***************************************************************************)
(* The optional topic suggestions of one API process: the handler of       *)
(* POST /v1/insights/suggest-topic, the service behind it, and the adapter *)
(* of the local Ollama server with its check at startup.                   *)
(*                                                                         *)
(* Between two awaits the process does one thing at a time, so that what   *)
(* follows an event up to the next await is one step.  DNS and the server  *)
(* answer anything at any time, or never.  Whether a session, a            *)
(* permission or an answer is valid is left open.  The clock never steps   *)
(* back, and no other process writes the rows of the limiter.              *)
(***************************************************************************)
EXTENDS Integers, FiniteSets, Sequences, Functions

CONSTANTS
    Suggestions,       \* requests that may be open at a time
    Accounts,
    Startup,           \* the health check when the process starts
    Addresses,         \* of hosts
    Private,           \* those that isPrivateNetworkAddress accepts
    Lookups,           \* the lists of addresses that DNS may answer; <<>> is a failure
    CheckCalls,        \* HTTP calls of a health check (5)
    GenerationCalls,   \* HTTP calls of a generation (3); the last one sends the question
    ConcurrencyLimit,  \* operations of the adapter at a time
    RateMaximum,       \* suggestions of an account per RateWindow (12)
    RateWindow,        \* (ten minutes)
    LastTime,          \* bound: times are 0..LastTime
    MaxRefused,        \* bound: refused answers whose bodies have not ended
    None

Operations == Suggestions \cup {Startup}

ASSUME TopicAssumption ==
    /\ IsFiniteSet(Suggestions)
    /\ Startup \notin Suggestions
    /\ Private \subseteq Addresses
    /\ Lookups \subseteq Seq(Addresses)
    /\ CheckCalls \in Nat \ {0}
    /\ GenerationCalls \in Nat \ {0}
    /\ None \notin Addresses \cup Accounts
    /\ ConcurrencyLimit \in Nat \ {0}
    /\ RateMaximum \in Nat \ {0}
    /\ RateWindow \in Nat \ {0}
    /\ LastTime \in Nat
    /\ MaxRefused \in Nat

VARIABLES
    time,            \* what Date.now() reads
    phase,           \* per request, what its handler awaits
    account,         \* per request, whose it is
    client,          \* per request, whether its abort signal is set
    readAt,          \* per request, the time its rate limit is consumed at
    activeAccounts,  \* of createEmployeeInsightTopicService
    limiter,         \* per account, its row of auth_rate_limits
    starts,          \* per account, the times at which the limiter let it start
    operation,       \* per operation, the HTTP call it is in and what that awaits
    activeRequests,  \* of createOllamaAiProvider
    readyAddresses,  \* likewise; null is <<>>
    refused,         \* connections of refused answers that the server still sends:
                     \* the addresses they go to
    health           \* currentHealth.status

service == <<phase, account, client, readAt, activeAccounts>>
limits == <<limiter, starts>>
adapter == <<operation, activeRequests, readyAddresses, refused, health>>
vars == <<time, service, limits, adapter>>

\* CLOSED: nobody asked, or the handler has answered.
Phases == {"CLOSED", "SESSION", "AUTHORIZE", "LIMIT", "GENERATE", "REAUTHORIZE"}

\* The service holds the account of a request in these phases.
Holding == {"LIMIT", "GENERATE", "REAUTHORIZE"}

\* ADRIFT: the lookup of an operation that was aborted has not returned yet.
Awaited == {"NOTHING", "LOOKUP", "ANSWER", "ADRIFT"}

Running == {"LOOKUP", "ANSWER"}

\* How many calls an operation makes, one after the other.
Calls(o) == IF o = Startup THEN CheckCalls ELSE GenerationCalls

Idle == [awaits |-> "NOTHING", call |-> 0, expected |-> <<>>, to |-> None]

\* What an operation leaves; of the check, the addresses that it began with.
Rest(o) == IF o = Startup THEN [Idle EXCEPT !.expected = operation[o].expected] ELSE Idle

Adrift(o) == [Rest(o) EXCEPT !.awaits = "ADRIFT"]

TypeOK ==
    /\ time \in 0..LastTime
    /\ phase \in [Suggestions -> Phases]
    /\ account \in [Suggestions -> Accounts \cup {None}]
    /\ client \in [Suggestions -> {"WAITS", "ABORTED"}]
    /\ readAt \in [Suggestions -> 0..LastTime]
    /\ activeAccounts \subseteq Accounts
    /\ limiter \in [Accounts -> [count : Nat, lastRequest : 0..LastTime]]
    /\ starts \in [Accounts -> Seq(0..LastTime)]
    /\ operation \in [Operations -> [awaits : Awaited, call : Nat,
                                     expected : Seq(Addresses), to : Addresses \cup {None}]]
    /\ activeRequests \in Int
    /\ readyAddresses \in Seq(Addresses)
    /\ refused \in [1..MaxRefused -> Addresses \cup {None}]
    /\ health \in {"unavailable", "ready", "misconfigured"}

\* The server listens and checkHealth looks up its host.
Init ==
    /\ time = 0
    /\ phase = [s \in Suggestions |-> "CLOSED"]
    /\ account = [s \in Suggestions |-> None]
    /\ client = [s \in Suggestions |-> "WAITS"]
    /\ readAt = [s \in Suggestions |-> 0]
    /\ activeAccounts = {}
    /\ limiter = [a \in Accounts |-> [count |-> 0, lastRequest |-> 0]]
    /\ starts = [a \in Accounts |-> <<>>]
    /\ operation = [o \in Operations |->
                       IF o = Startup THEN [Idle EXCEPT !.awaits = "LOOKUP"] ELSE Idle]
    /\ activeRequests = 1
    /\ readyAddresses = <<>>
    /\ refused = [i \in 1..MaxRefused |-> None]
    /\ health = "unavailable"

-----------------------------------------------------------------------------
(* The handler and the service *)

\* The request is answered or refused; nothing remembers it.
Close(s) ==
    /\ phase' = [phase EXCEPT ![s] = "CLOSED"]
    /\ account' = [account EXCEPT ![s] = None]
    /\ client' = [client EXCEPT ![s] = "WAITS"]
    /\ readAt' = [readAt EXCEPT ![s] = 0]

\* Variant: a suggestion that fails keeps its account.
KeepAccount(s) == Close(s) /\ UNCHANGED activeAccounts

\* A suggestion that holds its account ends, whatever its outcome.
Return(s) ==
    /\ Close(s)
    /\ activeAccounts' = activeAccounts \ {account[s]}

Await(s, next) ==
    /\ phase' = [phase EXCEPT ![s] = next]
    /\ UNCHANGED <<account, client>>

\* A lookup that is adrift keeps the name of its request.
Ask(s, a) ==
    /\ phase[s] = "CLOSED"
    /\ operation[s].awaits = "NOTHING"
    /\ phase' = [phase EXCEPT ![s] = "SESSION"]
    /\ account' = [account EXCEPT ![s] = a]
    /\ UNCHANGED <<time, client, readAt, activeAccounts, limits, adapter>>

\* The session and the CSRF token are read; only now the handler listens for
\* the end of the connection.
ReadSession(s) ==
    /\ phase[s] = "SESSION"
    /\ \/ Await(s, "AUTHORIZE") /\ UNCHANGED readAt
       \/ Close(s)
    /\ UNCHANGED <<time, activeAccounts, limits, adapter>>

\* suggest, first part: permissions, cancellation, health and the one
\* suggestion per account.
Authorize(s) ==
    /\ phase[s] = "AUTHORIZE"
    /\ \/ /\ client[s] # "ABORTED"
          /\ health = "ready"
          /\ account[s] \notin activeAccounts
          /\ activeAccounts' = activeAccounts \cup {account[s]}
          /\ readAt' = [readAt EXCEPT ![s] = time]
          /\ Await(s, "LIMIT")
       \/ Close(s) /\ UNCHANGED activeAccounts
    /\ UNCHANGED <<time, limits, adapter>>

\* Variant: the window starts with the first suggestion and does not move.
FixedWindow(row, now) ==
    IF row.count = 0 \/ row.lastRequest + RateWindow <= now
    THEN [count |-> 1, lastRequest |-> now]
    ELSE [row EXCEPT !.count = @ + 1]

\* consumeRateLimit: what it makes of the row, if it allows another request.
Consumed(row, now) ==
    IF row.count = 0 \/ row.lastRequest + RateWindow <= now
    THEN [count |-> 1, lastRequest |-> now]
    ELSE [count |-> row.count + 1, lastRequest |-> now]

Allowed(row, now) ==
    \/ row.count = 0
    \/ row.lastRequest + RateWindow <= now
    \/ row.count < RateMaximum

\* generate and runOperation: the first call is looked up, or nothing happens.
Generate(s) ==
    \/ /\ client[s] # "ABORTED"
       /\ readyAddresses # <<>>
       /\ activeRequests < ConcurrencyLimit
       /\ operation' = [operation EXCEPT ![s] =
              [awaits |-> "LOOKUP", call |-> 1, expected |-> readyAddresses, to |-> None]]
       /\ activeRequests' = activeRequests + 1
       /\ Await(s, "GENERATE")
       /\ readAt' = [readAt EXCEPT ![s] = 0]
       /\ UNCHANGED <<activeAccounts, readyAddresses, refused, health>>
    \/ /\ \/ client[s] = "ABORTED"
          \/ readyAddresses = <<>>
          \/ activeRequests >= ConcurrencyLimit
       /\ Return(s)
       /\ UNCHANGED adapter

\* suggest, second part: the limit is consumed in its own transaction, which
\* may fail; the suggestion counts although the adapter may be busy.
ConsumeRateLimit(s) ==
    LET a == account[s]
    IN  /\ phase[s] = "LIMIT"
        /\ \/ /\ Allowed(limiter[a], readAt[s])
              /\ limiter' = [limiter EXCEPT ![a] = Consumed(@, readAt[s])]
              /\ starts' = [starts EXCEPT ![a] = Append(@, readAt[s])]
              /\ Generate(s)
           \/ Return(s) /\ UNCHANGED <<limits, adapter>>
        /\ UNCHANGED time

\* suggest, last part: the permissions again, then the answer or a refusal.
Reauthorize(s) ==
    /\ phase[s] = "REAUTHORIZE"
    /\ Return(s)
    /\ UNCHANGED <<time, limits, adapter>>

-----------------------------------------------------------------------------
(* The adapter *)

\* An operation ends without a result: its slot is free, whoever called it goes
\* on, and a misconfiguration ends the readiness until the process restarts.
Fail(o, code, rest) ==
    /\ operation' = [operation EXCEPT ![o] = rest]
    /\ activeRequests' = activeRequests - 1
    /\ IF o = Startup \/ code = "misconfigured"
       THEN readyAddresses' = <<>> /\ health' = code
       ELSE UNCHANGED <<readyAddresses, health>>
    /\ IF o = Startup THEN UNCHANGED service ELSE Return(o)

\* Variant: the connection of an aborted call stays open.
AbandonCall(o) ==
    /\ Fail(o, "unavailable", IF operation[o].awaits = "LOOKUP" THEN Adrift(o) ELSE operation[o])
    /\ UNCHANGED refused

\* The signal of an operation is aborted: a connection is destroyed, a lookup
\* goes on without anybody.
Abort(o) ==
    /\ Fail(o, "unavailable", IF operation[o].awaits = "LOOKUP" THEN Adrift(o) ELSE Rest(o))
    /\ UNCHANGED refused

\* Variant: only a call that reached the server is timed.
ConnectionDeadline(o) ==
    /\ operation[o].awaits = "ANSWER"
    /\ Abort(o)
    /\ UNCHANGED <<time, limits>>

\* runWithDeadline: the timer of the whole operation.
Deadline(o) ==
    /\ operation[o].awaits \in Running
    /\ Abort(o)
    /\ UNCHANGED <<time, limits>>

\* As many addresses, and all of them among the expected ones.
addressSetsMatch(found, expected) ==
    /\ Len(found) = Len(expected)
    /\ Range(found) \subseteq Range(expected)

\* requestJson connects to the first address.
Connect(o, found) ==
    /\ addressSetsMatch(found, operation[o].expected)
    /\ operation' = [operation EXCEPT ![o].awaits = "ANSWER", ![o].to = Head(found)]

\* resolvePrivateAddresses: checkHealth keeps what its first lookup finds, and
\* every call looks the host up again and compares.
ResolveHost(o, found) ==
    /\ operation[o].awaits = "LOOKUP"
    /\ \/ /\ found = <<>>
          /\ Fail(o, "unavailable", Rest(o))
       \/ /\ ~(Range(found) \subseteq Private)
          /\ Fail(o, "misconfigured", Rest(o))
       \/ /\ found # <<>> /\ Range(found) \subseteq Private
          /\ IF operation[o].call = 0
             THEN operation' = [operation EXCEPT ![o].call = 1, ![o].expected = found]
             ELSE Connect(o, found)
          /\ UNCHANGED <<service, activeRequests, readyAddresses, health>>
       \/ /\ found # <<>> /\ Range(found) \subseteq Private
          /\ operation[o].call > 0
          /\ ~addressSetsMatch(found, operation[o].expected)
          /\ Fail(o, "misconfigured", Rest(o))
    /\ UNCHANGED <<time, limits, refused>>

\* The last call is answered: the check admits its addresses, a generation
\* returns to the service, which may find no topic in the answer.
Complete(o) ==
    /\ operation' = [operation EXCEPT ![o] = Rest(o)]
    /\ activeRequests' = activeRequests - 1
    /\ IF o = Startup
       THEN /\ readyAddresses' = operation[o].expected
            /\ health' = "ready"
            /\ UNCHANGED service
       ELSE /\ \/ Await(o, "REAUTHORIZE") /\ UNCHANGED <<readAt, activeAccounts>>
               \/ Return(o)
            /\ UNCHANGED <<readyAddresses, health>>

\* The body of an accepted answer ends, rightly or wrongly, or it is too large,
\* or the connection breaks: the connection is gone.
ServerAnswers(o) ==
    /\ operation[o].awaits = "ANSWER"
    /\ \/ /\ operation[o].call < Calls(o)
          /\ operation' = [operation EXCEPT ![o].awaits = "LOOKUP",
                               ![o].call = @ + 1, ![o].to = None]
          /\ UNCHANGED <<service, activeRequests, readyAddresses, health>>
       \/ /\ operation[o].call = Calls(o)
          /\ Complete(o)
       \/ \E code \in {"unavailable", "misconfigured"} : Fail(o, code, Rest(o))
    /\ UNCHANGED <<time, limits, refused>>

\* The head of an answer is refused: a redirect, another status or no JSON.
\* The operation fails, but the connection is only resumed, and neither the
\* signal nor the timer ends it any more.
RefuseAnswer(o) ==
    /\ operation[o].awaits = "ANSWER"
    /\ \E i \in 1..MaxRefused :
          /\ refused[i] = None
          /\ refused' = [refused EXCEPT ![i] = operation[o].to]
    /\ \E code \in {"unavailable", "misconfigured"} : Fail(o, code, Rest(o))
    /\ UNCHANGED <<time, limits>>

\* A lookup that nobody waits for returns: the signal is aborted.
LookupEnds(o) ==
    /\ operation[o].awaits = "ADRIFT"
    /\ operation' = [operation EXCEPT ![o] = Rest(o)]
    /\ UNCHANGED <<time, service, limits, activeRequests, readyAddresses, refused, health>>

-----------------------------------------------------------------------------
(* The environment *)

\* The client cancels or its connection breaks.  Nothing notices it before the
\* handler listens, and so nothing ever does.
Disconnect(s) ==
    /\ phase[s] \notin {"CLOSED", "SESSION"}
    /\ client[s] = "WAITS"
    /\ IF phase[s] = "GENERATE"
       THEN Abort(s)
       ELSE /\ client' = [client EXCEPT ![s] = "ABORTED"]
            /\ UNCHANGED <<phase, account, readAt, activeAccounts, adapter>>
    /\ UNCHANGED <<time, limits>>

\* The server ends the body of a refused answer, or its connection breaks.
EndBody(i) ==
    /\ refused[i] # None
    /\ refused' = [refused EXCEPT ![i] = None]
    /\ UNCHANGED <<time, service, limits, operation, activeRequests, readyAddresses, health>>

Tick ==
    /\ time < LastTime
    /\ time' = time + 1
    /\ UNCHANGED <<service, limits, adapter>>

Next ==
    \/ \E s \in Suggestions :
          \/ \E a \in Accounts : Ask(s, a)
          \/ ReadSession(s) \/ Authorize(s) \/ ConsumeRateLimit(s)
          \/ Reauthorize(s) \/ Disconnect(s)
    \/ \E o \in Operations :
          \/ \E found \in Lookups : ResolveHost(o, found)
          \/ ServerAnswers(o) \/ RefuseAnswer(o) \/ Deadline(o) \/ LookupEnds(o)
    \/ \E i \in 1..MaxRefused : EndBody(i)
    \/ Tick

Spec == Init /\ [][Next]_vars

\* Transactions of the database end and timers fire; neither DNS nor the
\* server need ever answer.
Fairness ==
    /\ \A s \in Suggestions :
          WF_vars(ReadSession(s) \/ Authorize(s) \/ ConsumeRateLimit(s) \/ Reauthorize(s))
    /\ \A o \in Operations : WF_vars(Deadline(o))

LiveSpec == Spec /\ Fairness

-----------------------------------------------------------------------------
(* Properties *)

\* Connections whose answers the adapter has not refused.
Open == {o \in Operations : operation[o].awaits = "ANSWER"}

Resumed == {i \in 1..MaxRefused : refused[i] # None}

\* Although an operation gives its slot back while its lookup still runs, the
\* server never has more connections than the operator allows, apart from those
\* of refused answers; and every connection, those included, goes to a private
\* address that the host had when the process started, however its name is
\* answered since.
ConnectionsAreAllowed ==
    /\ Cardinality(Open) <= ConcurrencyLimit
    /\ {operation[o].to : o \in Open} \cup {refused[i] : i \in Resumed} \subseteq
           Private \cap Range(operation[Startup].expected)

\* An account has at most one suggestion in flight, and its mark is neither
\* lost to a refused one nor left behind by one that failed or was cancelled.
OneSuggestionPerAccount ==
    \A a \in Accounts :
        Cardinality({s \in Suggestions : account[s] = a /\ phase[s] \in Holding}) =
            IF a \in activeAccounts THEN 1 ELSE 0

\* No window of RateWindow, wherever it begins, sees more than RateMaximum
\* suggestions of an account.
StartsWithinWindow ==
    \A a \in Accounts, from \in 0..LastTime :
        Cardinality({i \in DOMAIN starts[a] :
                        from <= starts[a][i] /\ starts[a][i] < from + RateWindow}) <= RateMaximum

\* Every request is answered or refused, even if DNS and the server are silent.
EverySuggestionEnds == \A s \in Suggestions : phase[s] # "CLOSED" ~> phase[s] = "CLOSED"
=============================================================================
