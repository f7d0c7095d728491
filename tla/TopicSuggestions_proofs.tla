----------------------- MODULE TopicSuggestions_proofs ----------------------
(***************************************************************************)
(* Proofs about TopicSuggestions for every number of requests, accounts    *)
(* and addresses, every limit and every window.                            *)
(*                                                                         *)
(* Argument: slots are counted exactly (SlotInv), whichever way an         *)
(* operation ends.  While the check runs no suggestion does, and once it   *)
(* has ended what it admitted does not change (AddressInv).  Marks and     *)
(* requests that hold an account correspond one to one (MarkInv), so that  *)
(* the starts of an account are ordered (StartInv); the count and the time *)
(* of its row then say enough about all of them (RowInv).                  *)
(***************************************************************************)
EXTENDS TopicSuggestions, FiniteSetTheorems, WellFoundedInduction, TLAPS

OperationRows ==
    [awaits : Awaited, call : Nat, expected : Seq(Addresses), to : Addresses \cup {None}]

\* The types of TypeOK; a request that was asked has an account, and it waits
\* for a generation exactly while its operation runs.
ServiceTyped ==
    /\ time \in 0..LastTime
    /\ phase \in [Suggestions -> Phases]
    /\ account \in [Suggestions -> Accounts \cup {None}]
    /\ \A s \in Suggestions : phase[s] # "CLOSED" => account[s] \in Accounts
    /\ client \in [Suggestions -> {"WAITS", "ABORTED"}]
    /\ readAt \in [Suggestions -> 0..LastTime]
    /\ activeAccounts \subseteq Accounts

LimitsTyped ==
    /\ limiter \in [Accounts -> [count : Nat, lastRequest : 0..LastTime]]
    /\ starts \in [Accounts -> Seq(0..LastTime)]

AdapterTyped ==
    /\ operation \in [Operations -> OperationRows]
    /\ activeRequests \in Int
    /\ readyAddresses \in Seq(Addresses)
    /\ refused \in [1..MaxRefused -> Addresses \cup {None}]
    /\ health \in {"unavailable", "ready", "misconfigured"}

Busy == {o \in Operations : operation[o].awaits \in Running}

Waiting == \A s \in Suggestions : phase[s] = "GENERATE" <=> operation[s].awaits \in Running

Typed == ServiceTyped /\ LimitsTyped /\ AdapterTyped /\ Waiting

-----------------------------------------------------------------------------
(* The steps of an operation *)

\* A running operation fails: a deadline, a cancellation or an answer.
Fails(o) ==
    /\ operation[o].awaits \in Running
    /\ \E code \in {"unavailable", "misconfigured"}, rest \in {Rest(o), Adrift(o)} : Fail(o, code, rest)
    /\ \/ UNCHANGED refused
       \/ RefuseAnswer(o)
    /\ UNCHANGED <<time, limits>>

\* Its host is found, or its call is answered and the next one begins.
Moves(o) ==
    /\ operation[o].awaits \in Running
    /\ \/ \E found \in Lookups :
             /\ operation[o].awaits = "LOOKUP"
             /\ found # <<>> /\ Range(found) \subseteq Private
             /\ \/ /\ operation[o].call = 0
                   /\ operation' = [operation EXCEPT ![o].call = 1, ![o].expected = found]
                \/ /\ operation[o].call # 0
                   /\ Connect(o, found)
       \/ operation' = [operation EXCEPT ![o].awaits = "LOOKUP", ![o].call = @ + 1, ![o].to = None]
    /\ UNCHANGED <<time, service, limits, activeRequests, readyAddresses, refused, health>>

Finishes(o) ==
    /\ operation[o].awaits = "ANSWER"
    /\ Complete(o)
    /\ UNCHANGED <<time, limits, refused>>

\* A client that leaves during a generation aborts it; otherwise only its
\* signal is set.
Leaves(s) ==
    /\ phase[s] \notin {"CLOSED", "SESSION", "GENERATE"}
    /\ client' = [client EXCEPT ![s] = "ABORTED"]
    /\ UNCHANGED <<time, phase, account, readAt, activeAccounts, limits, adapter>>

OperationStep == \E o \in Operations : Fails(o) \/ Moves(o) \/ Finishes(o) \/ LookupEnds(o)

BodyStep == \E i \in 1..MaxRefused : EndBody(i)

ServiceStep ==
    \E s \in Suggestions :
        \/ \E a \in Accounts : Ask(s, a)
        \/ ReadSession(s) \/ Authorize(s) \/ ConsumeRateLimit(s) \/ Reauthorize(s) \/ Leaves(s)

\* Every step is one of these.
LEMMA StepCases ==
    ASSUME Typed, [Next]_vars
    PROVE  ServiceStep \/ OperationStep \/ BodyStep \/ Tick \/ UNCHANGED vars
<1>1. ASSUME NEW o \in Operations, Deadline(o) PROVE Fails(o)
    BY <1>1 DEF Deadline, Abort, Fails
<1>2. ASSUME NEW s \in Suggestions, Disconnect(s) PROVE Fails(s) \/ Leaves(s)
  <2>1. CASE phase[s] = "GENERATE"
    BY <1>2, <2>1 DEF Disconnect, Abort, Fails, Typed, Waiting
  <2>2. CASE phase[s] # "GENERATE"
    BY <1>2, <2>2 DEF Disconnect, Leaves
  <2> QED
    BY <2>1, <2>2
<1>3. ASSUME NEW o \in Operations, NEW found \in Lookups, ResolveHost(o, found)
      PROVE  Fails(o) \/ Moves(o)
  <2>1. operation[o].awaits \in Running
    BY <1>3 DEF ResolveHost, Running
  <2>2. CASE \E code \in {"unavailable", "misconfigured"} : Fail(o, code, Rest(o))
    BY <1>3, <2>1, <2>2 DEF ResolveHost, Fails
  <2>3. CASE ~ \E code \in {"unavailable", "misconfigured"} : Fail(o, code, Rest(o))
    BY <1>3, <2>1, <2>3 DEF ResolveHost, Moves
  <2> QED
    BY <2>2, <2>3
<1>4. ASSUME NEW o \in Operations, ServerAnswers(o) PROVE Fails(o) \/ Moves(o) \/ Finishes(o)
    BY <1>4 DEF ServerAnswers, Fails, Moves, Finishes, Running
<1>5. ASSUME NEW o \in Operations, RefuseAnswer(o) PROVE Fails(o)
    BY <1>5 DEF RefuseAnswer, Fails, Running
<1> QED
    BY <1>1, <1>2, <1>3, <1>4, <1>5 DEF Next, ServiceStep, OperationStep, BodyStep, Operations

-----------------------------------------------------------------------------
(* Types *)

\* A request that ends keeps the types.
LEMMA ReturnTyped ==
    ASSUME ServiceTyped, NEW s \in Suggestions, Close(s), UNCHANGED time,
           activeAccounts' = activeAccounts \/ activeAccounts' = activeAccounts \ {account[s]}
    PROVE  ServiceTyped'
BY TopicAssumption DEF ServiceTyped, Close, Phases

\* A request that goes on keeps the types.
LEMMA AwaitTyped ==
    ASSUME ServiceTyped, NEW s \in Suggestions, NEW next \in Phases, phase[s] # "CLOSED",
           Await(s, next), UNCHANGED <<time, activeAccounts>>,
           readAt' \in [Suggestions -> 0..LastTime]
    PROVE  ServiceTyped'
BY DEF ServiceTyped, Await

\* Every step of a request keeps the types.
LEMMA ServiceStepTyped ==
    ASSUME Typed, ServiceStep
    PROVE  Typed'
<1> USE TopicAssumption DEF Typed
<1>1. ASSUME NEW s \in Suggestions, NEW a \in Accounts, Ask(s, a) PROVE Typed'
  <2>1. ServiceTyped'
    BY <1>1 DEF ServiceTyped, Ask, Phases
  <2>2. Waiting'
    BY <1>1 DEF Waiting, ServiceTyped, Ask, Running, adapter
  <2> QED
    BY <1>1, <2>1, <2>2 DEF LimitsTyped, AdapterTyped, Ask, limits, adapter
<1>2. ASSUME NEW s \in Suggestions, ReadSession(s) PROVE Typed'
  <2>1. ServiceTyped'
    <3>1. CASE Close(s)
      BY <1>2, <3>1, ReturnTyped DEF ReadSession
    <3>2. CASE Await(s, "AUTHORIZE") /\ UNCHANGED readAt
      BY <1>2, <3>2, AwaitTyped DEF ReadSession, Phases, ServiceTyped
    <3> QED
      BY <1>2, <3>1, <3>2 DEF ReadSession
  <2>2. Waiting'
    BY <1>2 DEF Waiting, ServiceTyped, ReadSession, Await, Close, adapter
  <2> QED
    BY <1>2, <2>1, <2>2 DEF LimitsTyped, AdapterTyped, ReadSession, limits, adapter
<1>3. ASSUME NEW s \in Suggestions, Authorize(s) PROVE Typed'
  <2>1. ServiceTyped'
    <3>1. CASE Close(s) /\ UNCHANGED activeAccounts
      BY <1>3, <3>1, ReturnTyped DEF Authorize
    <3>2. CASE /\ activeAccounts' = activeAccounts \cup {account[s]}
               /\ readAt' = [readAt EXCEPT ![s] = time]
               /\ Await(s, "LIMIT")
      BY <1>3, <3>2 DEF Authorize, ServiceTyped, Phases, Await
    <3> QED
      BY <1>3, <3>1, <3>2 DEF Authorize
  <2>2. Waiting'
    BY <1>3 DEF Waiting, ServiceTyped, Authorize, Await, Close, adapter
  <2> QED
    BY <1>3, <2>1, <2>2 DEF LimitsTyped, AdapterTyped, Authorize, limits, adapter
<1>4. ASSUME NEW s \in Suggestions, ConsumeRateLimit(s) PROVE Typed'
  <2> DEFINE a == account[s]
  <2>1. phase[s] = "LIMIT" /\ a \in Accounts /\ readAt[s] \in 0..LastTime
    BY <1>4 DEF ConsumeRateLimit, ServiceTyped
  <2>2. LimitsTyped'
    <3>1. CASE UNCHANGED limits
      BY <3>1 DEF LimitsTyped, limits
    <3>2. CASE /\ limiter' = [limiter EXCEPT ![a] = Consumed(limiter[a], readAt[s])]
               /\ starts' = [starts EXCEPT ![a] = Append(starts[a], readAt[s])]
      <4>1. Consumed(limiter[a], readAt[s]) \in [count : Nat, lastRequest : 0..LastTime]
        BY <2>1 DEF LimitsTyped, Consumed
      <4>2. Append(starts[a], readAt[s]) \in Seq(0..LastTime)
        BY <2>1 DEF LimitsTyped
      <4> QED
        BY <3>2, <4>1, <4>2 DEF LimitsTyped
    <3> QED
      BY <1>4, <3>1, <3>2 DEF ConsumeRateLimit
  <2>3. CASE Return(s) /\ UNCHANGED adapter
    <3>1. ServiceTyped'
      BY <1>4, <2>3, ReturnTyped DEF Return, ConsumeRateLimit
    <3>2. Waiting'
      BY <2>1, <2>3 DEF Waiting, ServiceTyped, Return, Close, adapter
    <3> QED
      BY <2>2, <2>3, <3>1, <3>2 DEF AdapterTyped, adapter
  <2>4. CASE Generate(s) /\ ~(Return(s) /\ UNCHANGED adapter)
    <3>1. /\ operation' = [operation EXCEPT ![s] = [awaits |-> "LOOKUP", call |-> 1,
                                                    expected |-> readyAddresses, to |-> None]]
          /\ activeRequests' = activeRequests + 1
          /\ Await(s, "GENERATE")
          /\ readAt' = [readAt EXCEPT ![s] = 0]
          /\ UNCHANGED <<activeAccounts, readyAddresses, refused, health>>
      BY <2>4 DEF Generate
    <3>2. ServiceTyped'
      <4>1. readAt' \in [Suggestions -> 0..LastTime]
        BY <3>1 DEF ServiceTyped
      <4> QED
        BY <1>4, <2>1, <3>1, <4>1, AwaitTyped DEF ConsumeRateLimit, Phases
    <3>3. AdapterTyped'
      <4>1. [awaits |-> "LOOKUP", call |-> 1, expected |-> readyAddresses, to |-> None] \in OperationRows
        BY DEF AdapterTyped, OperationRows, Awaited
      <4>2. operation' \in [Operations -> OperationRows]
        <5> HIDE DEF OperationRows
        <5> DEFINE row == [awaits |-> "LOOKUP", call |-> 1, expected |-> readyAddresses, to |-> None]
        <5>1. row \in OperationRows /\ operation' = [operation EXCEPT ![s] = row]
          BY <3>1, <4>1
        <5> HIDE DEF row
        <5> QED
          BY <5>1 DEF AdapterTyped
      <4> QED
        BY <3>1, <4>2 DEF AdapterTyped
    <3>4. Waiting'
      BY <3>1 DEF Waiting, ServiceTyped, AdapterTyped, Await, Operations, Running
    <3> QED
      BY <2>2, <3>2, <3>3, <3>4
  <2> QED
    BY <1>4, <2>3, <2>4 DEF ConsumeRateLimit
<1>5. ASSUME NEW s \in Suggestions, Reauthorize(s) PROVE Typed'
  <2>1. ServiceTyped'
    BY <1>5, ReturnTyped DEF Reauthorize, Return
  <2>2. Waiting'
    BY <1>5 DEF Waiting, ServiceTyped, Reauthorize, Return, Close, adapter
  <2> QED
    BY <1>5, <2>1, <2>2 DEF LimitsTyped, AdapterTyped, Reauthorize, limits, adapter
<1>6. ASSUME NEW s \in Suggestions, Leaves(s) PROVE Typed'
    BY <1>6 DEF ServiceTyped, LimitsTyped, AdapterTyped, Waiting, Leaves, limits, adapter
<1> QED
    BY <1>1, <1>2, <1>3, <1>4, <1>5, <1>6 DEF ServiceStep

\* No addresses are a list of addresses.
LEMMA EmptyList == <<>> \in Seq(Addresses)
OBVIOUS

\* What an operation becomes has its type.
LEMMA RowsTyped ==
    ASSUME AdapterTyped, NEW o \in Operations
    PROVE  Rest(o) \in OperationRows /\ Adrift(o) \in OperationRows
<1>1. operation[Startup].expected \in Seq(Addresses)
    BY DEF AdapterTyped, Operations, OperationRows
<1>2. Idle.expected \in Seq(Addresses)
  <2>1. Idle.expected = <<>>
    BY DEF Idle
  <2> QED
    BY <2>1, EmptyList
<1> DEFINE list == Rest(o).expected
<1>3. list \in Seq(Addresses)
  <2>1. list \in {Idle.expected, operation[Startup].expected}
    BY DEF Rest, Idle
  <2> QED
    BY <1>1, <1>2, <2>1
<1>4. /\ Rest(o) = [awaits |-> "NOTHING", call |-> 0, expected |-> list, to |-> None]
      /\ Adrift(o) = [awaits |-> "ADRIFT", call |-> 0, expected |-> list, to |-> None]
    BY DEF Rest, Adrift, Idle
<1> HIDE DEF list
<1> QED
    BY <1>3, <1>4 DEF OperationRows, Awaited

\* And is not running.
LEMMA RestsIdle ==
    ASSUME NEW o
    PROVE  Rest(o).awaits \notin Running /\ Adrift(o).awaits \notin Running
BY DEF Rest, Adrift, Idle, Running

\* What a lookup found is a list of addresses; a call goes to one of them, and
\* to one of the expected ones.
LEMMA FoundTyped ==
    ASSUME NEW found \in Lookups, found # <<>>
    PROVE  found \in Seq(Addresses) /\ Head(found) \in Addresses /\ Head(found) \in Range(found)
<1>1. found \in Seq(Addresses)
    BY TopicAssumption
<1>2. 1 \in DOMAIN found /\ Head(found) = found[1] /\ found[1] \in Addresses
    BY <1>1
<1> QED
    BY <1>1, <1>2 DEF Range

\* An operation that goes on keeps its type and runs.
LEMMA MovesTyped ==
    ASSUME AdapterTyped, NEW o \in Operations, Moves(o)
    PROVE  \E row \in OperationRows :
              row.awaits \in Running /\ operation' = [operation EXCEPT ![o] = row]
<1>1. /\ operation[o] \in OperationRows
      /\ operation[o].awaits \in Awaited /\ operation[o].call \in Nat
      /\ operation[o].expected \in Seq(Addresses) /\ operation[o].to \in Addresses \cup {None}
    BY DEF AdapterTyped, OperationRows
<1> DEFINE row == operation[o]
<1>2. ASSUME NEW a \in Running, NEW c \in Nat, NEW e \in Seq(Addresses), NEW t \in Addresses \cup {None}
      PROVE  /\ [awaits |-> a, call |-> c, expected |-> e, to |-> t] \in OperationRows
             /\ [awaits |-> a, call |-> c, expected |-> e, to |-> t].awaits \in Running
    BY DEF OperationRows, Running, Awaited
<1>3. row = [awaits |-> row.awaits, call |-> row.call, expected |-> row.expected, to |-> row.to]
    BY <1>1 DEF OperationRows
<1> DEFINE first(e) == [awaits |-> row.awaits, call |-> 1, expected |-> e, to |-> row.to]
<1> DEFINE next(a) == [awaits |-> "ANSWER", call |-> row.call, expected |-> row.expected, to |-> a]
<1>4. ASSUME NEW e
      PROVE  [operation EXCEPT ![o].call = 1, ![o].expected = e] = [operation EXCEPT ![o] = first(e)]
  <2> DEFINE f == [operation EXCEPT ![o].call = 1]
  <2>1. f[o] = [row EXCEPT !.call = 1]
    BY DEF AdapterTyped
  <2>2. [f[o] EXCEPT !.expected = e] = first(e)
    BY <1>3, <2>1
  <2>3. [f EXCEPT ![o] = first(e)] = [operation EXCEPT ![o] = first(e)]
    BY DEF AdapterTyped
  <2> HIDE DEF row, first, next
  <2> QED
    BY <2>2, <2>3
<1>5. ASSUME NEW a
      PROVE  [operation EXCEPT ![o].awaits = "ANSWER", ![o].to = a] = [operation EXCEPT ![o] = next(a)]
  <2> DEFINE f == [operation EXCEPT ![o].awaits = "ANSWER"]
  <2>1. f[o] = [row EXCEPT !.awaits = "ANSWER"]
    BY DEF AdapterTyped
  <2>2. [f[o] EXCEPT !.to = a] = next(a)
    BY <1>3, <2>1
  <2>3. [f EXCEPT ![o] = next(a)] = [operation EXCEPT ![o] = next(a)]
    BY DEF AdapterTyped
  <2> HIDE DEF row, first, next
  <2> QED
    BY <2>2, <2>3
<1>6. ASSUME NEW found \in Lookups, found # <<>>, operation[o].awaits = "LOOKUP",
             operation' = [operation EXCEPT ![o].call = 1, ![o].expected = found]
      PROVE  \E r \in OperationRows :
                r.awaits \in Running /\ operation' = [operation EXCEPT ![o] = r]
  <2>1. found \in Seq(Addresses) /\ "LOOKUP" \in Running
    BY <1>6, FoundTyped DEF Running
  <2> DEFINE r == [awaits |-> "LOOKUP", call |-> 1, expected |-> found, to |-> row.to]
  <2>2. r \in OperationRows /\ r.awaits \in Running
    BY <1>1, <1>2, <2>1
  <2>3. operation' = [operation EXCEPT ![o] = r]
    BY <1>6, <1>4
  <2> QED
    BY <2>2, <2>3
<1>7. ASSUME NEW found \in Lookups, found # <<>>, Connect(o, found)
      PROVE  \E r \in OperationRows :
                r.awaits \in Running /\ operation' = [operation EXCEPT ![o] = r]
  <2>1. Head(found) \in Addresses /\ "ANSWER" \in Running
    BY <1>7, FoundTyped DEF Running
  <2> DEFINE r == [awaits |-> "ANSWER", call |-> row.call, expected |-> row.expected, to |-> Head(found)]
  <2>2. r \in OperationRows /\ r.awaits \in Running
    BY <1>1, <1>2, <2>1
  <2>3. operation' = [operation EXCEPT ![o] = r]
    BY <1>7, <1>5 DEF Connect
  <2> QED
    BY <2>2, <2>3
<1>8. CASE operation' = [operation EXCEPT ![o].awaits = "LOOKUP", ![o].call = @ + 1, ![o].to = None]
  <2> DEFINE r == [awaits |-> "LOOKUP", call |-> row.call + 1, expected |-> row.expected, to |-> None]
  <2>1. "LOOKUP" \in Running /\ row.call + 1 \in Nat
    BY <1>1 DEF Running
  <2>2. r \in OperationRows /\ r.awaits \in Running
    BY <1>1, <1>2, <2>1
  <2>3. operation' = [operation EXCEPT ![o] = r]
    BY <1>1, <1>3, <1>8 DEF AdapterTyped, OperationRows
  <2> QED
    BY <2>2, <2>3
<1> QED
    BY <1>6, <1>7, <1>8 DEF Moves

\* Every step of an operation keeps the types.
LEMMA OperationStepTyped ==
    ASSUME Typed, OperationStep
    PROVE  Typed'
<1> USE TopicAssumption DEF Typed
<1>1. ASSUME NEW o \in Operations, Fails(o) PROVE Typed'
  <2>1. PICK code \in {"unavailable", "misconfigured"}, rest \in {Rest(o), Adrift(o)} : Fail(o, code, rest)
    BY <1>1 DEF Fails
  <2>2. AdapterTyped'
    <3>1. refused' \in [1..MaxRefused -> Addresses \cup {None}]
      BY <1>1 DEF Fails, RefuseAnswer, AdapterTyped, OperationRows
    <3>2. /\ activeRequests' \in Int
          /\ health' \in {"unavailable", "ready", "misconfigured"}
      BY <2>1 DEF AdapterTyped, Fail
    <3>3. readyAddresses' \in Seq(Addresses)
      <4>1. readyAddresses' = <<>> \/ readyAddresses' = readyAddresses
        BY <2>1 DEF Fail
      <4> QED
        BY <4>1, EmptyList DEF AdapterTyped
    <3>4. rest \in OperationRows
      BY <2>1, RowsTyped
    <3>5. operation' \in [Operations -> OperationRows]
      BY <2>1, <3>4 DEF AdapterTyped, Fail
    <3> QED
      BY <3>1, <3>2, <3>3, <3>5 DEF AdapterTyped
  <2>3. CASE o = Startup
    <3>1. ServiceTyped'
      BY <1>1, <2>1, <2>3 DEF ServiceTyped, Fails, Fail, service
    <3>2. Waiting'
      BY <2>1, <2>3 DEF Waiting, Fail, service, AdapterTyped, Operations
    <3> QED
      BY <1>1, <2>2, <3>1, <3>2 DEF Fails, LimitsTyped, limits
  <2>4. CASE o \in Suggestions
    <3>1. ServiceTyped'
      BY <1>1, <2>1, <2>4, ReturnTyped DEF Fails, Fail, Return
    <3>2. Waiting'
      <4>1. rest.awaits \notin Running
        BY <2>1, RestsIdle
      <4> QED
        BY <2>1, <2>4, <4>1 DEF Waiting, Fail, Return, Close, ServiceTyped, AdapterTyped, Operations,
                                Running
    <3> QED
      BY <1>1, <2>2, <3>1, <3>2 DEF Fails, LimitsTyped, limits
  <2> QED
    BY <2>3, <2>4 DEF Operations
<1>2. ASSUME NEW o \in Operations, Moves(o) PROVE Typed'
  <2>1. operation' \in [Operations -> OperationRows]
    BY <1>2, MovesTyped DEF AdapterTyped
  <2>2. \A q \in Operations : operation'[q].awaits \in Running <=> operation[q].awaits \in Running
    BY <1>2, MovesTyped DEF AdapterTyped, Moves
  <2> QED
    BY <1>2, <2>1, <2>2 DEF ServiceTyped, LimitsTyped, AdapterTyped, Waiting, Moves, service, limits, Operations
<1>3. ASSUME NEW o \in Operations, Finishes(o) PROVE Typed'
  <2>1. AdapterTyped'
    BY <1>3, RowsTyped DEF AdapterTyped, Finishes, Complete, OperationRows
  <2>2. CASE o = Startup
    <3>1. ServiceTyped'
      BY <1>3, <2>2 DEF ServiceTyped, Finishes, Complete, service
    <3>2. Waiting'
      BY <1>3, <2>2 DEF Waiting, Finishes, Complete, service, AdapterTyped, Operations
    <3> QED
      BY <1>3, <2>1, <3>1, <3>2 DEF Finishes, LimitsTyped, limits
  <2>3. CASE o \in Suggestions
    <3>1. phase[o] = "GENERATE" /\ o # Startup
      BY <1>3, <2>3 DEF Finishes, Waiting, Running
    <3>2. ServiceTyped'
      <4>1. CASE Return(o)
        BY <1>3, <2>3, <4>1, ReturnTyped DEF Finishes, Return
      <4>2. CASE Await(o, "REAUTHORIZE") /\ UNCHANGED <<readAt, activeAccounts>>
        BY <1>3, <2>3, <3>1, <4>2, AwaitTyped DEF Finishes, Phases, ServiceTyped
      <4> QED
        BY <1>3, <3>1, <4>1, <4>2 DEF Finishes, Complete
    <3>3. Waiting'
      BY <1>3, <2>3, <3>1 DEF Waiting, Finishes, Complete, Return, Close, Await, ServiceTyped,
                              AdapterTyped, Operations, Rest, Idle, Running
    <3> QED
      BY <1>3, <2>1, <3>2, <3>3 DEF Finishes, LimitsTyped, limits
  <2> QED
    BY <2>2, <2>3 DEF Operations
<1>4. ASSUME NEW o \in Operations, LookupEnds(o) PROVE Typed'
  <2>1. AdapterTyped'
    BY <1>4, RowsTyped DEF AdapterTyped, LookupEnds
  <2>2. Waiting'
    BY <1>4, RestsIdle DEF Waiting, AdapterTyped, LookupEnds, service, Running, Operations
  <2> QED
    BY <1>4, <2>1, <2>2 DEF ServiceTyped, LimitsTyped, LookupEnds, service, limits
<1> QED
    BY <1>1, <1>2, <1>3, <1>4 DEF OperationStep

\* Every step keeps the types.
LEMMA StepTyped == Typed /\ [Next]_vars => Typed'
<1> SUFFICES ASSUME Typed, [Next]_vars PROVE Typed'
    OBVIOUS
<1>1. CASE Tick
    BY <1>1, TopicAssumption DEF Typed, ServiceTyped, LimitsTyped, AdapterTyped, Waiting, Tick, service, limits, adapter
<1>2. CASE UNCHANGED vars
    BY <1>2 DEF Typed, ServiceTyped, LimitsTyped, AdapterTyped, Waiting, vars, service, limits, adapter
<1>3. CASE BodyStep
    BY <1>3 DEF Typed, ServiceTyped, LimitsTyped, AdapterTyped, Waiting, BodyStep, EndBody, service, limits
<1> QED
    BY <1>1, <1>2, <1>3, StepCases, ServiceStepTyped, OperationStepTyped

\* The first state has the types.
LEMMA InitTyped == Init => Typed
<1> SUFFICES ASSUME Init PROVE Typed
    OBVIOUS
<1> USE TopicAssumption
<1>1. ServiceTyped
    BY DEF Init, ServiceTyped, Phases
<1>2. LimitsTyped
    BY DEF Init, LimitsTyped
<1>3. AdapterTyped
  <2>1. Idle \in OperationRows /\ [Idle EXCEPT !.awaits = "LOOKUP"] \in OperationRows
    <3>1. [Idle EXCEPT !.awaits = "LOOKUP"] =
              [awaits |-> "LOOKUP", call |-> 0, expected |-> <<>>, to |-> None]
      BY DEF Idle
    <3>2. \A e \in Seq(Addresses) :
              /\ [awaits |-> "NOTHING", call |-> 0, expected |-> e, to |-> None] \in OperationRows
              /\ [awaits |-> "LOOKUP", call |-> 0, expected |-> e, to |-> None] \in OperationRows
      BY DEF OperationRows, Awaited
    <3> QED
      BY <3>1, <3>2, EmptyList DEF Idle
  <2>2. operation \in [Operations -> OperationRows]
    BY <2>1 DEF Init
  <2> QED
    BY <2>2, EmptyList DEF Init, AdapterTyped
<1>4. Waiting
    BY DEF Init, Waiting, Operations, Idle, Running
<1> QED
    BY <1>1, <1>2, <1>3, <1>4 DEF Typed

\* Every variable of the handler, the limiter and the adapter keeps its type.
THEOREM TypeCorrect == Spec => []TypeOK
<1>1. Typed => TypeOK
    BY DEF Typed, TypeOK, ServiceTyped, LimitsTyped, AdapterTyped, OperationRows
<1> QED
    BY <1>1, InitTyped, StepTyped, PTL DEF Spec

-----------------------------------------------------------------------------
(* Slots and addresses *)

SlotInv ==
    /\ activeRequests = Cardinality(Busy)
    /\ activeRequests <= ConcurrencyLimit

\* There are finitely many operations, so that the running ones can be counted.
LEMMA BusyFinite == IsFiniteSet(Busy)
<1>1. IsFiniteSet(Operations)
    BY TopicAssumption, FS_AddElement DEF Operations
<1> QED
    BY <1>1, FS_Subset DEF Busy

\* A slot is taken or given back by the operation that begins or ends.
LEMMA StepSlots ==
    ASSUME Typed, SlotInv, [Next]_vars
    PROVE  SlotInv'
<1> USE TopicAssumption DEF Typed, SlotInv
<1>1. CASE activeRequests' = activeRequests /\ Busy' = Busy
    BY <1>1
<1>2. ASSUME NEW o \in Busy, activeRequests' = activeRequests - 1, Busy' = Busy \ {o} PROVE SlotInv'
  <2>1. Cardinality(Busy') = Cardinality(Busy) - 1
    BY <1>2, BusyFinite, FS_RemoveElement
  <2> QED
    BY <1>2, <2>1 DEF AdapterTyped
<1>3. ASSUME NEW o \in Operations \ Busy, activeRequests < ConcurrencyLimit,
             activeRequests' = activeRequests + 1, Busy' = Busy \cup {o}
      PROVE  SlotInv'
  <2>1. Cardinality(Busy') = Cardinality(Busy) + 1
    BY <1>3, BusyFinite, FS_AddElement
  <2> QED
    BY <1>3, <2>1 DEF AdapterTyped
<1>4. CASE UNCHANGED adapter
    BY <1>1, <1>4 DEF Busy, adapter
<1>5. ASSUME NEW s \in Suggestions, ConsumeRateLimit(s), ~ UNCHANGED adapter PROVE SlotInv'
  <2>1. /\ activeRequests < ConcurrencyLimit
        /\ operation' = [operation EXCEPT ![s] = [awaits |-> "LOOKUP", call |-> 1,
                                                  expected |-> readyAddresses, to |-> None]]
        /\ activeRequests' = activeRequests + 1
    BY <1>5 DEF ConsumeRateLimit, Generate
  <2>2. s \in Operations \ Busy
    BY <1>5 DEF ConsumeRateLimit, Waiting, Busy, Operations
  <2>3. Busy' = Busy \cup {s}
    BY <2>1, <2>2 DEF Busy, AdapterTyped, Running
  <2> QED
    BY <1>3, <2>1, <2>2, <2>3
<1>6. ASSUME NEW o \in Operations, Fails(o) PROVE SlotInv'
  <2>1. PICK rest \in {Rest(o), Adrift(o)} :
            operation' = [operation EXCEPT ![o] = rest] /\ activeRequests' = activeRequests - 1
    BY <1>6 DEF Fails, Fail
  <2>2. o \in Busy /\ Busy' = Busy \ {o}
    BY <1>6, <2>1, RestsIdle DEF Fails, Busy, AdapterTyped
  <2> QED
    BY <1>2, <2>1, <2>2
<1>7. ASSUME NEW o \in Operations, Moves(o) PROVE SlotInv'
  <2>1. Busy' = Busy
    BY <1>7, MovesTyped DEF Moves, Busy, AdapterTyped
  <2> QED
    BY <1>1, <1>7, <2>1 DEF Moves
<1>8. ASSUME NEW o \in Operations, Finishes(o) PROVE SlotInv'
  <2>1. o \in Busy /\ Busy' = Busy \ {o}
    BY <1>8, RestsIdle DEF Finishes, Complete, Busy, AdapterTyped, Running
  <2> QED
    BY <1>2, <1>8, <2>1 DEF Finishes, Complete
<1>9. ASSUME NEW o \in Operations, LookupEnds(o) PROVE SlotInv'
  <2>1. Busy' = Busy
    BY <1>9, RestsIdle DEF LookupEnds, Busy, AdapterTyped, Running
  <2> QED
    BY <1>1, <1>9, <2>1 DEF LookupEnds
<1>10. CASE ServiceStep
    BY <1>4, <1>5, <1>10 DEF ServiceStep, Ask, ReadSession, Authorize, Reauthorize, Leaves
<1>11. CASE OperationStep
    BY <1>6, <1>7, <1>8, <1>9, <1>11 DEF OperationStep
<1>12. CASE Tick \/ BodyStep \/ UNCHANGED vars
    BY <1>1, <1>4, <1>12 DEF Tick, BodyStep, EndBody, Busy, vars
<1> QED
    BY <1>10, <1>11, <1>12, StepCases

\* While the check runs no suggestion does; what its first lookup found is what
\* they expect, and nothing has been refused before it.
AddressInv ==
    /\ Range(operation[Startup].expected) \subseteq Private
    /\ readyAddresses # <<>> =>
          /\ operation[Startup].awaits \notin Running
          /\ readyAddresses = operation[Startup].expected
    /\ \A s \in Suggestions :
          operation[s].awaits \in Running =>
              /\ operation[Startup].awaits \notin Running
              /\ operation[s].call > 0
              /\ operation[s].expected = operation[Startup].expected
    /\ \A o \in Operations :
          operation[o].awaits = "ANSWER" => operation[o].to \in Range(operation[o].expected)
    /\ \A i \in 1..MaxRefused :
          refused[i] # None =>
              /\ refused[i] \in Range(operation[Startup].expected)
              /\ operation[Startup].awaits \in Running => operation[Startup].call > 0

\* The addresses of the check stay the ones that calls connect to.
LEMMA StepAddresses ==
    ASSUME Typed, AddressInv, [Next]_vars
    PROVE  AddressInv'
<1> USE TopicAssumption DEF Typed
<1>1. CASE UNCHANGED adapter
    BY <1>1 DEF AddressInv, adapter
<1>2. ASSUME NEW s \in Suggestions, ConsumeRateLimit(s), ~ UNCHANGED adapter PROVE AddressInv'
  <2>1. /\ readyAddresses # <<>>
        /\ operation' = [operation EXCEPT ![s] = [awaits |-> "LOOKUP", call |-> 1,
                                                  expected |-> readyAddresses, to |-> None]]
        /\ UNCHANGED <<readyAddresses, refused>>
    BY <1>2 DEF ConsumeRateLimit, Generate
  <2> QED
    BY <2>1 DEF AddressInv, AdapterTyped, Operations, Running
\* An operation that ends leaves the check what it found.
<1>3. ASSUME NEW o \in Operations, operation[o].awaits \in Running, NEW rest,
             rest.awaits \notin Running, o = Startup => rest.expected = operation[o].expected,
             operation' = [operation EXCEPT ![o] = rest],
             readyAddresses' \in {readyAddresses, <<>>}
                 \/ (o = Startup /\ readyAddresses' = operation[o].expected),
             o = Startup => readyAddresses' \in {<<>>, operation[o].expected},
             UNCHANGED refused \/ RefuseAnswer(o)
      PROVE  AddressInv'
  <2>1. /\ operation'[o] = rest
        /\ \A q \in Operations \ {o} : operation'[q] = operation[q]
        /\ operation'[Startup].expected = operation[Startup].expected
    BY <1>3 DEF AdapterTyped, Operations
  <2>2. ASSUME NEW i \in 1..MaxRefused, refused'[i] # None
        PROVE  /\ refused'[i] \in Range(operation[Startup].expected)
               /\ operation'[Startup].awaits \in Running => operation'[Startup].call > 0
    <3>1. CASE UNCHANGED refused
      BY <1>3, <2>1, <2>2, <3>1 DEF AddressInv, Operations
    <3>2. CASE RefuseAnswer(o)
      <4>1. operation[o].awaits = "ANSWER" /\ refused'[i] \in {refused[i], operation[o].to}
        BY <3>2 DEF RefuseAnswer, AdapterTyped
      <4>2. operation[o].to \in Range(operation[Startup].expected)
        BY <4>1 DEF AddressInv, Operations, Running
      <4>3. operation'[Startup].awaits \notin Running
        BY <1>3, <2>1 DEF AddressInv, Operations
      <4> QED
        BY <2>2, <4>1, <4>2, <4>3 DEF AddressInv
    <3> QED
      BY <1>3, <3>1, <3>2
  <2>3. operation'[Startup].awaits \notin Running
    BY <1>3, <2>1 DEF AddressInv, Operations
  <2>4. readyAddresses' # <<>> => readyAddresses' = operation[Startup].expected
    BY <1>3 DEF AddressInv
  <2>5. ASSUME NEW q \in Operations, operation'[q].awaits \in Running
        PROVE  q # o /\ operation'[q] = operation[q]
    BY <1>3, <2>1, <2>5
  <2> QED
    BY <2>1, <2>2, <2>3, <2>4, <2>5 DEF AddressInv, Operations, Running
<1>4. ASSUME NEW o \in Operations, Fails(o) PROVE AddressInv'
  <2>1. PICK rest \in {Rest(o), Adrift(o)} :
            /\ operation' = [operation EXCEPT ![o] = rest]
            /\ readyAddresses' \in {readyAddresses, <<>>}
            /\ o = Startup => readyAddresses' = <<>>
    BY <1>4 DEF Fails, Fail
  <2>2. o = Startup => rest.expected = operation[o].expected
    BY <2>1 DEF Rest, Adrift, Idle
  <2>3. rest.awaits \notin Running
    BY <2>1, RestsIdle
  <2>4. operation[o].awaits \in Running /\ (UNCHANGED refused \/ RefuseAnswer(o))
    BY <1>4 DEF Fails
  <2> QED
    BY <1>3, <2>1, <2>2, <2>3, <2>4
<1>5. ASSUME NEW o \in Operations, Moves(o) PROVE AddressInv'
  <2>1. operation[o].awaits \in Running /\ UNCHANGED <<readyAddresses, refused>>
    BY <1>5 DEF Moves
  <2>2. ASSUME NEW found, Range(found) \subseteq Private,
               operation[o].awaits = "LOOKUP", operation[o].call = 0,
               operation' = [operation EXCEPT ![o].call = 1, ![o].expected = found]
        PROVE  AddressInv'
    <3>1. o = Startup
      BY <2>1, <2>2 DEF AddressInv, Operations
    <3>2. \A i \in 1..MaxRefused : refused[i] = None
      BY <2>1, <2>2, <3>1 DEF AddressInv
    <3>3. readyAddresses = <<>> /\ \A s \in Suggestions : operation[s].awaits \notin Running
      BY <2>1, <3>1 DEF AddressInv
    <3>4. /\ operation'[Startup].expected = found /\ operation'[Startup].awaits = "LOOKUP"
          /\ \A q \in Suggestions : operation'[q] = operation[q]
      BY <2>2, <3>1 DEF AdapterTyped, Operations, OperationRows
    <3> QED
      BY <2>1, <2>2, <3>2, <3>3, <3>4 DEF AddressInv, Operations, Running
  <2>3. ASSUME NEW found \in Lookups, found # <<>>, Connect(o, found), operation[o].call # 0
        PROVE  AddressInv'
    <3>1. Head(found) \in Range(operation[o].expected)
      BY <2>3, FoundTyped DEF Connect, addressSetsMatch
    <3>2. /\ operation'[o].awaits = "ANSWER" /\ operation'[o].to = Head(found)
          /\ operation'[o].expected = operation[o].expected /\ operation'[o].call = operation[o].call
          /\ \A q \in Operations \ {o} : operation'[q] = operation[q]
      BY <2>3 DEF Connect, AdapterTyped, OperationRows
    <3> QED
      BY <2>1, <3>1, <3>2 DEF AddressInv, Operations, Running
  <2>4. CASE operation' = [operation EXCEPT ![o].awaits = "LOOKUP", ![o].call = @ + 1, ![o].to = None]
    <3>1. /\ operation'[o].awaits = "LOOKUP" /\ operation'[o].call > 0
          /\ operation'[o].expected = operation[o].expected
          /\ \A q \in Operations \ {o} : operation'[q] = operation[q]
      BY <2>4 DEF AdapterTyped, OperationRows
    <3> QED
      BY <2>1, <3>1 DEF AddressInv, Operations, Running
  <2> QED
    BY <1>5, <2>2, <2>3, <2>4 DEF Moves
<1>6. ASSUME NEW o \in Operations, Finishes(o) PROVE AddressInv'
  <2>1. operation' = [operation EXCEPT ![o] = Rest(o)] /\ operation[o].awaits \in Running
    BY <1>6 DEF Finishes, Complete, Running
  <2>2. o = Startup => Rest(o).expected = operation[o].expected
    BY DEF Rest, Idle
  <2>3. IF o = Startup THEN readyAddresses' = operation[o].expected ELSE UNCHANGED readyAddresses
    BY <1>6 DEF Finishes, Complete
  <2> QED
    BY <1>3, <1>6, <2>1, <2>2, <2>3, RestsIdle DEF Finishes
<1>7. ASSUME NEW o \in Operations, LookupEnds(o) PROVE AddressInv'
  <2>1. /\ operation'[o] = Rest(o) /\ operation[o].awaits \notin Running
        /\ \A q \in Operations \ {o} : operation'[q] = operation[q]
        /\ UNCHANGED <<readyAddresses, refused>>
    BY <1>7 DEF LookupEnds, AdapterTyped, Running
  <2>2. operation'[Startup].expected = operation[Startup].expected
    BY <2>1 DEF Rest, Idle, Operations
  <2>3. operation'[o].awaits \notin Running
    BY <2>1, RestsIdle
  <2> QED
    BY <2>1, <2>2, <2>3 DEF AddressInv, Operations, Running
<1>8. CASE BodyStep
  <2>1. /\ UNCHANGED <<operation, readyAddresses>>
        /\ \A i \in 1..MaxRefused : refused'[i] \in {refused[i], None}
    BY <1>8 DEF BodyStep, EndBody, AdapterTyped
  <2> QED
    BY <2>1 DEF AddressInv
<1>9. CASE ServiceStep
    BY <1>1, <1>2, <1>9 DEF ServiceStep, Ask, ReadSession, Authorize, Reauthorize, Leaves
<1>10. CASE OperationStep
    BY <1>4, <1>5, <1>6, <1>7, <1>10 DEF OperationStep
<1>11. CASE Tick \/ UNCHANGED vars
    BY <1>1, <1>11 DEF Tick, vars
<1> QED
    BY <1>8, <1>9, <1>10, <1>11, StepCases

\* Apart from those of refused answers the server has at most ConcurrencyLimit
\* connections, and all, those included, go to private addresses its host had
\* when the process started, whatever DNS answers, times out or is cancelled.
THEOREM ConnectionsStayAllowed == Spec => []ConnectionsAreAllowed
<1> DEFINE Inv == Typed /\ SlotInv /\ AddressInv
<1>1. Init => Inv
  <2> SUFFICES ASSUME Init PROVE Inv
    OBVIOUS
  <2>1. Busy = {Startup}
    BY TopicAssumption DEF Init, Busy, Operations, Idle, Running
  <2>2. SlotInv
    <3>1. Cardinality(Busy) = 1
      BY <2>1, FS_Singleton
    <3> QED
      BY <3>1, TopicAssumption DEF Init, SlotInv
  <2>3. AddressInv
    <3>1. operation[Startup].expected = <<>> /\ operation[Startup].awaits = "LOOKUP"
      BY DEF Init, Operations, Idle
    <3>2. Range(operation[Startup].expected) \subseteq Private
      <4>1. \A e : e = <<>> => Range(e) = {}
        BY DEF Range
      <4> QED
        BY <3>1, <4>1
    <3>3. \A s \in Suggestions : operation[s].awaits = "NOTHING"
      BY TopicAssumption DEF Init, Operations, Idle
    <3> QED
      BY <3>1, <3>2, <3>3 DEF Init, AddressInv, Operations, Running
  <2> QED
    BY <2>2, <2>3, InitTyped
<1>2. Inv /\ [Next]_vars => Inv'
    BY StepTyped, StepSlots, StepAddresses
<1>3. Inv => ConnectionsAreAllowed
  <2> SUFFICES ASSUME Inv PROVE ConnectionsAreAllowed
    OBVIOUS
  <2>1. Open \subseteq Busy
    BY DEF Open, Busy, Running
  <2>2. IsFiniteSet(Open) /\ Cardinality(Open) <= Cardinality(Busy)
    BY <2>1, BusyFinite, FS_Subset
  <2>3. Cardinality(Open) \in Nat /\ Cardinality(Busy) \in Nat
    BY <2>2, BusyFinite, FS_CardinalityType
  <2>4. Cardinality(Open) <= ConcurrencyLimit
    BY <2>2, <2>3, TopicAssumption DEF SlotInv
  <2>5. \A o \in Open : operation[o].to \in Private \cap Range(operation[Startup].expected)
    BY DEF Open, AddressInv, Operations, Running
  <2>6. \A i \in Resumed : refused[i] \in Private \cap Range(operation[Startup].expected)
    BY DEF Resumed, AddressInv
  <2> QED
    BY <2>4, <2>5, <2>6 DEF ConnectionsAreAllowed
<1> QED
    BY <1>1, <1>2, <1>3, PTL DEF Spec

-----------------------------------------------------------------------------
(* Marks *)

\* Who holds an account, and the marks of the service, correspond one to one.
MarkInv ==
    /\ \A s \in Suggestions : phase[s] \in Holding => account[s] \in activeAccounts
    /\ \A s, t \in Suggestions :
          phase[s] \in Holding /\ phase[t] \in Holding /\ account[s] = account[t] => s = t
    /\ \A a \in activeAccounts : \E s \in Suggestions : phase[s] \in Holding /\ account[s] = a

\* A step that changes neither holders nor marks.
LEMMA MarksKept ==
    ASSUME MarkInv, UNCHANGED activeAccounts,
           \A s \in Suggestions :
               /\ phase'[s] \in Holding <=> phase[s] \in Holding
               /\ phase[s] \in Holding => account'[s] = account[s]
    PROVE  MarkInv'
BY DEF MarkInv

\* A holder that ends takes its own mark away and no other.
LEMMA MarksFreed ==
    ASSUME Typed, MarkInv, NEW s \in Suggestions, phase[s] \in Holding, Return(s)
    PROVE  MarkInv'
<1>1. /\ phase'[s] \notin Holding
      /\ \A t \in Suggestions \ {s} : phase'[t] = phase[t] /\ account'[t] = account[t]
    BY DEF Typed, ServiceTyped, Return, Close, Holding
<1>2. activeAccounts' = activeAccounts \ {account[s]}
    BY DEF Return
<1> QED
    BY <1>1, <1>2 DEF MarkInv

\* A step of a holder: it goes on or ends.
LEMMA HolderSteps ==
    ASSUME Typed, MarkInv, NEW s \in Suggestions, phase[s] \in Holding,
           \/ Return(s)
           \/ \E next \in Holding : Await(s, next) /\ UNCHANGED activeAccounts
    PROVE  MarkInv'
<1>1. CASE Return(s)
    BY <1>1, MarksFreed
<1>2. ASSUME NEW next \in Holding, Await(s, next), UNCHANGED activeAccounts PROVE MarkInv'
  <2>1. \A t \in Suggestions : /\ phase'[t] \in Holding <=> phase[t] \in Holding
                               /\ account'[t] = account[t]
    BY <1>2 DEF Typed, ServiceTyped, Await
  <2> QED
    BY <1>2, <2>1, MarksKept
<1> QED
    BY <1>1, <1>2

\* Marks come with holders and go with them.
LEMMA StepMarks ==
    ASSUME Typed, MarkInv, [Next]_vars
    PROVE  MarkInv'
<1> USE DEF Typed
<1>1. ASSUME NEW s \in Suggestions, NEW a \in Accounts, Ask(s, a) PROVE MarkInv'
  <2>1. \A t \in Suggestions : /\ phase'[t] \in Holding <=> phase[t] \in Holding
                               /\ phase[t] \in Holding => account'[t] = account[t]
    BY <1>1 DEF ServiceTyped, Ask, Holding
  <2> QED
    BY <1>1, <2>1, MarksKept DEF Ask
<1>2. ASSUME NEW s \in Suggestions, phase[s] \notin Holding, UNCHANGED activeAccounts,
             Close(s) \/ Await(s, "AUTHORIZE")
      PROVE  MarkInv'
  <2>1. \A t \in Suggestions : /\ phase'[t] \in Holding <=> phase[t] \in Holding
                               /\ phase[t] \in Holding => account'[t] = account[t]
    BY <1>2 DEF ServiceTyped, Close, Await, Holding
  <2> QED
    BY <1>2, <2>1, MarksKept
<1>3. ASSUME NEW s \in Suggestions, Authorize(s) PROVE MarkInv'
  <2>1. phase[s] \notin Holding
    BY <1>3 DEF Authorize, Holding
  <2>2. CASE Close(s) /\ UNCHANGED activeAccounts
    BY <1>2, <2>1, <2>2
  <2>3. CASE /\ account[s] \notin activeAccounts
             /\ activeAccounts' = activeAccounts \cup {account[s]}
             /\ Await(s, "LIMIT")
    <3>1. /\ phase'[s] \in Holding
          /\ UNCHANGED account
          /\ \A t \in Suggestions \ {s} : phase'[t] = phase[t]
      BY <2>3 DEF ServiceTyped, Await, Holding
    <3> QED
      BY <2>1, <2>3, <3>1 DEF MarkInv
  <2> QED
    BY <1>3, <2>2, <2>3 DEF Authorize
<1>4. ASSUME NEW s \in Suggestions, ConsumeRateLimit(s) \/ Reauthorize(s) PROVE MarkInv'
  <2>1. /\ phase[s] \in Holding
        /\ \/ Return(s)
           \/ Await(s, "GENERATE") /\ UNCHANGED activeAccounts
    BY <1>4 DEF ConsumeRateLimit, Generate, Reauthorize, Holding
  <2> QED
    BY <2>1, HolderSteps DEF Holding
<1>5. ASSUME NEW o \in Operations, Fails(o) \/ Finishes(o) PROVE MarkInv'
  <2>1. CASE o = Startup
    <3>1. UNCHANGED service
      BY <1>5, <2>1 DEF Fails, Fail, Finishes, Complete
    <3> QED
      BY <3>1, MarksKept DEF service
  <2>2. CASE o \in Suggestions
    <3>1. phase[o] \in Holding /\ o # Startup
      BY <1>5, <2>2, TopicAssumption DEF Fails, Finishes, Waiting, Running, Holding
    <3>2. \/ Return(o)
          \/ Await(o, "REAUTHORIZE") /\ UNCHANGED activeAccounts
      BY <1>5, <3>1 DEF Fails, Fail, Finishes, Complete
    <3> QED
      BY <2>2, <3>1, <3>2, HolderSteps DEF Holding
  <2> QED
    BY <2>1, <2>2 DEF Operations
<1>6. CASE UNCHANGED <<phase, account, activeAccounts>>
    BY <1>6, MarksKept
<1>7. CASE ServiceStep
  <2>1. ASSUME NEW s \in Suggestions, ReadSession(s) PROVE MarkInv'
    <3>1. phase[s] \notin Holding /\ UNCHANGED activeAccounts /\ (Close(s) \/ Await(s, "AUTHORIZE"))
      BY <2>1 DEF ReadSession, Holding
    <3> QED
      BY <1>2, <3>1
  <2> QED
    BY <1>1, <1>3, <1>4, <1>6, <1>7, <2>1 DEF ServiceStep, Leaves
<1>8. CASE OperationStep
    BY <1>5, <1>6, <1>8 DEF OperationStep, Moves, LookupEnds, service
<1>9. CASE Tick \/ BodyStep \/ UNCHANGED vars
    BY <1>6, <1>9 DEF Tick, BodyStep, EndBody, vars, service
<1> QED
    BY <1>7, <1>8, <1>9, StepCases

\* Nobody is asking at first.
LEMMA InitMarks == Init => MarkInv
BY DEF Init, MarkInv, Holding

\* An account has at most one suggestion in flight and is marked exactly then,
\* however suggestions are refused, fail, time out or are cancelled.
THEOREM OneSuggestionAtATime == Spec => []OneSuggestionPerAccount
<1> DEFINE Inv == Typed /\ MarkInv
<1>1. Init => Inv
    BY InitTyped, InitMarks
<1>2. Inv /\ [Next]_vars => Inv'
    BY StepTyped, StepMarks
<1>3. Inv => OneSuggestionPerAccount
  <2> SUFFICES ASSUME MarkInv, NEW a \in Accounts
               PROVE  Cardinality({s \in Suggestions : account[s] = a /\ phase[s] \in Holding}) =
                          IF a \in activeAccounts THEN 1 ELSE 0
    BY DEF OneSuggestionPerAccount
  <2> DEFINE holders == {s \in Suggestions : account[s] = a /\ phase[s] \in Holding}
  <2>1. CASE a \in activeAccounts
    <3>1. PICK s \in Suggestions : phase[s] \in Holding /\ account[s] = a
      BY <2>1 DEF MarkInv
    <3>2. holders = {s}
      BY <3>1 DEF MarkInv
    <3>3. Cardinality(holders) = 1
      BY <3>2, FS_Singleton
    <3> QED
      BY <2>1, <3>3
  <2>2. CASE a \notin activeAccounts
    <3>1. holders = {}
      BY <2>2 DEF MarkInv
    <3>2. Cardinality(holders) = 0
      BY <3>1, FS_EmptySet
    <3> QED
      BY <2>2, <3>2
  <2> QED
    BY <2>1, <2>2
<1> QED
    BY <1>1, <1>2, <1>3, PTL DEF Spec

-----------------------------------------------------------------------------
(* The limit *)

\* A request that is about to be counted comes after all that were.
StartInv ==
    /\ \A a \in Accounts : \A i \in 1..Len(starts[a]) : starts[a][i] <= time
    /\ \A s \in Suggestions :
          phase[s] = "LIMIT" =>
              /\ readAt[s] <= time
              /\ \A i \in 1..Len(starts[account[s]]) : starts[account[s]][i] <= readAt[s]

\* What a row of the limiter says of the starts of its account: the last ones
\* are in its count, those before them are a window away.
RowFits(row, q) ==
    /\ row.count <= Len(q)
    /\ row.count <= RateMaximum
    /\ row.count = 0 => Len(q) = 0
    /\ row.count > 0 => row.lastRequest = q[Len(q)]
    /\ Len(q) > row.count => q[Len(q) - row.count] + RateWindow <= q[Len(q) - row.count + 1]

Ordered(q) == \A i, j \in 1..Len(q) : i <= j => q[i] <= q[j]

Spaced(q) ==
    \A i \in 1..Len(q) : i + RateMaximum <= Len(q) => q[i] + RateWindow <= q[i + RateMaximum]

RowInv ==
    \A a \in Accounts :
        RowFits(limiter[a], starts[a]) /\ Ordered(starts[a]) /\ Spaced(starts[a])

\* A start that the row allows keeps every RateMaximum starts a window apart.
LEMMA RowAdvances ==
    ASSUME NEW row \in [count : Nat, lastRequest : 0..LastTime], NEW q \in Seq(0..LastTime),
           NEW now \in 0..LastTime, RowFits(row, q), Ordered(q), Spaced(q), Allowed(row, now),
           \A i \in 1..Len(q) : q[i] <= now
    PROVE  LET r == Append(q, now)
           IN  RowFits(Consumed(row, now), r) /\ Ordered(r) /\ Spaced(r)
<1> DEFINE r == Append(q, now)
<1> DEFINE n == Len(q)
<1> DEFINE c == row.count
<1>1. /\ Len(r) = n + 1 /\ n \in Nat
      /\ \A i \in 1..n : r[i] = q[i] /\ q[i] \in Nat
      /\ r[n + 1] = now /\ now \in Nat
    BY TopicAssumption
<1>2. c \in Nat /\ RateMaximum \in Nat /\ RateMaximum > 0 /\ RateWindow \in Nat
    BY TopicAssumption
<1>3. /\ c <= n /\ c <= RateMaximum
      /\ c > 0 => row.lastRequest = q[n]
      /\ c = 0 => n = 0
      /\ n > c => q[n - c] + RateWindow <= q[n - c + 1]
    BY DEF RowFits
<1>4. \A i \in 1..n : i + RateMaximum <= n => q[i] + RateWindow <= q[i + RateMaximum]
    BY DEF Spaced
<1>5. \A i, j \in 1..n : i <= j => q[i] <= q[j]
    BY DEF Ordered
<1>6. \A i \in 1..n : q[i] <= now
    OBVIOUS
<1> HIDE DEF r, n, c
<1>7. Ordered(r)
  <2> SUFFICES ASSUME NEW i \in 1..(n + 1), NEW j \in 1..(n + 1), i <= j PROVE r[i] <= r[j]
    BY <1>1 DEF Ordered
  <2>1. CASE j = n + 1
    BY <1>1, <1>6, <2>1
  <2>2. CASE j # n + 1
    BY <1>1, <1>5, <2>2
  <2> QED
    BY <2>1, <2>2
\* The start that lies RateMaximum before the new one is a window away.
<1>8. ASSUME NEW i \in 1..n, i + RateMaximum = n + 1 PROVE q[i] + RateWindow <= now
  <2>1. CASE c = 0 \/ row.lastRequest + RateWindow <= now
    <3>1. c > 0 /\ row.lastRequest = q[n] /\ n \in 1..n
      BY <1>1, <1>2, <1>3
    <3>2. q[i] <= q[n] /\ q[n] + RateWindow <= now
      BY <1>1, <1>5, <2>1, <3>1
    <3> QED
      BY <1>1, <1>2, <3>1, <3>2
  <2>2. CASE c < RateMaximum
    <3>1. n - c \in 1..n /\ n - c + 1 \in 1..n /\ i <= n - c
      BY <1>1, <1>2, <1>3, <1>8, <2>2
    <3>2. q[i] <= q[n - c] /\ q[n - c + 1] <= now
      BY <1>5, <1>6, <3>1
    <3>3. q[n - c] + RateWindow <= q[n - c + 1]
      BY <1>1, <1>2, <1>3, <3>1
    <3>4. q[i] \in Nat /\ q[n - c] \in Nat /\ q[n - c + 1] \in Nat
      BY <1>1, <3>1
    <3>5. now \in Nat /\ RateWindow \in Nat
      BY <1>1, <1>2
    <3> HIDE DEF c, n
    <3> QED
      BY <3>2, <3>3, <3>4, <3>5
  <2> QED
    BY <2>1, <2>2 DEF Allowed, c
<1>9. Spaced(r)
  <2> SUFFICES ASSUME NEW i \in 1..(n + 1), i + RateMaximum <= n + 1
               PROVE  r[i] + RateWindow <= r[i + RateMaximum]
    BY <1>1 DEF Spaced
  <2>1. i \in 1..n
    BY <1>1, <1>2
  <2>2. CASE i + RateMaximum <= n
    <3>1. i + RateMaximum \in 1..n
      BY <1>1, <1>2, <2>1, <2>2
    <3>2. q[i] + RateWindow <= q[i + RateMaximum]
      BY <1>4, <2>1, <2>2
    <3> QED
      BY <1>1, <2>1, <3>1, <3>2
  <2>3. CASE i + RateMaximum = n + 1
    <3>1. q[i] + RateWindow <= now
      BY <1>8, <2>1, <2>3
    <3> QED
      BY <1>1, <2>1, <2>3, <3>1
  <2> QED
    BY <1>1, <1>2, <2>1, <2>2, <2>3
<1>10. RowFits(Consumed(row, now), r)
  <2>1. CASE c = 0 \/ row.lastRequest + RateWindow <= now
    <3>1. Consumed(row, now) = [count |-> 1, lastRequest |-> now]
      BY <2>1 DEF Consumed, c
    <3>2. n > 0 => r[n] + RateWindow <= r[n + 1]
      <4> SUFFICES ASSUME n > 0 PROVE r[n] + RateWindow <= r[n + 1]
        OBVIOUS
      <4>1. n \in 1..n /\ c > 0
        BY <1>1, <1>2, <1>3
      <4>2. q[n] + RateWindow <= now
        BY <1>3, <2>1, <4>1
      <4> QED
        BY <1>1, <4>1, <4>2
    <3>3. n + 1 > 1 => r[n + 1 - 1] + RateWindow <= r[n + 1 - 1 + 1]
      <4>1. n + 1 - 1 = n /\ n + 1 - 1 + 1 = n + 1
        BY <1>1
      <4> QED
        BY <1>1, <3>2, <4>1
    <3> QED
      BY <1>1, <1>2, <3>1, <3>3 DEF RowFits
  <2>2. CASE ~(c = 0 \/ row.lastRequest + RateWindow <= now)
    <3>1. Consumed(row, now) = [count |-> c + 1, lastRequest |-> now] /\ c < RateMaximum
      BY <2>2 DEF Consumed, Allowed, c
    <3>2. n + 1 > c + 1 => r[n + 1 - (c + 1)] + RateWindow <= r[n + 1 - (c + 1) + 1]
      <4> SUFFICES ASSUME n > c PROVE r[n + 1 - (c + 1)] + RateWindow <= r[n + 1 - (c + 1) + 1]
        BY <1>1, <1>2
      <4>1. /\ n - c \in 1..n /\ n - c + 1 \in 1..n
            /\ n + 1 - (c + 1) = n - c
        BY <1>1, <1>2, <2>2
      <4> QED
        BY <1>1, <1>3, <4>1
    <3> QED
      BY <1>1, <1>2, <1>3, <3>1, <3>2 DEF RowFits
  <2> QED
    BY <2>1, <2>2
<1> QED
    BY <1>7, <1>9, <1>10 DEF r

\* Counting keeps the rows in step with the starts.
LEMMA StepRows ==
    ASSUME Typed, StartInv, RowInv, [Next]_vars
    PROVE  RowInv'
<1>1. CASE UNCHANGED limits
    BY <1>1 DEF RowInv, limits, RowFits, Ordered, Spaced
<1>2. ASSUME NEW s \in Suggestions, ConsumeRateLimit(s), ~ UNCHANGED limits PROVE RowInv'
  <2> DEFINE a == account[s]
  <2> DEFINE row == limiter[a]
  <2> DEFINE q == starts[a]
  <2> DEFINE now == readAt[s]
  <2>1. /\ phase[s] = "LIMIT" /\ Allowed(row, now)
        /\ limiter' = [limiter EXCEPT ![a] = Consumed(row, now)]
        /\ starts' = [starts EXCEPT ![a] = Append(q, now)]
    BY <1>2 DEF ConsumeRateLimit
  <2>2. a \in Accounts /\ now \in 0..LastTime
    BY <2>1 DEF Typed, ServiceTyped
  <2>3. row \in [count : Nat, lastRequest : 0..LastTime] /\ q \in Seq(0..LastTime)
    BY <2>2 DEF Typed, LimitsTyped
  <2>4. RowFits(row, q) /\ Ordered(q) /\ Spaced(q) /\ \A i \in 1..Len(q) : q[i] <= now
    BY <2>1, <2>2 DEF RowInv, StartInv
  <2>5. /\ RowFits(Consumed(row, now), Append(q, now))
        /\ Ordered(Append(q, now)) /\ Spaced(Append(q, now))
    BY <2>1, <2>2, <2>3, <2>4, RowAdvances
  <2>6. ASSUME NEW b \in Accounts
        PROVE  RowFits(limiter'[b], starts'[b]) /\ Ordered(starts'[b]) /\ Spaced(starts'[b])
    <3>1. CASE b = a
      <4>1. limiter'[b] = Consumed(row, now) /\ starts'[b] = Append(q, now)
        BY <2>1, <2>2, <3>1 DEF Typed, LimitsTyped
      <4> QED
        BY <2>5, <4>1
    <3>2. CASE b # a
      <4>1. limiter'[b] = limiter[b] /\ starts'[b] = starts[b]
        BY <2>1, <2>2, <3>2 DEF Typed, LimitsTyped
      <4> QED
        BY <4>1 DEF RowInv
    <3> QED
      BY <3>1, <3>2
  <2> QED
    BY <2>6 DEF RowInv, RowFits, Ordered, Spaced
<1>3. CASE ServiceStep
    BY <1>1, <1>2, <1>3 DEF ServiceStep, Ask, ReadSession, Authorize, Reauthorize, Leaves
<1>4. CASE OperationStep
    BY <1>1, <1>4 DEF OperationStep, Fails, Moves, Finishes, LookupEnds
<1>5. CASE Tick \/ BodyStep \/ UNCHANGED vars
    BY <1>1, <1>5 DEF Tick, BodyStep, EndBody, vars
<1> QED
    BY <1>3, <1>4, <1>5, StepCases

\* A step that starts nothing, and brings no request before the limiter.
LEMMA StartsKept ==
    ASSUME StartInv, UNCHANGED <<time, starts>>,
           \A t \in Suggestions :
               phase'[t] = "LIMIT" =>
                   /\ phase[t] = "LIMIT"
                   /\ account'[t] = account[t] /\ readAt'[t] = readAt[t]
    PROVE  StartInv'
BY DEF StartInv

\* Starts are counted in the order of their times.
LEMMA StepStarts ==
    ASSUME Typed, MarkInv, StartInv, [Next]_vars
    PROVE  StartInv'
<1> USE DEF Typed
<1>1. ASSUME NEW s \in Suggestions, Close(s) \/ \E next \in Phases \ {"LIMIT"} : Await(s, next),
             \A t \in Suggestions \ {s} : readAt'[t] = readAt[t], UNCHANGED <<time, starts>>
      PROVE  StartInv'
  <2>1. \A t \in Suggestions : phase'[t] = "LIMIT" => t # s /\ phase[t] = "LIMIT" /\ account'[t] = account[t]
    BY <1>1 DEF ServiceTyped, Close, Await
  <2> QED
    BY <1>1, <2>1, StartsKept
<1>2. ASSUME NEW s \in Suggestions, NEW a \in Accounts, Ask(s, a) PROVE StartInv'
  <2>1. \A t \in Suggestions : phase'[t] = "LIMIT" => t # s /\ phase[t] = "LIMIT" /\ account'[t] = account[t]
    BY <1>2 DEF ServiceTyped, Ask
  <2> QED
    BY <1>2, <2>1, StartsKept DEF Ask, limits
<1>3. ASSUME NEW s \in Suggestions, ReadSession(s) \/ Reauthorize(s) PROVE StartInv'
  <2>1. \A t \in Suggestions \ {s} : readAt'[t] = readAt[t]
    BY <1>3 DEF ReadSession, Reauthorize, Return, Close, ServiceTyped
  <2>2. Close(s) \/ Await(s, "AUTHORIZE")
    BY <1>3 DEF ReadSession, Reauthorize, Return
  <2>3. UNCHANGED <<time, starts>>
    BY <1>3 DEF ReadSession, Reauthorize, limits
  <2> QED
    BY <1>1, <2>1, <2>2, <2>3 DEF Phases
<1>4. ASSUME NEW s \in Suggestions, Authorize(s) PROVE StartInv'
  <2>1. CASE Close(s)
    <3>1. \A t \in Suggestions \ {s} : readAt'[t] = readAt[t]
      BY <2>1 DEF Close, ServiceTyped
    <3> QED
      BY <1>1, <1>4, <2>1, <3>1 DEF Authorize, limits
  <2>2. CASE Await(s, "LIMIT") /\ readAt' = [readAt EXCEPT ![s] = time]
    <3>1. account[s] \in Accounts /\ UNCHANGED <<time, starts, account>>
      BY <1>4, <2>2 DEF Authorize, ServiceTyped, limits, Await
    <3>2. readAt'[s] = time /\ time <= time
      BY <2>2, TopicAssumption DEF ServiceTyped
    <3>3. \A t \in Suggestions \ {s} : readAt'[t] = readAt[t] /\ phase'[t] = phase[t]
      BY <2>2 DEF ServiceTyped, Await
    <3> QED
      BY <3>1, <3>2, <3>3 DEF StartInv
  <2> QED
    BY <1>4, <2>1, <2>2 DEF Authorize
<1>5. ASSUME NEW s \in Suggestions, ConsumeRateLimit(s) PROVE StartInv'
  <2> DEFINE a == account[s]
  <2>1. phase[s] = "LIMIT" /\ a \in Accounts /\ readAt[s] \in 0..LastTime
    BY <1>5 DEF ConsumeRateLimit, ServiceTyped
  <2>2. /\ Close(s) \/ Await(s, "GENERATE")
        /\ readAt' = [readAt EXCEPT ![s] = 0]
        /\ UNCHANGED time
    BY <1>5 DEF ConsumeRateLimit, Generate, Return, Close
  <2>3. \A t \in Suggestions \ {s} : readAt'[t] = readAt[t]
    BY <2>2 DEF ServiceTyped
  <2>4. CASE UNCHANGED starts
    BY <1>1, <2>2, <2>3, <2>4 DEF Phases
  <2>5. CASE starts' = [starts EXCEPT ![a] = Append(starts[a], readAt[s])]
    <3>1. \A t \in Suggestions : phase'[t] = "LIMIT" => t # s /\ phase[t] = "LIMIT" /\ account'[t] = account[t]
      BY <2>2 DEF ServiceTyped, Close, Await
    <3>2. \A t \in Suggestions : t # s /\ phase[t] = "LIMIT" => account[t] # a
      BY <2>1 DEF MarkInv, Holding
    <3>3. \A b \in Accounts : b # a => starts'[b] = starts[b]
      BY <2>5 DEF LimitsTyped
    <3>4. starts[a] \in Seq(0..LastTime) /\ starts'[a] = Append(starts[a], readAt[s])
      BY <2>1, <2>5 DEF LimitsTyped
    <3>5. \A i \in 1..Len(starts'[a]) : starts'[a][i] <= time
      <4>1. /\ Len(starts'[a]) = Len(starts[a]) + 1
            /\ starts'[a][Len(starts[a]) + 1] = readAt[s]
            /\ \A i \in 1..Len(starts[a]) : starts'[a][i] = starts[a][i]
        BY <2>1, <3>4
      <4>2. Len(starts[a]) \in Nat
        BY <3>4
      <4>3. readAt[s] <= time /\ \A i \in 1..Len(starts[a]) : starts[a][i] <= time
        BY <2>1 DEF StartInv
      <4> HIDE DEF a
      <4> QED
        BY <4>1, <4>2, <4>3
    <3>6. ASSUME NEW t \in Suggestions, phase'[t] = "LIMIT"
          PROVE  /\ readAt'[t] <= time
                 /\ \A i \in 1..Len(starts'[account'[t]]) : starts'[account'[t]][i] <= readAt'[t]
      <4>1. /\ t # s /\ phase[t] = "LIMIT" /\ account'[t] = account[t] /\ account[t] # a
            /\ account[t] \in Accounts
        BY <3>1, <3>2, <3>6 DEF ServiceTyped
      <4>2. starts'[account'[t]] = starts[account[t]] /\ readAt'[t] = readAt[t]
        BY <2>3, <3>3, <4>1
      <4> QED
        BY <4>1, <4>2 DEF StartInv
    <3> QED
      BY <2>2, <3>3, <3>5, <3>6 DEF StartInv
  <2> QED
    BY <1>5, <2>4, <2>5 DEF ConsumeRateLimit, limits
<1>6. ASSUME NEW o \in Operations, Fails(o) \/ Finishes(o) PROVE StartInv'
  <2>1. UNCHANGED <<time, starts>>
    BY <1>6 DEF Fails, Finishes, limits
  <2>2. CASE UNCHANGED service
    BY <2>1, <2>2, StartsKept DEF service
  <2>3. CASE o \in Suggestions /\ ~ UNCHANGED service
    <3>1. \/ Close(o)
          \/ Await(o, "REAUTHORIZE") /\ UNCHANGED readAt
      BY <1>6, <2>3, TopicAssumption DEF Fails, Fail, Finishes, Complete, Return
    <3>2. \A t \in Suggestions \ {o} : readAt'[t] = readAt[t]
      BY <3>1 DEF Close, ServiceTyped
    <3> QED
      BY <1>1, <2>1, <2>3, <3>1, <3>2 DEF Phases
  <2> QED
    BY <1>6, <2>2, <2>3 DEF Operations, Fails, Fail, Finishes, Complete
<1>7. CASE UNCHANGED <<time, phase, account, readAt, starts>>
    BY <1>7, StartsKept
<1>8. CASE Tick
  <2>1. /\ time' \in Nat /\ time \in Nat /\ time <= time'
        /\ UNCHANGED <<phase, account, readAt, starts>>
    BY <1>8, TopicAssumption DEF Tick, ServiceTyped, service, limits
  <2>2. ASSUME NEW b \in Accounts, NEW i \in 1..Len(starts[b]) PROVE starts[b][i] <= time'
    <3>1. starts[b][i] \in Nat /\ starts[b][i] <= time
      BY TopicAssumption DEF LimitsTyped, StartInv
    <3> QED
      BY <2>1, <3>1
  <2>3. ASSUME NEW s \in Suggestions, phase[s] = "LIMIT" PROVE readAt[s] <= time'
    <3>1. readAt[s] \in Nat /\ readAt[s] <= time
      BY <2>3, TopicAssumption DEF ServiceTyped, StartInv
    <3> QED
      BY <2>1, <3>1
  <2> QED
    BY <2>1, <2>2, <2>3 DEF StartInv
<1>9. CASE ServiceStep
    BY <1>2, <1>3, <1>4, <1>5, <1>7, <1>9 DEF ServiceStep, Leaves, limits
<1>10. CASE OperationStep
    BY <1>6, <1>7, <1>10 DEF OperationStep, Moves, LookupEnds, service, limits
<1>11. CASE BodyStep \/ UNCHANGED vars
    BY <1>7, <1>11 DEF BodyStep, EndBody, vars, service, limits
<1> QED
    BY <1>8, <1>9, <1>10, <1>11, StepCases

\* A set of natural numbers has a smallest one.
LEMMA Smallest ==
    ASSUME NEW S \in SUBSET Nat, S # {}
    PROVE  \E m \in S : \A i \in S : m <= i
<1> DEFINE R == OpToRel(<, Nat)
<1>1. IsWellFoundedOn(R, Nat)
    BY NatLessThanWellFounded
<1> HIDE DEF R
<1>2. PICK m \in S : \A i \in S : <<i, m>> \notin R
    BY <1>1, WFMin
<1>3. \A i \in S : ~(i < m)
    BY <1>2 DEF R, OpToRel
<1> QED
    BY <1>3

\* Starts whose every RateMaximum-th lies a window away put at most RateMaximum
\* into a window.
LEMMA SpacedStarts ==
    ASSUME NEW q \in Seq(0..LastTime), Ordered(q), Spaced(q), NEW from \in 0..LastTime
    PROVE  Cardinality({i \in DOMAIN q : from <= q[i] /\ q[i] < from + RateWindow}) <= RateMaximum
<1> DEFINE S == {i \in 1..Len(q) : from <= q[i] /\ q[i] < from + RateWindow}
<1> SUFFICES Cardinality(S) <= RateMaximum
  <2>1. DOMAIN q = 1..Len(q)
    OBVIOUS
  <2> QED
    BY <2>1
<1>1. RateMaximum \in Nat /\ RateMaximum > 0 /\ RateWindow \in Nat /\ from \in Nat /\ Len(q) \in Nat
    BY TopicAssumption
<1>2. \A i \in 1..Len(q) : q[i] \in Nat
    BY TopicAssumption
<1>3. CASE S = {}
  <2>1. Cardinality(S) = 0
    BY <1>3, FS_EmptySet
  <2> QED
    BY <1>1, <2>1
<1>4. CASE S # {}
  <2> S \in SUBSET Nat
    OBVIOUS
  <2>1. PICK m \in S : \A i \in S : m <= i
    <3> HIDE DEF S
    <3> QED
      BY <1>4, Smallest
  <2>2. ASSUME NEW i \in S PROVE i \in m..(m + RateMaximum - 1)
    <3>1. m \in 1..Len(q) /\ i \in 1..Len(q) /\ m <= i
      BY <2>1
    <3>2. CASE m + RateMaximum <= i
      <4>1. m + RateMaximum \in 1..Len(q)
        BY <1>1, <3>1, <3>2
      <4>2. q[m] + RateWindow <= q[m + RateMaximum]
        BY <3>1, <4>1 DEF Spaced
      <4>3. q[m + RateMaximum] <= q[i]
        BY <3>1, <3>2, <4>1 DEF Ordered
      <4>4. from <= q[m] /\ q[i] < from + RateWindow
        BY <2>1
      <4>5. q[m] \in Nat /\ q[i] \in Nat /\ q[m + RateMaximum] \in Nat
        BY <1>2, <3>1, <4>1
      <4> QED
        BY <1>1, <4>2, <4>3, <4>4, <4>5
    <3> QED
      BY <1>1, <3>1, <3>2
  <2> DEFINE interval == m..(m + RateMaximum - 1)
  <2>3. m \in Nat
    BY <2>1
  <2>4. IsFiniteSet(interval) /\ Cardinality(interval) = RateMaximum
    <3>1. m \in Int /\ m + RateMaximum - 1 \in Int
      BY <1>1, <2>3
    <3>2. \A i, j \in Int : IsFiniteSet(i..j) /\ Cardinality(i..j) = IF i > j THEN 0 ELSE j - i + 1
      BY FS_Interval
    <3> DEFINE last == m + RateMaximum - 1
    <3>3. last \in Int /\ ~(m > last) /\ last - m + 1 = RateMaximum
      BY <1>1, <2>3
    <3> HIDE DEF last
    <3>4. IsFiniteSet(m..last) /\ Cardinality(m..last) = RateMaximum
      BY <3>1, <3>2, <3>3, Zenon
    <3> QED
      BY <3>4 DEF last
  <2>5. S \in SUBSET interval
    BY <2>2
  <2>6. Cardinality(S) <= Cardinality(interval)
    BY <2>4, <2>5, FS_Subset
  <2> QED
    BY <2>4, <2>6
<1> QED
    BY <1>3, <1>4

\* No window, wherever it begins, sees more suggestions of an account than the
\* limit, although the limiter keeps one number and one time.
THEOREM StartsStayWithinWindow == Spec => []StartsWithinWindow
<1> DEFINE Inv == Typed /\ MarkInv /\ StartInv /\ RowInv
<1>1. Init => Inv
  <2> SUFFICES ASSUME Init PROVE Inv
    OBVIOUS
  <2>1. \A a \in Accounts : starts[a] = <<>> /\ limiter[a].count = 0
    BY DEF Init
  <2>2. StartInv
    BY <2>1 DEF StartInv, Init
  <2>3. RowInv
    BY <2>1, TopicAssumption DEF RowInv, RowFits, Ordered, Spaced
  <2> QED
    BY <2>2, <2>3, InitTyped, InitMarks
<1>2. Inv /\ [Next]_vars => Inv'
    BY StepTyped, StepMarks, StepStarts, StepRows
<1>3. Inv => StartsWithinWindow
  <2> SUFFICES ASSUME Inv, NEW a \in Accounts, NEW from \in 0..LastTime
               PROVE  Cardinality({i \in DOMAIN starts[a] :
                          from <= starts[a][i] /\ starts[a][i] < from + RateWindow}) <= RateMaximum
    BY DEF StartsWithinWindow
  <2>1. starts[a] \in Seq(0..LastTime) /\ Ordered(starts[a]) /\ Spaced(starts[a])
    BY DEF Typed, LimitsTyped, RowInv
  <2> QED
    BY <2>1, SpacedStarts
<1> QED
    BY <1>1, <1>2, <1>3, PTL DEF Spec
=============================================================================
