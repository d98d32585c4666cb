----------------------------- MODULE CurlProofs -----------------------------
(***************************************************************************)
(* Ownership of curl handles, for any number of clients, threads and       *)
(* handles.  HandlesOwned is not inductive: a thread that starts must find *)
(* no handle in its client (ThreadsOwnNothingElse), and what an exchange   *)
(* runs on must still be the handle of its object (RunsOnOwnHandle).       *)
(*                                                                         *)
(* What exchanges return, for any number of chunks: ResponsesWhole is not  *)
(* inductive, since the response is made of an exchange that is gone once  *)
(* the caller has it.  What an exchange has received and why it ended must *)
(* cohere while it runs (ExchangeInv), and what was returned must carry    *)
(* that on (OutcomeInv).                                                   *)
(***************************************************************************)
EXTENDS CurlHttpClient, TLAPS

FutureKinds == {"none", "started", "running", "init_failed", "error", "response"}

Results == {"none", "ok", "error"}

\* Wider than Exchanges: ownership does not depend on how much was received
Transfers ==
  [handle : Handles \cup {Null}, streaming : BOOLEAN, sent : Nat, got : Nat,
   aborted : BOOLEAN, result : Results]
Outcomes ==
  [kind : FutureKinds, body : Nat, streaming : BOOLEAN, sent : Nat,
   aborted : BOOLEAN, result : Results]

TypeInv ==
  /\ handles \subseteq Handles
  /\ impl \in [Objects -> Handles \cup {Null, NoObject}]
  /\ exchange \in [Objects -> Transfers]
  /\ future \in [Tasks -> Outcomes]

RunsOnOwnHandle ==
  \A o \in Objects : Active(o) =>
     impl[o] \in Handles /\ exchange[o].handle = impl[o]

ThreadsOwnNothingElse ==
  \A t \in Tasks : impl[t] # NoObject => future[t].kind = "running"

OwnershipInv ==
  TypeInv /\ HandlesOwned /\ RunsOnOwnHandle /\ ThreadsOwnNothingElse
-----------------------------------------------------------------------------
(***************************************************************************)
(* Type correctness.                                                       *)
(***************************************************************************)
\* The records the actions store have their types.
LEMMA RecordTypes ==
  /\ NoExchange \in Transfers
  /\ Nothing \in Outcomes
  /\ InitFailed \in Outcomes
  /\ \A ex \in Transfers : Returned(ex) \in Outcomes
BY DEF NoExchange, Transfers, Nothing, InitFailed, Outcome, Outcomes,
       FutureKinds, Results, Returned

\* Every step of the clients and the threads keeps TypeInv.
LEMMA TypeStep ==
  ASSUME TypeInv, [Next]_vars
  PROVE  TypeInv'
<1> USE DEF TypeInv
<1> USE RecordTypes
<1>1. ASSUME NEW c \in Clients, NEW timeout \in Timeouts, Construct(c, timeout)
      PROVE  TypeInv'
  BY <1>1 DEF Construct, Objects
<1>2. ASSUME NEW c \in Clients, ConstructFails(c) PROVE TypeInv'
  BY <1>2 DEF ConstructFails
<1>3. ASSUME NEW c \in Clients, Destroy(c) PROVE TypeInv'
  BY <1>3 DEF Destroy, Objects
<1>4. ASSUME NEW from \in Clients, NEW to \in Clients, MoveConstruct(from, to)
      PROVE  TypeInv'
  BY <1>4 DEF MoveConstruct, TakeOver, Objects
<1>5. ASSUME NEW from \in Clients, NEW to \in Clients, MoveAssign(from, to)
      PROVE  TypeInv'
  BY <1>5 DEF MoveAssign, TakeOver, Objects
<1>6. ASSUME NEW c \in Clients, NEW streaming \in BOOLEAN, Post(c, streaming)
      PROVE  TypeInv'
  <2>1. impl[c] \in Handles
    BY <1>6 DEF Post, Usable
  <2>2. [NoExchange EXCEPT !.handle = impl[c], !.streaming = streaming] \in Transfers
    BY <2>1 DEF Transfers
  <2> QED
    BY <1>6, <2>2 DEF Post, Objects
<1>7. ASSUME NEW c \in Clients, NEW t \in Tasks, AsyncPost(c, t) PROVE TypeInv'
  <2>1. [future[t] EXCEPT !.kind = "started"] \in Outcomes
    BY DEF Outcomes, FutureKinds
  <2> QED
    BY <1>7, <2>1 DEF AsyncPost
<1>8. ASSUME NEW c \in Clients, PostReturns(c) PROVE TypeInv'
  BY <1>8 DEF PostReturns, Objects
<1>9. ASSUME NEW t \in Tasks, GetFuture(t) PROVE TypeInv'
  BY <1>9 DEF GetFuture
<1>10. ASSUME NEW t \in Tasks, TaskPosts(t) PROVE TypeInv'
  <2>1. [future[t] EXCEPT !.kind = "running"] \in Outcomes
    BY DEF Outcomes, FutureKinds
  <2>2. \A h \in Handles : [NoExchange EXCEPT !.handle = h] \in Transfers
    BY DEF Transfers
  <2> QED
    BY <1>10, <2>1, <2>2 DEF TaskPosts, Objects
<1>11. ASSUME NEW t \in Tasks, TaskInitFails(t) PROVE TypeInv'
  BY <1>11 DEF TaskInitFails
<1>12. ASSUME NEW t \in Tasks, TaskReturns(t) PROVE TypeInv'
  BY <1>12 DEF TaskReturns, Objects
<1>13. ASSUME NEW o \in Objects, Transfer(o) PROVE TypeInv'
  <2>1. \A ex \in Transfers : Update(o, ex) => TypeInv'
    BY DEF Update
  <2>2. CASE \E more \in BOOLEAN : WriteCallback(o, more)
    <3>1. PICK more \in BOOLEAN : WriteCallback(o, more)
      BY <2>2
    <3>2. exchange[o] \in Transfers
      OBVIOUS
    <3>3. \A n, m \in Nat, stop \in BOOLEAN, r \in Results :
            [exchange[o] EXCEPT !.sent = n, !.got = m, !.aborted = stop,
                                !.result = r] \in Transfers
      BY <3>2 DEF Transfers
    <3>4. /\ exchange[o].sent + 1 \in Nat /\ exchange[o].got + 1 \in Nat
          /\ (exchange[o].aborted \/ ~ more) \in BOOLEAN
          /\ (IF TakesAll(more) THEN exchange[o].result ELSE "error") \in Results
      BY <3>2 DEF Transfers, Results
    <3> QED
      BY <3>1, <3>3, <3>4, <2>1 DEF WriteCallback
  <2>3. CASE Complete(o)
    BY <2>1, <2>3 DEF Complete, Transfers, Results
  <2>4. CASE Break(o)
    BY <2>1, <2>4 DEF Break, Transfers, Results
  <2>5. CASE TimeOut(o)
    BY <2>1, <2>5 DEF TimeOut, Transfers, Results
  <2> QED
    BY <1>13, <2>2, <2>3, <2>4, <2>5 DEF Transfer
<1>14. ASSUME UNCHANGED vars PROVE TypeInv'
  BY <1>14 DEF vars
<1> QED
  BY <1>1, <1>2, <1>3, <1>4, <1>5, <1>6, <1>7, <1>8, <1>9, <1>10, <1>11, <1>12,
     <1>13, <1>14 DEF Next, Lifetime, Calls, TaskStep
-----------------------------------------------------------------------------
(***************************************************************************)
(* Ownership.                                                              *)
(***************************************************************************)
\* HandlesOwned without the set of all owned handles
OwnersMatch ==
  /\ \A o \in Objects : impl[o] \in Handles => impl[o] \in handles
  /\ \A h \in handles : h \in Handles /\ \E o \in Objects : impl[o] = h
  /\ \A o, p \in Objects : o # p /\ impl[o] \in Handles => impl[o] # impl[p]

\* The two ways of saying who owns the handles agree.
LEMMA OwnersMatchHandles == OwnersMatch <=> HandlesOwned
BY DEF OwnersMatch, HandlesOwned

\* They agree in the next state as well.
LEMMA OwnersMatchHandlesNext == OwnersMatch' <=> HandlesOwned'
BY DEF OwnersMatch, HandlesOwned

\* No thread holds a handle before it has started or after it has returned, and
\* no step of the caller or of another thread gives it one.
LEMMA ThreadsStep ==
  ASSUME OwnershipInv, [Next]_vars
  PROVE  ThreadsOwnNothingElse'
<1> USE DEF OwnershipInv, TypeInv, ThreadsOwnNothingElse
<1> USE CurlAssumption
<1>1. ASSUME NEW c \in Clients, NEW timeout \in Timeouts, Construct(c, timeout)
      PROVE  ThreadsOwnNothingElse'
  BY <1>1 DEF Construct, Objects
<1>2. ASSUME NEW c \in Clients, ConstructFails(c) PROVE ThreadsOwnNothingElse'
  BY <1>2 DEF ConstructFails
<1>3. ASSUME NEW c \in Clients, Destroy(c) PROVE ThreadsOwnNothingElse'
  BY <1>3 DEF Destroy, Objects
<1>4. ASSUME NEW from \in Clients, NEW to \in Clients, MoveConstruct(from, to)
      PROVE  ThreadsOwnNothingElse'
  BY <1>4 DEF MoveConstruct, TakeOver, Objects
<1>5. ASSUME NEW from \in Clients, NEW to \in Clients, MoveAssign(from, to)
      PROVE  ThreadsOwnNothingElse'
  BY <1>5 DEF MoveAssign, TakeOver, Objects
<1>6. ASSUME NEW c \in Clients, NEW streaming \in BOOLEAN, Post(c, streaming)
      PROVE  ThreadsOwnNothingElse'
  BY <1>6 DEF Post
<1>7. ASSUME NEW c \in Clients, NEW t \in Tasks, AsyncPost(c, t)
      PROVE  ThreadsOwnNothingElse'
  <2>1. impl[t] = NoObject
    BY <1>7 DEF AsyncPost, Nothing, Outcome
  <2> QED
    BY <1>7, <2>1 DEF AsyncPost
<1>8. ASSUME NEW c \in Clients, PostReturns(c) PROVE ThreadsOwnNothingElse'
  BY <1>8 DEF PostReturns
<1>9. ASSUME NEW t \in Tasks, GetFuture(t) PROVE ThreadsOwnNothingElse'
  BY <1>9 DEF GetFuture
<1>10. ASSUME NEW t \in Tasks, TaskPosts(t) PROVE ThreadsOwnNothingElse'
  <2>1. [future[t] EXCEPT !.kind = "running"].kind = "running"
    BY DEF Outcomes
  <2> QED
    BY <1>10, <2>1 DEF TaskPosts, Objects
<1>11. ASSUME NEW t \in Tasks, TaskInitFails(t) PROVE ThreadsOwnNothingElse'
  BY <1>11 DEF TaskInitFails
<1>12. ASSUME NEW t \in Tasks, TaskReturns(t) PROVE ThreadsOwnNothingElse'
  BY <1>12 DEF TaskReturns, Objects
<1>13. ASSUME NEW o \in Objects, Transfer(o) PROVE ThreadsOwnNothingElse'
  BY <1>13 DEF Transfer, WriteCallback, Complete, Break, TimeOut, Update
<1>14. ASSUME UNCHANGED vars PROVE ThreadsOwnNothingElse'
  BY <1>14 DEF vars
<1> QED
  BY <1>1, <1>2, <1>3, <1>4, <1>5, <1>6, <1>7, <1>8, <1>9, <1>10, <1>11, <1>12,
     <1>13, <1>14 DEF Next, Lifetime, Calls, TaskStep

\* Handles are initialised for one object, cleaned up with it, and handed from
\* one object to another by the moves only.
LEMMA OwnersStep ==
  ASSUME OwnershipInv, [Next]_vars
  PROVE  OwnersMatch'
<1> USE DEF OwnershipInv, TypeInv, OwnersMatch
<1> USE CurlAssumption, OwnersMatchHandles
<1>1. ASSUME NEW c \in Clients, NEW timeout \in Timeouts, Construct(c, timeout)
      PROVE  OwnersMatch'
  BY <1>1 DEF Construct, Objects
<1>2. ASSUME NEW c \in Clients, ConstructFails(c) PROVE OwnersMatch'
  BY <1>2 DEF ConstructFails
<1>3. ASSUME NEW c \in Clients, Destroy(c) PROVE OwnersMatch'
  BY <1>3 DEF Destroy, Objects
<1>4. ASSUME NEW from \in Clients, NEW to \in Clients, MoveConstruct(from, to)
      PROVE  OwnersMatch'
  BY <1>4 DEF MoveConstruct, TakeOver, Objects
<1>5. ASSUME NEW from \in Clients, NEW to \in Clients, MoveAssign(from, to)
      PROVE  OwnersMatch'
  BY <1>5 DEF MoveAssign, TakeOver, Objects
<1>6. ASSUME NEW c \in Clients, NEW streaming \in BOOLEAN, Post(c, streaming)
      PROVE  OwnersMatch'
  BY <1>6 DEF Post
<1>7. ASSUME NEW c \in Clients, NEW t \in Tasks, AsyncPost(c, t)
      PROVE  OwnersMatch'
  BY <1>7 DEF AsyncPost
<1>8. ASSUME NEW c \in Clients, PostReturns(c) PROVE OwnersMatch'
  BY <1>8 DEF PostReturns
<1>9. ASSUME NEW t \in Tasks, GetFuture(t) PROVE OwnersMatch'
  BY <1>9 DEF GetFuture
<1>10. ASSUME NEW t \in Tasks, TaskPosts(t) PROVE OwnersMatch'
  <2>1. impl[t] = NoObject
    BY <1>10 DEF TaskPosts, ThreadsOwnNothingElse
  <2> QED
    BY <1>10, <2>1 DEF TaskPosts, Objects
<1>11. ASSUME NEW t \in Tasks, TaskInitFails(t) PROVE OwnersMatch'
  BY <1>11 DEF TaskInitFails
<1>12. ASSUME NEW t \in Tasks, TaskReturns(t) PROVE OwnersMatch'
  BY <1>12 DEF TaskReturns, Objects
<1>13. ASSUME NEW o \in Objects, Transfer(o) PROVE OwnersMatch'
  BY <1>13 DEF Transfer, WriteCallback, Complete, Break, TimeOut, Update
<1>14. ASSUME UNCHANGED vars PROVE OwnersMatch'
  BY <1>14 DEF vars
<1> QED
  BY <1>1, <1>2, <1>3, <1>4, <1>5, <1>6, <1>7, <1>8, <1>9, <1>10, <1>11, <1>12,
     <1>13, <1>14 DEF Next, Lifetime, Calls, TaskStep

\* A client is moved, assigned or destroyed only while no exchange runs on it,
\* and a thread's client has no other name.
LEMMA RunsStep ==
  ASSUME OwnershipInv, [Next]_vars
  PROVE  RunsOnOwnHandle'
<1> USE DEF OwnershipInv, TypeInv, RunsOnOwnHandle, Active
<1> USE CurlAssumption
<1>1. ASSUME NEW c \in Clients, NEW timeout \in Timeouts, Construct(c, timeout)
      PROVE  RunsOnOwnHandle'
  BY <1>1 DEF Construct, CallerFree, Objects
<1>2. ASSUME NEW c \in Clients, ConstructFails(c) PROVE RunsOnOwnHandle'
  BY <1>2 DEF ConstructFails
<1>3. ASSUME NEW c \in Clients, Destroy(c) PROVE RunsOnOwnHandle'
  BY <1>3 DEF Destroy, CallerFree, Objects
<1>4. ASSUME NEW from \in Clients, NEW to \in Clients, MoveConstruct(from, to)
      PROVE  RunsOnOwnHandle'
  BY <1>4 DEF MoveConstruct, TakeOver, CallerFree, Objects
<1>5. ASSUME NEW from \in Clients, NEW to \in Clients, MoveAssign(from, to)
      PROVE  RunsOnOwnHandle'
  BY <1>5 DEF MoveAssign, TakeOver, CallerFree, Objects
<1>6. ASSUME NEW c \in Clients, NEW streaming \in BOOLEAN, Post(c, streaming)
      PROVE  RunsOnOwnHandle'
  <2>1. [NoExchange EXCEPT !.handle = impl[c], !.streaming = streaming].handle
          = impl[c]
    BY DEF NoExchange
  <2> QED
    BY <1>6, <2>1 DEF Post, Usable, Objects
<1>7. ASSUME NEW c \in Clients, NEW t \in Tasks, AsyncPost(c, t)
      PROVE  RunsOnOwnHandle'
  BY <1>7 DEF AsyncPost
<1>8. ASSUME NEW c \in Clients, PostReturns(c) PROVE RunsOnOwnHandle'
  BY <1>8 DEF PostReturns, Objects
<1>9. ASSUME NEW t \in Tasks, GetFuture(t) PROVE RunsOnOwnHandle'
  BY <1>9 DEF GetFuture
<1>10. ASSUME NEW t \in Tasks, TaskPosts(t) PROVE RunsOnOwnHandle'
  <2>1. \A h \in Handles : [NoExchange EXCEPT !.handle = h].handle = h
    BY DEF NoExchange
  <2> QED
    BY <1>10, <2>1 DEF TaskPosts, Objects
<1>11. ASSUME NEW t \in Tasks, TaskInitFails(t) PROVE RunsOnOwnHandle'
  BY <1>11 DEF TaskInitFails
<1>12. ASSUME NEW t \in Tasks, TaskReturns(t) PROVE RunsOnOwnHandle'
  BY <1>12 DEF TaskReturns, Objects
<1>13. ASSUME NEW o \in Objects, Transfer(o) PROVE RunsOnOwnHandle'
  <2>1. \A ex : Active(o) /\ ex.handle = exchange[o].handle /\ Update(o, ex)
                  => RunsOnOwnHandle'
    BY DEF Update
  <2>2. exchange[o] \in Transfers
    OBVIOUS
  <2>3. \A r : [exchange[o] EXCEPT !.result = r].handle = exchange[o].handle
    BY <2>2 DEF Transfers
  <2>4. \A n, m, stop, r :
          [exchange[o] EXCEPT !.sent = n, !.got = m, !.aborted = stop,
                              !.result = r].handle = exchange[o].handle
    BY <2>2 DEF Transfers
  <2>5. ASSUME NEW more \in BOOLEAN, WriteCallback(o, more)
        PROVE  RunsOnOwnHandle'
    <3> DEFINE ex ==
          [exchange[o] EXCEPT
             !.sent = exchange[o].sent + 1, !.got = exchange[o].got + 1,
             !.aborted = exchange[o].aborted \/ ~ more,
             !.result = IF TakesAll(more) THEN exchange[o].result ELSE "error"]
    <3>1. Active(o) /\ Update(o, ex)
      BY <2>5 DEF WriteCallback, Receiving
    <3>2. ex.handle = exchange[o].handle
      BY <2>4
    <3> HIDE DEF ex
    <3> QED
      BY <2>1, <3>1, <3>2
  <2>6. CASE Complete(o)
    BY <2>1, <2>3, <2>6 DEF Complete, Receiving
  <2>7. CASE Break(o)
    BY <2>1, <2>3, <2>7 DEF Break, Receiving
  <2>8. CASE TimeOut(o)
    BY <2>1, <2>3, <2>8 DEF TimeOut, Receiving
  <2> QED
    BY <1>13, <2>5, <2>6, <2>7, <2>8 DEF Transfer
<1>14. ASSUME UNCHANGED vars PROVE RunsOnOwnHandle'
  BY <1>14 DEF vars
<1> QED
  BY <1>1, <1>2, <1>3, <1>4, <1>5, <1>6, <1>7, <1>8, <1>9, <1>10, <1>11, <1>12,
     <1>13, <1>14 DEF Next, Lifetime, Calls, TaskStep
-----------------------------------------------------------------------------
\* The ownership invariant holds in every reachable state.
THEOREM OwnershipInvariant == Spec => []OwnershipInv
<1>1. Init => OwnershipInv
  <2> SUFFICES ASSUME Init PROVE OwnershipInv
    OBVIOUS
  <2>1. TypeInv
    BY RecordTypes DEF Init, TypeInv
  <2>2. HandlesOwned
    BY CurlAssumption, OwnersMatchHandles DEF Init, OwnersMatch
  <2>3. RunsOnOwnHandle
    BY DEF Init, RunsOnOwnHandle, Active
  <2>4. ThreadsOwnNothingElse
    BY DEF Init, ThreadsOwnNothingElse, Objects
  <2> QED
    BY <2>1, <2>2, <2>3, <2>4 DEF OwnershipInv
<1>2. OwnershipInv /\ [Next]_vars => OwnershipInv'
  <2> SUFFICES ASSUME OwnershipInv, [Next]_vars PROVE OwnershipInv'
    OBVIOUS
  <2>1. TypeInv'
    BY TypeStep DEF OwnershipInv
  <2>2. HandlesOwned'
    BY OwnersStep, OwnersMatchHandlesNext
  <2>3. RunsOnOwnHandle'
    BY RunsStep
  <2>4. ThreadsOwnNothingElse'
    BY ThreadsStep
  <2> QED
    BY <2>1, <2>2, <2>3, <2>4 DEF OwnershipInv
<1> QED
  BY <1>1, <1>2, PTL DEF Spec

\* Whatever is constructed, moved, assigned and destroyed while threads post,
\* every live handle has exactly one owner and every owner a live handle
\* (CurlHttpClient's special members and async_post).
THEOREM HandlesAlwaysOwned == Spec => []HandlesOwned
<1>1. OwnershipInv => HandlesOwned
  BY DEF OwnershipInv
<1> QED
  BY <1>1, OwnershipInvariant, PTL

\* Every exchange runs on a live handle, and no two on the same one
\* (perform_post on the caller's thread and on those of async_post).
THEOREM ExchangesAlwaysApart == Spec => []ExchangesApart
<1>1. OwnershipInv => ExchangesApart
  BY OwnersMatchHandles
     DEF OwnershipInv, OwnersMatch, RunsOnOwnHandle, ExchangesApart
<1> QED
  BY <1>1, OwnershipInvariant, PTL
-----------------------------------------------------------------------------
(***************************************************************************)
(* What exchanges return.  An exchange that its callback stopped has its   *)
(* result from then on, so curl asks the callback no more; and all that    *)
(* arrived has been taken.                                                 *)
(***************************************************************************)
Coherent(ex) ==
  /\ ex \in Exchanges
  /\ ex.got = ex.sent
  /\ ex.aborted => ex.result = "error" /\ ex.streaming

ExchangeInv == \A o \in Objects : Coherent(exchange[o])

\* What a call that is over says of its exchange
Faithful(result) ==
  /\ result.kind = "response" =>
        /\ result.result = "ok" \/ result.aborted
        /\ result.body = IF result.streaming THEN 0 ELSE result.sent
  /\ result.kind = "error" => result.result = "error" /\ ~ result.aborted

OutcomeInv ==
  /\ outcome.kind \in {"none", "init_failed", "error", "response"}
  /\ Faithful(outcome)
  /\ \A t \in Tasks : Faithful(future[t])

ConfigInv == config \in [Objects -> Nat]

ReturnInv == ConfigInv /\ ExchangeInv /\ OutcomeInv

\* The exchanges a post starts with have received nothing
LEMMA NewExchange ==
  /\ Coherent(NoExchange)
  /\ \A h \in Handles : Coherent([NoExchange EXCEPT !.handle = h])
  /\ \A h \in Handles, streaming \in BOOLEAN :
        Coherent([NoExchange EXCEPT !.handle = h, !.streaming = streaming])
<1>1. NoExchange \in Exchanges /\ 0 \in 0..MaxChunks
  BY CurlAssumption DEF NoExchange, Exchanges
<1>2. ASSUME NEW h \in Handles \cup {Null}, NEW streaming \in BOOLEAN
      PROVE  /\ Coherent([NoExchange EXCEPT !.handle = h])
             /\ Coherent([NoExchange EXCEPT !.handle = h, !.streaming = streaming])
  BY <1>1 DEF Coherent, NoExchange, Exchanges
<1> QED BY <1>1, <1>2 DEF Coherent, NoExchange

\* An exchange with as much taken as sent, and a refusal only as its result
LEMMA Replaced ==
  ASSUME NEW old \in Exchanges, NEW n \in 0..MaxChunks, NEW a \in BOOLEAN,
         NEW r \in {"none", "ok", "error"}, a => r = "error" /\ old.streaming
  PROVE  Coherent([old EXCEPT !.sent = n, !.got = n, !.aborted = a, !.result = r])
BY DEF Exchanges, Coherent

\* A chunk that arrives is taken, and the callback's refusal is the result
LEMMA ChunkCoherent ==
  ASSUME NEW old, Coherent(old), old.result = "none", old.sent < MaxChunks,
         NEW more \in BOOLEAN, ~ old.streaming => more
  PROVE  Coherent([old EXCEPT !.sent = @ + 1, !.got = @ + 1, !.aborted = @ \/ ~ more,
                              !.result = IF TakesAll(more) THEN @ ELSE "error"])
<1> DEFINE n == old.sent + 1
           a == old.aborted \/ ~ more
           r == IF more THEN "none" ELSE "error"
<1>1. /\ old \in Exchanges /\ old.got = old.sent /\ ~ old.aborted
  BY DEF Coherent
<1>2. old.sent \in 0..MaxChunks /\ old.streaming \in BOOLEAN
  BY <1>1 DEF Exchanges
<1>3. n \in 0..MaxChunks
  BY <1>2, CurlAssumption
<1>4. a \in BOOLEAN /\ r \in {"none", "ok", "error"} /\ (a => ~ more)
  BY <1>1
<1>5. (IF TakesAll(more) THEN old.result ELSE "error") = r /\ old.got + 1 = n
  BY <1>1 DEF TakesAll
<1>6. a => r = "error" /\ old.streaming
  BY <1>2, <1>4
<1> HIDE DEF n, a, r
<1>7. Coherent([old EXCEPT !.sent = n, !.got = n, !.aborted = a, !.result = r])
  BY <1>1, <1>3, <1>4, <1>6, Replaced
<1> QED BY <1>5, <1>7 DEF n, a

\* A transfer takes every chunk that arrives, and the callback's refusal is its
\* result
LEMMA TransferCoherent ==
  ASSUME NEW o \in Objects, exchange \in [Objects -> Transfers], ExchangeInv, Transfer(o)
  PROVE  ExchangeInv'
<1> DEFINE old == exchange[o]
<1>1. Coherent(old)
  BY DEF ExchangeInv
<1>2. \A ex : Coherent(ex) /\ Update(o, ex) => ExchangeInv'
  BY DEF ExchangeInv, Update
<1>3. ASSUME NEW more \in BOOLEAN, WriteCallback(o, more) PROVE ExchangeInv'
  <2> DEFINE new == [old EXCEPT !.sent = @ + 1, !.got = @ + 1, !.aborted = @ \/ ~ more,
                                !.result = IF TakesAll(more) THEN @ ELSE "error"]
  <2>1. /\ old.sent < MaxChunks /\ old.result = "none" /\ (~ old.streaming => more)
        /\ Update(o, new)
    BY <1>3 DEF WriteCallback, Receiving
  <2>2. Coherent(new)
    BY <1>1, <2>1, ChunkCoherent
  <2> HIDE DEF new
  <2> QED BY <1>2, <2>1, <2>2
<1>4. ASSUME Receiving(o), NEW r \in {"ok", "error"}, Update(o, [old EXCEPT !.result = r])
      PROVE  ExchangeInv'
  <2>1. Coherent([old EXCEPT !.result = r])
    BY <1>1, <1>4 DEF Coherent, Exchanges, Receiving
  <2> QED BY <1>2, <1>4, <2>1
<1>5. CASE Complete(o)
  BY <1>4, <1>5 DEF Complete
<1>6. CASE Break(o) \/ TimeOut(o)
  BY <1>4, <1>6 DEF Break, TimeOut
<1> QED BY <1>3, <1>5, <1>6 DEF Transfer

\* What a transfer that is over returns is what became of it
LEMMA ReturnedFaithful ==
  ASSUME NEW o \in Objects, ExchangeInv, Performed(o)
  PROVE  /\ Returned(exchange[o]).kind \in {"error", "response"}
         /\ Faithful(Returned(exchange[o]))
<1>1. Coherent(exchange[o]) /\ exchange[o].result \in {"ok", "error"}
  BY DEF ExchangeInv, Performed, Receiving, Coherent, Exchanges
<1> QED BY <1>1 DEF Returned, Throws, Outcome, Faithful, Coherent

\* What no exchange stands behind says nothing of one
LEMMA PlainFaithful ==
  /\ Faithful(Nothing) /\ Nothing.kind = "none"
  /\ Faithful(InitFailed) /\ InitFailed.kind = "init_failed"
  /\ \A f \in Outcomes, kind \in {"started", "running"} : Faithful([f EXCEPT !.kind = kind])
BY DEF Nothing, InitFailed, Outcome, Faithful, Outcomes

\* Transfers stay coherent: posts start new ones, returns end them
LEMMA ExchangeStep ==
  ASSUME TypeInv, ExchangeInv, [Next]_vars
  PROVE  ExchangeInv'
<1>0. /\ exchange \in [Objects -> Transfers]
      /\ \A o \in Objects : \A ex :
            Coherent(ex) /\ exchange' = [exchange EXCEPT ![o] = ex] => ExchangeInv'
  BY DEF TypeInv, ExchangeInv
<1>1. ASSUME UNCHANGED exchange PROVE ExchangeInv'
  BY <1>1 DEF ExchangeInv
<1>2. CASE Lifetime
  BY <1>1, <1>2 DEF Lifetime, Construct, ConstructFails, Destroy, MoveConstruct, MoveAssign
<1>3. ASSUME NEW c \in Clients, NEW streaming \in BOOLEAN, Post(c, streaming)
      PROVE  ExchangeInv'
  BY <1>0, <1>3, NewExchange DEF Post, Usable, Objects
<1>4. ASSUME NEW c \in Clients, PostReturns(c) PROVE ExchangeInv'
  BY <1>0, <1>4, NewExchange DEF PostReturns, Objects
<1>5. ASSUME NEW t \in Tasks, TaskPosts(t) PROVE ExchangeInv'
  BY <1>0, <1>5, NewExchange DEF TaskPosts, Objects
<1>6. ASSUME NEW t \in Tasks, TaskReturns(t) PROVE ExchangeInv'
  BY <1>0, <1>6, NewExchange DEF TaskReturns, Objects
<1>7. CASE Calls
  BY <1>1, <1>3, <1>4, <1>7 DEF Calls, AsyncPost, GetFuture
<1>8. ASSUME NEW t \in Tasks, TaskStep(t) PROVE ExchangeInv'
  BY <1>1, <1>5, <1>6, <1>8 DEF TaskStep, TaskInitFails
<1>9. ASSUME NEW o \in Objects, Transfer(o) PROVE ExchangeInv'
  BY <1>0, <1>9, TransferCoherent
<1>10. CASE UNCHANGED vars
  BY <1>1, <1>10 DEF vars
<1> QED BY <1>2, <1>7, <1>8, <1>9, <1>10 DEF Next

\* The caller and the threads are handed what their exchanges return
LEMMA OutcomeStep ==
  ASSUME TypeInv, ExchangeInv, OutcomeInv, [Next]_vars
  PROVE  OutcomeInv'
<1>0. future \in [Tasks -> Outcomes]
  BY DEF TypeInv
<1>1. ASSUME UNCHANGED future, outcome' \in {outcome, Nothing, InitFailed}
      PROVE  OutcomeInv'
  BY <1>1, PlainFaithful DEF OutcomeInv
<1>2. ASSUME NEW t \in Tasks, NEW f, Faithful(f), future' = [future EXCEPT ![t] = f],
             outcome' \in {outcome, Nothing, future[t]},
             outcome' = future[t] => future[t].kind \notin {"none", "started", "running"}
                                     \/ future[t] \in {outcome, Nothing}
      PROVE  OutcomeInv'
  <2>1. Faithful(outcome')
    BY <1>2, PlainFaithful DEF OutcomeInv
  <2>2. outcome'.kind \in {"none", "init_failed", "error", "response"}
    BY <1>0, <1>2, PlainFaithful DEF OutcomeInv, Outcomes, FutureKinds
  <2>3. \A u \in Tasks : Faithful(future'[u])
    BY <1>0, <1>2 DEF OutcomeInv
  <2> QED BY <2>1, <2>2, <2>3 DEF OutcomeInv
<1>3. CASE Lifetime
  BY <1>1, <1>3 DEF Lifetime, Construct, ConstructFails, Destroy, MoveConstruct, MoveAssign
<1>4. ASSUME NEW c \in Clients, PostReturns(c) PROVE OutcomeInv'
  <2>1. /\ Returned(exchange[c]).kind \in {"error", "response"}
        /\ Faithful(Returned(exchange[c]))
    BY <1>4, ReturnedFaithful DEF PostReturns, Objects
  <2>2. outcome' = Returned(exchange[c]) /\ future' = future
    BY <1>4 DEF PostReturns
  <2> QED BY <2>1, <2>2 DEF OutcomeInv
<1>5. ASSUME NEW c \in Clients, NEW streaming \in BOOLEAN, Post(c, streaming)
      PROVE  OutcomeInv'
  BY <1>1, <1>5 DEF Post
<1>6. ASSUME NEW c \in Clients, NEW t \in Tasks, AsyncPost(c, t) PROVE OutcomeInv'
  <2>1. /\ future' = [future EXCEPT ![t] = [future[t] EXCEPT !.kind = "started"]]
        /\ outcome' = Nothing /\ future[t] = Nothing
    BY <1>6 DEF AsyncPost
  <2>2. Faithful([future[t] EXCEPT !.kind = "started"])
    BY <1>0, PlainFaithful
  <2> QED BY <1>2, <2>1, <2>2
<1>7. ASSUME NEW t \in Tasks, GetFuture(t) PROVE OutcomeInv'
  BY <1>2, <1>7, PlainFaithful DEF GetFuture
<1>8. ASSUME NEW t \in Tasks, TaskPosts(t) PROVE OutcomeInv'
  <2>1. /\ future' = [future EXCEPT ![t] = [future[t] EXCEPT !.kind = "running"]]
        /\ outcome' = outcome
    BY <1>8 DEF TaskPosts
  <2>2. Faithful([future[t] EXCEPT !.kind = "running"])
    BY <1>0, PlainFaithful
  <2> QED BY <1>2, <2>1, <2>2
<1>9. ASSUME NEW t \in Tasks, TaskInitFails(t) PROVE OutcomeInv'
  BY <1>2, <1>9, PlainFaithful DEF TaskInitFails
<1>10. ASSUME NEW t \in Tasks, TaskReturns(t) PROVE OutcomeInv'
  <2>1. Faithful(Returned(exchange[t]))
    BY <1>10, ReturnedFaithful DEF TaskReturns, Objects
  <2> QED BY <1>2, <1>10, <2>1 DEF TaskReturns
<1>11. ASSUME NEW o \in Objects, Transfer(o) PROVE OutcomeInv'
  BY <1>1, <1>11 DEF Transfer, WriteCallback, Complete, Break, TimeOut, Update
<1>12. CASE UNCHANGED vars
  BY <1>1, <1>12 DEF vars
<1> QED
  BY <1>3, <1>4, <1>5, <1>6, <1>7, <1>8, <1>9, <1>10, <1>11, <1>12
     DEF Next, Calls, TaskStep

\* Timeouts are numbers, given at construction and copied by moves and threads
LEMMA ConfigStep ==
  ASSUME ConfigInv, [Next]_vars
  PROVE  ConfigInv'
BY CurlAssumption
   DEF ConfigInv, Next, Lifetime, Calls, TaskStep, Transfer, Construct, ConstructFails, Destroy,
       MoveConstruct, MoveAssign, Post, AsyncPost, PostReturns, GetFuture, TaskPosts,
       TaskInitFails, TaskReturns, WriteCallback, Complete, Break, TimeOut, Update, Objects,
       vars

\* In every reachable state what has been received has been taken, a refusal is
\* the end of its exchange, and what was returned says how its exchange went
THEOREM ReturnInvariant == Spec => []ReturnInv
<1>1. ASSUME Init PROVE ReturnInv
  <2>1. ConfigInv
    BY <1>1 DEF Init, ConfigInv
  <2>2. ExchangeInv
    BY <1>1, NewExchange DEF Init, ExchangeInv
  <2>3. OutcomeInv
    BY <1>1, PlainFaithful DEF Init, OutcomeInv
  <2> QED BY <2>1, <2>2, <2>3 DEF ReturnInv
<1>2. TypeInv /\ ReturnInv /\ [Next]_vars => ReturnInv'
  BY ExchangeStep, OutcomeStep, ConfigStep DEF ReturnInv
<1>3. OwnershipInv => TypeInv
  BY DEF OwnershipInv
<1> QED BY <1>1, <1>2, <1>3, OwnershipInvariant, PTL DEF Spec

\* The types the run checks, for any number of clients, threads and handles: no
\* exchange runs without a handle.
THEOREM TypeCorrect == Spec => []TypeOK
<1>1. OwnershipInv /\ ReturnInv => TypeOK
  <2> SUFFICES ASSUME OwnershipInv, ReturnInv PROVE TypeOK
    OBVIOUS
  <2>1. exchange \in [Objects -> Exchanges]
    BY DEF OwnershipInv, TypeInv, ReturnInv, ExchangeInv, Coherent
  <2>2. \A o \in Objects : Active(o) => exchange[o].handle \in Handles
    BY DEF OwnershipInv, RunsOnOwnHandle
  <2>3. \A t \in Tasks : future[t].kind \in FutureKinds
    BY DEF OwnershipInv, TypeInv, Outcomes
  <2> QED
    BY <2>1, <2>2, <2>3
       DEF OwnershipInv, TypeInv, ReturnInv, ConfigInv, OutcomeInv, FutureKinds, TypeOK
<1> QED BY <1>1, OwnershipInvariant, ReturnInvariant, PTL

\* A broken transfer never passes for a response, a refusal never for an error,
\* and a response has all of its body, also when a thread received it
\* (perform_post, write_callback, async_post).
THEOREM ResponsesAlwaysWhole == Spec => []ResponsesWhole
<1>1. ReturnInv => ResponsesWhole
  BY DEF ReturnInv, OutcomeInv, Faithful, ResponsesWhole
<1> QED BY <1>1, ReturnInvariant, PTL

\* After its refusal a callback is never called again (write_callback).
THEOREM CallbacksStop == Spec => StopsWhenTold
<1> DEFINE Stops == \A o \in Objects :
              exchange[o].aborted => exchange'[o].got <= exchange[o].got
<1>1. TypeInv /\ ReturnInv /\ [Next]_vars => [Stops]_vars
  <2> SUFFICES ASSUME TypeInv, ReturnInv, Next PROVE Stops
    OBVIOUS
  <2> SUFFICES ASSUME NEW o \in Objects, exchange[o].aborted
               PROVE  exchange'[o].got <= exchange[o].got
    OBVIOUS
  <2>1. /\ exchange \in [Objects -> Transfers] /\ exchange[o].got \in Nat
        /\ exchange[o].result = "error"
    BY DEF TypeInv, Transfers, ReturnInv, ExchangeInv, Coherent
  <2>2. \A p \in Objects : \A ex :
           /\ exchange' = [exchange EXCEPT ![p] = ex]
           /\ p = o => ex.got = 0
           => exchange'[o].got <= exchange[o].got
    BY <2>1
  <2>3. ASSUME NEW p \in Objects, Transfer(p) PROVE exchange'[o] = exchange[o]
    <3>1. p # o
      BY <2>1, <2>3 DEF Transfer, WriteCallback, Complete, Break, TimeOut, Receiving
    <3> QED
      BY <2>1, <2>3, <3>1 DEF Transfer, WriteCallback, Complete, Break, TimeOut, Update
  <2>4. ASSUME UNCHANGED exchange PROVE exchange'[o].got <= exchange[o].got
    BY <2>1, <2>4
  <2>5. /\ NoExchange.got = 0 /\ \A h : [NoExchange EXCEPT !.handle = h].got = 0
        /\ \A h, streaming : [NoExchange EXCEPT !.handle = h, !.streaming = streaming].got = 0
    BY DEF NoExchange
  <2>6. CASE Lifetime
    BY <2>4, <2>6 DEF Lifetime, Construct, ConstructFails, Destroy, MoveConstruct, MoveAssign
  <2>7. ASSUME NEW c \in Clients, NEW streaming \in BOOLEAN, Post(c, streaming)
        PROVE  exchange'[o].got <= exchange[o].got
    BY <2>2, <2>5, <2>7 DEF Post, Objects
  <2>8. ASSUME NEW c \in Clients, PostReturns(c)
        PROVE  exchange'[o].got <= exchange[o].got
    BY <2>2, <2>5, <2>8 DEF PostReturns, Objects
  <2>9. CASE Calls
    BY <2>4, <2>7, <2>8, <2>9 DEF Calls, AsyncPost, GetFuture
  <2>10. ASSUME NEW t \in Tasks, TaskStep(t)
         PROVE  exchange'[o].got <= exchange[o].got
    BY <2>2, <2>4, <2>5, <2>10 DEF TaskStep, TaskPosts, TaskInitFails, TaskReturns, Objects
  <2> QED BY <2>1, <2>3, <2>6, <2>9, <2>10 DEF Next
<1>2. OwnershipInv => TypeInv
  BY DEF OwnershipInv
<1>3. Spec => [][Stops]_vars
  BY <1>1, <1>2, OwnershipInvariant, ReturnInvariant, PTL DEF Spec
<1> QED BY <1>3 DEF StopsWhenTold
=============================================================================
