--------------------------- MODULE CurlHttpClient ---------------------------
(***************************************************************************)
(* CurlHttpClient (src/http/curl_client.cpp): who owns the curl handles    *)
(* while clients are constructed, moved, assigned and destroyed, the       *)
(* exchanges that run on them, and the threads of async_post, each with a  *)
(* client of its own.                                                      *)
(*                                                                         *)
(* The caller is one thread, as a handle serves one at a time: while a     *)
(* post of its is running it does nothing else.  It posts only through     *)
(* clients that own a handle, as a moved-from object has none.  A response *)
(* body is the number of chunks received of it; headers are left out.      *)
(***************************************************************************)
EXTENDS Integers, FiniteSets

CONSTANTS
  Clients,    \* the caller's CurlHttpClient objects
  Tasks,      \* threads of async_post, with the client local to each
  Handles,    \* CURL handles: memory is reused, so a name may come back
  Null,       \* impl_ of a moved-from client
  NoObject,   \* outside the lifetime of the object
  Timeouts,   \* Config::transfer_timeout; 0 is curl's "never"
  MaxChunks   \* bound: chunks of a response

ASSUME CurlAssumption ==
  /\ Clients \cap Tasks = {}
  /\ Null \notin Handles /\ NoObject \notin Handles /\ Null # NoObject
  /\ Timeouts \subseteq Nat
  /\ MaxChunks \in Nat

VARIABLES
  handles,   \* handles initialised and not cleaned up
  impl,      \* object -> its handle, Null or NoObject
  config,    \* object -> its transfer_timeout
  exchange,  \* object -> the exchange running on it
  outcome,   \* what the caller's last call returned or threw
  future     \* task -> state of the future of its async_post

vars == <<handles, impl, config, exchange, outcome, future>>

Objects == Clients \cup Tasks

\* An exchange: sent counts the response's chunks, got those appended to the
\* body or taken by the callback; result is what curl_easy_perform returns
NoExchange ==
  [handle |-> Null, streaming |-> FALSE, sent |-> 0, got |-> 0,
   aborted |-> FALSE, result |-> "none"]
Exchanges ==
  [handle : Handles \cup {Null}, streaming : BOOLEAN, sent : 0..MaxChunks,
   got : 0..MaxChunks, aborted : BOOLEAN, result : {"none", "ok", "error"}]

\* The fields after body are history: how the exchange it comes from went
Outcome(kind, body, ex) ==
  [kind |-> kind, body |-> body, streaming |-> ex.streaming, sent |-> ex.sent,
   aborted |-> ex.aborted, result |-> ex.result]
Nothing == Outcome("none", 0, NoExchange)
InitFailed == Outcome("init_failed", 0, NoExchange)

Active(o) == exchange[o] # NoExchange
CallerFree == \A c \in Clients : ~ Active(c)
Unmoved(c) == impl[c] # NoObject                                          \* mutant
Usable(c) == impl[c] \in Handles

Init ==
  /\ handles = {}
  /\ impl = [o \in Objects |-> NoObject]
  /\ config = [o \in Objects |-> 0]
  /\ exchange = [o \in Objects |-> NoExchange]
  /\ outcome = Nothing
  /\ future = [t \in Tasks |-> Nothing]
-----------------------------------------------------------------------------
(***************************************************************************)
(* Lifetime.                                                               *)
(***************************************************************************)

\* curl_easy_init returns a handle that is not in use
Construct(c, timeout) ==
  /\ CallerFree /\ impl[c] = NoObject
  /\ \E h \in Handles \ handles :
        /\ handles' = handles \cup {h}
        /\ impl' = [impl EXCEPT ![c] = h]
  /\ config' = [config EXCEPT ![c] = timeout]
  /\ outcome' = Nothing
  /\ UNCHANGED <<exchange, future>>

\* curl_easy_init returns null: the Impl is deleted and the constructor throws
ConstructFails(c) ==
  /\ CallerFree /\ impl[c] = NoObject
  /\ outcome' = InitFailed
  /\ UNCHANGED <<handles, impl, config, exchange, future>>

Destroy(c) ==
  /\ CallerFree /\ impl[c] # NoObject
  /\ handles' = handles \ {impl[c]}
  /\ impl' = [impl EXCEPT ![c] = NoObject]
  /\ outcome' = Nothing
  /\ UNCHANGED <<config, exchange, future>>

StillPointing(from, to) == [impl EXCEPT ![to] = impl[from]]               \* mutant
\* other.impl_ = nullptr
TakeOver(from, to) == [impl EXCEPT ![to] = impl[from], ![from] = Null]

MoveConstruct(from, to) ==
  /\ CallerFree /\ impl[from] # NoObject /\ impl[to] = NoObject
  /\ impl' = TakeOver(from, to)
  /\ config' = [config EXCEPT ![to] = config[from]]
  /\ outcome' = Nothing
  /\ UNCHANGED <<handles, exchange, future>>

\* The target's own handle is cleaned up first; a self-assignment does nothing
MoveAssign(from, to) ==
  /\ CallerFree /\ impl[from] # NoObject /\ impl[to] # NoObject
  /\ IF from = to
       THEN UNCHANGED <<handles, impl, config>>
       ELSE /\ handles' = handles \ {impl[to]}
            /\ impl' = TakeOver(from, to)
            /\ config' = [config EXCEPT ![to] = config[from]]
  /\ outcome' = Nothing
  /\ UNCHANGED <<exchange, future>>
-----------------------------------------------------------------------------
(***************************************************************************)
(* Calls.                                                                  *)
(***************************************************************************)

\* post and post_stream up to curl_easy_perform
Post(c, streaming) ==
  /\ CallerFree /\ Usable(c)
  /\ exchange' = [exchange EXCEPT ![c] =
       [NoExchange EXCEPT !.handle = impl[c], !.streaming = streaming]]
  /\ outcome' = Nothing
  /\ UNCHANGED <<handles, impl, config, future>>

\* async_post: it reads only the config, so a moved-from client will do
AsyncPost(c, t) ==
  /\ CallerFree /\ impl[c] # NoObject
  /\ future[t] = Nothing
  /\ future' = [future EXCEPT ![t].kind = "started"]
  /\ config' = [config EXCEPT ![t] = config[c]]
  /\ outcome' = Nothing
  /\ UNCHANGED <<handles, impl, exchange>>

BorrowsHandle(t) ==                                                       \* mutant
  /\ future[t].kind = "started"
  /\ \E c \in Clients :
        /\ Usable(c)
        /\ impl' = [impl EXCEPT ![t] = impl[c]]
        /\ exchange' = [exchange EXCEPT ![t] = [NoExchange EXCEPT !.handle = impl[c]]]
  /\ future' = [future EXCEPT ![t].kind = "running"]
  /\ UNCHANGED <<handles, config, outcome>>

\* The thread constructs its client and posts
TaskPosts(t) ==
  /\ future[t].kind = "started"
  /\ \E h \in Handles \ handles :
        /\ handles' = handles \cup {h}
        /\ impl' = [impl EXCEPT ![t] = h]
        /\ exchange' = [exchange EXCEPT ![t] = [NoExchange EXCEPT !.handle = h]]
  /\ future' = [future EXCEPT ![t].kind = "running"]
  /\ UNCHANGED <<config, outcome>>

TaskInitFails(t) ==
  /\ future[t].kind = "started"
  /\ future' = [future EXCEPT ![t] = InitFailed]
  /\ UNCHANGED <<handles, impl, config, exchange, outcome>>

\* future.get(), or its destructor: both wait for the thread
GetFuture(t) ==
  /\ CallerFree
  /\ future[t].kind \notin {"none", "started", "running"}
  /\ outcome' = future[t]
  /\ future' = [future EXCEPT ![t] = Nothing]
  /\ UNCHANGED <<handles, impl, config, exchange>>
-----------------------------------------------------------------------------
(***************************************************************************)
(* curl_easy_perform, for the caller and the threads side by side.         *)
(***************************************************************************)
Receiving(o) == Active(o) /\ exchange[o].result = "none"

Update(o, ex) ==
  /\ exchange' = [exchange EXCEPT ![o] = ex]
  /\ UNCHANGED <<handles, impl, config, outcome, future>>

\* The return value of write_callback: whether curl goes on
AlwaysAll(more) == TRUE                                                   \* mutant
TakesAll(more) == more

\* A chunk arrives: it goes to the body, or to the callback, which asks for
\* more or not
WriteCallback(o, more) ==
  /\ Receiving(o)
  /\ exchange[o].sent < MaxChunks
  /\ ~ exchange[o].streaming => more
  /\ Update(o, [exchange[o] EXCEPT
                  !.sent = @ + 1,
                  !.got = @ + 1,
                  !.aborted = @ \/ ~ more,
                  !.result = IF TakesAll(more) THEN @ ELSE "error"])

Complete(o) == Receiving(o) /\ Update(o, [exchange[o] EXCEPT !.result = "ok"])

\* No connection, or it breaks
Break(o) == Receiving(o) /\ Update(o, [exchange[o] EXCEPT !.result = "error"])

NoTimeout(o) == 0                                                         \* mutant
\* CURLOPT_TIMEOUT
TransferTimeout(o) == config[o]

TimeOut(o) ==
  /\ Receiving(o)
  /\ TransferTimeout(o) > 0
  /\ Update(o, [exchange[o] EXCEPT !.result = "error"])

ThrowsUnlessStreaming(ex) == ex.result # "ok" /\ ~ ex.streaming           \* mutant
Throws(ex) == ex.result # "ok" /\ ~ ex.aborted

\* perform_post after curl_easy_perform
Returned(ex) ==
  IF Throws(ex)
    THEN Outcome("error", 0, ex)
    ELSE Outcome("response", IF ex.streaming THEN 0 ELSE ex.got, ex)

Performed(o) == Active(o) /\ ~ Receiving(o)

PostReturns(c) ==
  /\ Performed(c)
  /\ exchange' = [exchange EXCEPT ![c] = NoExchange]
  /\ outcome' = Returned(exchange[c])
  /\ UNCHANGED <<handles, impl, config, future>>

\* The thread's client goes with it, and then the future is ready
TaskReturns(t) ==
  /\ Performed(t)
  /\ exchange' = [exchange EXCEPT ![t] = NoExchange]
  /\ handles' = handles \ {impl[t]}
  /\ impl' = [impl EXCEPT ![t] = NoObject]
  /\ future' = [future EXCEPT ![t] = Returned(exchange[t])]
  /\ UNCHANGED <<config, outcome>>

Lifetime ==
  \/ \E c \in Clients :
        \/ \E timeout \in Timeouts : Construct(c, timeout)
        \/ ConstructFails(c)
        \/ Destroy(c)
  \/ \E from, to \in Clients : MoveConstruct(from, to) \/ MoveAssign(from, to)

Calls ==
  \/ \E c \in Clients :
        \/ \E streaming \in BOOLEAN : Post(c, streaming)
        \/ \E t \in Tasks : AsyncPost(c, t)
        \/ PostReturns(c)
  \/ \E t \in Tasks : GetFuture(t)

TaskStep(t) == TaskPosts(t) \/ TaskInitFails(t) \/ TaskReturns(t)

Transfer(o) ==
  \/ \E more \in BOOLEAN : WriteCallback(o, more)
  \/ Complete(o)
  \/ Break(o)
  \/ TimeOut(o)

Next ==
  \/ Lifetime
  \/ Calls
  \/ \E t \in Tasks : TaskStep(t)
  \/ \E o \in Objects : Transfer(o)

Spec == Init /\ [][Next]_vars

\* Threads run, and curl keeps its timeout; the server need not answer
FairSpec == Spec /\ \A t \in Tasks : WF_vars(TaskStep(t)) /\ WF_vars(TimeOut(t))
-----------------------------------------------------------------------------
\* Every variable has its type, and no exchange runs without a handle: what a
\* moved-from client points to is never reached.
TypeOK ==
  /\ handles \subseteq Handles
  /\ impl \in [Objects -> Handles \cup {Null, NoObject}]
  /\ config \in [Objects -> Nat]
  /\ exchange \in [Objects -> Exchanges]
  /\ \A o \in Objects : Active(o) => exchange[o].handle \in Handles
  /\ outcome.kind \in {"none", "init_failed", "error", "response"}
  /\ \A t \in Tasks :
        future[t].kind \in {"none", "started", "running", "init_failed", "error", "response"}

\* Every handle that is not cleaned up belongs to exactly one live object, and
\* every object's handle is one of these: nothing leaks, nothing is cleaned up
\* twice, no object is left pointing at a handle cleaned up by another (the
\* moves, the destructor, and the threads' local clients).
HandlesOwned ==
  /\ handles = {impl[o] : o \in Objects} \cap Handles
  /\ \A o, p \in Objects : o # p /\ impl[o] \in Handles => impl[o] # impl[p]

\* An exchange runs on a live handle, and no two on the same one: what the
\* caller moves, assigns or destroys while threads are posting never reaches
\* their handles.
ExchangesApart ==
  \A o \in Objects : Active(o) =>
     /\ exchange[o].handle \in handles
     /\ \A p \in Objects : Active(p) /\ p # o => exchange[p].handle # exchange[o].handle

\* A call returns a response only if the server's was complete or the caller's
\* callback stopped it, and then with every chunk of the body; a call throws
\* only if the exchange broke.
ResponsesWhole ==
  \A result \in {outcome} \cup {future[t] : t \in Tasks} :
     /\ result.kind = "response" =>
           /\ result.result = "ok" \/ result.aborted
           /\ result.body = IF result.streaming THEN 0 ELSE result.sent
     /\ result.kind = "error" => result.result = "error" /\ ~ result.aborted

\* Once a callback has returned false it is not called again.
StopsWhenTold ==
  [][\A o \in Objects : exchange[o].aborted => exchange'[o].got <= exchange[o].got]_vars

\* Every future becomes ready, whether or not the server ever answers.
FuturesReady ==
  \A t \in Tasks : future[t].kind \in {"started", "running"}
                     ~> future[t].kind \notin {"started", "running"}
=============================================================================
