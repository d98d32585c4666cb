# Forgeant in TLA+

Forgeant is a C++ library for agents on top of language models: an `Agent` runs
a prompt through a provider (`OpenAiProvider`, `AnthropicProvider`), dispatches
the tool calls in the model's turns, and returns text or a value parsed into the
caller's type. This directory holds TLA+ models of its run loops, of the
transcript they keep, of the two wire dialects, of the way from JSON to a
handler's arguments and back, of the agents' own life and of the HTTP client, the
TLC configurations that check them, and proofs checked by TLAPS.

Paths below are relative to the repository's root.

## Inventory

| Component | State | Operations | What is hard | What makes it correct |
|---|---|---|---|---|
| Transcript types (`include/forgeant/types`) | a `Conversation`: optional system prompt, messages of blocks | `add`, `clear`, construction | grown by several loops and handed back through results and errors | it only grows; every tool call has its result in the next message |
| Tool registry (`src/tool/registry.cpp`) | name → tool; the views given to the provider refer into its nodes | `add`, `get`, `has`, `execute`, `tools` | handlers register tools while a loop holds views | a view never outlives or disagrees with its tool |
| Agent (`src/agent/agent.cpp`, `agent.hpp`) | registry, options; per run the working conversation, counters, views | `add_tool`, `run<T>(prompt)`, `run<T>(conversation)`, `execute_loop`, `dispatch_tools`, retries of `execute<T>` | two nested loops with six ways out; failing tools; reentrant registration; resuming from errors | calls answered, cost accounted, bounded calls, right output, every run ends |
| Structured output (`structured.hpp`, `structured.cpp`) | per call: working conversation, counters | `structured<T>` with corrective retries | as above, without tools | the value is from the last turn, cost accounted |
| Providers (`src/provider`) | none that lasts; a request in flight | `chat`: serialize, post, check the status, deserialize | a transcript is rewritten in each dialect on every call; failures between | calls and results stay together; the backend hears its own turns again |
| HTTP client (`src/http/curl_client.cpp`) | a curl handle per client | construction, moves, destruction, `post`, `post_stream`, `async_post` | ownership of a raw handle; threads; aborted, broken and endless responses | one owner per handle, no shared exchange, no truncated response, futures become ready |
| Agent factory (`Agent::create`, the constructors, moves and destructor in `agent.hpp`) | what an agent owns, a client and a provider, and its pointer to the provider | `create`, construction on a caller's provider, moves, destruction | pointers between the parts of one agent survive moves; memory is reused; `create` fails half way | one owner per part; a run reaches the backend it was created for, with its key |
| JSON (`src/json`) and its conversions (`src/types/*.cpp`) | values; a conversation kept as text | parse, dump, `to_json`, `from_json` | ranges of numbers, broken texts, members with defaults | what was saved is restored; what text changes, it changes once |
| Schema (`src/schema`), `make_tool` (`tool.hpp`) | none that lasts; a call of a tool in progress | build a schema, read arguments and answers, write results | the schema is what the model reads, `from_json` what the program reads: two descriptions of one type; numbers without a type | what keeps to the schema arrives as written, what has another shape does not |

How they interact. The caller owns an agent and calls `run`; a run is
synchronous: it calls `LlmProvider::chat`, which calls `HttpClient::post`, and
between replies it calls handlers out of the registry. Nothing of a run is
concurrent; what interleaves with it is what the model answers, what handlers do
(a handler may call `add_tool` on the agent that is running it) and where
something throws. The conversation goes in by value, and comes back in an
`AgentResult` or an `AgentRunError`, so that a caller can go on from either. The
only threads are those of `async_post`, each with a client of its own.

## Modules

| Module | Models | Kind |
|---|---|---|
| `Transcript` | blocks, messages, `Conversation::add`, `has_tool_use`, `extract_last_text`; what it is for calls to be answered | data |
| `ToolRegistry` | the registry as a function from names to tools | data |
| `Session` | what every run promises: turns are taken, within a budget, until one verdict | abstract specification |
| `Agent` | the agent with its caller, provider and handlers | component |
| `Structured` | `structured<T>` with its caller | component, implements `Session` |
| `OpenAi`, `Anthropic` | the dialects: writing a request, reading a response, what the backend demands | data |
| `Dialects` | both side by side, and what a transcript must be like for both | composition |
| `Provider` | `chat()` and the transcript around it, over a backend of each dialect | component |
| `Chat` | the agent over both dialects | composition |
| `AgentFactory` | agents: made, moved, assigned, destroyed and run | component |
| `CurlHttpClient` | handles, clients, exchanges, threads, futures | component |
| `Doubles` | which double stands for a number | data |
| `Json` | JSON values, accessors that throw, numbers written and parsed | data |
| `Schema` | `SchemaBuilder`, and what a schema asks of a value | data |
| `TypedTool` | the handler `make_tool` wraps, the built-in parameter types, `run<T>`'s reading of an answer | component |
| `Storage` | a conversation saved to JSON text and restored from it | component |
| `MCAgent`, `MCStructured`, `MCProvider`, `MCAgentFactory`, `MCStorage`, `MCTypedTool` | the replies, bodies, overrides, conversations, options and texts of the small instances | instances |
| `DataProofs` | lemmas on what the components share: transcripts, positions and calls answered; what the dialects write and read; doubles | proofs |
| `AgentProofs` | the agent: types and answered calls, counts, what its transcript keeps, `Session`, its requests in both dialects | proofs |
| `ProviderProofs` | conversations over two backends | proofs |
| `TypedToolProofs`, `StorageProofs` | the way from JSON to a handler and back; what is saved and restored | proofs |
| `StructuredProofs`, `AgentFactoryProofs`, `CurlProofs` | those components | proofs |

`Agent` and `Structured` compose `Transcript` and (for the agent)
`ToolRegistry`; both are mapped onto `Session`. `Dialects` has an `INSTANCE` of
each dialect; `Chat` composes the agent with it, and `Provider` is built on it.
`Storage` composes `Transcript` and `Json`, `TypedTool` is built on `Schema`
and `Schema` on `Json`. The environment of `Provider` extends the transcript as
the theorem `ToolCallsAlwaysAnswered` says the agent does; `Chat` asks the other
direction, the agent's own transcripts against the dialects (checked by a run and
proved in `AgentProofs`).

Definitions marked `mutant` are the wrong versions of the operator below them:
each property of a run is known to fail when one of them takes its place.

### Agent

`pc` says where the run is: `idle` (the caller's turn), `loop` (top of the `for`
of `execute_loop`), `dispatch` (in `dispatch_tools`, at block `index`), `handler`
(in a tool's handler), `returned` (`execute_loop` has returned to `execute<T>`).

| Action | Code |
|---|---|
| `AddTool` | `Agent::add_tool`, by the caller or by a running handler; `emplace` keeps the first tool of a name |
| `RunPrompt`, `RunConversation`, `ResumeConversation` | `run<T>` up to the loop: `apply_system_prompt`, the tool views |
| `ChatReplies`, `ChatThrows` | an iteration: tokens, finish reason, message appended; or `provider_error` |
| `MaxIterationsReached` | the throw behind the loop |
| `SkipBlock`, `CallTool`, `UnknownTool`, `HandlerReturns`, `HandlerThrows`, `FinishDispatch` | `dispatch_tools`, block by block, and the tool message |
| `ForeignException` | something that is not a `std::exception` passes all handlers |
| `ReturnText`, `ReturnParsed`, `RetryParse`, `ParseExhausted` | `execute<std::string>` and `execute<T>` |

`given`, `replied` and `spent` are history: the conversation passed in, and the
replies and tokens of the run. Texts are told apart by equality and by whether
they parse into T; credentials, model names and schemas do not steer the loop and
are left out, and the input of a call is an opaque value. Tokens of a reply are one
natural number.

`Chat` adds no step: every iteration writes the whole working conversation into a
request, so what the dialects make of it is a function of the agent's state.

### Structured

`calling` is the top of the retry loop, `parsing` the `try` behind the reply.
`max_retries` is any integer, as the code accepts one: -1 and below skip the loop.
What the error then counts is below zero for a limit below -1, which is no cost;
`CostAccounted` asks for the tokens however a call ends, and for the iterations of
results and of parse errors with a limit of -1 and above. `ErrorIterationsCompleted`
asks what `error.hpp` says of errors.

### Provider and the dialects

A conversation is carried over `chat()` of one backend or of several in turn: the
caller may resume it with another provider whenever it is the caller's turn.
`request` keeps, for each backend, the messages it was sent last; `said` is history.
`AskModel` and `AnswerCalls` are the run loops; `Post` writes the request, and
`PostThrows`, `ApiError`, `UnreadableBody` and `ChatReplies` are the ways out of
`chat()`.

A request is the list of its messages; the members of a request that do not
depend on the transcript (model, limits, tools, schema, and for the Messages API
the system prompt) are left out. The Chat Completions dialect writes a message per
tool result, the last text of a message as its content, `null` where a turn has
calls and no text, and arguments as a string of JSON; it reads calls before text.
Arguments come in three forms: a string of JSON, another string, which is wrapped
as `_raw`, and no string, which is read as `{}`. In both dialects the inputs of calls
are JSON text that the provider parses (`Json!FromGeneric`) and writes again
(`Json!Written`), and parsing takes every number for a double: an input of
9007199254740993 is repeated as 9007199254740992. The Messages dialect writes blocks
as they are and tool results under the role `user`; it reads texts, of which there
may be several around the calls, and calls, and drops other parts.
`OpenAiAcceptable` and `AnthropicAcceptable` are the backends' rules on calls and
results; they, `...Calls` and `...Said` are external to the repository.
`...Said` is what the backend said as far as doubles tell it (`InDoubles`).

What is not asked: that texts survive a change of backend. A Chat Completions
message has room for one, and the last one written is kept; the calls do survive
(`CallsOutliveBackend`), and a backend's own turns come back to it, each once and
with nothing changed but the rounding of numbers in inputs (`BackendHearsItself`).
The number 2^63 in an input passes the parser's range check and its cast is
undefined; the two properties say nothing of an input that holds it.

### AgentFactory

An agent is its members: two `unique_ptr`s, `owned_http_` and `owned_provider_`, and the
plain pointer `provider_`. Clients and providers live in cells of the heap, which
are used again once freed, so that a pointer left behind would be followed to
somebody else's object; a provider holds the cell of its client. `Agent::create` is
two steps: `CreateClient` makes the client, held by the frame (`frame`), and `Create`
the provider, with the defaults of the addresses in the order the code sets them, or
`CreateUnknown` throws and the frame is unwound; `CreateFails` is the client's own
constructor throwing. `Borrow` is the constructor on a caller's provider;
`MoveConstruct` and `Destroy` are the defaulted members. Move assignment goes member
by member: `MoveAssign` replaces `owned_http_`, which frees the target's client while
its old provider still refers to it, and `MoveAssignRest` replaces `owned_provider_`
and `provider_`. Nothing else happens while a frame is open, as an agent is not
thread-safe; the invariants are asked there all the same. `Run` is one exchange:
where the pointers lead, and with which key. `asked` is history, what `create` was
called with, and moves along with the agent.

`Usable` is the caller's obligation not to run a moved-from agent of its own
provider; one on the caller's provider stays usable. An agent assigned to itself
is left out: the standard leaves a `unique_ptr` intact there, and nothing moves.

### CurlHttpClient

A client's `impl` is its handle, null after a move, or outside the object's
lifetime. Handles are drawn from a small pool because memory is reused: a stale
pointer would be taken for the handle that came in its place. An exchange is a
`curl_easy_perform` in progress; callers and threads interleave at its chunks.
The history fields of an outcome say how the exchange behind it went.

### Json and Storage

Text is the JSON value with its numbers written; escaping of strings is undone by
parsing and left out. `Json::parse` takes every number for a double, so `Rounded`
is the nearest double, `FitsInteger` the range check of `from_generic` and `Cast`
the cast behind it, which is undefined for 2^63 and gives `Overflowed`. `...Readable`
says that no accessor throws; `Restore` is `get<Conversation>` (a conversation of its
own), `ReadInto` is `from_json` into the caller's, where a failure leaves what was
read before it. The content of a tool result is one string here, written and, as
`at("content")` does, insisted on when read. `text`, `edited` and `origin` follow the
text outside of the program.

### TypedTool and Schema

A model is given a schema and writes JSON; what it wrote reaches a handler through
`get<Params>()`, or the caller of `run<T>` through `get<T>()`. `Call`, `Execute`,
`HandlerReturns` and `HandlerThrows` are a call of a tool that `make_tool` built,
`Answer` the answer to a typed run. A C++ value is a record with one field, named
for its type. The types are the built-in ones, a vector of doubles and any structs
(`Structs`): for those a caller writes a `ParamSchema` and a `from_json` by hand, once
each, and nothing checks that they agree. `Agrees` says what it takes: the same
members with the same types, those required that `from_json` reads with `at()`, and
for the others the same default. The structs of the examples do, and are instances in
`MCTypedTool` beside one that requires nothing, which the repository has none of. An
`int` has fewer bits than `integer_t` (`IntWidth`, `Width`: 4 and 5 for 32 and 64); a
double holds every `int`, but not every `integer_t` (`Precision` 3 for 53).

`Conforms` is what a schema means for a text, whose numbers have no type: 5.0 is an
integer. The properties leave out numbers no C++ value holds (`Exact`), 2^63 among
them, which passes the range check of `from_generic` with an undefined cast.
`Shaped` is the weaker thing the program does keep: types and required members, as
doubles tell them. Values outside an `enum` and additional members pass, as no
`from_json` looks for them. A struct that requires nothing is read from anything
without its members: from the `{}` of a call without arguments, from the wrapper of
one whose arguments are no JSON, and from what is no object. `MisshapenRefused` says
that it then has its defaults, and nothing of what was sent.

## Runs

All are exhaustive over the instance. `MaxRuns` and `MaxMessages` bound how long
a caller goes on; everything else stops by itself.

| Run | States | What it asks |
|---|---|---|
| `AgentRun` | 251,538 | One run, of text or typed with two retries, with caps of 2 and 0, two tools under two names, turns of one and two calls between texts. Are calls answered at every request and every ending (`ToolCallsAnswered`)? Do views stay true while handlers register tools (`AdvertisedToolsLive`)? Do tokens and iterations add up (`UsageAccounted`, `IterationsAccounted`), do calls stay within cap × attempts (`CallBudget`), does a parse error keep every attempt (`ParseErrorKeepsAttempts`), does every run end (`RunEnds`)? |
| `AgentChat` | 1,934,032 | Two runs over one transcript, resumed from results and errors, prompts from the conversation, the override and the agent. Does the transcript only grow (`HistoryAppendOnly`), do both dialects' backends accept every request made of it (`RequestsAccepted`), is the output the latest text (`OutputIsLatestText`), is it a session (`TakesTurns`)? |
| `StructuredCalls` | 161,685 | Two calls over a transcript, retry limits 2, 0, -1 and -2, replies without text and with unoffered calls. Cost, provenance of the answer, kept attempts, session. |
| `ProviderChats` | 317,478 | Transcripts of up to seven messages that change between a Chat Completions and a Messages backend, with failures, broken bodies, retries and inputs with numbers that doubles have and have not. Are requests acceptable (`RequestsAcceptable`), does a backend hear its turns, each once and in order (`BackendHearsItself`), and the calls of the other (`CallsOutliveBackend`), does each request continue the last to the same backend (`RequestsContinue`)? |
| `FactoryAgents` | 722,384 | Three agents over memory for two, four names, a caller's provider, creation and assignment one part at a time. Has every part one owner at every step, also when `create` throws (`PartsOwned`), does no run go through what was freed (`TypeOK`), does a run go where the agent was made to go, with its key (`RunsReachTheirBackend`)? |
| `TypedCalls` | 2,111 | Eight types, one of them a struct that requires nothing, numbers around each boundary, objects that keep to a schema or break it in one place. Does what conforms arrive as written (`ConformingArrives`), is what has another shape refused (`MisshapenRefused`), is a result read as it was returned (`ResultsArrive`)? |
| `CurlOwnership` | 507,365 | Two clients and two threads over three handles. Ownership (`HandlesOwned`), separate exchanges (`ExchangesApart`), whole responses (`ResponsesWhole`), a callback that is obeyed (`StopsWhenTold`), futures that become ready (`FuturesReady`). |
| `StorageSaves` | 11,201 | A conversation of two messages saved, restored, read into itself, and nine foreign texts. Does what was saved come back (`RestoresWhatWasSaved`), does it come back the same ever after (`RestoredSettles`), does a broken text cost a turn (`NoTurnLost`)? |
| `AgentErrorUsage`, `AgentStaleOutput`, `AgentOverridePrompt`, `StructuredErrorIterations` | - | Statements of the documentation the code does not keep; see below. |

Why the bounds are enough. What one run leaves to the next is the transcript and
the registry. `AgentRun` asks what a single run does and starts it from any
registry the caller makes; `AgentChat` has the second run, from every ending of the
first, which shows what depends on an earlier one. Two calls in a turn show order
and partial failure; two retries tell the first, a middle and the last attempt apart; a cap of 2 reaches
the cap directly behind a round of tools; 0 skips the loop. Two threads and the
caller are three parties for three handles, so a handle freed by one is taken by
another. Seven messages hold two rounds of calls with results, a change of backend
and back, and a retry of each request. Three agents over memory for two with parts
of their own make every cell change hands; its cells are interchangeable, hence
the symmetry. Integers of five bits and doubles of three have what 64 and 53 have:
integers that doubles skip, a greatest integer that is rounded up, and doubles beyond it;
two messages and broken texts of two show what a failure in the middle leaves. The
theorems below remove the bounds for what they state.

`CHECK_DEADLOCK FALSE` is set where the caller may run out: `StructuredCalls`
after `MaxRuns` calls, `ProviderChats` at `MaxMessages`.

## Fairness

`Agent!FairSpec` is weak fairness of the run's own steps together. `run()` is
straight synchronous code: it goes on as long as `chat` answers or throws, and
handlers return. The first is the HTTP client's business (transfer timeout,
`FuturesReady`); the second is the handlers' contract. Nothing is assumed of the
caller, of what the model says or of which way a handler goes.
`CurlHttpClient!FairSpec` is weak fairness of each thread's own steps and of its
transfer timeout, which curl keeps whenever it is above zero; the server may stay
silent for ever. With `transfer_timeout` 0 the property does not hold (its
mutant), as curl then never gives up.

## Proofs

For all values of the constants: any tools, names, replies, overrides, caps (also
below zero), conversations, retries and numbers of runs; any number of clients,
threads, handles, agents and cells of memory. Each theorem is `Spec => []Inv`, or
`Spec` implies an action property or a refinement, from an inductive invariant that
was checked by TLC on an instance before it was proved.

The agent (`AgentProofs`):

- `TypeCorrect` (`TypeOK`). `TypeOK` is not inductive, as dispatch
  reads the last message. `ResponseReached` adds that there is one, that a
  handler runs for a call, and that dispatch's locals are fresh outside of it.
- `ToolCallsAlwaysAnswered` (`ToolCallsAnswered`). In the
  middle of dispatch the calls are not answered yet; `PairingInv` says instead that
  all turns but the last are, and that `tool_results` answers, in order, exactly
  the calls before `index` (`AnswersBefore`, whose witness is a strictly increasing
  map from results to calls). The lemmas of `DataProofs` show that skipping a
  block, pushing a result and appending the tool message carry this along.
- `TokensAccounted`, `RepliesAccounted` (`UsageAccounted`,
  `IterationsAccounted`). `CounterInv` ties the counters of both loops to the
  replies received, with one more reply than iterations while a response is dealt
  with.
- `CallsWithinBudget` (`CallBudget`). `BudgetInv` bounds
  attempts, iterations and the totals of earlier attempts by products of the cap.
- `AdvertisedToolsStayLive` (`AdvertisedToolsLive`): inductive as it stands.
- `HistoryOnlyGrows` (`HistoryAppendOnly`, an action property): one
  step of the proof per action, from the types alone.
- `RunsTakeTurns` (`TakesTurns`): the agent implements `Session`.
  `SpeakerInv` says who spoke last at each `pc`, counted from the transcript the run
  was given; with it every action maps to a step of a session or to a stutter.
  `Session` states no fairness, so nothing of the refinement is left to TLC.
- `OutputStaysLatest` (`OutputIsLatestText`): from `SpeakerInv`, as
  `extract_last_text` is only called when the last message is the model's.
- `ParseErrorsKeepAttempts` (`ParseErrorKeepsAttempts`).
  `AttemptsInv`: the corrective turns added so far are as many as the attempts that
  failed; a tool message or a reply is never taken for one.
- `RequestsAlwaysAccepted` (`RequestsAccepted`). For the Messages
  dialect, blocks keep their types and ids, and results only stand in tool
  messages (`RolesInv`, inductive beside `PairingInv`). For Chat Completions, where
  a message of results becomes several, the request is followed message by message:
  `WireSettled` says that what has been written keeps the rule, but for the calls of its
  last message while their results are pending. A turn may follow what is settled,
  the results of the pending calls settle it again (`TurnSettles`, `ResultsSettle`).
  That the results written are as many as the calls, each under its call's id, is
  `AnswersGathered`: the increasing map of `AnswersBefore` is taken apart from its end.

A conversation over two backends (`ProviderProofs`):

- `RequestsAlwaysAcceptable` (`RequestsAcceptable`): the environment answers calls
  as the agent does, so `PairInv` (calls answered, roles fit) makes every request
  one of the kind proved acceptable for the agent; `TypeInv` carries the types of
  the wire, of what was said and of each request.
- `RequestsAlwaysContinue` (`RequestsContinue`, an action property): `RequestInv`
  says that the request of the current transcript begins with the last one posted.
  Both dialects only append to a request when a message is added (`RequestGrows`).
- `BackendsHearThemselves` (`BackendHearsItself`) and `CallsAlwaysOutlive`
  (`CallsOutliveBackend`). `HearInv` ties the turns of the model in each request
  to `said`, one by one; the lemma behind it is that writing undoes reading, in
  each dialect, but for the rounding of the inputs: what was parsed of a text and is
  written again is the text in doubles, 2^63 aside (`DataProofs`, from `NearestTwice`
  and `NearestOfGreatest`). The calls of a body are those of the message read from
  it, whatever texts and other parts are around them.
- `TypeCorrect` (`TypeOK`): what a backend leaves out, or sends as null, never
  becomes a block.

JSON, for every width of integers and doubles. `Nearest` is defined by a choice of
the exponent; `DataProofs` shows that there is one for every number, and from it
what the proofs below rest on: rounding is monotone between multiples of an ulp,
leaves alone what has few enough bits, and rounding again changes nothing
(`NearestTwice`); the greatest integer is rounded to itself or to the power of two
above it (`NearestOfGreatest`).

- `TypedToolProofs`: `TypeCorrect` (`TypeOK`), `ConformingAlwaysArrives`
  (`ConformingArrives`), `MisshapenAlwaysRefused` (`MisshapenRefused`),
  `ResultsAlwaysArrive` (`ResultsArrive`). `Inv` says that what was handed on is
  what `Get` makes of what was sent, and that it was readable. For the built-in types
  the lemmas work out what `ParamSchema` builds; for a struct they use that schema and
  `from_json` agree, member by member: what the schema asks for is enough to be read
  (`ConformingIsGot`), and what is read had the schema's shape, or nothing is required
  and nothing was found (`GettableIsShaped`).
- `StorageProofs`: `TypeCorrect` (`TypeOK`), `SavedIsRestored`
  (`RestoresWhatWasSaved`), `RestoredOnceForAll` (`RestoredSettles`),
  `TurnsAlwaysKept` (`NoTurnLost`). `Inv` says that the text is what was saved of
  `origin`, or some text. What is written is read as it was when its inputs are
  `Stable` (`BlockRound`, `MessageRound`, `ConversationRound`); inputs with numbers
  that text keeps are stable (`KeptStable`), and so is whatever was parsed
  (`ParsedStable`), 2^63 included: the build's cast of it gives an integer that is
  written and parsed as itself.

The other components:

- `StructuredProofs`: `TypeCorrect`, `CostsAccounted`, `AnswersFromLastTurn`,
  `ParseErrorsKeepAttempts` and the refinement `CallsTakeTurns`, all from `LoopInv`:
  behind the given transcript replies and corrective turns alternate, and their
  number is fixed by `attempt` and `pc`.
- `AgentFactoryProofs`: `PointersLive` (`TypeOK`, which says that no exchange went
  through freed memory), `PartsAlwaysOwned`, `RunsArrive`. The invariant is that
  every live agent either has a client and the provider `create` made on it for
  what was asked, or a caller's provider, or nothing, and that no cell has
  two owners, the frame of a `create` counted among them; while an assignment is half
  done, that its source has given away its client and its target's old provider is
  the only one without: then no move, assignment or destruction frees what
  another agent points to.
- `CurlProofs!HandlesAlwaysOwned` and `ExchangesAlwaysApart`. `OwnershipInv` adds
  that an exchange runs on the handle its object has now, and that a thread's
  client has a handle only while its future is running.
- `CurlProofs!ResponsesAlwaysWhole` and `TypeCorrect`. `ReturnInv` relates an
  exchange under way to what the caller will be told: what was received is what was
  sent, and an exchange that was aborted has failed. `CallbacksStop` is the action
  property `StopsWhenTold`.

Positions, sequences and recursion. Where a proof counts along a transcript or a
request (`Blocks`, `FlattenSeq`, the corrective turns), the induction is over the
set of positions for which the claim holds: `DataProofs!Counting` shows that
such a set is all of `0..n`, from the fact that a nonempty set of positions has a
least element, which finite cardinality gives. No induction theorem with an
operator parameter is needed, and recursive functions are unfolded by showing that
a function with their equation exists.

Assumptions: those named in the modules. `AgentAssumption` has two that are not
types: the texts that parse are not empty (the empty text is no JSON), and a
conversation a caller builds answers its own calls. A reply is an assistant's
message of texts and calls, which is what both providers produce. `ChatAssumption`
adds that a caller's conversation has its system prompt in `set_system_prompt`
rather than in a message, and results in tool messages: the serialization of the
Messages dialect sends on whatever a caller built otherwise, and the backend
refuses it. `StructuredAssumption` has the first
of those two; nothing there depends on answered calls.
`AgentFactoryAssumption` keeps names apart (cells, providers of callers,
the null pointer), types the options, and says that the default addresses are not
empty, which is what `create` compares an address with. `CurlAssumption` does the
same and lets no timeout be below zero. `ProviderAssumption` gives readable bodies
the members the dialects document, with values of their kinds, and makes the
wrapper of arguments that are no JSON, and `{}`, inputs like others, as is what
parsing makes of each input text.
`JsonAssumption` gives an integer more bits than a double's significand.
`TypedToolAssumption` says that a double holds every `int`, and that texts and
return values are of JSON's and the handlers' types. `StructsAssumption` says that
each struct's schema and `from_json` agree and that no member is called `_raw`: the
structs of the examples meet it, and TLC evaluates it on them; `AddParams` of
`tests/test_agent.cpp:12-28` does not, as its schema requires nothing while its
`from_json` reads both members with `at()`, so that a model that keeps to the
schema may be refused. `StorageAssumption` closes the
inputs of calls under writing and parsing, and lets foreign texts have strings
of the sets of strings there are, wherever and of whatever kind their members
may be. JSON values are one level deep there: scalars, and objects and arrays of
them.

Only model-checked, and why:

- Liveness (`RunEnds`, `FuturesReady`): fairness and ENABLED are out of this
  prover's reach.
- What the four violation runs find of the documentation: they are counterexamples.

Every other property of a run is a theorem.

## Where the code and its documentation part

Each is the counterexample of a run.

1. `AgentErrorUsage`: an `AgentRunError` thrown during a retry of a typed run has
   the tokens of the last loop only; `error.hpp:17-18` promises the accumulated
   usage. `execute<T>` does not catch what `execute_loop` throws, and
   `accumulated` goes with the frame.
2. `AgentStaleOutput`: when the final turn has no text, `extract_last_text` goes
   back to an earlier turn, also one of an earlier attempt or run, and typed runs
   parse that; `docs/guides/structured-output.md:68` says the final turn is the one
   parsed.
3. `AgentOverridePrompt`: a conversation's own system prompt wins over
   `RunOverrides`; `run_overrides.hpp:19-20` gives the opposite precedence.
4. `StructuredErrorIterations`: a `provider_error` counts the iteration that failed
   (`structured.hpp:51`, and `agent.cpp:133` likewise, as `test_agent.cpp:250`
   expects); `error.hpp:66` says iterations that completed before the failure.

Smaller ones met on the way, without a run of their own: an exception of a handler
becomes an error result and the run goes on (the action `HandlerThrows`), though
`tool.hpp:36-38` and `docs/guides/tools.md:54` say it ends the run; the prompt of an
override stays in the transcript that is handed back, though `run_overrides.hpp:30`
says it is for one call; at the cap the finish reason is the literal
`max_iterations` (`error.hpp:68`); the agent's error at a cap below zero reports
that cap as iterations, and an error of `structured` with a retry limit below -1 a
negative number (`structured.hpp:81`); `docs/guides/tools.md` lets a handler return
any type with a `to_json` overload, but `Json(f(params))` (`tool.hpp:77`) takes only
the types `Json` has a constructor for, so another does not compile.

## Not modelled

- The members of a request that do not come from the transcript (model, limits,
  tools, sampling) and, of a response, its usage and model: copied without a choice.
- Parsing of JSON text itself is the glaze library's; what becomes of its numbers is
  modelled. Nothing is promised, and nothing stated, of infinite doubles (saved as
  `inf`, which does not parse) and of integers beyond the type that reads them; of the
  number 2^63 only that it changes no more than once (`RestoredSettles`).
- Objects within objects in a schema: none in the repository. `Closed` closes only the top level, as the code does.
- Overflow of the `int` token counts: tokens are naturals.
- URLs, headers and the connect timeout of the HTTP client; a stream callback that
  throws through curl's frames, which is undefined.
- Two callers in one agent at a time, handlers that run their own agent, running or
  posting through a moved-from object and reentrant posts from a stream callback:
  outside of the contracts (`agent.hpp:63`: an agent is not thread-safe; a curl
  handle serves one transfer at a time).
- Tests, benchmarks, examples and docs are no part of the program: the parameter
  types of the examples are instances in `MCTypedTool`, and what the rest says of the
  program is in the properties.

## Plan

The order follows importance; all of it is done but the last item.

1. `Transcript`, `ToolRegistry`, `Agent`: dispatch, caps, retries, resuming.
2. `Session`, and the agent as an implementation of it.
3. `Structured`.
4. `Provider` with `OpenAi` and `Anthropic`.
5. `CurlHttpClient`, its ownership proved.
6. `Json` and `Storage`: numbers over small widths, saving and restoring.
7. `Provider` over several backends: a transcript resumed on the other one.
8. `Chat`: the agent over both dialects.
9. `AgentFactory`: `Agent::create` and the lifetime of what an agent owns.
10. `Schema` and `TypedTool`: what the model is told of a type and what is read of it.
11. Proofs: the agent (types, answered calls, accounts, budget, history, output,
    parse errors, `Session`), its requests in both dialects, `Structured`, the
    factory, the client; conversations over two backends; `TypedTool` and `Storage`
    for every width of numbers.
12. Left: JSON values of any depth, by a definition of conversions over paths, as a
    recursive operator would put the proofs out of the prover's reach; the other
    members of requests and responses, if the code comes to choose between them.
