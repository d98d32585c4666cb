------------------------------- MODULE Agent --------------------------------
(***************************************************************************)
(* One Agent and the caller that uses it: registering tools, text runs and *)
(* typed runs, the ReAct loop (Agent::execute_loop), the dispatch of tool  *)
(* calls, the retries of a typed run (Agent::execute<T>), and the results  *)
(* and errors handed back, whose conversations the caller may run again.   *)
(*                                                                         *)
(* A run is sequential: it waits for the provider's answer and for each    *)
(* tool handler.  What interleaves with it are the provider's choices, the *)
(* handlers' choices (a handler may register tools on the agent that is    *)
(* running it) and the caller's choices between runs.                      *)
(***************************************************************************)
EXTENDS Transcript, ToolRegistry, FiniteSets

CONSTANTS
  Tools,               \* tools that can be registered under a name
  Parseable,           \* texts that parse into the caller's T
  Prompt, Corrective,  \* texts of a caller's turn and of a corrective turn
  Replies,             \* LlmResponses a provider may return
  FinishReasons,       \* the finish reasons in them
  Options,             \* AgentOptions: [system_prompt, max_iterations]
  Overrides,           \* the RunOverrides callers pass
  NoCap,               \* a disengaged RunOverrides::max_iterations
  CallerConversations, \* conversations callers build themselves
  MaxRetries,          \* StructuredConfig::max_retries
  Modes,               \* the kinds of run callers make
  MaxRuns              \* bound: runs a caller makes

EmptyPrompt == NoText  \* AgentOptions::system_prompt left empty

ASSUME AgentAssumption ==
  /\ Parseable \subseteq Texts \ {NoText}
  /\ Prompt \in Texts /\ Corrective \in Texts
  /\ Replies \subseteq [content : Seq(TextBlocks \cup ToolUseBlocks),
                        finish_reason : FinishReasons, usage : Nat]
  /\ NoCap \notin Int
  /\ Options \in [system_prompt : Prompts \cup {EmptyPrompt}, max_iterations : Int]
  /\ Overrides \subseteq [system_prompt : Prompts \cup {NoPrompt},
                          max_iterations : Int \cup {NoCap}]
  /\ CallerConversations \subseteq Conversation
  /\ \A conv \in CallerConversations : WellPaired(conv.messages)
  /\ MaxRetries \in Nat
  /\ Modes \subseteq {"text", "typed"}
  /\ MaxRuns \in Nat

VARIABLES
  registry,         \* Agent::registry_
  runs,             \* bounded by MaxRuns
  pc,               \* where the run in progress is
  mode,             \* "text": run<std::string>, "typed": any other T
  overrides,        \* the run's RunOverrides
  working,          \* the conversation being extended
  views,            \* execute_loop: tool_views
  iteration,        \* execute_loop: iteration
  usage,            \* execute_loop: accumulated
  finish_reason,    \* response.finish_reason, then last_finish_reason
  index,            \* dispatch_tools: the block reached in the response
  tool_results,     \* dispatch_tools: results
  attempt,          \* execute<T>: attempt
  accumulated,      \* execute<T>: accumulated
  total_iterations, \* execute<T>: total_iterations
  outcome,          \* what the last run returned or threw
  given,            \* history: the conversation the run was started with
  replied,          \* history: replies received in this run
  spent             \* history: tokens of those replies

loopVars == <<views, iteration, usage, finish_reason>>
dispatchVars == <<index, tool_results>>
attemptVars == <<attempt, accumulated, total_iterations>>
callVars == <<runs, mode, overrides, given>>
historyVars == <<replied, spent>>
vars == <<registry, pc, working, outcome, loopVars, dispatchVars, attemptVars,
          callVars, historyVars>>

NoOutcome ==
  [kind |-> "none", output |-> NoText, conversation |-> EmptyConversation,
   usage |-> 0, iterations |-> 0, finish_reason |-> "none"]

ErrorKinds == {"provider_error", "max_iterations", "structured_parse"}
Outcomes ==
  [kind : ErrorKinds \cup {"none", "result", "foreign"}, output : Texts,
   conversation : Conversation, usage : Nat, iterations : Int,
   finish_reason : FinishReasons \cup {"none", "error", "max_iterations"}]

\* The conversation of a run that ended otherwise than by a foreign exception
HandedBack == outcome.kind \in ErrorKinds \cup {"result"}

Init ==
  /\ registry = EmptyRegistry
  /\ runs = 0
  /\ pc = "idle"
  /\ mode = "text"
  /\ overrides = [system_prompt |-> NoPrompt, max_iterations |-> NoCap]
  /\ working = EmptyConversation
  /\ views = EmptyRegistry
  /\ iteration = 0 /\ usage = 0 /\ finish_reason = "none"
  /\ index = 1 /\ tool_results = << >>
  /\ attempt = 0 /\ accumulated = 0 /\ total_iterations = 0
  /\ outcome = NoOutcome
  /\ given = EmptyConversation
  /\ replied = 0 /\ spent = 0
-----------------------------------------------------------------------------
(***************************************************************************)
(* The caller.                                                             *)
(***************************************************************************)

\* Agent::add_tool, by the caller between runs or by a handler during one
AddTool(name, tool) ==
  /\ pc \in {"idle", "handler"}
  /\ registry' = RegistryAdd(registry, name, tool)
  /\ UNCHANGED <<pc, working, outcome, loopVars, dispatchVars, attemptVars,
                 callVars, historyVars>>

\* Agent::apply_system_prompt: the conversation's own prompt stands; then the
\* override's, even an empty one; then the agent's unless it is empty
ApplySystemPrompt(conv, ov) ==
  CASE conv.system_prompt # NoPrompt -> conv
    [] conv.system_prompt = NoPrompt /\ ov.system_prompt # NoPrompt ->
         [conv EXCEPT !.system_prompt = ov.system_prompt]
    [] conv.system_prompt = NoPrompt /\ ov.system_prompt = NoPrompt ->
         IF Options.system_prompt = EmptyPrompt
           THEN conv
           ELSE [conv EXCEPT !.system_prompt = Options.system_prompt]

\* Entry of execute<T> and of its first execute_loop
Start(conv, m, ov) ==
  /\ pc = "idle"
  /\ runs < MaxRuns
  /\ runs' = runs + 1
  /\ pc' = "loop"
  /\ mode' = m
  /\ overrides' = ov
  /\ given' = conv
  /\ working' = ApplySystemPrompt(conv, ov)
  /\ views' = Views(registry)
  /\ replied' = 0 /\ spent' = 0
  /\ UNCHANGED <<registry, outcome, iteration, usage, finish_reason,
                 dispatchVars, attemptVars>>

\* run<T>(prompt): a fresh conversation with the prompt as its one user turn
RunPrompt(m, ov) == Start(Add(EmptyConversation, UserMessage(Prompt)), m, ov)

\* run<T>(conversation): one the caller built
RunConversation(conv, m, ov) == Start(conv, m, ov)

\* run<T>(conversation): the transcript the last run handed back, as it is or
\* with a new user turn
ResumeConversation(m, ov) ==
  /\ HandedBack
  /\ \/ Start(outcome.conversation, m, ov)
     \/ Start(Add(outcome.conversation, UserMessage(Prompt)), m, ov)
-----------------------------------------------------------------------------
(***************************************************************************)
(* Agent::execute_loop and dispatch_tools.                                 *)
(***************************************************************************)

\* The iteration cap: RunOverrides over AgentOptions
MaxIterations == IF overrides.max_iterations = NoCap
                   THEN Options.max_iterations
                   ELSE overrides.max_iterations

\* The run is over: its locals are gone, the caller has the outcome
Finish(result) ==
  /\ pc' = "idle"
  /\ outcome' = result
  /\ working' = EmptyConversation
  /\ views' = EmptyRegistry
  /\ iteration' = 0 /\ usage' = 0 /\ finish_reason' = "none"
  /\ index' = 1 /\ tool_results' = << >>
  /\ attempt' = 0 /\ accumulated' = 0 /\ total_iterations' = 0
  /\ UNCHANGED <<registry, callVars, historyVars>>

Result(output, conv, tokens, iterations, reason) ==
  [kind |-> "result", output |-> output, conversation |-> conv,
   usage |-> tokens, iterations |-> iterations, finish_reason |-> reason]

AgentRunError(kind, conv, tokens, iterations, reason) ==
  [kind |-> kind, output |-> NoText, conversation |-> conv,
   usage |-> tokens, iterations |-> iterations, finish_reason |-> reason]

CallingInclusive == pc = "loop" /\ iteration <= MaxIterations   \* mutant
Calling == pc = "loop" /\ iteration < MaxIterations

\* provider_->chat() answers: count the tokens, append the message, dispatch
\* its tool calls or leave the loop
ChatReplies(reply) ==
  /\ Calling
  /\ usage' = usage + reply.usage
  /\ finish_reason' = reply.finish_reason
  /\ working' = Add(working, AssistantMessage(reply.content))
  /\ pc' = IF UseIndexes(reply.content) # {} THEN "dispatch" ELSE "returned"
  /\ replied' = replied + 1
  /\ spent' = spent + reply.usage
  /\ UNCHANGED <<registry, outcome, views, iteration, dispatchVars, attemptVars,
                 callVars>>

\* chat() throws a std::exception
ChatThrows ==
  /\ Calling
  /\ Finish(AgentRunError("provider_error", working, usage, iteration + 1, "error"))

MaxIterationsReached ==
  /\ pc = "loop"
  /\ iteration >= MaxIterations
  /\ Finish(AgentRunError("max_iterations", working, usage, MaxIterations,
                          "max_iterations"))

\* response.message.content: the turn appended last
Response == working.messages[Len(working.messages)].content
Block == Response[index]

Dispatching == pc = "dispatch" /\ index \in DOMAIN Response

dispatchFrame == <<registry, working, outcome, loopVars, attemptVars, callVars,
                   historyVars>>

SkipBlockStuck == Dispatching /\ Block.type # "tool_use" /\ UNCHANGED vars   \* mutant
SkipBlockTwice ==                                                         \* mutant
  /\ Dispatching
  /\ Block.type # "tool_use"
  /\ index' = index + 2
  /\ UNCHANGED <<pc, tool_results, dispatchFrame>>
SkipBlock ==
  /\ Dispatching
  /\ Block.type # "tool_use"
  /\ index' = index + 1
  /\ UNCHANGED <<pc, tool_results, dispatchFrame>>

\* The handler of a registered tool starts
CallTool ==
  /\ Dispatching
  /\ Block.type = "tool_use"
  /\ RegistryHas(registry, Block.name)
  /\ pc' = "handler"
  /\ UNCHANGED <<dispatchVars, dispatchFrame>>

PushResultUnlessError(is_error) ==                                        \* mutant
  /\ tool_results' = IF is_error
                       THEN tool_results
                       ELSE Append(tool_results, ToolResultBlock(Block.id, FALSE))
  /\ index' = index + 1
  /\ pc' = "dispatch"
  /\ UNCHANGED dispatchFrame

\* The result of the call reached goes to the model, and dispatch goes on
PushResult(is_error) ==
  /\ tool_results' = Append(tool_results, ToolResultBlock(Block.id, is_error))
  /\ index' = index + 1
  /\ pc' = "dispatch"
  /\ UNCHANGED dispatchFrame

\* ToolRegistry::get throws, dispatch_tools catches
UnknownTool ==
  /\ Dispatching
  /\ Block.type = "tool_use"
  /\ ~ RegistryHas(registry, Block.name)
  /\ PushResult(TRUE)

HandlerReturns == pc = "handler" /\ PushResult(FALSE)

\* The handler, or the conversion of its arguments, throws a std::exception
HandlerThrows == pc = "handler" /\ PushResult(TRUE)

\* Every block is dealt with: append the results and go round the loop
FinishDispatch ==
  /\ pc = "dispatch"
  /\ index \notin DOMAIN Response
  /\ working' = Add(working, ToolMessage(tool_results))
  /\ iteration' = iteration + 1
  /\ pc' = "loop"
  /\ index' = 1 /\ tool_results' = << >>
  /\ UNCHANGED <<registry, outcome, views, usage, finish_reason, attemptVars,
                 callVars, historyVars>>

\* What is thrown is not a std::exception: no catch of the agent's sees it,
\* run() unwinds and the transcript goes with it
ForeignException ==
  /\ Calling \/ pc = "handler"
  /\ Finish([NoOutcome EXCEPT !.kind = "foreign"])
-----------------------------------------------------------------------------
(***************************************************************************)
(* Agent::execute<T>: what becomes of a loop that returned.                *)
(***************************************************************************)
Output == ExtractLastText(working)

\* T = std::string
ReturnText ==
  /\ pc = "returned"
  /\ mode = "text"
  /\ Finish(Result(Output, working, usage, iteration + 1, finish_reason))

\* The attempt's totals are added up before its text is parsed
LastLoopUsage == usage                                                    \* mutant
TotalUsage == accumulated + usage
IterationIndexes == total_iterations + iteration                          \* mutant
TotalIterations == total_iterations + (iteration + 1)

ReturnParsed ==
  /\ pc = "returned"
  /\ mode = "typed"
  /\ Output \in Parseable
  /\ Finish(Result(Output, working, TotalUsage, TotalIterations, finish_reason))

RetriesAsAttempts == attempt + 1 < MaxRetries                             \* mutant
RetriesLeft == attempt < MaxRetries

RestartedFromGiven == Add(given, UserMessage(Corrective))                 \* mutant
NotCorrected == working                                                   \* mutant
Corrected == Add(working, UserMessage(Corrective))

\* Ask again: a corrective user turn, and a loop with a fresh budget and views
RetryParse ==
  /\ pc = "returned"
  /\ mode = "typed"
  /\ Output \notin Parseable
  /\ RetriesLeft
  /\ working' = Corrected
  /\ attempt' = attempt + 1
  /\ accumulated' = TotalUsage
  /\ total_iterations' = TotalIterations
  /\ pc' = "loop"
  /\ views' = Views(registry)
  /\ iteration' = 0 /\ usage' = 0
  /\ UNCHANGED <<registry, outcome, finish_reason, dispatchVars, callVars,
                 historyVars>>

ParseExhausted ==
  /\ pc = "returned"
  /\ mode = "typed"
  /\ Output \notin Parseable
  /\ ~ RetriesLeft
  /\ Finish(AgentRunError("structured_parse", working, TotalUsage,
                          TotalIterations, finish_reason))
-----------------------------------------------------------------------------
RunStep ==
  \/ \E reply \in Replies : ChatReplies(reply)
  \/ ChatThrows
  \/ MaxIterationsReached
  \/ SkipBlock
  \/ CallTool
  \/ UnknownTool
  \/ HandlerReturns
  \/ HandlerThrows
  \/ ForeignException
  \/ FinishDispatch
  \/ ReturnText
  \/ ReturnParsed
  \/ RetryParse
  \/ ParseExhausted

CallerStep ==
  \/ \E m \in Modes, ov \in Overrides :
        \/ RunPrompt(m, ov)
        \/ \E conv \in CallerConversations : RunConversation(conv, m, ov)
        \/ ResumeConversation(m, ov)
  \/ \E name \in ToolNames, tool \in Tools : AddTool(name, tool)

Next == RunStep \/ CallerStep

Spec == Init /\ [][Next]_vars

\* run() is synchronous code: it goes on as long as the provider's chat()
\* answers or throws (the HTTP client's timeouts see to it) and the handlers
\* return.  The caller need never do anything.
FairSpec == Spec /\ WF_vars(RunStep)
-----------------------------------------------------------------------------
(***************************************************************************)
(* What a run may rely on and what the caller gets.                        *)
(***************************************************************************)

\* Every variable has its type, and dispatch never steps past the end of the
\* response it is working through.
TypeOK ==
  /\ registry \in Registries(ToolNames, Tools)
  /\ views \in Registries(ToolNames, Tools)
  /\ runs \in Nat
  /\ pc \in {"idle", "loop", "dispatch", "handler", "returned"}
  /\ mode \in {"text", "typed"}
  /\ overrides \in [system_prompt : Prompts \cup {NoPrompt},
                    max_iterations : Int \cup {NoCap}]
  /\ working \in Conversation /\ given \in Conversation
  /\ iteration \in Nat /\ usage \in Nat /\ replied \in Nat /\ spent \in Nat
  /\ finish_reason \in FinishReasons \cup {"none"}
  /\ index \in Nat \ {0} /\ tool_results \in Seq(ToolResultBlocks)
  /\ attempt \in Nat /\ accumulated \in Nat /\ total_iterations \in Nat
  /\ outcome \in Outcomes
  /\ pc \in {"dispatch", "handler"} => index <= Len(Response) + 1

\* The conversation of every request, and of every result and error, has for
\* each tool call its result in the very next message, in the order of the
\* calls: so the provider accepts it, now and when the caller resumes it.
\* (execute_loop and dispatch_tools: unknown tools, throwing handlers and the
\* iteration cap all leave the transcript answered.)
ToolCallsAnswered ==
  /\ pc \in {"loop", "returned"} => WellPaired(working.messages)
  /\ HandedBack => WellPaired(outcome.conversation.messages)

\* A tool advertised to the model is, until the loop's last dispatch, the tool
\* a call by its name runs: registrations made by handlers while the loop runs
\* never replace or remove what the loop's views refer to (execute_loop takes
\* the views once, ToolRegistry::add never overwrites).
AdvertisedToolsLive ==
  pc # "idle" => \A name \in DOMAIN views : /\ name \in DOMAIN registry
                                           /\ registry[name] = views[name]

\* Tokens are neither lost nor counted twice: the results, the parse errors
\* and a text run's errors report the sum over all replies of the run, however
\* many loops it took (the accumulation in execute<T> and execute_loop).
UsageAccounted ==
  (\/ outcome.kind \in {"result", "structured_parse"}
   \/ mode = "text" /\ HandedBack)
     => (pc = "idle" => outcome.usage = spent)

\* The iterations reported are the replies received, over all attempts
IterationsAccounted ==
  pc = "idle" /\ outcome.kind \in {"result", "structured_parse"}
    => outcome.iterations = replied

\* The model is called at most cap times by a text run and cap times per
\* attempt by a typed one: a retry gets a fresh budget, never an unlimited one.
TurnBudget == (IF mode = "text" THEN 1 ELSE MaxRetries + 1)
                * (IF MaxIterations > 0 THEN MaxIterations ELSE 0)

CallBudget == replied <= TurnBudget

\* A structured_parse error holds the run's whole history: a corrective turn
\* for every failed attempt but the last, and after the last the answer that
\* failed (error.hpp:30-32).
CorrectiveTurns(conv) ==
  {i \in DOMAIN conv.messages :
     i > Len(given.messages) /\ conv.messages[i] = UserMessage(Corrective)}

ParseErrorKeepsAttempts ==
  pc = "idle" /\ outcome.kind = "structured_parse"
    => LET conv == outcome.conversation
           last == conv.messages[Len(conv.messages)]
       IN  /\ Cardinality(CorrectiveTurns(conv)) = MaxRetries
           /\ last.role = "assistant" /\ ~ HasToolUse(last)

\* When the final turn has text, that text is the output of a text run: never
\* a block of an earlier turn (extract_last_text).
OutputIsLatestText ==
  pc = "idle" /\ outcome.kind = "result"
    => LET conv == outcome.conversation
           final == conv.messages[Len(conv.messages)].content
       IN  TextIndexes(final) # {} => outcome.output = FirstText(final)

\* The transcript only grows: a run starts from all of the conversation it is
\* given, no step of it drops or rewrites a message or a prompt, and what is
\* handed back continues it.
HistoryAppendOnly ==
  [][/\ pc = "idle" /\ pc' # "idle" => Extends(given', working')
     /\ pc # "idle" /\ pc' # "idle" => Extends(working, working')
     /\ pc # "idle" /\ HandedBack' /\ pc' = "idle"
          => Extends(working, outcome'.conversation)]_vars

\* Every run ends, in a result or in an exception.
RunEnds == pc # "idle" ~> pc = "idle"

\* A run is an exchange of turns as Session states it
Speaker ==
  CASE pc = "idle" -> "nobody"
    [] pc # "idle" /\ Len(working.messages) = Len(given.messages) -> "caller"
    [] pc # "idle" /\ Len(working.messages) # Len(given.messages) ->
         IF working.messages[Len(working.messages)].role = "assistant"
           THEN "model" ELSE "input"

Exchange == INSTANCE Session WITH
  speaker <- Speaker,
  turns <- replied,
  budget <- TurnBudget,
  verdict <- CASE pc # "idle" -> "open"
               [] pc = "idle" /\ runs = 0 -> "none"
               [] pc = "idle" /\ runs # 0 ->
                    IF outcome.kind = "result" THEN "answer" ELSE "failure"

\* Refinement: the agent's runs implement the turn-taking contract
TakesTurns == Exchange!Spec
-----------------------------------------------------------------------------
(***************************************************************************)
(* What the documentation says of runs and the code does otherwise.        *)
(***************************************************************************)

\* error.hpp:18: every AgentRunError carries the accumulated token usage
ErrorUsageAccumulated ==
  pc = "idle" /\ outcome.kind \in ErrorKinds => outcome.usage = spent

\* agent.hpp:52: run() returns the final assistant text; structured-output.md:
\* the final turn is the one parsed into T
OutputFromFinalTurn ==
  pc = "idle" /\ outcome.kind = "result" /\ outcome.output # NoText
    => LET conv == outcome.conversation
       IN  TextIndexes(conv.messages[Len(conv.messages)].content) # {}

\* run_overrides.hpp:19: RunOverrides > Conversation::system_prompt
OverridePromptWins ==
  pc # "idle" /\ overrides.system_prompt # NoPrompt
    => working.system_prompt = overrides.system_prompt
=============================================================================
