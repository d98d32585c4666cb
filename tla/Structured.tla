----------------------------- MODULE Structured -----------------------------
(***************************************************************************)
(* structured<T>(provider, conversation, config): one typed answer from a  *)
(* provider without an agent, and the caller that may go on from the       *)
(* conversation a call handed back.  Tools are not offered and tool calls  *)
(* in a reply are not dispatched; only the text of the last reply counts.  *)
(***************************************************************************)
EXTENDS Transcript

CONSTANTS
  Parseable,           \* texts that parse into the caller's T
  Prompt, Corrective,  \* texts of a caller's turn and of a corrective turn
  Replies,             \* LlmResponses a provider may return
  FinishReasons,       \* the finish reasons in them
  RetryLimits,         \* the StructuredConfig::max_retries callers pass
  CallerConversations, \* conversations callers build themselves
  MaxRuns              \* bound: calls a caller makes

ASSUME StructuredAssumption ==
  /\ Parseable \subseteq Texts \ {NoText}
  /\ Prompt \in Texts /\ Corrective \in Texts
  /\ Replies \subseteq [content : Seq(TextBlocks \cup ToolUseBlocks),
                        finish_reason : FinishReasons, usage : Nat]
  /\ RetryLimits \subseteq Int
  /\ CallerConversations \subseteq Conversation
  /\ MaxRuns \in Nat

VARIABLES
  runs,               \* bounded by MaxRuns
  pc,                 \* "idle", or a call is "calling" or "parsing"
  max_retries,        \* its config.max_retries
  working,            \* the conversation being extended
  attempt,            \* the retry loop's counter
  accumulated,        \* tokens
  last_finish_reason,
  outcome,            \* what the last call returned or threw
  given,              \* history: the conversation the call was made with
  replied,            \* history: replies received in this call
  spent               \* history: tokens of those replies

loopVars == <<working, attempt, accumulated, last_finish_reason>>
callVars == <<runs, max_retries, given>>
historyVars == <<replied, spent>>
vars == <<pc, outcome, loopVars, callVars, historyVars>>

NoOutcome ==
  [kind |-> "none", output |-> NoText, conversation |-> EmptyConversation,
   usage |-> 0, iterations |-> 0, finish_reason |-> "none"]

Init ==
  /\ runs = 0 /\ pc = "idle" /\ max_retries = 0
  /\ working = EmptyConversation /\ attempt = 0 /\ accumulated = 0
  /\ last_finish_reason = "none"
  /\ outcome = NoOutcome
  /\ given = EmptyConversation /\ replied = 0 /\ spent = 0

Call(conv, retries) ==
  /\ pc = "idle"
  /\ runs < MaxRuns
  /\ pc' = "calling"
  /\ runs' = runs + 1
  /\ max_retries' = retries
  /\ given' = conv
  /\ working' = conv /\ attempt' = 0 /\ accumulated' = 0
  /\ last_finish_reason' = "none"
  /\ replied' = 0 /\ spent' = 0
  /\ UNCHANGED outcome

\* The caller goes on from what the last call handed back
Resume(retries) ==
  /\ outcome.kind # "none"
  /\ Call(Add(outcome.conversation, UserMessage(Prompt)), retries)

\* The call is over; its locals are gone
Finish(kind, output, conv, tokens, iterations, reason) ==
  /\ pc' = "idle"
  /\ outcome' = [kind |-> kind, output |-> output, conversation |-> conv,
                 usage |-> tokens, iterations |-> iterations,
                 finish_reason |-> reason]
  /\ working' = EmptyConversation /\ attempt' = 0 /\ accumulated' = 0
  /\ last_finish_reason' = "none"
  /\ UNCHANGED <<callVars, historyVars>>

OneAttemptMore == attempt <= max_retries + 1                              \* mutant
AttemptsLeft == attempt <= max_retries

\* provider.chat() throws
ChatThrows ==
  /\ pc = "calling"
  /\ AttemptsLeft
  /\ Finish("provider_error", NoText, working, accumulated, attempt + 1, "error")

\* provider.chat() answers: its cost is added up and its message appended
LatestUsage(reply) == reply.usage                                         \* mutant
AddUsage(reply) == accumulated + reply.usage

ChatReplies(reply) ==
  /\ pc = "calling"
  /\ AttemptsLeft
  /\ pc' = "parsing"
  /\ accumulated' = AddUsage(reply)
  /\ last_finish_reason' = reply.finish_reason
  /\ working' = Add(working, AssistantMessage(reply.content))
  /\ replied' = replied + 1 /\ spent' = spent + reply.usage
  /\ UNCHANGED <<attempt, outcome, callVars>>

\* The response that was appended last
Response == working.messages[Len(working.messages)].content

\* extract_json_from_response reads the first text of this response, and throws
\* when it has none
LatestText == ExtractLastText(working)                                    \* mutant
ResponseText == IF TextIndexes(Response) = {} THEN NoText ELSE FirstText(Response)

\* Json::parse and get<T> succeed on it
ParseSucceeds ==
  /\ pc = "parsing"
  /\ ResponseText \in Parseable
  /\ Finish("result", ResponseText, working, accumulated, attempt + 1,
            last_finish_reason)

\* They throw: the reply stays in the conversation, and a corrective turn
\* follows it unless this was the last attempt
NeverCorrected == working                                                 \* mutant
AlwaysCorrected == Add(working, UserMessage(Corrective))                  \* mutant
Corrected ==
  IF attempt < max_retries THEN Add(working, UserMessage(Corrective)) ELSE working

ParseFails ==
  /\ pc = "parsing"
  /\ ResponseText \notin Parseable
  /\ pc' = "calling"
  /\ working' = Corrected
  /\ attempt' = attempt + 1
  /\ UNCHANGED <<accumulated, last_finish_reason, outcome, callVars, historyVars>>

Exhausted ==
  /\ pc = "calling"
  /\ ~ AttemptsLeft
  /\ Finish("structured_parse", NoText, working, accumulated, max_retries + 1,
            last_finish_reason)

CallStep ==
  \/ ChatThrows
  \/ \E reply \in Replies : ChatReplies(reply)
  \/ ParseSucceeds
  \/ ParseFails
  \/ Exhausted

CallerStep ==
  \E retries \in RetryLimits :
     \/ \E conv \in CallerConversations : Call(conv, retries)
     \/ Resume(retries)

Next == CallStep \/ CallerStep

Spec == Init /\ [][Next]_vars
-----------------------------------------------------------------------------
\* Every variable has its type, and the retry loop's counter stops one past the
\* last attempt.
TypeOK ==
  /\ runs \in Nat /\ pc \in {"idle", "calling", "parsing"} /\ max_retries \in Int
  /\ working \in Conversation /\ given \in Conversation
  /\ attempt \in 0 .. (IF max_retries >= 0 THEN max_retries + 1 ELSE 0)
  /\ accumulated \in Nat /\ replied \in Nat /\ spent \in Nat
  /\ last_finish_reason \in FinishReasons \cup {"none"}
  /\ outcome \in [kind : {"none", "result", "provider_error", "structured_parse"},
                  output : Texts, conversation : Conversation, usage : Nat,
                  iterations : Int,
                  finish_reason : FinishReasons \cup {"none", "error"}]

\* What a call reports is what it cost: the tokens of every reply, however it
\* ends, and on a result or a parse error one iteration for each (a limit below
\* -1 makes the count of a parse error negative).
CostAccounted ==
  pc = "idle" /\ outcome.kind # "none"
    => /\ outcome.usage = spent
       /\ \/ outcome.kind = "result"
          \/ outcome.kind = "structured_parse" /\ max_retries >= -1
          => outcome.iterations = replied

\* error.hpp:66: an error carries the "Number of loop iterations that completed
\* before failure".
ErrorIterationsCompleted ==
  pc = "idle" /\ outcome.kind \in {"provider_error", "structured_parse"}
    => outcome.iterations = replied

\* The value returned was parsed from the last turn of the conversation
\* returned, never from an earlier one (as the agent's typed runs may).
AnswerFromLastTurn ==
  pc = "idle" /\ outcome.kind = "result"
    => LET messages == outcome.conversation.messages
           last == messages[Len(messages)].content
       IN  /\ TextIndexes(last) # {}
           /\ outcome.output = FirstText(last)
           /\ outcome.output \in Parseable

\* A parse error's conversation is the caller's followed by every failed reply,
\* each but the last with its corrective turn.
ParseErrorKeepsAttempts ==
  pc = "idle" /\ outcome.kind = "structured_parse" /\ max_retries >= 0
    => LET conv == outcome.conversation
           start == Len(given.messages)
       IN  /\ Extends(given, conv)
           /\ Len(conv.messages) = start + 2 * max_retries + 1
           /\ \A i \in start + 1 .. Len(conv.messages) :
                 IF (i - start) % 2 = 1
                   THEN conv.messages[i].role = "assistant"
                   ELSE conv.messages[i] = UserMessage(Corrective)

\* A call is an exchange of turns as Session states it
Speaker ==
  CASE pc = "idle" -> "nobody"
    [] pc # "idle" /\ Len(working.messages) = Len(given.messages) -> "caller"
    [] pc # "idle" /\ Len(working.messages) # Len(given.messages) ->
         IF working.messages[Len(working.messages)].role = "assistant"
           THEN "model" ELSE "input"

Exchange == INSTANCE Session WITH
  speaker <- Speaker,
  turns <- replied,
  budget <- IF max_retries >= 0 THEN max_retries + 1 ELSE 0,
  verdict <- CASE pc # "idle" -> "open"
               [] pc = "idle" /\ runs = 0 -> "none"
               [] pc = "idle" /\ runs # 0 ->
                    IF outcome.kind = "result" THEN "answer" ELSE "failure"

\* Refinement: calls implement the turn-taking contract
TakesTurns == Exchange!Spec
=============================================================================
