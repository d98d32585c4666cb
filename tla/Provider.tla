------------------------------ MODULE Provider ------------------------------
(***************************************************************************)
(* A conversation carried over chat() of one provider or of several in     *)
(* turn: the run loops extend it, chat() writes all of it into a request   *)
(* in its backend's dialect, posts the request and reads the backend's     *)
(* turn from the response, or throws.  There is a backend for each dialect.*)
(***************************************************************************)
EXTENDS Dialects
Sequence == INSTANCE SequencesExt

CONSTANTS
  Bodies,         \* the response bodies of each backend
  InputTexts,     \* the inputs in them, as JSON text
  RawTexts,       \* arguments of calls that are no JSON
  Statuses,       \* HTTP status codes
  Asks,           \* texts of user turns
  SystemPrompts,  \* the system prompts of conversations
  MaxMessages     \* bound: messages in the conversation

Backends == {"openai", "anthropic"}

SerializeRequest(backend, conv) ==
  CASE backend = "openai" -> Completions!OpenAiRequest(conv)
    [] backend = "anthropic" -> MessagesApi!AnthropicRequest(conv)

\* No accessor throws
Readable(backend, body) ==
  CASE backend = "openai" -> Completions!OpenAiReadable(body)
    [] backend = "anthropic" -> MessagesApi!AnthropicReadable(body)

\* The content of the message read
DeserializeResponse(backend, body) ==
  CASE backend = "openai" -> Completions!OpenAiContent(body)
    [] backend = "anthropic" -> MessagesApi!AnthropicContent(body)

\* What the backend said, as a message on the wire
Said(backend, body) ==
  CASE backend = "openai" -> Completions!OpenAiSaid(body)
    [] backend = "anthropic" -> MessagesApi!AnthropicSaid(body)

\* The calls in a message on the wire
CallsIn(backend, message) ==
  CASE backend = "openai" -> Completions!OpenAiCalls(message)
    [] backend = "anthropic" -> MessagesApi!AnthropicCalls(message)

\* The backend's rule on calls and results
Acceptable(backend, messages) ==
  CASE backend = "openai" -> Completions!OpenAiAcceptable(messages)
    [] backend = "anthropic" -> MessagesApi!AnthropicAcceptable(messages)

\* The arguments of a call of a Chat Completions backend, and the parts of a
\* reply of a Messages backend
Arguments ==
  {Completions!JsonString(input) : input \in InputTexts}
    \cup {Completions!RawString(text) : text \in RawTexts}
    \cup {Completions!NoString}

Parts ==
  [type : {"text"}, text : Texts]
    \cup [type : {"tool_use"}, id : CallIds, name : ToolNames, input : InputTexts]
    \cup [type : {"tool_use"}, id : CallIds, name : ToolNames]
    \cup {MessagesApi!OtherPart}

\* What is readable has the members the dialects document
ASSUME ProviderAssumption ==
  /\ \A body \in Bodies["openai"] : Readable("openai", body) =>
        /\ body.content \in Texts \cup {Null}
        /\ body.tool_calls \in Seq([id : CallIds, name : ToolNames, arguments : Arguments])
  /\ \A body \in Bodies["anthropic"] :
        Readable("anthropic", body) => body.content \in Seq(Parts)
  /\ \A text \in InputTexts : JsonText(text) /\ FromGeneric(text) \in Inputs
  /\ \A text \in RawTexts : Object([_raw |-> String(text)]) \in Inputs
  /\ NoMembers \in Inputs
  /\ Statuses \subseteq 100..599
  /\ Asks \subseteq Texts
  /\ SystemPrompts \subseteq Prompts \cup {NoPrompt}
  /\ MaxMessages \in Nat

VARIABLES
  conversation,  \* the caller's transcript
  pc,            \* "ready", or the backend chat() waits for
  request,       \* for each backend the messages of the last request to it
  said           \* history: the turns of the model, by whom and as a request to
                 \* their backend should say them

vars == <<conversation, pc, request, said>>

Init ==
  /\ conversation \in {[EmptyConversation EXCEPT !.system_prompt = p] : p \in SystemPrompts}
  /\ pc = "ready"
  /\ request = [backend \in Backends |-> << >>]
  /\ said = << >>
-----------------------------------------------------------------------------
(***************************************************************************)
(* The run loops: they extend the transcript with user turns and, after a  *)
(* turn with tool calls, with a result for each of them in their order     *)
(* (what AgentProofs proves of them).                                      *)
(***************************************************************************)
Turns == conversation.messages
LastTurn == Turns[Len(Turns)]
CallsPending == Turns # << >> /\ HasToolUse(LastTurn)

ToolUses(content) == Picked(content, UseIndexes(content))

Extend(message) ==
  /\ pc = "ready"
  /\ Len(Turns) < MaxMessages
  /\ conversation' = Add(conversation, message)
  /\ UNCHANGED <<pc, request, said>>

AskModel(text) == ~ CallsPending /\ Extend(UserMessage(text))

AnswerCalls ==
  /\ CallsPending
  /\ LET uses == ToolUses(LastTurn.content) IN
     \E errors \in [DOMAIN uses -> BOOLEAN] :
        Extend(ToolMessage(
          [k \in DOMAIN uses |-> ToolResultBlock(uses[k].id, errors[k])]))
-----------------------------------------------------------------------------
(***************************************************************************)
(* chat().  The conversation is a const reference: only what the caller    *)
(* does with the message returned changes it.                              *)
(***************************************************************************)
Post(backend) ==
  /\ pc = "ready"
  /\ Turns # << >> /\ LastTurn.role \in {"user", "tool"}
  /\ Len(Turns) < MaxMessages
  /\ pc' = backend
  /\ request' = [request EXCEPT ![backend] = SerializeRequest(backend, conversation)]
  /\ UNCHANGED <<conversation, said>>

Posted == pc \in Backends

Throw ==
  /\ pc' = "ready"
  /\ UNCHANGED <<conversation, request, said>>

\* The HTTP client throws: no connection, or a timeout
PostThrows == Posted /\ Throw

Success(status) == status >= 200 /\ status < 300

\* An error of the API, whatever its body
ApiError(status) == Posted /\ ~ Success(status) /\ Throw

\* A body that is not JSON or not of the shape the accessors expect
UnreadableBody(status, body) ==
  /\ Success(status)
  /\ ~ Readable(pc, body)
  /\ Throw

\* The backend takes its turn, and the loop appends it
ChatReplies(status, body) ==
  /\ Success(status)
  /\ Readable(pc, body)
  /\ pc' = "ready"
  /\ conversation' = Add(conversation, AssistantMessage(DeserializeResponse(pc, body)))
  /\ said' = Append(said, [backend |-> pc, message |-> Said(pc, body)])
  /\ UNCHANGED request

Next ==
  \/ \E text \in Asks : AskModel(text)
  \/ AnswerCalls
  \/ \E backend \in Backends : Post(backend)
  \/ PostThrows
  \/ \E status \in Statuses :
        \/ ApiError(status)
        \/ /\ Posted
           /\ \E body \in Bodies[pc] : UnreadableBody(status, body) \/ ChatReplies(status, body)

Spec == Init /\ [][Next]_vars
-----------------------------------------------------------------------------
\* The transcript is made of messages as the library has them; what a backend
\* leaves out or sends as null never becomes a block.
TypeOK ==
  /\ pc \in {"ready"} \cup Backends
  /\ conversation.system_prompt \in SystemPrompts
  /\ \A i \in DOMAIN Turns :
        /\ Turns[i].role \in Roles
        /\ \A k \in DOMAIN Turns[i].content : Turns[i].content[k] \in ContentBlock

\* Every request follows its backend's rule on tool calls, whichever backend
\* made them: the calls of a turn are answered right behind it, all of them,
\* and no result is given to a turn without the call (the serialization of
\* tool messages in the dialect).
RequestsAcceptable == \A backend \in Backends : Acceptable(backend, request[backend])

AssistantIndexes(wire) == {i \in DOMAIN wire : wire[i].role = "assistant"}

Heard(backend) ==
  LET wire == SerializeRequest(backend, conversation)
  IN  Picked(wire, AssistantIndexes(wire))

\* The calls a backend hears, and those that were made
CallsSurvive(heard, made) ==
  /\ Len(heard) = Len(made)
  /\ \A k \in DOMAIN made :
        /\ heard[k].id = made[k].id /\ heard[k].name = made[k].name
        /\ Castable(made[k].input) => heard[k].input = made[k].input

CallsCastable(calls) == \A k \in DOMAIN calls : Castable(calls[k].input)

Made(saying) == CallsIn(saying.backend, saying.message)

\* A request tells its backend every turn of the model, in their order and each
\* once, and its own turns as it sent them, with the numbers in the inputs of
\* calls rounded to doubles and nothing else changed, unless one of them is 2^63:
\* an attempt that threw leaves nothing behind, and an error body is never taken
\* for a turn.
BackendHearsItself ==
  \A backend \in Backends :
     /\ Len(Heard(backend)) = Len(said)
     /\ \A i \in DOMAIN said :
           said[i].backend = backend /\ CallsCastable(Made(said[i]))
             => Heard(backend)[i] = said[i].message

\* A conversation that changes its backend takes its tool calls along: each turn
\* tells the new backend the calls the old one made, with ids, names and, to the
\* precision of doubles, inputs (texts need not survive: a Chat Completions
\* message has room for one).
CallsOutliveBackend ==
  \A backend \in Backends : \A i \in DOMAIN said :
     CallsSurvive(CallsIn(backend, Heard(backend)[i]), Made(said[i]))

\* A request is the last one to its backend continued: what a backend was told
\* before it is told again, unchanged, in front of what is new, also when others
\* have answered in between.
RequestsContinue ==
  [][\A backend \in Backends : Sequence!IsPrefix(request[backend], request'[backend])]_vars
=============================================================================
