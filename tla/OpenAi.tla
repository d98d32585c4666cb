------------------------------- MODULE OpenAi -------------------------------
(***************************************************************************)
(* The Chat Completions dialect (src/provider/openai.cpp): how a           *)
(* conversation is written and how a response is read.  A message on the   *)
(* wire is a record; an absent tool_calls is an empty list.  The arguments *)
(* of a call should be a string of JSON; they are told apart by whether    *)
(* they are, are another string, or no string at all.                      *)
(***************************************************************************)
EXTENDS Transcript, Json, SequencesExt

CONSTANT Null  \* of JSON, where a text may be

JsonString(value) == [form |-> "json", value |-> value]
RawString(text) == [form |-> "raw", value |-> text]
NoString == [form |-> "absent", value |-> Null]

\* Json::parse of the arguments, else they are wrapped in an object
ParseArguments(arguments) ==
  CASE arguments.form = "json" -> FromGeneric(arguments.value)
    [] arguments.form = "raw" -> Object([_raw |-> String(arguments.value)])
    [] arguments.form = "absent" -> NoMembers

CallBlock(call) == ToolUseBlock(call.id, call.name, ParseArguments(call.arguments))

WireCall(block) ==
  [id |-> block.id, name |-> block.name, arguments |-> JsonString(Written(block.input))]

\* The blocks of a type
Blocks(content, type) ==
  Picked(content, {i \in DOMAIN content : content[i].type = type})

-----------------------------------------------------------------------------
(***************************************************************************)
(* Writing.                                                                *)
(***************************************************************************)

\* The last text block: each overwrites text_content
TextContent(content) ==
  IF TextIndexes(content) = {}
    THEN NoText
    ELSE content[Greatest(TextIndexes(content))].text

CallsWithoutText(message) ==                                              \* mutant
  LET uses == Blocks(message.content, "tool_use")
  IN  [role |-> message.role,
       content |-> IF uses # << >> THEN Null ELSE TextContent(message.content),
       tool_calls |-> [k \in DOMAIN uses |-> WireCall(uses[k])]]

\* serialize_message
SerializeMessage(message) ==
  LET uses == Blocks(message.content, "tool_use")
      text == TextContent(message.content)
  IN  [role |-> message.role,
       content |-> IF uses # << >> /\ text = NoText THEN Null ELSE text,
       tool_calls |-> [k \in DOMAIN uses |-> WireCall(uses[k])]]

SucceededResults(message) ==                                              \* mutant
  LET results == SelectSeq(message.content, LAMBDA block : ~ block.is_error)
  IN  [k \in DOMAIN results |->
         [role |-> "tool", tool_call_id |-> results[k].tool_use_id]]

\* serialize_tool_result_messages: a message for each result.  Whether the
\* call failed is not on the wire.
SerializeToolResults(message) ==
  LET results == Blocks(message.content, "tool_result")
  IN  [k \in DOMAIN results |->
         [role |-> "tool", tool_call_id |-> results[k].tool_use_id]]

SystemMessages(conv) ==
  IF conv.system_prompt = NoPrompt
    THEN << >>
    ELSE <<[role |-> "system", content |-> conv.system_prompt]>>

TurnMessages(conv) ==
  FlattenSeq([i \in DOMAIN conv.messages |->
                IF conv.messages[i].role = "tool"
                  THEN SerializeToolResults(conv.messages[i])
                  ELSE <<SerializeMessage(conv.messages[i])>>])

SystemLast(conv) == TurnMessages(conv) \o SystemMessages(conv)            \* mutant

\* serialize_request: its messages.  The model, the limits, the tools and the
\* output schema do not depend on the transcript.
OpenAiRequest(conv) == SystemMessages(conv) \o TurnMessages(conv)
-----------------------------------------------------------------------------
(***************************************************************************)
(* Reading.  A body is [kind, content, tool_calls]: "reply" has a first    *)
(* choice with a message (null is read as a message without members),      *)
(* "no_choices" has none, "not_json" does not parse.                       *)
(***************************************************************************)
Body(content, calls) == [kind |-> "reply", content |-> content, tool_calls |-> calls]
Broken(kind) == [kind |-> kind, content |-> Null, tool_calls |-> << >>]

\* A null tool_calls is there and cannot be iterated: the accessor throws
OpenAiReadable(body) == body.kind = "reply" /\ body.tool_calls # Null

NullAsText(body) ==                                                       \* mutant
  [k \in DOMAIN body.tool_calls |-> CallBlock(body.tool_calls[k])]
    \o (IF body.content = NoText THEN << >> ELSE <<TextBlock(body.content)>>)

\* deserialize_response: the calls first, then the text unless it is empty
OpenAiContent(body) ==
  [k \in DOMAIN body.tool_calls |-> CallBlock(body.tool_calls[k])]
    \o (IF body.content \in {Null, NoText} THEN << >> ELSE <<TextBlock(body.content)>>)
-----------------------------------------------------------------------------
(***************************************************************************)
(* The backend's side.                                                     *)
(***************************************************************************)

\* The arguments of a call, as those of a message of a request say them: with
\* the numbers that doubles are, wrapped when they were no JSON
SaidInput(arguments) ==
  CASE arguments.form = "json" -> InDoubles(arguments.value)
    [] arguments.form = "raw" -> Object([_raw |-> String(arguments.value)])
    [] arguments.form = "absent" -> NoMembers

\* What the backend said, as a message of a request says it: no text is null
\* next to calls and empty otherwise
OpenAiSaid(body) ==
  LET calls == [k \in DOMAIN body.tool_calls |->
                  [body.tool_calls[k] EXCEPT !.arguments = JsonString(SaidInput(@))]]
  IN  [role |-> "assistant",
       content |-> IF body.content \in {Null, NoText}
                     THEN IF calls = << >> THEN NoText ELSE Null
                     ELSE body.content,
       tool_calls |-> calls]

\* The calls in a message on the wire
OpenAiCalls(message) ==
  [k \in DOMAIN message.tool_calls |->
     [id |-> message.tool_calls[k].id, name |-> message.tool_calls[k].name,
      input |-> message.tool_calls[k].arguments.value]]

\* The messages behind a message with tool calls answer the calls, one each,
\* and tool messages are nowhere else
OpenAiAcceptable(messages) ==
  LET Calls(i) == IF messages[i].role = "assistant" THEN messages[i].tool_calls ELSE << >>
      AnswerTo(j) == {i \in 1..(j - 1) : j - i \in DOMAIN Calls(i)}
  IN  /\ \A i \in DOMAIN messages : \A k \in DOMAIN Calls(i) :
            /\ i + k \in DOMAIN messages
            /\ messages[i + k].role = "tool"
            /\ messages[i + k].tool_call_id = Calls(i)[k].id
      /\ \A j \in DOMAIN messages : messages[j].role = "tool" => AnswerTo(j) # {}
=============================================================================
