----------------------------- MODULE Anthropic ------------------------------
(***************************************************************************)
(* The Messages dialect (src/provider/anthropic.cpp): blocks stay blocks.  *)
(* A message on the wire is [role, content], the roles of turns are "user" *)
(* and "assistant", and the system prompt is not a message.                *)
(***************************************************************************)
EXTENDS Transcript, Json

RoleKept(role) == role                                                    \* mutant
\* Tool results are the user's
WireRole(role) == IF role = "tool" THEN "user" ELSE role

\* to_json(ContentBlock)
WireBlock(block) ==
  CASE block.type = "text" -> [type |-> "text", text |-> block.text]
    [] block.type = "tool_use" ->
         [type |-> "tool_use", id |-> block.id, name |-> block.name,
          input |-> Written(block.input)]
    [] block.type = "tool_result" ->
         [type |-> "tool_result", tool_use_id |-> block.tool_use_id,
          is_error |-> block.is_error]

WireMessage(message) ==
  [role |-> WireRole(message.role),
   content |-> [k \in DOMAIN message.content |-> WireBlock(message.content[k])]]

\* serialize_request: its messages.  The system prompt, the model, the limits,
\* the tools and the output schema are members of their own.
AnthropicRequest(conv) ==
  [i \in DOMAIN conv.messages |-> WireMessage(conv.messages[i])]
-----------------------------------------------------------------------------
(***************************************************************************)
(* Reading.  A body is [kind, content]: "reply", "no_content" when the     *)
(* member is absent, "null_content" when it cannot be iterated, "not_json" *)
(* when the body does not parse.  A call may come without an input.        *)
(***************************************************************************)
Body(content) == [kind |-> "reply", content |-> content]
Broken(kind) == [kind |-> kind, content |-> << >>]

TextPart(text) == [type |-> "text", text |-> text]
CallPart(id, name, input) ==
  [type |-> "tool_use", id |-> id, name |-> name, input |-> input]
BareCallPart(id, name) == [type |-> "tool_use", id |-> id, name |-> name]
OtherPart == [type |-> "thinking"]

AnthropicReadable(body) == body.kind \in {"reply", "no_content"}

Block(part) ==
  IF part.type = "text"
    THEN TextBlock(part.text)
    ELSE ToolUseBlock(part.id, part.name,
                      IF "input" \in DOMAIN part THEN FromGeneric(part.input) ELSE NoMembers)

\* The positions of what is read
Known(parts) == {k \in DOMAIN parts : parts[k].type \in {"text", "tool_use"}}

TextOnly(body) ==                                                         \* mutant
  LET parts == Picked(body.content, TextIndexes(body.content))
  IN  [k \in DOMAIN parts |-> Block(parts[k])]

\* deserialize_response: text and calls, in their order
AnthropicContent(body) ==
  LET parts == Picked(body.content, Known(body.content))
  IN  [k \in DOMAIN parts |-> Block(parts[k])]
-----------------------------------------------------------------------------
(***************************************************************************)
(* The backend's side.                                                     *)
(***************************************************************************)

\* The input of a call, as that of a message of a request says it: with the
\* numbers that doubles are, and empty when there was none
SaidInput(part) == IF "input" \in DOMAIN part THEN InDoubles(part.input) ELSE NoMembers

\* What the backend said, as a message of a request says it: blocks of other
\* types are not repeated
AnthropicSaid(body) ==
  LET parts == Picked(body.content, Known(body.content))
  IN  [role |-> "assistant",
       content |-> [k \in DOMAIN parts |->
                      IF parts[k].type = "tool_use"
                        THEN CallPart(parts[k].id, parts[k].name, SaidInput(parts[k]))
                        ELSE parts[k]]]

\* The calls in a message on the wire
AnthropicCalls(message) ==
  LET parts == Picked(message.content, UseIndexes(message.content))
  IN  [k \in DOMAIN parts |->
         [id |-> parts[k].id, name |-> parts[k].name, input |-> parts[k].input]]

\* The message behind a turn with calls is the user's and has a result for
\* each of them and no other, and results are nowhere else
AnthropicAcceptable(messages) ==
  LET Parts(i, type) ==
        {messages[i].content[k] : k \in {k \in DOMAIN messages[i].content :
                                           messages[i].content[k].type = type}}
      Called(i) == {block.id : block \in Parts(i, "tool_use")}
      Results(i) == {block.tool_use_id : block \in Parts(i, "tool_result")}
  IN  \A i \in DOMAIN messages :
        /\ messages[i].role \in {"user", "assistant"}
        /\ Called(i) # {} => /\ i + 1 \in DOMAIN messages
                             /\ messages[i + 1].role = "user"
                             /\ Results(i + 1) = Called(i)
        /\ Results(i) # {} => i > 1 /\ Called(i - 1) # {}
=============================================================================
