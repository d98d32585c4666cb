------------------------------ MODULE Dialects ------------------------------
(***************************************************************************)
(* The dialects a provider speaks, side by side, and what a transcript     *)
(* must be like for both.                                                  *)
(***************************************************************************)
EXTENDS Transcript, Json

CONSTANT Null  \* of JSON, where a text may be

Completions == INSTANCE OpenAi
MessagesApi == INSTANCE Anthropic

\* A message is no system prompt, and has results only as a tool message
RoleFits(message) ==
  /\ message.role # "system"
  /\ \A k \in DOMAIN message.content :
        message.content[k].type = "tool_result" => message.role = "tool"

RolesFit(messages) == \A i \in DOMAIN messages : RoleFits(messages[i])
=============================================================================
