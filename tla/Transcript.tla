----------------------------- MODULE Transcript -----------------------------
(***************************************************************************)
(* The data an exchange with a model is made of: content blocks, messages  *)
(* and conversations (include/forgeant/types), and the questions the run   *)
(* loops ask of them.  Text is abstract: two texts are told apart only by  *)
(* whether they are equal and by whether they parse into the caller's      *)
(* result type.  A tool's output is part of what its handler does, so a    *)
(* result carries only what ties it to its call; the input of a call is    *)
(* opaque but for the modules about JSON.                                  *)
(***************************************************************************)
EXTENDS Integers, Sequences

CONSTANTS
  Texts,       \* the texts of TextBlocks
  NoText,      \* the empty string
  CallIds,     \* ids a provider gives to tool calls
  ToolNames,   \* names a model may call, registered or not
  Inputs,      \* JSON values given to tools
  Prompts,     \* system prompts
  NoPrompt     \* a disengaged optional<string>

ASSUME TranscriptAssumption ==
  /\ NoText \in Texts
  /\ NoPrompt \notin Prompts

Roles == {"system", "user", "assistant", "tool"}

TextBlock(t) == [type |-> "text", text |-> t]
ToolUseBlock(id, name, input) ==
  [type |-> "tool_use", id |-> id, name |-> name, input |-> input]
ToolResultBlock(id, is_error) ==
  [type |-> "tool_result", tool_use_id |-> id, is_error |-> is_error]

TextBlocks == [type : {"text"}, text : Texts]
ToolUseBlocks ==
  [type : {"tool_use"}, id : CallIds, name : ToolNames, input : Inputs]
ToolResultBlocks ==
  [type : {"tool_result"}, tool_use_id : CallIds, is_error : BOOLEAN]

ContentBlock == TextBlocks \cup ToolUseBlocks \cup ToolResultBlocks

Message == [role : Roles, content : Seq(ContentBlock)]

Conversation ==
  [system_prompt : Prompts \cup {NoPrompt}, messages : Seq(Message)]

EmptyConversation == [system_prompt |-> NoPrompt, messages |-> << >>]

\* Conversation::add
Add(conv, message) == [conv EXCEPT !.messages = Append(@, message)]

UserMessage(text) == [role |-> "user", content |-> <<TextBlock(text)>>]
AssistantMessage(content) == [role |-> "assistant", content |-> content]
ToolMessage(results) == [role |-> "tool", content |-> results]

UseIndexes(content) == {i \in DOMAIN content : content[i].type = "tool_use"}
TextIndexes(content) == {i \in DOMAIN content : content[i].type = "text"}

\* The members of a list at some of its positions, in their order
Picked(list, positions) ==
  LET upto[n \in 0..Len(list)] ==
        IF n = 0 THEN << >>
        ELSE IF n \in positions THEN Append(upto[n - 1], list[n])
        ELSE upto[n - 1]
  IN  upto[Len(list)]

\* has_tool_use
HasToolUse(message) == UseIndexes(message.content) # {}

-----------------------------------------------------------------------------
(***************************************************************************)
(* The text a run's output is read from.                                   *)
(***************************************************************************)
Least(S) == CHOOSE i \in S : \A j \in S : i <= j
Greatest(S) == CHOOSE i \in S : \A j \in S : j <= i

FirstText(content) == content[Least(TextIndexes(content))].text

TextTurns(messages) ==
  {i \in DOMAIN messages : /\ messages[i].role = "assistant"
                           /\ TextIndexes(messages[i].content) # {}}

ExtractFirstText(conv) ==                                                 \* mutant
  IF TextTurns(conv.messages) = {}
    THEN NoText
    ELSE FirstText(conv.messages[Least(TextTurns(conv.messages))].content)

\* Agent::extract_last_text: the latest assistant message that has a text
\* block, however many turns ago it was
ExtractLastText(conv) ==
  IF TextTurns(conv.messages) = {}
    THEN NoText
    ELSE FirstText(conv.messages[Greatest(TextTurns(conv.messages))].content)

-----------------------------------------------------------------------------
(***************************************************************************)
(* Pairing of tool calls and tool results.  Providers reject a transcript  *)
(* in which a call has no result in the very next message, so it is the    *)
(* shape every conversation offered to a provider must have.               *)
(***************************************************************************)

\* results answers, in order, the tool uses at the positions of content before
\* n: pick[k] is the position of the tool use that results[k] answers
AnswersBefore(results, content, n) ==
  \E pick \in [DOMAIN results -> {i \in UseIndexes(content) : i < n}] :
     /\ \A k \in DOMAIN results :
           /\ results[k].type = "tool_result"
           /\ results[k].tool_use_id = content[pick[k]].id
     /\ \A k, l \in DOMAIN results : k < l => pick[k] < pick[l]
     /\ \A i \in UseIndexes(content) :
           i < n => \E k \in DOMAIN results : pick[k] = i

AnswersAll(results, content) ==
  AnswersBefore(results, content, Len(content) + 1)

\* the message after a turn with tool calls holds their results
Answered(messages, i) ==
  /\ i + 1 \in DOMAIN messages
  /\ messages[i + 1].role = "tool"
  /\ AnswersAll(messages[i + 1].content, messages[i].content)

\* every result message follows the turn whose calls it answers
ResultsFollowCalls(messages) ==
  \A i \in DOMAIN messages :
     messages[i].role = "tool" =>
       /\ i - 1 \in DOMAIN messages
       /\ messages[i - 1].role = "assistant"
       /\ HasToolUse(messages[i - 1])

WellPaired(messages) ==
  /\ \A i \in DOMAIN messages : HasToolUse(messages[i]) => Answered(messages, i)
  /\ ResultsFollowCalls(messages)

\* conv continues base: nothing of it lost or changed, its prompt kept
Extends(base, conv) ==
  /\ Len(base.messages) <= Len(conv.messages)
  /\ \A i \in DOMAIN base.messages : conv.messages[i] = base.messages[i]
  /\ base.system_prompt # NoPrompt => conv.system_prompt = base.system_prompt
=============================================================================
