------------------------------ MODULE MCAgent -------------------------------
(***************************************************************************)
(* Small instances of Agent: the replies a provider draws from, the        *)
(* overrides and the conversations of callers.                             *)
(***************************************************************************)
EXTENDS Chat

CONSTANTS a, b, t1, t2, c1, c2, good, bad, ask, fix, empty, base, own, call

\* What no run looks into
args == NoMembers
MCInputs == {args}

Reply(content, reason, tokens) ==
  [content |-> content, finish_reason |-> reason, usage |-> tokens]

Says(text) == Reply(<<TextBlock(text)>>, "stop", 1)
Calls(blocks) == Reply(blocks, "tools", 2)
Silence == Reply(<< >>, "stop", 1)

NoOverride == [system_prompt |-> NoPrompt, max_iterations |-> NoCap]
Capped(n) == [NoOverride EXCEPT !.max_iterations = n]
Prompted(p) == [NoOverride EXCEPT !.system_prompt = p]

MCOptions == [system_prompt |-> base, max_iterations |-> 2]

\* One run of either kind: answers that parse, that do not or have no text,
\* two calls in a turn with text before or behind them
RunReplies ==
  {Says(good), Says(bad), Silence,
   Calls(<<TextBlock(bad), ToolUseBlock(c1, a, args), ToolUseBlock(c2, b, args)>>),
   Calls(<<ToolUseBlock(c2, b, args), TextBlock(good)>>)}
RunOverrides == {NoOverride, Capped(0)}

\* Several runs over one transcript, with and without prompts of their own
ChatReplySet ==
  {Says(good), Silence, Calls(<<TextBlock(bad), ToolUseBlock(c1, a, args)>>)}
ChatOverrides == {NoOverride, Prompted(call), Prompted(EmptyPrompt)}
OwnConversation ==
  Add([EmptyConversation EXCEPT !.system_prompt = own], UserMessage(ask))
AnsweredConversation ==
  Add(Add(OwnConversation,
          AssistantMessage(<<ToolUseBlock(c1, a, args), ToolUseBlock(c2, b, args)>>)),
      ToolMessage(<<ToolResultBlock(c1, FALSE), ToolResultBlock(c2, TRUE)>>))
ChatConversations == {OwnConversation, AnsweredConversation}
NoConversations == {}
=============================================================================
