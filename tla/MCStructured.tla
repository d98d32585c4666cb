---------------------------- MODULE MCStructured ----------------------------
(***************************************************************************)
(* Small instances of Structured: answers that parse, that do not, without *)
(* text, and with tool calls nobody offered; retry limits from 2 down to   *)
(* the negative ones StructuredConfig accepts.                             *)
(***************************************************************************)
EXTENDS Structured

CONSTANTS a, c1, good, bad, ask, fix, empty, base, args

Reply(content, reason, tokens) ==
  [content |-> content, finish_reason |-> reason, usage |-> tokens]

MCReplies ==
  {Reply(<<TextBlock(good)>>, "stop", 1), Reply(<<TextBlock(bad)>>, "stop", 2),
   Reply(<<TextBlock(bad), TextBlock(good)>>, "stop", 1),
   Reply(<< >>, "stop", 0), Reply(<<ToolUseBlock(c1, a, args)>>, "tools", 1)}

\* One conversation is new, in the other the model has answered before
Asked == Add(EmptyConversation, UserMessage(ask))
MCConversations ==
  {Asked,
   Add(Add([Asked EXCEPT !.system_prompt = base],
           AssistantMessage(<<TextBlock(good)>>)), UserMessage(ask))}

Retries == {0, 2, -1, -2}
UsualRetries == {0, 2}
=============================================================================
