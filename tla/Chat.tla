-------------------------------- MODULE Chat --------------------------------
(***************************************************************************)
(* An agent on the wire: Agent composed with the dialects its provider may *)
(* speak.  Every iteration of a run writes the whole working conversation  *)
(* into a request, so what the dialects make of it is a function of the    *)
(* agent's state.                                                          *)
(***************************************************************************)
EXTENDS Agent, Dialects

\* Callers keep the system prompt and the results where Conversation and
\* dispatch_tools put them
ASSUME ChatAssumption == \A conv \in CallerConversations : RolesFit(conv.messages)

Accepted(conv) ==
  /\ Completions!OpenAiAcceptable(Completions!OpenAiRequest(conv))
  /\ MessagesApi!AnthropicAcceptable(MessagesApi!AnthropicRequest(conv))

\* Whatever the handlers do, wherever earlier runs ended and whoever built the
\* conversation, either backend accepts every request of a run by its rule on
\* calls and results, and every transcript handed back (dispatch_tools over
\* the serialization of tool messages).
RequestsAccepted ==
  /\ pc = "loop" => Accepted(working)
  /\ HandedBack => Accepted(outcome.conversation)
=============================================================================
