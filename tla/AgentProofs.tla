---------------------------- MODULE AgentProofs -----------------------------
(***************************************************************************)
(* What holds of every agent, whatever the tools, replies, caps, overrides *)
(* and conversations: type correctness; that tool calls are always         *)
(* answered; what a run costs and keeps; that its transcript only grows    *)
(* and takes turns as Session states them; and that either backend accepts *)
(* its requests.                                                           *)
(***************************************************************************)
EXTENDS Chat, DataProofs

\* Registries stay registries
LEMMA RegistryTypes ==
  ASSUME NEW r \in Registries(ToolNames, Tools), NEW name \in ToolNames,
         NEW tool \in Tools
  PROVE  /\ RegistryAdd(r, name, tool) \in Registries(ToolNames, Tools)
         /\ Views(r) \in Registries(ToolNames, Tools)
         /\ Views(r) = r
         /\ EmptyRegistry \in Registries(ToolNames, Tools)
         /\ \A n \in DOMAIN r : n \in DOMAIN RegistryAdd(r, name, tool)
                                /\ RegistryAdd(r, name, tool)[n] = r[n]
<1>1. PICK D \in SUBSET ToolNames : r \in [D -> Tools]
  BY DEF Registries
<1>2. RegistryAdd(r, name, tool) \in [D \cup {name} -> Tools]
  BY <1>1 DEF RegistryAdd
<1>3. Views(r) \in [D -> Tools] /\ Views(r) = r
  BY <1>1 DEF Views
<1>4. EmptyRegistry \in [{} -> Tools]
  BY DEF EmptyRegistry
<1>5. /\ D \cup {name} \in SUBSET ToolNames /\ {} \in SUBSET ToolNames
      /\ \A E \in SUBSET ToolNames : \A f : f \in [E -> Tools] => f \in Registries(ToolNames, Tools)
  BY DEF Registries
<1> QED BY <1>1, <1>2, <1>3, <1>4, <1>5 DEF RegistryAdd

\* A registry without tools is a registry
LEMMA EmptyRegistryType == EmptyRegistry \in Registries(ToolNames, Tools)
<1>1. EmptyRegistry \in [{} -> Tools] /\ {} \in SUBSET ToolNames
  BY DEF EmptyRegistry
<1> QED BY <1>1 DEF Registries
-----------------------------------------------------------------------------
(***************************************************************************)
(* Type correctness.                                                       *)
(***************************************************************************)

\* A response is being dispatched, or was just read, only after it was
\* appended; a handler runs for the call that dispatch has reached; outside of
\* dispatch its locals are as at its start
ResponseReached ==
  /\ pc \notin {"dispatch", "handler"} => index = 1 /\ tool_results = << >>
  /\ pc \in {"dispatch", "handler", "returned"} => working.messages # << >>
  /\ pc = "handler" => index \in DOMAIN Response /\ Block.type = "tool_use"

TypeInv == TypeOK /\ ResponseReached

\* The cap in force is an integer, whichever of the two options it is from
LEMMA MaxIterationsType == TypeOK => MaxIterations \in Int
BY AgentAssumption DEF TypeOK, MaxIterations

\* While a response is dealt with it is the last message of the conversation
LEMMA ResponseType ==
  ASSUME TypeInv, pc \in {"dispatch", "handler", "returned"}
  PROVE  /\ Len(working.messages) \in DOMAIN working.messages
         /\ Response \in Seq(ContentBlock)
         /\ working.messages \in Seq(Message)
<1>1. working.messages \in Seq(Message) /\ working.messages # << >>
  BY DEF TypeInv, TypeOK, ResponseReached, Conversation
<1>2. Len(working.messages) \in DOMAIN working.messages
  BY <1>1
<1>3. working.messages[Len(working.messages)] \in Message
  BY <1>1, <1>2
<1> QED BY <1>1, <1>2, <1>3 DEF Response, Message

\* A conversation without messages is a conversation
LEMMA EmptyConversationType == EmptyConversation \in Conversation
BY DEF EmptyConversation, Conversation

\* Choosing the system prompt leaves the messages alone
LEMMA SystemPromptType ==
  ASSUME NEW conv \in Conversation, NEW ov \in Overrides
  PROVE  /\ ApplySystemPrompt(conv, ov) \in Conversation
         /\ ApplySystemPrompt(conv, ov).messages = conv.messages
BY AgentAssumption DEF ApplySystemPrompt, Conversation

\* Every way out of a run leaves the variables well typed
LEMMA FinishType ==
  ASSUME TypeInv, NEW result \in Outcomes, Finish(result)
  PROVE  TypeInv'
BY EmptyConversationType, EmptyRegistryType
   DEF TypeInv, TypeOK, ResponseReached, Finish, callVars, historyVars

\* Every way into a run leaves the variables well typed
LEMMA StartType ==
  ASSUME TypeInv, NEW conv \in Conversation, NEW m \in Modes, NEW ov \in Overrides,
         Start(conv, m, ov)
  PROVE  TypeInv'
<1>1. ov \in [system_prompt : Prompts \cup {NoPrompt}, max_iterations : Int \cup {NoCap}]
  BY AgentAssumption
<1>2. m \in {"text", "typed"}
  BY AgentAssumption
<1>3. Views(registry) \in Registries(ToolNames, Tools)
  BY DEF Views, Registries, TypeInv, TypeOK
<1> QED
  BY <1>1, <1>2, <1>3, SystemPromptType
     DEF TypeInv, TypeOK, ResponseReached, Start, dispatchVars, attemptVars

\* A prompt or a continued transcript is a conversation
LEMMA RunnableTypes ==
  ASSUME TypeInv
  PROVE  /\ Add(EmptyConversation, UserMessage(Prompt)) \in Conversation
         /\ outcome.conversation \in Conversation
         /\ Add(outcome.conversation, UserMessage(Prompt)) \in Conversation
<1>1. UserMessage(Prompt) \in Message
  BY AgentAssumption, MessageTypes
<1>2. outcome.conversation \in Conversation
  BY DEF TypeInv, TypeOK, Outcomes
<1> QED BY <1>1, <1>2, AddProperties, EmptyConversationType

\* The type invariant holds at first
LEMMA InitType == Init => TypeInv
BY AgentAssumption, TranscriptAssumption, EmptyConversationType, EmptyRegistryType
   DEF Init, TypeInv, TypeOK, ResponseReached, NoOutcome, Outcomes

\* What a run hands back is an outcome
LEMMA OutcomeTypes ==
  ASSUME NEW conv \in Conversation, NEW tokens \in Nat, NEW n \in Int,
         NEW output \in Texts, NEW kind \in ErrorKinds
  PROVE  /\ \A reason \in FinishReasons \cup {"none"} :
               /\ Result(output, conv, tokens, n, reason) \in Outcomes
               /\ AgentRunError(kind, conv, tokens, n, reason) \in Outcomes
         /\ AgentRunError(kind, conv, tokens, n, "error") \in Outcomes
         /\ AgentRunError(kind, conv, tokens, n, "max_iterations") \in Outcomes
BY TranscriptAssumption DEF Result, AgentRunError, Outcomes

\* The outcome of a foreign exception is an outcome
LEMMA ForeignOutcomeType == [NoOutcome EXCEPT !.kind = "foreign"] \in Outcomes
BY TranscriptAssumption, EmptyConversationType DEF Outcomes, NoOutcome

\* A reply's content is content, and its message a message
LEMMA ReplyType ==
  ASSUME NEW reply \in Replies
  PROVE  /\ reply.content \in Seq(ContentBlock)
         /\ AssistantMessage(reply.content) \in Message
         /\ reply.usage \in Nat /\ reply.finish_reason \in FinishReasons
<1>1. reply.content \in Seq(ContentBlock)
  BY AgentAssumption DEF ContentBlock
<1>2. AssistantMessage(reply.content) \in Message
  BY <1>1, MessageTypes
<1> QED BY <1>1, <1>2, AgentAssumption

\* The steps of a run keep the type invariant: one step of the proof per action
LEMMA RunStepType == TypeInv /\ RunStep => TypeInv'
<1> SUFFICES ASSUME TypeInv, RunStep PROVE TypeInv'
  OBVIOUS
<1> USE DEF ErrorKinds
<1>1. ASSUME NEW reply \in Replies, ChatReplies(reply) PROVE TypeInv'
  <2>1. working \in Conversation /\ AssistantMessage(reply.content) \in Message
    BY ReplyType DEF TypeInv, TypeOK
  <2>2. working' \in Conversation /\ working'.messages # << >>
    BY <1>1, <2>1, AddProperties, EmptySeq DEF ChatReplies, Conversation
  <2>3. index' = index /\ tool_results' = tool_results
    BY <1>1 DEF ChatReplies, dispatchVars
  <2>4. Response' \in Seq(ContentBlock)
    <3>1. /\ working'.messages \in Seq(Message)
          /\ Len(working'.messages) \in DOMAIN working'.messages
      BY <2>2 DEF Conversation
    <3>2. working'.messages[Len(working'.messages)] \in Message
      BY <3>1
    <3> QED BY <3>2 DEF Response, Message
  <2>5. index = 1
    BY <1>1 DEF ChatReplies, Calling, TypeInv, ResponseReached
  <2> QED
    BY <1>1, <2>2, <2>3, <2>4, <2>5, ReplyType, SMTT(30)
       DEF TypeInv, TypeOK, ResponseReached, ChatReplies, Calling, attemptVars, callVars
<1>2. CASE ChatThrows
  <2>1. AgentRunError("provider_error", working, usage, iteration + 1, "error")
          \in Outcomes
    BY OutcomeTypes, TranscriptAssumption DEF TypeInv, TypeOK
  <2> QED BY <1>2, <2>1, FinishType DEF ChatThrows
<1>3. CASE MaxIterationsReached
  BY <1>3, FinishType, MaxIterationsType, OutcomeTypes, TranscriptAssumption
     DEF MaxIterationsReached, AgentRunError, TypeInv, TypeOK
<1>4. CASE SkipBlock
  BY <1>4, ResponseType
     DEF SkipBlock, Dispatching, dispatchFrame, loopVars, attemptVars, callVars,
         historyVars, TypeInv, TypeOK, ResponseReached, Response
<1>5. CASE CallTool
  BY <1>5, ResponseType
     DEF CallTool, Dispatching, dispatchFrame, dispatchVars, loopVars, attemptVars,
         callVars, historyVars, TypeInv, TypeOK, ResponseReached, Response, Block
<1>6. ASSUME NEW e \in BOOLEAN, PushResult(e), pc \in {"dispatch", "handler"},
             index \in DOMAIN Response, Block.type = "tool_use"
      PROVE  TypeInv'
  <2>1. Block \in ContentBlock
    BY <1>6, ResponseType DEF Block
  <2>2. ToolResultBlock(Block.id, e) \in ToolResultBlocks
    BY <1>6, <2>1 DEF ContentBlock, TextBlocks, ToolUseBlocks, ToolResultBlocks,
       ToolResultBlock
  <2> QED
    BY <1>6, <2>2, ResponseType
       DEF PushResult, dispatchFrame, loopVars, attemptVars, callVars, historyVars,
           TypeInv, TypeOK, ResponseReached, Response
<1>7. CASE UnknownTool
  BY <1>6, <1>7 DEF UnknownTool, Dispatching
<1>8. CASE HandlerReturns
  BY <1>6, <1>8 DEF HandlerReturns, TypeInv, ResponseReached
<1>9. CASE HandlerThrows
  BY <1>6, <1>9 DEF HandlerThrows, TypeInv, ResponseReached
<1>10. CASE FinishDispatch
  <2>1. ToolMessage(tool_results) \in Message /\ working \in Conversation
    BY MessageTypes DEF TypeInv, TypeOK
  <2>2. working' \in Conversation
    BY <1>10, <2>1, AddProperties DEF FinishDispatch
  <2> QED
    BY <1>10, <2>2
       DEF FinishDispatch, attemptVars, callVars, historyVars, TypeInv, TypeOK,
           ResponseReached
<1>11. CASE ForeignException
  BY <1>11, FinishType, ForeignOutcomeType DEF ForeignException
<1>12. ASSUME pc = "returned"
       PROVE  Output \in Texts /\ TotalUsage \in Nat /\ TotalIterations \in Nat
  BY ExtractLastTextType DEF Output, TotalUsage, TotalIterations, TypeInv, TypeOK
<1>13. CASE ReturnText
  BY <1>12, <1>13, FinishType, OutcomeTypes DEF ReturnText, TypeInv, TypeOK
<1>14. CASE ReturnParsed
  BY <1>12, <1>14, FinishType, OutcomeTypes DEF ReturnParsed, TypeInv, TypeOK
<1>15. CASE ParseExhausted
  BY <1>12, <1>15, FinishType, OutcomeTypes, TranscriptAssumption
     DEF ParseExhausted, TypeInv, TypeOK
<1>16. CASE RetryParse
  <2>1. UserMessage(Corrective) \in Message
    BY AgentAssumption, MessageTypes
  <2>2. working' \in Conversation
    BY <1>16, <2>1, AddProperties DEF RetryParse, Corrected, TypeInv, TypeOK
  <2>3. Views(registry) \in Registries(ToolNames, Tools)
    BY DEF Views, Registries, TypeInv, TypeOK
  <2> QED
    BY <1>12, <1>16, <2>2, <2>3
       DEF RetryParse, dispatchVars, callVars, historyVars, TypeInv, TypeOK,
           ResponseReached
<1> QED
  BY <1>1, <1>2, <1>3, <1>4, <1>5, <1>7, <1>8, <1>9, <1>10, <1>11, <1>13, <1>14,
     <1>15, <1>16 DEF RunStep

\* The steps of the caller, and of handlers that register tools, keep it
LEMMA CallerStepType == TypeInv /\ CallerStep => TypeInv'
<1> SUFFICES ASSUME TypeInv, CallerStep PROVE TypeInv'
  OBVIOUS
<1>1. ASSUME NEW m \in Modes, NEW ov \in Overrides, RunPrompt(m, ov) PROVE TypeInv'
  BY <1>1, StartType, RunnableTypes DEF RunPrompt
<1>2. ASSUME NEW m \in Modes, NEW ov \in Overrides, NEW conv \in CallerConversations,
             RunConversation(conv, m, ov)
      PROVE  TypeInv'
  BY <1>2, StartType, AgentAssumption DEF RunConversation
<1>3. ASSUME NEW m \in Modes, NEW ov \in Overrides, ResumeConversation(m, ov)
      PROVE  TypeInv'
  BY <1>3, StartType, RunnableTypes DEF ResumeConversation
<1>4. ASSUME NEW name \in ToolNames, NEW tool \in Tools, AddTool(name, tool)
      PROVE  TypeInv'
  BY <1>4, RegistryTypes
     DEF AddTool, loopVars, dispatchVars, attemptVars, callVars, historyVars, TypeInv,
         TypeOK, ResponseReached, Response, Block
<1> QED BY <1>1, <1>2, <1>3, <1>4 DEF CallerStep

\* It does not depend on anything but the variables
LEMMA StutterType == TypeInv /\ UNCHANGED vars => TypeInv'
BY DEF vars, loopVars, dispatchVars, attemptVars, callVars, historyVars, TypeInv,
       TypeOK, ResponseReached, Response, Block

\* Every reachable state is well typed, a response being dispatched is the last
\* message of the transcript, and dispatch stays within it.
THEOREM TypeInvariant == Spec => []TypeInv
<1>1. Init => TypeInv
  BY InitType
<1>2. TypeInv /\ [Next]_vars => TypeInv'
  BY RunStepType, CallerStepType, StutterType DEF Next
<1> QED BY <1>1, <1>2, PTL DEF Spec

\* The type invariant the runs check (TypeOK), for every instance of the
\* constants.
THEOREM TypeCorrect == Spec => []TypeOK
<1>1. TypeInv => TypeOK
  BY DEF TypeInv
<1> QED BY <1>1, TypeInvariant, PTL
-----------------------------------------------------------------------------
(***************************************************************************)
(* Tool calls are answered.  The inductive invariant says how far dispatch *)
(* has come: the results so far answer the calls before index, in order,   *)
(* and all the transcript before the response is paired.                   *)
(***************************************************************************)
PairingInv ==
  /\ pc \in {"loop", "returned"} => WellPaired(working.messages)
  /\ pc \in {"dispatch", "handler"} =>
        /\ Pending(working.messages)
        /\ AnswersBefore(tool_results, Response, index)
  /\ HandedBack => WellPaired(outcome.conversation.messages)

\* A conversation without messages has no call to answer
LEMMA EmptyPaired == WellPaired(EmptyConversation.messages)
BY DEF EmptyConversation, WellPaired, ResultsFollowCalls

\* A user turn keeps a paired transcript paired
LEMMA UserTurnPaired ==
  ASSUME NEW conv \in Conversation, WellPaired(conv.messages), NEW text \in Texts
  PROVE  WellPaired(Add(conv, UserMessage(text)).messages)
<1>1. UserMessage(text) \in Message /\ conv.messages \in Seq(Message)
  BY MessageTypes DEF Conversation
<1>2. UserMessage(text).role # "tool" /\ ~ HasToolUse(UserMessage(text))
  BY DEF UserMessage, TextBlock, HasToolUse, UseIndexes
<1> QED BY <1>1, <1>2, PairedAppend, AddProperties

\* A run starts from a paired transcript if the caller's is paired
LEMMA StartPaired ==
  ASSUME TypeInv, PairingInv, NEW conv \in Conversation, NEW m \in Modes,
         NEW ov \in Overrides, WellPaired(conv.messages), Start(conv, m, ov)
  PROVE  PairingInv'
<1>1. working'.messages = conv.messages
  BY SystemPromptType DEF Start
<1> QED BY <1>1 DEF PairingInv, Start, HandedBack

\* What is handed back is paired if the transcript is
LEMMA FinishPaired ==
  ASSUME PairingInv, NEW result, Finish(result),
         result.kind \in ErrorKinds \cup {"result"} => WellPaired(result.conversation.messages)
  PROVE  PairingInv'
BY DEF PairingInv, Finish, HandedBack

\* The steps of a run keep the pairing of calls and results
LEMMA RunStepPaired == TypeInv /\ PairingInv /\ RunStep => PairingInv'
<1> SUFFICES ASSUME TypeInv, PairingInv, RunStep PROVE PairingInv'
  OBVIOUS
<1>0. working \in Conversation /\ working.messages \in Seq(Message)
  BY DEF TypeInv, TypeOK, Conversation
<1>1. ASSUME NEW reply \in Replies, ChatReplies(reply) PROVE PairingInv'
  <2> DEFINE turn == AssistantMessage(reply.content)
  <2>1. /\ turn \in Message /\ turn.role = "assistant" /\ turn.content = reply.content
        /\ working'.messages = Append(working.messages, turn)
        /\ WellPaired(working.messages)
        /\ outcome' = outcome /\ index' = 1 /\ tool_results' = << >>
    BY <1>0, <1>1, ReplyType, AddProperties
       DEF ChatReplies, Calling, PairingInv, AssistantMessage, dispatchVars, TypeInv,
           ResponseReached
  <2>2. HasToolUse(turn) <=> UseIndexes(reply.content) # {}
    BY <2>1 DEF HasToolUse
  <2> HIDE DEF turn
  <2>3. CASE HasToolUse(turn)
    <3>1. Pending(working'.messages)
      BY <1>0, <2>1, <2>3, PendingAppend
    <3>2. Response' = reply.content
      BY <1>0, <2>1 DEF Response
    <3>3. AnswersBefore(tool_results', Response', index')
      BY <2>1, <3>2, AnswersNone, ReplyType
    <3>4. pc' = "dispatch"
      BY <1>1, <2>2, <2>3 DEF ChatReplies
    <3> QED BY <2>1, <3>1, <3>3, <3>4 DEF PairingInv, HandedBack
  <2>4. CASE ~ HasToolUse(turn)
    <3>1. WellPaired(working'.messages)
      BY <1>0, <2>1, <2>4, PairedAppend
    <3>2. pc' = "returned"
      BY <1>1, <2>2, <2>4 DEF ChatReplies
    <3> QED BY <2>1, <3>1, <3>2 DEF PairingInv, HandedBack
  <2> QED BY <2>3, <2>4
<1>2. CASE ChatThrows
  BY <1>2, FinishPaired DEF ChatThrows, Calling, PairingInv, AgentRunError
<1>3. CASE MaxIterationsReached
  BY <1>3, FinishPaired DEF MaxIterationsReached, PairingInv, AgentRunError
<1>4. CASE SkipBlock
  <2>1. AnswersBefore(tool_results, Response, index + 1)
    BY <1>4, AnswersSkip, ResponseType
       DEF SkipBlock, Dispatching, Block, PairingInv, TypeInv, TypeOK
  <2> QED
    BY <1>4, <2>1 DEF SkipBlock, Dispatching, dispatchFrame, PairingInv, Response,
       HandedBack
<1>5. CASE CallTool
  BY <1>5 DEF CallTool, Dispatching, dispatchFrame, dispatchVars, PairingInv, Response,
     HandedBack
<1>6. ASSUME NEW e \in BOOLEAN, PushResult(e), pc \in {"dispatch", "handler"},
             index \in DOMAIN Response, Block.type = "tool_use"
      PROVE  PairingInv'
  <2>1. AnswersBefore(Append(tool_results, ToolResultBlock(Block.id, e)), Response, index + 1)
    BY <1>6, AnswersPush, ResponseType DEF Block, PairingInv, TypeInv, TypeOK
  <2> QED
    BY <1>6, <2>1 DEF PushResult, dispatchFrame, PairingInv, Response, HandedBack
<1>7. CASE UnknownTool
  BY <1>6, <1>7 DEF UnknownTool, Dispatching
<1>8. CASE HandlerReturns
  BY <1>6, <1>8 DEF HandlerReturns, TypeInv, ResponseReached
<1>9. CASE HandlerThrows
  BY <1>6, <1>9 DEF HandlerThrows, TypeInv, ResponseReached
<1>10. CASE FinishDispatch
  <2>1. /\ Pending(working.messages) /\ tool_results \in Seq(ToolResultBlocks)
        /\ AnswersBefore(tool_results, Response, index)
    BY <1>10 DEF FinishDispatch, PairingInv, TypeInv, TypeOK
  <2>2. index = Len(Response) + 1
    BY <1>10, ResponseType DEF FinishDispatch, TypeInv, TypeOK
  <2>3. AnswersAll(tool_results, working.messages[Len(working.messages)].content)
    BY <2>1, <2>2 DEF AnswersAll, Response
  <2>4. WellPaired(Append(working.messages, ToolMessage(tool_results)))
    BY <1>0, <2>1, <2>3, AnsweredAppend
  <2>5. working'.messages = Append(working.messages, ToolMessage(tool_results))
    BY <1>0, <1>10, <2>1, AddProperties, MessageTypes DEF FinishDispatch
  <2> QED BY <1>10, <2>4, <2>5 DEF FinishDispatch, PairingInv, HandedBack
<1>11. CASE ForeignException
  BY <1>11, FinishPaired DEF ForeignException, NoOutcome, ErrorKinds
<1>12. CASE ReturnText
  BY <1>12, FinishPaired DEF ReturnText, PairingInv, Result
<1>13. CASE ReturnParsed
  BY <1>13, FinishPaired DEF ReturnParsed, PairingInv, Result
<1>14. CASE ParseExhausted
  BY <1>14, FinishPaired DEF ParseExhausted, PairingInv, AgentRunError
<1>15. CASE RetryParse
  <2>1. WellPaired(working'.messages)
    BY <1>0, <1>15, UserTurnPaired, AgentAssumption DEF RetryParse, Corrected, PairingInv
  <2> QED BY <1>15, <2>1 DEF RetryParse, PairingInv, HandedBack
<1> QED
  BY <1>1, <1>2, <1>3, <1>4, <1>5, <1>7, <1>8, <1>9, <1>10, <1>11, <1>12, <1>13,
     <1>14, <1>15 DEF RunStep

\* A run starts only from conversations in which calls are answered
LEMMA CallerStepPaired == TypeInv /\ PairingInv /\ CallerStep => PairingInv'
<1> SUFFICES ASSUME TypeInv, PairingInv, CallerStep PROVE PairingInv'
  OBVIOUS
<1>1. ASSUME NEW m \in Modes, NEW ov \in Overrides, RunPrompt(m, ov) PROVE PairingInv'
  BY <1>1, StartPaired, RunnableTypes, UserTurnPaired, EmptyPaired,
     EmptyConversationType, AgentAssumption DEF RunPrompt
<1>2. ASSUME NEW m \in Modes, NEW ov \in Overrides, NEW conv \in CallerConversations,
             RunConversation(conv, m, ov)
      PROVE  PairingInv'
  BY <1>2, StartPaired, AgentAssumption DEF RunConversation
<1>3. ASSUME NEW m \in Modes, NEW ov \in Overrides, ResumeConversation(m, ov)
      PROVE  PairingInv'
  <2>1. WellPaired(outcome.conversation.messages)
    BY <1>3 DEF ResumeConversation, PairingInv
  <2>2. WellPaired(Add(outcome.conversation, UserMessage(Prompt)).messages)
    BY <2>1, UserTurnPaired, RunnableTypes, AgentAssumption
  <2> QED BY <1>3, <2>1, <2>2, StartPaired, RunnableTypes DEF ResumeConversation
<1>4. ASSUME NEW name \in ToolNames, NEW tool \in Tools, AddTool(name, tool)
      PROVE  PairingInv'
  BY <1>4 DEF AddTool, dispatchVars, PairingInv, Response, HandedBack
<1> QED BY <1>1, <1>2, <1>3, <1>4 DEF CallerStep

\* Calls are answered, or their answers are under way, in every reachable state
\* (dispatch_tools and execute_loop)
THEOREM PairingInvariant == Spec => []PairingInv
<1>1. Init => PairingInv
  BY DEF Init, PairingInv, HandedBack, NoOutcome, ErrorKinds
<1>2. TypeInv /\ PairingInv /\ UNCHANGED vars => PairingInv'
  BY DEF vars, dispatchVars, PairingInv, Response, HandedBack
<1>3. TypeInv /\ PairingInv /\ [Next]_vars => PairingInv'
  BY <1>2, RunStepPaired, CallerStepPaired DEF Next
<1> QED BY <1>1, <1>3, TypeInvariant, PTL DEF Spec

\* Every conversation the provider is asked to go on from, and every one handed
\* back in a result or an error, has each tool call answered in the very next
\* message, in order: for all replies, tools, caps and caller conversations.
THEOREM ToolCallsAlwaysAnswered == Spec => []ToolCallsAnswered
<1>1. PairingInv => ToolCallsAnswered
  BY DEF PairingInv, ToolCallsAnswered
<1> QED BY <1>1, PairingInvariant, PTL
-----------------------------------------------------------------------------
(***************************************************************************)
(* What a run costs and what it keeps: tokens and iterations are accounted *)
(* for, the model is called within its budget, and advertised tools stay.  *)
(*                                                                         *)
(* The inductive invariant ties the counters of the two loops to the       *)
(* replies received, at every point of a run.                              *)
(***************************************************************************)
CounterInv ==
  /\ pc = "idle" \/ mode = "text" =>
        attempt = 0 /\ accumulated = 0 /\ total_iterations = 0
  /\ pc = "idle" => iteration = 0 /\ usage = 0
  /\ pc # "idle" => accumulated + usage = spent
  /\ pc = "loop" => total_iterations + iteration = replied
  /\ pc \in {"dispatch", "handler", "returned"} =>
        total_iterations + iteration + 1 = replied

AccountInv == CounterInv /\ UsageAccounted /\ IterationsAccounted

\* The steps of a run keep the accounts
LEMMA RunStepAccounted == TypeInv /\ AccountInv /\ RunStep => AccountInv'
<1> SUFFICES ASSUME TypeInv, AccountInv, RunStep PROVE AccountInv'
  OBVIOUS
<1> USE DEF AccountInv, CounterInv, UsageAccounted, IterationsAccounted, HandedBack,
        ErrorKinds, TypeInv, TypeOK
<1>1. ASSUME NEW reply \in Replies, ChatReplies(reply) PROVE AccountInv'
  <2>1. reply.usage \in Nat
    BY ReplyType
  <2> QED BY SMTT(20), <1>1, <2>1 DEF ChatReplies, Calling, attemptVars, callVars
<1>2. CASE ChatThrows
  BY <1>2 DEF ChatThrows, Calling, Finish, AgentRunError, callVars, historyVars
<1>3. CASE MaxIterationsReached
  BY <1>3 DEF MaxIterationsReached, Finish, AgentRunError, callVars, historyVars
<1>4. CASE SkipBlock
  BY <1>4 DEF SkipBlock, Dispatching, dispatchFrame, loopVars, attemptVars, callVars,
     historyVars
<1>5. CASE CallTool
  BY <1>5 DEF CallTool, Dispatching, dispatchFrame, loopVars, attemptVars, callVars,
     historyVars
<1>6. ASSUME NEW e \in BOOLEAN, PushResult(e), pc \in {"dispatch", "handler"}
      PROVE  AccountInv'
  BY <1>6 DEF PushResult, dispatchFrame, loopVars, attemptVars, callVars, historyVars
<1>7. CASE UnknownTool
  BY <1>6, <1>7 DEF UnknownTool, Dispatching
<1>8. CASE HandlerReturns
  BY <1>6, <1>8 DEF HandlerReturns
<1>9. CASE HandlerThrows
  BY <1>6, <1>9 DEF HandlerThrows
<1>10. CASE FinishDispatch
  BY <1>10 DEF FinishDispatch, attemptVars, callVars, historyVars
<1>11. CASE ForeignException
  BY <1>11 DEF ForeignException, Calling, Finish, NoOutcome, callVars, historyVars
<1>12. CASE ReturnText
  BY <1>12 DEF ReturnText, Finish, Result, callVars, historyVars
<1>13. CASE ReturnParsed
  BY <1>13 DEF ReturnParsed, TotalUsage, TotalIterations, Finish, Result, callVars,
     historyVars
<1>14. CASE ParseExhausted
  BY <1>14 DEF ParseExhausted, TotalUsage, TotalIterations, Finish, AgentRunError,
     callVars, historyVars
<1>15. CASE RetryParse
  BY <1>15 DEF RetryParse, TotalUsage, TotalIterations, callVars, historyVars
<1> QED
  BY <1>1, <1>2, <1>3, <1>4, <1>5, <1>7, <1>8, <1>9, <1>10, <1>11, <1>12, <1>13,
     <1>14, <1>15 DEF RunStep

\* The counters agree with the replies received in every reachable state
\* (execute<T> and execute_loop)
THEOREM AccountInvariant == Spec => []AccountInv
<1> USE DEF AccountInv, CounterInv, UsageAccounted, IterationsAccounted, HandedBack,
        ErrorKinds
<1>1. Init => AccountInv
  BY DEF Init, NoOutcome
<1>2. TypeInv /\ AccountInv /\ CallerStep => AccountInv'
  BY DEF CallerStep, RunPrompt, RunConversation, ResumeConversation, Start, AddTool,
     loopVars, dispatchVars, attemptVars, callVars, historyVars
<1>3. TypeInv /\ AccountInv /\ UNCHANGED vars => AccountInv'
  BY DEF vars, loopVars, attemptVars, callVars, historyVars
<1>4. TypeInv /\ AccountInv /\ [Next]_vars => AccountInv'
  BY <1>2, <1>3, RunStepAccounted DEF Next
<1> QED BY <1>1, <1>4, TypeInvariant, PTL DEF Spec

\* Results, parse errors and the errors of text runs report the tokens of every
\* reply of the run, over all its loops.
THEOREM TokensAccounted == Spec => []UsageAccounted
<1>1. AccountInv => UsageAccounted
  BY DEF AccountInv
<1> QED BY <1>1, AccountInvariant, PTL

\* Results and parse errors report as many iterations as the run had replies.
THEOREM RepliesAccounted == Spec => []IterationsAccounted
<1>1. AccountInv => IterationsAccounted
  BY DEF AccountInv
<1> QED BY <1>1, AccountInvariant, PTL
-----------------------------------------------------------------------------
(***************************************************************************)
(* The call budget.  Every attempt spends at most the cap, so the attempts *)
(* before this one have spent at most attempt times the cap.               *)
(***************************************************************************)
Cap == IF MaxIterations > 0 THEN MaxIterations ELSE 0

BudgetInv ==
  /\ attempt <= MaxRetries
  /\ pc # "idle" =>
        /\ total_iterations <= attempt * Cap
        /\ iteration <= Cap
  /\ pc \in {"dispatch", "handler", "returned"} => iteration < Cap
  /\ CallBudget

\* The arithmetic of attempts and caps
LEMMA Products ==
  ASSUME NEW a \in Nat, NEW b \in Nat, NEW c \in Nat
  PROVE  /\ a * c \in Nat /\ (a + 1) * c = a * c + c /\ 1 * c = c /\ 0 * c = 0
         /\ a <= b => a * c <= b * c
OBVIOUS

\* The cap, as a number of calls, is a natural number
LEMMA CapType == TypeOK => Cap \in Nat
BY MaxIterationsType DEF Cap

\* What has been spent within an attempt is within the whole budget
LEMMA WithinBudget ==
  ASSUME NEW cap \in Nat, NEW tries \in Nat, tries <= MaxRetries,
         NEW before \in Nat, before <= tries * cap, NEW now \in Nat, now <= cap
  PROVE  /\ before + now <= (MaxRetries + 1) * cap
         /\ tries = 0 => before + now <= 1 * cap
<1>1. MaxRetries \in Nat /\ tries + 1 \in Nat /\ tries + 1 <= MaxRetries + 1
  BY AgentAssumption
<1>2. before + now <= (tries + 1) * cap
  BY Products
<1>3. (tries + 1) * cap <= (MaxRetries + 1) * cap
  BY <1>1, Products
<1>4. (tries + 1) * cap \in Nat /\ (MaxRetries + 1) * cap \in Nat
  BY <1>1, Products
<1> QED BY <1>2, <1>3, <1>4

\* Steps that keep the mode, the overrides and the count of replies keep to the
\* budget, as do steps that end a run
LEMMA BudgetFrame ==
  ASSUME CallBudget, UNCHANGED <<mode, overrides, replied>>
  PROVE  CallBudget' /\ Cap' = Cap /\ MaxIterations' = MaxIterations
BY DEF CallBudget, TurnBudget, Cap, MaxIterations

\* A run that ends has stayed within its budget
LEMMA FinishBudget ==
  ASSUME TypeInv, BudgetInv, NEW result, Finish(result)
  PROVE  BudgetInv'
<1>1. CallBudget'
  BY BudgetFrame DEF BudgetInv, Finish, callVars, historyVars
<1> QED BY <1>1, AgentAssumption DEF BudgetInv, Finish

\* Dispatch costs no reply
LEMMA DispatchBudget ==
  ASSUME BudgetInv, dispatchFrame' = dispatchFrame,
         pc \in {"dispatch", "handler"}, pc' \in {"dispatch", "handler"}
  PROVE  BudgetInv'
<1>1. CallBudget' /\ Cap' = Cap
  BY BudgetFrame DEF BudgetInv, dispatchFrame, callVars, historyVars
<1> QED BY <1>1 DEF BudgetInv, dispatchFrame, loopVars, attemptVars

\* The steps of a run keep to the budget
LEMMA RunStepBudget == TypeInv /\ CounterInv /\ BudgetInv /\ RunStep => BudgetInv'
<1> SUFFICES ASSUME TypeInv, CounterInv, BudgetInv, RunStep PROVE BudgetInv'
  OBVIOUS
<1>0. /\ Cap \in Nat /\ MaxIterations \in Int /\ MaxRetries \in Nat
      /\ iteration \in Nat /\ attempt \in Nat /\ total_iterations \in Nat /\ replied \in Nat
  BY CapType, MaxIterationsType, AgentAssumption DEF TypeInv, TypeOK
<1>1. ASSUME NEW reply \in Replies, ChatReplies(reply) PROVE BudgetInv'
  <2>1. /\ iteration < Cap
        /\ UNCHANGED <<iteration, attempt, total_iterations, mode, overrides>>
        /\ pc = "loop" /\ pc' \in {"dispatch", "returned"} /\ replied' = replied + 1
    BY <1>0, <1>1 DEF ChatReplies, Calling, Cap, attemptVars, callVars
  <2>2. Cap' = Cap
    BY <2>1 DEF Cap, MaxIterations
  <2>3. CallBudget'
    <3>1. replied' = total_iterations + (iteration + 1)
      BY <1>0, <2>1 DEF CounterInv
    <3>2. attempt <= MaxRetries /\ total_iterations <= attempt * Cap
      BY <2>1 DEF BudgetInv
    <3>3. /\ replied' <= (MaxRetries + 1) * Cap
          /\ attempt = 0 => replied' <= 1 * Cap
      BY <1>0, <2>1, <3>1, <3>2, WithinBudget
    <3>4. mode = "text" => attempt = 0
      BY DEF CounterInv
    <3>5. TurnBudget' = (IF mode = "text" THEN 1 ELSE MaxRetries + 1) * Cap
      BY <2>1 DEF TurnBudget, Cap, MaxIterations
    <3> QED BY <3>3, <3>4, <3>5 DEF CallBudget
  <2> QED BY <2>1, <2>2, <2>3 DEF BudgetInv
<1>2. CASE ChatThrows
  BY <1>2, FinishBudget DEF ChatThrows
<1>3. CASE MaxIterationsReached
  BY <1>3, FinishBudget DEF MaxIterationsReached
<1>4. CASE SkipBlock
  BY <1>4, DispatchBudget DEF SkipBlock, Dispatching
<1>5. CASE CallTool
  BY <1>5, DispatchBudget DEF CallTool, Dispatching
<1>6. CASE UnknownTool
  BY <1>6, DispatchBudget DEF UnknownTool, Dispatching, PushResult
<1>7. CASE HandlerReturns
  BY <1>7, DispatchBudget DEF HandlerReturns, PushResult
<1>8. CASE HandlerThrows
  BY <1>8, DispatchBudget DEF HandlerThrows, PushResult
<1>9. CASE FinishDispatch
  <2>1. CallBudget' /\ Cap' = Cap
    BY <1>9, BudgetFrame DEF FinishDispatch, BudgetInv, callVars, historyVars
  <2>2. iteration + 1 <= Cap
    BY <1>0, <1>9 DEF FinishDispatch, BudgetInv
  <2> QED BY <1>9, <2>1, <2>2 DEF FinishDispatch, BudgetInv, attemptVars
<1>10. CASE ForeignException
  BY <1>10, FinishBudget DEF ForeignException
<1>11. CASE ReturnText
  BY <1>11, FinishBudget DEF ReturnText
<1>12. CASE ReturnParsed
  BY <1>12, FinishBudget DEF ReturnParsed
<1>13. CASE ParseExhausted
  BY <1>13, FinishBudget DEF ParseExhausted
<1>14. CASE RetryParse
  <2>1. CallBudget' /\ Cap' = Cap
    BY <1>14, BudgetFrame DEF RetryParse, BudgetInv, callVars, historyVars
  <2>2. /\ attempt' = attempt + 1 /\ attempt < MaxRetries /\ iteration' = 0
        /\ total_iterations' = total_iterations + (iteration + 1) /\ pc' = "loop"
    BY <1>14 DEF RetryParse, RetriesLeft, TotalIterations
  <2>3. total_iterations <= attempt * Cap /\ iteration + 1 <= Cap
    BY <1>0, <1>14 DEF BudgetInv, RetryParse
  <2>4. total_iterations' <= attempt' * Cap
    BY <1>0, <2>2, <2>3, Products
  <2> QED BY <1>0, <2>1, <2>2, <2>4 DEF BudgetInv
<1> QED
  BY <1>1, <1>2, <1>3, <1>4, <1>5, <1>6, <1>7, <1>8, <1>9, <1>10, <1>11, <1>12,
     <1>13, <1>14 DEF RunStep

\* A new run starts with a budget of its own
LEMMA CallerStepBudget ==
  TypeInv /\ TypeInv' /\ CounterInv /\ BudgetInv /\ CallerStep => BudgetInv'
<1> SUFFICES ASSUME TypeInv, TypeInv', CounterInv, BudgetInv, CallerStep PROVE BudgetInv'
  OBVIOUS
<1>1. ASSUME NEW conv, NEW m, NEW ov, Start(conv, m, ov) PROVE BudgetInv'
  <2>1. /\ pc' = "loop" /\ replied' = 0 /\ attempt' = 0 /\ total_iterations' = 0
        /\ iteration' = 0
    BY <1>1 DEF Start, attemptVars, CounterInv
  <2>2. Cap' \in Nat /\ MaxRetries \in Nat
    <3>1. TypeOK'
      BY DEF TypeInv
    <3>2. MaxIterations' \in Int
      BY <3>1, AgentAssumption DEF TypeOK, MaxIterations
    <3> QED BY <3>2, AgentAssumption DEF Cap
  <2>3. /\ 0 * Cap' = 0 /\ 1 * Cap' = Cap' /\ (MaxRetries + 1) * Cap' \in Nat
    <3>1. \A c \in Nat : 0 * c = 0 /\ 1 * c = c /\ (MaxRetries + 1) * c \in Nat
      <4>1. MaxRetries + 1 \in Nat
        BY <2>2
      <4> QED BY <4>1, Products
    <3> QED BY <2>2, <3>1
  <2>4. TurnBudget' = IF mode' = "text" THEN 1 * Cap' ELSE (MaxRetries + 1) * Cap'
    BY <2>2 DEF TurnBudget, Cap
  <2>5. CallBudget'
    <3>1. TurnBudget' \in Nat
      BY <2>2, <2>3, <2>4
    <3>2. 0 <= TurnBudget'
      BY <3>1
    <3> QED BY <2>1, <3>2 DEF CallBudget
  <2>6. 0 <= MaxRetries /\ 0 <= Cap'
    BY <2>2
  <2> QED BY <2>1, <2>3, <2>5, <2>6 DEF BudgetInv
<1>2. ASSUME NEW name, NEW tool, AddTool(name, tool) PROVE BudgetInv'
  <2>1. CallBudget' /\ Cap' = Cap
    BY <1>2, BudgetFrame DEF AddTool, BudgetInv, callVars, historyVars
  <2> QED BY <1>2, <2>1 DEF AddTool, BudgetInv, loopVars, attemptVars
<1> QED
  BY <1>1, <1>2 DEF CallerStep, RunPrompt, RunConversation, ResumeConversation

\* Nothing is spent at first
LEMMA InitBudget == Init => BudgetInv
<1> SUFFICES ASSUME Init PROVE BudgetInv
  OBVIOUS
<1>1. TypeOK
  BY InitType DEF TypeInv
<1>2. Cap \in Nat /\ 1 * Cap = Cap /\ MaxRetries \in Nat
  BY <1>1, CapType, Products, AgentAssumption
<1> QED BY <1>2 DEF Init, BudgetInv, CallBudget, TurnBudget, Cap

\* Attempts and iterations stay within their limits in every reachable state
\* (the loops of execute<T> and execute_loop)
THEOREM BudgetInvariant == Spec => []BudgetInv
<1>1. Init => BudgetInv
  BY InitBudget
<1>2. TypeInv /\ TypeInv' /\ AccountInv /\ BudgetInv /\ [Next]_vars => BudgetInv'
  <2>1. AccountInv => CounterInv
    BY DEF AccountInv
  <2>2. BudgetInv /\ UNCHANGED vars => BudgetInv'
    BY DEF BudgetInv, CallBudget, TurnBudget, Cap, MaxIterations, vars, loopVars,
       attemptVars, callVars, historyVars
  <2> QED BY <2>1, <2>2, RunStepBudget, CallerStepBudget DEF Next
<1> QED BY <1>1, <1>2, TypeInvariant, AccountInvariant, PTL DEF Spec

\* However often the answers fail to parse, the model is called no more than
\* the cap times per attempt, and there are at most MaxRetries + 1 attempts.
THEOREM CallsWithinBudget == Spec => []CallBudget
<1>1. BudgetInv => CallBudget
  BY DEF BudgetInv
<1> QED BY <1>1, BudgetInvariant, PTL
-----------------------------------------------------------------------------
(***************************************************************************)
(* Advertised tools.  The views of a loop are the registry as it was when  *)
(* they were taken, and a registry only ever gains names.                  *)
(***************************************************************************)

\* The views taken at the start of a loop are the registered tools
LEMMA ViewsAreLive ==
  ASSUME NEW r \in Registries(ToolNames, Tools)
  PROVE  Views(r) = r
BY DEF Views, Registries

\* No step breaks the tie between the views and the registry
LEMMA LiveStep == TypeInv /\ AdvertisedToolsLive /\ [Next]_vars => AdvertisedToolsLive'
<1> SUFFICES ASSUME TypeInv, AdvertisedToolsLive, [Next]_vars PROVE AdvertisedToolsLive'
  OBVIOUS
<1> USE DEF AdvertisedToolsLive
<1>1. CASE pc' = "idle"
  BY <1>1
<1>2. ASSUME UNCHANGED <<registry, views>>, pc # "idle" PROVE AdvertisedToolsLive'
  BY <1>2
<1>3. ASSUME registry' = registry, views' = Views(registry) PROVE AdvertisedToolsLive'
  BY <1>3, ViewsAreLive DEF TypeInv, TypeOK
<1>4. ASSUME NEW name \in ToolNames, NEW tool \in Tools, AddTool(name, tool)
      PROVE  AdvertisedToolsLive'
  BY <1>4, RegistryTypes DEF AddTool, loopVars, TypeInv, TypeOK
<1>5. CASE CallerStep
  BY <1>3, <1>4, <1>5 DEF CallerStep, RunPrompt, RunConversation, ResumeConversation, Start
<1>6. CASE RunStep
  BY <1>1, <1>2, <1>3, <1>6
     DEF RunStep, ChatReplies, ChatThrows, MaxIterationsReached, Calling, SkipBlock,
         CallTool, UnknownTool, Dispatching, PushResult, HandlerReturns, HandlerThrows,
         ForeignException, FinishDispatch, ReturnText, ReturnParsed, RetryParse,
         ParseExhausted, Finish, dispatchFrame, loopVars
<1>7. CASE UNCHANGED vars
  BY <1>7 DEF vars, loopVars
<1> QED BY <1>5, <1>6, <1>7 DEF Next

\* Whatever the handlers register while a loop runs, every tool the loop
\* advertised is still the one a call by its name reaches.
THEOREM AdvertisedToolsStayLive == Spec => []AdvertisedToolsLive
<1>1. Init => AdvertisedToolsLive
  BY DEF Init, AdvertisedToolsLive
<1> QED BY <1>1, LiveStep, TypeInvariant, PTL DEF Spec
-----------------------------------------------------------------------------
(***************************************************************************)
(* The transcript only grows.  Nearly every step appends one message or    *)
(* none; a run starts by choosing a prompt for a conversation without one. *)
(***************************************************************************)

\* A conversation extends itself
LEMMA ExtendsItself ==
  ASSUME NEW conv \in Conversation
  PROVE  Extends(conv, conv)
BY DEF Extends, Conversation

\* and is extended by a message behind it
LEMMA AddExtends ==
  ASSUME NEW conv \in Conversation, NEW m \in Message
  PROVE  Extends(conv, Add(conv, m))
<1>1. Len(conv.messages) \in Nat
  BY DEF Conversation
<1> QED BY <1>1, AddProperties DEF Extends

\* The prompt a run starts with is the conversation's own if it has one
LEMMA SystemPromptExtends ==
  ASSUME NEW conv \in Conversation, NEW ov \in Overrides
  PROVE  Extends(conv, ApplySystemPrompt(conv, ov))
<1>1. ApplySystemPrompt(conv, ov).messages = conv.messages
  BY SystemPromptType
<1>2. conv.system_prompt # NoPrompt => ApplySystemPrompt(conv, ov) = conv
  BY DEF ApplySystemPrompt
<1>3. Len(conv.messages) \in Nat
  BY DEF Conversation
<1> QED BY <1>1, <1>2, <1>3 DEF Extends

\* What a step may do to the transcript
Grows ==
  /\ pc = "idle" /\ pc' # "idle" => Extends(given', working')
  /\ pc # "idle" /\ pc' # "idle" => Extends(working, working')
  /\ pc # "idle" /\ HandedBack' /\ pc' = "idle"
       => Extends(working, outcome'.conversation)

\* A run that ends hands its transcript back as it is
LEMMA FinishGrows ==
  ASSUME TypeInv, NEW result, Finish(result),
         result.kind = "foreign" \/ result.conversation = working
  PROVE  Grows
<1>1. Extends(working, working)
  BY ExtendsItself DEF TypeInv, TypeOK
<1> QED BY <1>1 DEF Grows, Finish, HandedBack, ErrorKinds

\* A step that leaves the transcript alone keeps it
LEMMA FrameGrows ==
  ASSUME TypeInv, working' = working, pc # "idle", pc' # "idle"
  PROVE  Grows
BY ExtendsItself DEF Grows, TypeInv, TypeOK

\* A step that appends a message extends it
LEMMA AddGrows ==
  ASSUME TypeInv, NEW m \in Message, working' = Add(working, m), pc # "idle", pc' # "idle"
  PROVE  Grows
BY AddExtends DEF Grows, TypeInv, TypeOK

\* A run starts from all of the conversation it is given
LEMMA StartGrows ==
  ASSUME NEW conv \in Conversation, NEW m \in Modes, NEW ov \in Overrides, Start(conv, m, ov)
  PROVE  Grows
BY SystemPromptExtends DEF Start, Grows

\* No step of a run loses or rewrites anything
LEMMA RunStepGrows == TypeInv /\ RunStep => Grows
<1> SUFFICES ASSUME TypeInv, RunStep PROVE Grows
  OBVIOUS
<1>1. ASSUME NEW reply \in Replies, ChatReplies(reply) PROVE Grows
  BY <1>1, AddGrows, ReplyType DEF ChatReplies, Calling
<1>2. CASE ChatThrows
  BY <1>2, FinishGrows DEF ChatThrows, AgentRunError
<1>3. CASE MaxIterationsReached
  BY <1>3, FinishGrows DEF MaxIterationsReached, AgentRunError
<1>4. CASE SkipBlock
  BY <1>4, FrameGrows DEF SkipBlock, Dispatching, dispatchFrame
<1>5. CASE CallTool
  BY <1>5, FrameGrows DEF CallTool, Dispatching, dispatchFrame
<1>6. CASE UnknownTool
  BY <1>6, FrameGrows DEF UnknownTool, Dispatching, PushResult, dispatchFrame
<1>7. CASE HandlerReturns
  BY <1>7, FrameGrows DEF HandlerReturns, PushResult, dispatchFrame
<1>8. CASE HandlerThrows
  BY <1>8, FrameGrows DEF HandlerThrows, PushResult, dispatchFrame
<1>9. CASE FinishDispatch
  <2>1. ToolMessage(tool_results) \in Message
    BY MessageTypes DEF TypeInv, TypeOK
  <2> QED BY <1>9, <2>1, AddGrows DEF FinishDispatch
<1>10. CASE ForeignException
  BY <1>10, FinishGrows DEF ForeignException, NoOutcome
<1>11. CASE ReturnText
  BY <1>11, FinishGrows DEF ReturnText, Result
<1>12. CASE ReturnParsed
  BY <1>12, FinishGrows DEF ReturnParsed, Result
<1>13. CASE ParseExhausted
  BY <1>13, FinishGrows DEF ParseExhausted, AgentRunError
<1>14. CASE RetryParse
  <2>1. UserMessage(Corrective) \in Message
    BY AgentAssumption, MessageTypes
  <2> QED BY <1>14, <2>1, AddGrows DEF RetryParse, Corrected
<1> QED
  BY <1>1, <1>2, <1>3, <1>4, <1>5, <1>6, <1>7, <1>8, <1>9, <1>10, <1>11, <1>12,
     <1>13, <1>14 DEF RunStep

\* nor does a caller that starts one
LEMMA CallerStepGrows == TypeInv /\ CallerStep => Grows
<1> SUFFICES ASSUME TypeInv, CallerStep PROVE Grows
  OBVIOUS
<1>1. ASSUME NEW m \in Modes, NEW ov \in Overrides, RunPrompt(m, ov) PROVE Grows
  BY <1>1, StartGrows, RunnableTypes DEF RunPrompt
<1>2. ASSUME NEW m \in Modes, NEW ov \in Overrides, NEW conv \in CallerConversations,
             RunConversation(conv, m, ov)
      PROVE  Grows
  BY <1>2, StartGrows, AgentAssumption DEF RunConversation
<1>3. ASSUME NEW m \in Modes, NEW ov \in Overrides, ResumeConversation(m, ov)
      PROVE  Grows
  BY <1>3, StartGrows, RunnableTypes DEF ResumeConversation
<1>4. ASSUME NEW name, NEW tool, AddTool(name, tool) PROVE Grows
  BY <1>4, ExtendsItself DEF AddTool, Grows, TypeInv, TypeOK
<1> QED BY <1>1, <1>2, <1>3, <1>4 DEF CallerStep

\* The transcript only grows, over tool rounds, retries, results, errors and
\* resumed runs, and no prompt in it is replaced (execute_loop, execute<T> and
\* apply_system_prompt).
THEOREM HistoryOnlyGrows == Spec => HistoryAppendOnly
<1>1. TypeInv /\ [Next]_vars => [Grows]_vars
  BY RunStepGrows, CallerStepGrows DEF Next
<1>2. Spec => [][Grows]_vars
  BY <1>1, TypeInvariant, PTL DEF Spec
<1> QED BY <1>2 DEF HistoryAppendOnly, Grows
-----------------------------------------------------------------------------
(***************************************************************************)
(* Who has spoken, at every point of a run, and what a corrective turn     *)
(* follows.                                                                *)
(***************************************************************************)
LastMessage == working.messages[Len(working.messages)]

\* In the loop the model's turn is answered, or the run has not gone on from
\* the caller's transcript; while a response is dealt with it is the last turn
\* of the run, and a loop has returned when it called no tool
SpeakerInv ==
  /\ pc # "idle" => runs # 0
  /\ pc = "loop" =>
        \/ Len(working.messages) = Len(given.messages)
        \/ Len(working.messages) > Len(given.messages) /\ LastMessage.role # "assistant"
  /\ pc \in {"dispatch", "handler", "returned"} =>
        Len(working.messages) > Len(given.messages) /\ LastMessage.role = "assistant"
  /\ pc = "returned" => ~ HasToolUse(LastMessage)

\* A message appended is the last one, and the transcript is longer than before
LEMMA AddLast ==
  ASSUME NEW conv \in Conversation, NEW m \in Message, working' = Add(conv, m)
  PROVE  /\ LastMessage' = m
         /\ Len(working'.messages) = Len(conv.messages) + 1
         /\ Len(conv.messages) \in Nat
<1>1. Len(conv.messages) \in Nat
  BY DEF Conversation
<1> QED BY <1>1, AddProperties DEF LastMessage

\* The speaker invariant is that of a run alone: between runs it says nothing
LEMMA FinishSpeaker == ASSUME NEW result, Finish(result) PROVE SpeakerInv'
BY DEF Finish, SpeakerInv

\* Dispatch leaves the transcript as it is
LEMMA DispatchSpeaker ==
  ASSUME SpeakerInv, dispatchFrame' = dispatchFrame,
         pc \in {"dispatch", "handler"}, pc' \in {"dispatch", "handler"}
  PROVE  SpeakerInv'
BY DEF SpeakerInv, LastMessage, dispatchFrame, callVars

\* The steps of a run
LEMMA RunStepSpeaker == TypeInv /\ SpeakerInv /\ RunStep => SpeakerInv'
<1> SUFFICES ASSUME TypeInv, SpeakerInv, RunStep PROVE SpeakerInv'
  OBVIOUS
<1>0. /\ working \in Conversation /\ Len(given.messages) \in Nat
      /\ Len(working.messages) \in Nat
  BY DEF TypeInv, TypeOK, Conversation
<1>1. ASSUME NEW reply \in Replies, ChatReplies(reply) PROVE SpeakerInv'
  <2>1. /\ LastMessage' = AssistantMessage(reply.content)
        /\ Len(working'.messages) = Len(working.messages) + 1
    BY <1>0, <1>1, AddLast, ReplyType DEF ChatReplies
  <2>2. LastMessage'.role = "assistant" /\ LastMessage'.content = reply.content
    BY <2>1 DEF AssistantMessage
  <2>3. Len(working'.messages) > Len(given.messages) /\ runs # 0
    BY <1>0, <1>1, <2>1 DEF ChatReplies, Calling, SpeakerInv
  <2>4. given' = given /\ runs' = runs /\ pc' \in {"dispatch", "returned"}
    BY <1>1 DEF ChatReplies, callVars
  <2>5. pc' = "returned" => ~ HasToolUse(LastMessage')
    BY <1>1, <2>2 DEF ChatReplies, HasToolUse
  <2> QED BY <2>2, <2>3, <2>4, <2>5 DEF SpeakerInv
<1>2. CASE ChatThrows
  BY <1>2, FinishSpeaker DEF ChatThrows
<1>3. CASE MaxIterationsReached
  BY <1>3, FinishSpeaker DEF MaxIterationsReached
<1>4. CASE SkipBlock
  BY <1>4, DispatchSpeaker DEF SkipBlock, Dispatching
<1>5. CASE CallTool
  BY <1>5, DispatchSpeaker DEF CallTool, Dispatching
<1>6. CASE UnknownTool
  BY <1>6, DispatchSpeaker DEF UnknownTool, Dispatching, PushResult
<1>7. CASE HandlerReturns
  BY <1>7, DispatchSpeaker DEF HandlerReturns, PushResult
<1>8. CASE HandlerThrows
  BY <1>8, DispatchSpeaker DEF HandlerThrows, PushResult
<1>9. CASE FinishDispatch
  <2>1. ToolMessage(tool_results) \in Message /\ ToolMessage(tool_results).role = "tool"
    BY MessageTypes DEF TypeInv, TypeOK, ToolMessage
  <2>2. /\ LastMessage' = ToolMessage(tool_results)
        /\ Len(working'.messages) = Len(working.messages) + 1
    BY <1>0, <1>9, <2>1, AddLast DEF FinishDispatch
  <2> QED
    BY <1>0, <1>9, <2>1, <2>2 DEF FinishDispatch, SpeakerInv, callVars
<1>10. CASE ForeignException
  BY <1>10, FinishSpeaker DEF ForeignException
<1>11. CASE ReturnText
  BY <1>11, FinishSpeaker DEF ReturnText
<1>12. CASE ReturnParsed
  BY <1>12, FinishSpeaker DEF ReturnParsed
<1>13. CASE ParseExhausted
  BY <1>13, FinishSpeaker DEF ParseExhausted
<1>14. CASE RetryParse
  <2>1. UserMessage(Corrective) \in Message /\ UserMessage(Corrective).role = "user"
    BY AgentAssumption, MessageTypes DEF UserMessage
  <2>2. /\ LastMessage' = UserMessage(Corrective)
        /\ Len(working'.messages) = Len(working.messages) + 1
    BY <1>0, <1>14, <2>1, AddLast DEF RetryParse, Corrected
  <2> QED BY <1>0, <1>14, <2>1, <2>2 DEF RetryParse, SpeakerInv, callVars
<1> QED
  BY <1>1, <1>2, <1>3, <1>4, <1>5, <1>6, <1>7, <1>8, <1>9, <1>10, <1>11, <1>12,
     <1>13, <1>14 DEF RunStep

\* What callers, and handlers that register tools, have to do with it
LEMMA CallerStepSpeaker == TypeInv /\ SpeakerInv /\ CallerStep => SpeakerInv'
<1> SUFFICES ASSUME TypeInv, SpeakerInv, CallerStep PROVE SpeakerInv'
  OBVIOUS
<1>1. ASSUME NEW conv \in Conversation, NEW m \in Modes, NEW ov \in Overrides,
             Start(conv, m, ov)
      PROVE  SpeakerInv'
  <2>1. working'.messages = conv.messages /\ given' = conv /\ runs \in Nat
    BY <1>1, SystemPromptType DEF Start, TypeInv, TypeOK
  <2> QED BY <1>1, <2>1 DEF Start, SpeakerInv
<1>2. ASSUME NEW name, NEW tool, AddTool(name, tool) PROVE SpeakerInv'
  BY <1>2 DEF AddTool, SpeakerInv, LastMessage, callVars
<1> QED
  BY <1>1, <1>2, RunnableTypes, AgentAssumption
     DEF CallerStep, RunPrompt, RunConversation, ResumeConversation

\* It depends on nothing but the variables
LEMMA StutterSpeaker == SpeakerInv /\ UNCHANGED vars => SpeakerInv'
BY DEF vars, callVars, SpeakerInv, LastMessage

\* In every reachable state it is known whose turn it is (execute_loop,
\* dispatch_tools and the retries of execute<T>)
THEOREM SpeakerInvariant == Spec => []SpeakerInv
<1>1. Init => SpeakerInv
  BY DEF Init, SpeakerInv
<1>2. TypeInv /\ SpeakerInv /\ [Next]_vars => SpeakerInv'
  BY RunStepSpeaker, CallerStepSpeaker, StutterSpeaker DEF Next
<1> QED BY <1>1, <1>2, TypeInvariant, PTL DEF Spec
-----------------------------------------------------------------------------
(***************************************************************************)
(* A run is an exchange as Session states it.  Each action of the agent is *)
(* an action of the exchange or leaves the exchange as it is.              *)
(***************************************************************************)

\* The budget of an exchange is a number of turns
LEMMA BudgetType == TypeOK => TurnBudget \in Nat
<1> SUFFICES ASSUME TypeOK PROVE TurnBudget \in Nat
  OBVIOUS
<1>1. Cap \in Nat /\ MaxRetries + 1 \in Nat /\ 1 \in Nat
  BY CapType, AgentAssumption
<1>2. 1 * Cap \in Nat /\ (MaxRetries + 1) * Cap \in Nat
  BY <1>1, Products
<1> QED BY <1>2 DEF TurnBudget, Cap

\* It is settled when the run starts
LEMMA BudgetSettled == UNCHANGED <<mode, overrides>> => TurnBudget' = TurnBudget
BY DEF TurnBudget, MaxIterations

\* In the loop it is the model's turn; while its response is dealt with it has
\* spoken last
LEMMA SpeakerKnown ==
  ASSUME TypeInv, SpeakerInv
  PROVE  /\ pc = "loop" => Speaker \in {"caller", "input"}
         /\ pc \in {"dispatch", "handler", "returned"} => Speaker = "model"
<1>1. Len(working.messages) \in Nat /\ Len(given.messages) \in Nat
  BY DEF TypeInv, TypeOK, Conversation
<1> QED BY <1>1 DEF SpeakerInv, Speaker, LastMessage

\* A run that is over has given an answer, if the model's turn was the last, or
\* it has failed
LEMMA FinishTurn ==
  ASSUME TypeInv, SpeakerInv, pc # "idle", NEW result, Finish(result),
         result.kind = "result" => pc = "returned"
  PROVE  Exchange!Next
<1>1. TurnBudget' = TurnBudget
  BY BudgetSettled DEF Finish, callVars
<1>2. /\ pc' = "idle" /\ replied' = replied /\ outcome' = result /\ Speaker' = "nobody"
      /\ runs' = runs /\ runs # 0
  BY DEF Finish, callVars, historyVars, Speaker, SpeakerInv
<1> HIDE DEF TurnBudget
<1>3. CASE result.kind = "result"
  <2>1. Speaker = "model"
    BY <1>3, SpeakerKnown
  <2>2. Exchange!Answer
    BY <1>1, <1>2, <1>3, <2>1 DEF Exchange!Answer
  <2> QED BY <2>2 DEF Exchange!Next
<1>4. CASE result.kind # "result"
  <2>1. Exchange!Fail
    BY <1>1, <1>2, <1>4 DEF Exchange!Fail
  <2> QED BY <2>1 DEF Exchange!Next
<1> QED BY <1>3, <1>4

\* Dealing with the blocks of a response is no turn
LEMMA DispatchTurn ==
  ASSUME dispatchFrame' = dispatchFrame,
         pc \in {"dispatch", "handler"}, pc' \in {"dispatch", "handler"}
  PROVE  UNCHANGED Exchange!vars
<1>1. TurnBudget' = TurnBudget
  BY BudgetSettled DEF dispatchFrame, callVars
<1> QED
  BY <1>1 DEF dispatchFrame, callVars, historyVars, Speaker, Exchange!vars

\* Results of tools and corrective turns are input to the model
LEMMA InputTurns ==
  ASSUME TypeInv, SpeakerInv, pc \in {"dispatch", "returned"}, pc' = "loop",
         NEW m \in Message, working' = Add(working, m), m.role # "assistant",
         UNCHANGED <<callVars, historyVars>>
  PROVE  Exchange!Next
<1>1. TurnBudget' = TurnBudget
  BY BudgetSettled DEF callVars
<1>2. /\ LastMessage' = m /\ Len(working'.messages) = Len(working.messages) + 1
      /\ Len(working.messages) \in Nat /\ Len(given.messages) \in Nat
  BY AddLast DEF TypeInv, TypeOK, Conversation
<1>3. Speaker' = "input"
  BY <1>2 DEF SpeakerInv, Speaker, LastMessage, callVars
<1>4. Speaker = "model"
  BY SpeakerKnown
<1> HIDE DEF TurnBudget
<1>5. Exchange!InputTurn
  BY <1>1, <1>3, <1>4 DEF Exchange!InputTurn, callVars, historyVars
<1> QED BY <1>5 DEF Exchange!Next

\* A reply is a turn of the model, and one within its budget
LEMMA ReplyTurn ==
  ASSUME TypeInv, SpeakerInv, CallBudget', NEW reply \in Replies, ChatReplies(reply)
  PROVE  Exchange!Next
<1>1. TurnBudget' = TurnBudget /\ UNCHANGED callVars
  BY BudgetSettled DEF ChatReplies, callVars
<1>2. replied' = replied + 1 /\ replied \in Nat /\ TurnBudget \in Nat
  BY BudgetType DEF ChatReplies, TypeInv, TypeOK
<1> HIDE DEF TurnBudget
<1>3. replied < TurnBudget
  BY <1>1, <1>2 DEF CallBudget
<1>4. /\ LastMessage' = AssistantMessage(reply.content)
      /\ Len(working'.messages) = Len(working.messages) + 1
      /\ Len(working.messages) \in Nat /\ Len(given.messages) \in Nat
  BY AddLast, ReplyType DEF ChatReplies, TypeInv, TypeOK, Conversation
<1>5. pc = "loop" /\ pc' \in {"dispatch", "returned"}
  BY DEF ChatReplies, Calling
<1>6. Speaker' = "model"
  BY <1>1, <1>4, <1>5 DEF SpeakerInv, Speaker, LastMessage, AssistantMessage, callVars
<1>7. Speaker \in {"caller", "input"}
  BY <1>5, SpeakerKnown
<1>8. Exchange!ModelTurn
  BY <1>1, <1>2, <1>3, <1>5, <1>6, <1>7 DEF Exchange!ModelTurn
<1> QED BY <1>8 DEF Exchange!Next

\* The steps of a run are steps of the exchange
LEMMA RunStepTurns ==
  TypeInv /\ SpeakerInv /\ CallBudget' /\ RunStep => [Exchange!Next]_Exchange!vars
<1> SUFFICES ASSUME TypeInv, SpeakerInv, CallBudget', RunStep
             PROVE  Exchange!Next \/ UNCHANGED Exchange!vars
  OBVIOUS
<1>1. ASSUME NEW reply \in Replies, ChatReplies(reply) PROVE Exchange!Next
  BY <1>1, ReplyTurn
<1>2. CASE ChatThrows
  BY <1>2, FinishTurn DEF ChatThrows, Calling, AgentRunError
<1>3. CASE MaxIterationsReached
  BY <1>3, FinishTurn DEF MaxIterationsReached, AgentRunError
<1>4. CASE SkipBlock
  BY <1>4, DispatchTurn DEF SkipBlock, Dispatching
<1>5. CASE CallTool
  BY <1>5, DispatchTurn DEF CallTool, Dispatching
<1>6. CASE UnknownTool
  BY <1>6, DispatchTurn DEF UnknownTool, Dispatching, PushResult
<1>7. CASE HandlerReturns
  BY <1>7, DispatchTurn DEF HandlerReturns, PushResult
<1>8. CASE HandlerThrows
  BY <1>8, DispatchTurn DEF HandlerThrows, PushResult
<1>9. CASE FinishDispatch
  <2>1. ToolMessage(tool_results) \in Message /\ ToolMessage(tool_results).role # "assistant"
    BY MessageTypes DEF TypeInv, TypeOK, ToolMessage
  <2>2. /\ pc = "dispatch" /\ pc' = "loop" /\ UNCHANGED <<callVars, historyVars>>
        /\ working' = Add(working, ToolMessage(tool_results))
    BY <1>9 DEF FinishDispatch
  <2> QED BY <2>1, <2>2, InputTurns
<1>10. CASE ForeignException
  BY <1>10, FinishTurn DEF ForeignException, Calling, NoOutcome
<1>11. CASE ReturnText
  BY <1>11, FinishTurn DEF ReturnText
<1>12. CASE ReturnParsed
  BY <1>12, FinishTurn DEF ReturnParsed
<1>13. CASE ParseExhausted
  BY <1>13, FinishTurn DEF ParseExhausted
<1>14. CASE RetryParse
  <2>1. UserMessage(Corrective) \in Message /\ UserMessage(Corrective).role # "assistant"
    BY AgentAssumption, MessageTypes DEF UserMessage
  <2>2. /\ pc = "returned" /\ pc' = "loop" /\ UNCHANGED <<callVars, historyVars>>
        /\ working' = Add(working, UserMessage(Corrective))
    BY <1>14 DEF RetryParse, Corrected
  <2> QED BY <2>1, <2>2, InputTurns
<1> QED
  BY <1>1, <1>2, <1>3, <1>4, <1>5, <1>6, <1>7, <1>8, <1>9, <1>10, <1>11, <1>12,
     <1>13, <1>14 DEF RunStep

\* A caller opens an exchange; registering a tool is no turn
LEMMA CallerStepTurns ==
  TypeInv /\ TypeInv' /\ SpeakerInv' /\ CallerStep => [Exchange!Next]_Exchange!vars
<1> SUFFICES ASSUME TypeInv, TypeInv', SpeakerInv', CallerStep
             PROVE  Exchange!Next \/ UNCHANGED Exchange!vars
  OBVIOUS
<1>1. ASSUME NEW conv \in Conversation, NEW m \in Modes, NEW ov \in Overrides,
             Start(conv, m, ov)
      PROVE  Exchange!Next
  <2>1. working'.messages = conv.messages /\ given' = conv
    BY <1>1, SystemPromptType DEF Start
  <2>2. Speaker' = "caller" /\ replied' = 0 /\ pc = "idle" /\ pc' = "loop"
    BY <1>1, <2>1 DEF Start, Speaker
  <2>3. TurnBudget' \in Nat
    <3>1. (TypeOK => TurnBudget \in Nat)'
      BY BudgetType, PTL
    <3> QED BY <3>1 DEF TypeInv
  <2> HIDE DEF TurnBudget
  <2>4. Exchange!Open
    BY <2>2, <2>3 DEF Exchange!Open
  <2> QED BY <2>4 DEF Exchange!Next
<1>2. ASSUME NEW name, NEW tool, AddTool(name, tool) PROVE UNCHANGED Exchange!vars
  <2>1. TurnBudget' = TurnBudget
    BY <1>2, BudgetSettled DEF AddTool, callVars
  <2> QED BY <1>2, <2>1 DEF AddTool, callVars, historyVars, Speaker, Exchange!vars
<1> QED
  BY <1>1, <1>2, RunnableTypes, AgentAssumption
     DEF CallerStep, RunPrompt, RunConversation, ResumeConversation

\* Every run of the agent is an exchange of turns: the model and its input take
\* turns, the model's are within the budget the run was opened with, an answer
\* follows a turn of the model, and nothing is said after the close
\* (execute_loop and the retries of execute<T>).
THEOREM RunsTakeTurns == Spec => TakesTurns
<1>1. Init => Exchange!Init
  <2> SUFFICES ASSUME Init PROVE Exchange!Init
    OBVIOUS
  <2>1. TurnBudget \in Nat
    BY InitType, BudgetType DEF TypeInv
  <2> HIDE DEF TurnBudget
  <2> QED BY <2>1 DEF Init, Speaker, Exchange!Init
<1>2. /\ TypeInv /\ TypeInv' /\ SpeakerInv /\ SpeakerInv' /\ CallBudget' /\ [Next]_vars
      => [Exchange!Next]_Exchange!vars
  <2>1. UNCHANGED vars => UNCHANGED Exchange!vars
    BY BudgetSettled DEF vars, callVars, historyVars, Speaker, Exchange!vars
  <2> QED BY <2>1, RunStepTurns, CallerStepTurns DEF Next
<1> QED
  BY <1>1, <1>2, TypeInvariant, SpeakerInvariant, CallsWithinBudget, PTL
     DEF Spec, TakesTurns, Exchange!Spec
-----------------------------------------------------------------------------
(***************************************************************************)
(* The output of a run is read from its last turn when that has text.      *)
(***************************************************************************)

\* The greatest position is the last one, if the last one is in the set
LEMMA GreatestIsLast ==
  ASSUME NEW n \in Nat, NEW S \in SUBSET (1..n), n \in S
  PROVE  Greatest(S) = n
<1>1. \A j \in S : j <= n
  OBVIOUS
<1>2. \A i \in S : (\A j \in S : j <= i) => i = n
  <2> SUFFICES ASSUME NEW i \in S, \A j \in S : j <= i PROVE i = n
    OBVIOUS
  <2>1. i \in 1..n /\ n <= i
    OBVIOUS
  <2> QED BY <2>1
<1> QED BY <1>1, <1>2 DEF Greatest

\* An assistant turn with text at the end is where the latest text is
LEMMA LatestTextIsLast ==
  ASSUME NEW conv \in Conversation, conv.messages # << >>,
         conv.messages[Len(conv.messages)].role = "assistant",
         TextIndexes(conv.messages[Len(conv.messages)].content) # {}
  PROVE  ExtractLastText(conv) = FirstText(conv.messages[Len(conv.messages)].content)
<1>1. conv.messages \in Seq(Message) /\ Len(conv.messages) \in Nat
  BY DEF Conversation
<1>2. Len(conv.messages) \in DOMAIN conv.messages /\ DOMAIN conv.messages = 1..Len(conv.messages)
  BY <1>1
<1>3. TextTurns(conv.messages) \in SUBSET (1..Len(conv.messages))
  BY <1>2 DEF TextTurns
<1>4. Len(conv.messages) \in TextTurns(conv.messages)
  BY <1>2 DEF TextTurns
<1>5. Greatest(TextTurns(conv.messages)) = Len(conv.messages)
  BY <1>1, <1>3, <1>4, GreatestIsLast
<1> QED BY <1>4, <1>5 DEF ExtractLastText

\* When a loop has returned, a text in its last turn is what it put out
LEMMA OutputRead ==
  ASSUME TypeInv, SpeakerInv, pc = "returned"
  PROVE  TextIndexes(LastMessage.content) # {} => Output = FirstText(LastMessage.content)
<1>1. working \in Conversation /\ working.messages # << >> /\ LastMessage.role = "assistant"
  BY DEF TypeInv, TypeOK, ResponseReached, SpeakerInv
<1> QED BY <1>1, LatestTextIsLast DEF Output, LastMessage

\* No step hands back another text when the last turn has one
LEMMA OutputStep ==
  TypeInv /\ SpeakerInv /\ OutputIsLatestText /\ [Next]_vars => OutputIsLatestText'
<1> SUFFICES ASSUME TypeInv, SpeakerInv, OutputIsLatestText, [Next]_vars
             PROVE  OutputIsLatestText'
  OBVIOUS
<1> USE DEF OutputIsLatestText
<1>1. CASE pc' # "idle"
  BY <1>1
<1>2. ASSUME NEW result, Finish(result), result.kind # "result"
      PROVE  OutputIsLatestText'
  BY <1>2 DEF Finish
<1>3. CASE ReturnText \/ ReturnParsed
  <2>1. PICK tokens, iterations, reason :
          Finish(Result(Output, working, tokens, iterations, reason)) /\ pc = "returned"
    BY <1>3 DEF ReturnText, ReturnParsed
  <2>2. outcome'.output = Output /\ outcome'.conversation = working
    BY <2>1 DEF Finish, Result
  <2> QED BY <2>1, <2>2, OutputRead DEF LastMessage
<1>4. CASE ChatThrows \/ MaxIterationsReached \/ ForeignException \/ ParseExhausted
  BY <1>2, <1>4 DEF ChatThrows, MaxIterationsReached, ForeignException, ParseExhausted,
     AgentRunError, NoOutcome
<1>5. CASE RunStep
  BY <1>1, <1>3, <1>4, <1>5
     DEF RunStep, ChatReplies, SkipBlock, CallTool, UnknownTool, Dispatching, PushResult,
         HandlerReturns, HandlerThrows, FinishDispatch, RetryParse
<1>6. CASE CallerStep
  BY <1>6 DEF CallerStep, RunPrompt, RunConversation, ResumeConversation, Start, AddTool
<1>7. CASE UNCHANGED vars
  BY <1>7 DEF vars
<1> QED BY <1>5, <1>6, <1>7 DEF Next

\* A run's output is the text of its last turn whenever that has any, never one
\* of an earlier turn (extract_last_text).
THEOREM OutputStaysLatest == Spec => []OutputIsLatestText
<1>1. Init => OutputIsLatestText
  BY DEF Init, NoOutcome, OutputIsLatestText
<1> QED BY <1>1, OutputStep, TypeInvariant, SpeakerInvariant, PTL DEF Spec
-----------------------------------------------------------------------------
(***************************************************************************)
(* A parse error keeps every attempt.  The corrective turns of the run so  *)
(* far are as many as its failed attempts.                                 *)
(***************************************************************************)
AttemptsInv ==
  /\ pc # "idle" => Cardinality(CorrectiveTurns(working)) = attempt
  /\ ParseErrorKeepsAttempts

\* The corrective turns of a transcript are finitely many of its messages
LEMMA CorrectiveFinite ==
  ASSUME NEW conv \in Conversation
  PROVE  /\ IsFiniteSet(CorrectiveTurns(conv))
         /\ CorrectiveTurns(conv) \subseteq 1..Len(conv.messages)
<1>1. DOMAIN conv.messages = 1..Len(conv.messages) /\ Len(conv.messages) \in Nat
  BY DEF Conversation
<1>2. CorrectiveTurns(conv) \subseteq 1..Len(conv.messages)
  BY <1>1 DEF CorrectiveTurns
<1>3. IsFiniteSet(1..Len(conv.messages))
  BY <1>1, FS_Interval
<1> QED BY <1>2, <1>3, FS_Subset

\* A message appended is one more corrective turn, or none more
LEMMA CorrectiveAdded ==
  ASSUME NEW conv \in Conversation, NEW m \in Message,
         Len(given.messages) \in Nat, Len(given.messages) <= Len(conv.messages)
  PROVE  Cardinality(CorrectiveTurns(Add(conv, m))) =
           IF m = UserMessage(Corrective) THEN Cardinality(CorrectiveTurns(conv)) + 1
                                          ELSE Cardinality(CorrectiveTurns(conv))
<1> DEFINE n == Len(conv.messages)
<1>1. n \in Nat /\ DOMAIN conv.messages = 1..n
  BY DEF Conversation
<1>2. /\ DOMAIN Add(conv, m).messages = 1..(n + 1)
      /\ \A i \in 1..n : Add(conv, m).messages[i] = conv.messages[i]
      /\ Add(conv, m).messages[n + 1] = m
  BY <1>1, AddProperties
<1>3. CASE m = UserMessage(Corrective)
  <2>1. CorrectiveTurns(Add(conv, m)) = CorrectiveTurns(conv) \cup {n + 1}
    BY <1>1, <1>2, <1>3 DEF CorrectiveTurns
  <2>2. n + 1 \notin CorrectiveTurns(conv)
    BY <1>1 DEF CorrectiveTurns
  <2> QED BY <1>3, <2>1, <2>2, CorrectiveFinite, FS_AddElement
<1>4. CASE m # UserMessage(Corrective)
  <2>1. CorrectiveTurns(Add(conv, m)) = CorrectiveTurns(conv)
    BY <1>1, <1>2, <1>4 DEF CorrectiveTurns
  <2> QED BY <1>4, <2>1
<1> QED BY <1>3, <1>4

\* A run that fails to parse its last answer hands back its whole transcript
LEMMA ParseErrorKept ==
  ASSUME TypeInv, SpeakerInv, BudgetInv, AttemptsInv, ParseExhausted
  PROVE  ParseErrorKeepsAttempts'
<1>1. attempt = MaxRetries
  BY AgentAssumption DEF ParseExhausted, RetriesLeft, BudgetInv, TypeInv, TypeOK
<1>2. outcome'.conversation = working /\ given' = given
  BY DEF ParseExhausted, Finish, AgentRunError, callVars
<1>3. Cardinality(CorrectiveTurns(working)) = MaxRetries
  BY <1>1 DEF ParseExhausted, AttemptsInv
<1>4. CorrectiveTurns(working)' = {i \in DOMAIN working'.messages :
        i > Len(given.messages) /\ working'.messages[i] = UserMessage(Corrective)}
  BY <1>2 DEF CorrectiveTurns
<1>5. LastMessage.role = "assistant" /\ ~ HasToolUse(LastMessage)
  BY DEF ParseExhausted, SpeakerInv
<1> QED
  BY <1>2, <1>3, <1>5 DEF ParseErrorKeepsAttempts, CorrectiveTurns, LastMessage

\* A run that ends in another way hands back no parse error
LEMMA FinishAttempts ==
  ASSUME NEW result, Finish(result), result.kind # "structured_parse"
  PROVE  AttemptsInv'
BY DEF Finish, AttemptsInv, ParseErrorKeepsAttempts

\* Dispatch leaves transcript and attempts alone
LEMMA DispatchAttempts ==
  ASSUME AttemptsInv, dispatchFrame' = dispatchFrame,
         pc \in {"dispatch", "handler"}, pc' \in {"dispatch", "handler"}
  PROVE  AttemptsInv'
BY DEF AttemptsInv, ParseErrorKeepsAttempts, CorrectiveTurns, dispatchFrame, attemptVars,
       callVars

\* A turn of the model or of its tools is no corrective turn
LEMMA AddAttempts ==
  ASSUME TypeInv, SpeakerInv, AttemptsInv, pc # "idle", pc' # "idle",
         NEW m \in Message, working' = Add(working, m), given' = given,
         attempt' = IF m = UserMessage(Corrective) THEN attempt + 1 ELSE attempt
  PROVE  AttemptsInv'
<1>1. /\ working \in Conversation /\ Len(working.messages) \in Nat
      /\ Len(given.messages) \in Nat /\ Len(given.messages) <= Len(working.messages)
  BY DEF TypeInv, TypeOK, SpeakerInv, Conversation
<1>2. Cardinality(CorrectiveTurns(Add(working, m))) = attempt'
  BY <1>1, CorrectiveAdded DEF AttemptsInv
<1>3. CorrectiveTurns(working)' = CorrectiveTurns(Add(working, m))
  BY DEF CorrectiveTurns
<1> QED BY <1>2, <1>3 DEF AttemptsInv, ParseErrorKeepsAttempts

\* The steps of a run keep count of the attempts
LEMMA RunStepAttempts ==
  TypeInv /\ SpeakerInv /\ BudgetInv /\ AttemptsInv /\ RunStep => AttemptsInv'
<1> SUFFICES ASSUME TypeInv, SpeakerInv, BudgetInv, AttemptsInv, RunStep
             PROVE  AttemptsInv'
  OBVIOUS
<1>1. ASSUME NEW reply \in Replies, ChatReplies(reply) PROVE AttemptsInv'
  <2>1. /\ AssistantMessage(reply.content) \in Message
        /\ AssistantMessage(reply.content) # UserMessage(Corrective)
    BY ReplyType DEF AssistantMessage, UserMessage
  <2>2. /\ pc # "idle" /\ pc' # "idle" /\ given' = given /\ attempt' = attempt
        /\ working' = Add(working, AssistantMessage(reply.content))
    BY <1>1 DEF ChatReplies, Calling, callVars, attemptVars
  <2> QED BY <2>1, <2>2, AddAttempts
<1>2. CASE ChatThrows
  BY <1>2, FinishAttempts DEF ChatThrows, AgentRunError
<1>3. CASE MaxIterationsReached
  BY <1>3, FinishAttempts DEF MaxIterationsReached, AgentRunError
<1>4. CASE SkipBlock
  BY <1>4, DispatchAttempts DEF SkipBlock, Dispatching
<1>5. CASE CallTool
  BY <1>5, DispatchAttempts DEF CallTool, Dispatching
<1>6. CASE UnknownTool
  BY <1>6, DispatchAttempts DEF UnknownTool, Dispatching, PushResult
<1>7. CASE HandlerReturns
  BY <1>7, DispatchAttempts DEF HandlerReturns, PushResult
<1>8. CASE HandlerThrows
  BY <1>8, DispatchAttempts DEF HandlerThrows, PushResult
<1>9. CASE FinishDispatch
  <2>1. /\ ToolMessage(tool_results) \in Message
        /\ ToolMessage(tool_results) # UserMessage(Corrective)
    BY MessageTypes DEF TypeInv, TypeOK, ToolMessage, UserMessage
  <2>2. /\ pc # "idle" /\ pc' # "idle" /\ given' = given /\ attempt' = attempt
        /\ working' = Add(working, ToolMessage(tool_results))
    BY <1>9 DEF FinishDispatch, callVars, attemptVars
  <2> QED BY <2>1, <2>2, AddAttempts
<1>10. CASE ForeignException
  BY <1>10, FinishAttempts DEF ForeignException, NoOutcome
<1>11. CASE ReturnText
  BY <1>11, FinishAttempts DEF ReturnText, Result
<1>12. CASE ReturnParsed
  BY <1>12, FinishAttempts DEF ReturnParsed, Result
<1>13. CASE ParseExhausted
  <2>1. pc' = "idle"
    BY <1>13 DEF ParseExhausted, Finish
  <2> QED BY <1>13, <2>1, ParseErrorKept DEF AttemptsInv
<1>14. CASE RetryParse
  <2>1. UserMessage(Corrective) \in Message
    BY AgentAssumption, MessageTypes
  <2>2. /\ pc # "idle" /\ pc' # "idle" /\ given' = given /\ attempt' = attempt + 1
        /\ working' = Add(working, UserMessage(Corrective))
    BY <1>14 DEF RetryParse, Corrected, callVars
  <2> QED BY <2>1, <2>2, AddAttempts
<1> QED
  BY <1>1, <1>2, <1>3, <1>4, <1>5, <1>6, <1>7, <1>8, <1>9, <1>10, <1>11, <1>12,
     <1>13, <1>14 DEF RunStep

\* A run starts with no attempt behind it, whatever the caller's transcript holds
LEMMA CallerStepAttempts ==
  TypeInv /\ CounterInv /\ AttemptsInv /\ CallerStep => AttemptsInv'
<1> SUFFICES ASSUME TypeInv, CounterInv, AttemptsInv, CallerStep PROVE AttemptsInv'
  OBVIOUS
<1>1. ASSUME NEW conv \in Conversation, NEW m \in Modes, NEW ov \in Overrides,
             Start(conv, m, ov)
      PROVE  AttemptsInv'
  <2>1. working'.messages = conv.messages /\ given' = conv /\ pc' # "idle" /\ attempt' = 0
    BY <1>1, SystemPromptType DEF Start, attemptVars, CounterInv
  <2>2. CorrectiveTurns(working)' = {}
    BY <2>1 DEF CorrectiveTurns, Conversation
  <2> QED BY <2>1, <2>2, FS_EmptySet DEF AttemptsInv, ParseErrorKeepsAttempts
<1>2. ASSUME NEW name, NEW tool, AddTool(name, tool) PROVE AttemptsInv'
  BY <1>2 DEF AddTool, AttemptsInv, ParseErrorKeepsAttempts, CorrectiveTurns, attemptVars,
     callVars
<1> QED
  BY <1>1, <1>2, RunnableTypes, AgentAssumption
     DEF CallerStep, RunPrompt, RunConversation, ResumeConversation

\* In every reachable state the corrective turns of the run are its attempts
\* so far (the retries of execute<T>)
THEOREM AttemptsInvariant == Spec => []AttemptsInv
<1>1. Init => AttemptsInv
  BY DEF Init, NoOutcome, AttemptsInv, ParseErrorKeepsAttempts
<1>2. AttemptsInv /\ UNCHANGED vars => AttemptsInv'
  BY DEF vars, attemptVars, callVars, AttemptsInv, ParseErrorKeepsAttempts, CorrectiveTurns
<1>3. TypeInv /\ SpeakerInv /\ AccountInv /\ BudgetInv /\ AttemptsInv /\ [Next]_vars
        => AttemptsInv'
  BY <1>2, RunStepAttempts, CallerStepAttempts DEF Next, AccountInv
<1> QED
  BY <1>1, <1>3, TypeInvariant, SpeakerInvariant, AccountInvariant, BudgetInvariant, PTL
     DEF Spec

\* A parse error hands back the failed answers and a corrective turn for each
\* but the last, whatever happened between them.
THEOREM ParseErrorsKeepAttempts == Spec => []ParseErrorKeepsAttempts
<1>1. AttemptsInv => ParseErrorKeepsAttempts
  BY DEF AttemptsInv
<1> QED BY <1>1, AttemptsInvariant, PTL
-----------------------------------------------------------------------------
(***************************************************************************)
(* The inductive invariant: beside the pairing, every message keeps its    *)
(* place, of the transcript in work and of the one handed back.            *)
(***************************************************************************)
RolesInv ==
  /\ RolesFit(working.messages)
  /\ HandedBack => RolesFit(outcome.conversation.messages)

\* The messages a run adds fit: a user turn, a reply, the results of its calls
LEMMA TurnsFit ==
  ASSUME TypeInv
  PROVE  /\ RoleFits(UserMessage(Prompt)) /\ RoleFits(UserMessage(Corrective))
         /\ \A reply \in Replies : RoleFits(AssistantMessage(reply.content))
         /\ RoleFits(ToolMessage(tool_results))
         /\ RolesFit(EmptyConversation.messages)
<1>1. RoleFits(UserMessage(Prompt)) /\ RoleFits(UserMessage(Corrective))
  BY DEF UserMessage, TextBlock, RoleFits
<1>2. ASSUME NEW reply \in Replies PROVE RoleFits(AssistantMessage(reply.content))
  <2>1. reply.content \in Seq(TextBlocks \cup ToolUseBlocks)
    BY AgentAssumption
  <2>2. \A k \in DOMAIN reply.content : reply.content[k] \in TextBlocks \cup ToolUseBlocks
    BY <2>1
  <2>3. \A k \in DOMAIN reply.content : reply.content[k].type # "tool_result"
    BY <2>2 DEF TextBlocks, ToolUseBlocks
  <2> QED BY <2>3 DEF AssistantMessage, RoleFits
<1>3. RoleFits(ToolMessage(tool_results))
  BY DEF ToolMessage, RoleFits
<1>4. RolesFit(EmptyConversation.messages)
  BY DEF EmptyConversation, RolesFit
<1> QED BY <1>1, <1>2, <1>3, <1>4

\* Every way out of a run hands back what fits
LEMMA FinishFits ==
  ASSUME TypeInv, NEW result, Finish(result),
         result.kind \in ErrorKinds \cup {"result"} => RolesFit(result.conversation.messages)
  PROVE  RolesInv'
BY TurnsFit DEF Finish, RolesInv, HandedBack

\* Every way into a run starts from what fits
LEMMA StartFits ==
  ASSUME RolesInv, NEW conv \in Conversation, RolesFit(conv.messages), NEW m \in Modes,
         NEW ov \in Overrides, Start(conv, m, ov)
  PROVE  RolesInv'
<1>1. working'.messages = conv.messages /\ outcome' = outcome
  BY SystemPromptType DEF Start
<1> QED BY <1>1 DEF RolesInv, HandedBack

\* One step of the proof per action that touches either transcript
LEMMA StepFits == TypeInv /\ RolesInv /\ [Next]_vars => RolesInv'
<1> SUFFICES ASSUME TypeInv, RolesInv, [Next]_vars PROVE RolesInv'
  OBVIOUS
<1>0. working \in Conversation /\ outcome.conversation \in Conversation
  BY DEF TypeInv, TypeOK, Outcomes
<1>1. ASSUME UNCHANGED <<working, outcome>> PROVE RolesInv'
  BY <1>1 DEF RolesInv, HandedBack
<1>2. ASSUME NEW message \in Message, RoleFits(message),
             working' = Add(working, message), outcome' = outcome
      PROVE  RolesInv'
  BY <1>0, <1>2, RolesAppend DEF RolesInv, HandedBack
<1>3. ASSUME NEW result, Finish(result),
             result.kind = "foreign" \/ result.conversation = working
      PROVE  RolesInv'
  BY <1>3, FinishFits DEF RolesInv, ErrorKinds
<1>4. CASE RunStep
  <2>1. ASSUME NEW reply \in Replies, ChatReplies(reply) PROVE RolesInv'
    BY <1>2, <2>1, ReplyType, TurnsFit DEF ChatReplies
  <2>2. CASE FinishDispatch
    <3>1. ToolMessage(tool_results) \in Message
      BY MessageTypes DEF TypeInv, TypeOK
    <3> QED BY <1>2, <2>2, <3>1, TurnsFit DEF FinishDispatch
  <2>3. CASE RetryParse
    <3>1. UserMessage(Corrective) \in Message
      BY AgentAssumption, MessageTypes
    <3> QED BY <1>2, <2>3, <3>1, TurnsFit DEF RetryParse, Corrected
  <2>4. CASE SkipBlock \/ CallTool \/ UnknownTool \/ HandlerReturns \/ HandlerThrows
    BY <1>1, <2>4
       DEF SkipBlock, CallTool, UnknownTool, HandlerReturns, HandlerThrows, PushResult,
           dispatchFrame
  <2>5. CASE ChatThrows \/ MaxIterationsReached \/ ParseExhausted
    BY <1>3, <2>5 DEF ChatThrows, MaxIterationsReached, ParseExhausted, AgentRunError
  <2>6. CASE ReturnText \/ ReturnParsed
    BY <1>3, <2>6 DEF ReturnText, ReturnParsed, Result
  <2>7. CASE ForeignException
    BY <1>3, <2>7 DEF ForeignException, NoOutcome
  <2> QED BY <1>4, <2>1, <2>2, <2>3, <2>4, <2>5, <2>6, <2>7 DEF RunStep
<1>5. CASE CallerStep
  <2>1. UserMessage(Prompt) \in Message
    BY AgentAssumption, MessageTypes
  <2>2. ASSUME NEW m \in Modes, NEW ov \in Overrides, RunPrompt(m, ov) PROVE RolesInv'
    <3>1. /\ Add(EmptyConversation, UserMessage(Prompt)) \in Conversation
          /\ RolesFit(Add(EmptyConversation, UserMessage(Prompt)).messages)
      BY <2>1, RolesAppend, RunnableTypes, TurnsFit, EmptyConversationType
    <3> QED BY <2>2, <3>1, StartFits DEF RunPrompt
  <2>3. ASSUME NEW m \in Modes, NEW ov \in Overrides, NEW conv \in CallerConversations,
               RunConversation(conv, m, ov)
        PROVE  RolesInv'
    BY <2>3, StartFits, AgentAssumption, ChatAssumption DEF RunConversation
  <2>4. ASSUME NEW m \in Modes, NEW ov \in Overrides, ResumeConversation(m, ov)
        PROVE  RolesInv'
    <3>1. RolesFit(outcome.conversation.messages)
      BY <2>4 DEF ResumeConversation, RolesInv
    <3>2. /\ Add(outcome.conversation, UserMessage(Prompt)) \in Conversation
          /\ RolesFit(Add(outcome.conversation, UserMessage(Prompt)).messages)
      BY <1>0, <2>1, <3>1, RolesAppend, RunnableTypes, TurnsFit
    <3> QED BY <1>0, <2>4, <3>1, <3>2, StartFits DEF ResumeConversation
  <2>5. ASSUME NEW name \in ToolNames, NEW tool \in Tools, AddTool(name, tool)
        PROVE  RolesInv'
    BY <1>1, <2>5 DEF AddTool
  <2> QED BY <1>5, <2>2, <2>3, <2>4, <2>5 DEF CallerStep
<1>6. CASE UNCHANGED vars
  BY <1>1, <1>6 DEF vars
<1> QED BY <1>4, <1>5, <1>6 DEF Next

\* No message of a transcript is a system prompt, and results are in tool
\* messages only, as execute_loop and dispatch_tools add them.
THEOREM RolesInvariant == Spec => []RolesInv
<1>1. Init => RolesInv
  BY DEF Init, RolesInv, RolesFit, EmptyConversation, HandedBack, NoOutcome, ErrorKinds
<1> QED BY <1>1, StepFits, TypeInvariant, PTL DEF Spec

\* Whatever tools, replies, caps and conversations an agent has, either backend
\* accepts each request of its runs and each transcript it hands back.
THEOREM RequestsAlwaysAccepted == Spec => []RequestsAccepted
<1>1. ASSUME NEW conv \in Conversation, WellPaired(conv.messages), RolesFit(conv.messages)
      PROVE  Accepted(conv)
  BY <1>1, OpenAiAccepts, AnthropicAccepts DEF Accepted
<1>2. TypeInv /\ ToolCallsAnswered /\ RolesInv => RequestsAccepted
  <2>1. TypeInv => working \in Conversation /\ outcome.conversation \in Conversation
    BY DEF TypeInv, TypeOK, Outcomes
  <2> QED BY <1>1, <2>1 DEF ToolCallsAnswered, RolesInv, RequestsAccepted
<1> QED BY <1>2, TypeInvariant, ToolCallsAlwaysAnswered, RolesInvariant, PTL
=============================================================================
