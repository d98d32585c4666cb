-------------------------- MODULE StructuredProofs --------------------------
(***************************************************************************)
(* What holds of every call of structured<T>, whatever the replies, the    *)
(* retry limit and the conversation it is made with.                       *)
(***************************************************************************)
EXTENDS Structured, DataProofs

\* Tools are not dispatched, so a call only ever parses the turn that it just
\* appended, and that within its attempts
ReplyReached == pc = "parsing" => working.messages # << >> /\ attempt <= max_retries

TypeInv == TypeOK /\ ReplyReached

\* A conversation without messages is a conversation
LEMMA EmptyConversationType == EmptyConversation \in Conversation
BY DEF EmptyConversation, Conversation

\* A reply's content is content, and its message a message
LEMMA ReplyType ==
  ASSUME NEW reply \in Replies
  PROVE  /\ AssistantMessage(reply.content) \in Message
         /\ reply.usage \in Nat /\ reply.finish_reason \in FinishReasons
<1>1. reply.content \in Seq(ContentBlock)
  BY StructuredAssumption DEF ContentBlock
<1> QED BY <1>1, MessageTypes, StructuredAssumption

\* The turns the library and its caller write are messages
LEMMA UserTurnType == UserMessage(Corrective) \in Message /\ UserMessage(Prompt) \in Message
BY StructuredAssumption, MessageTypes

\* While a reply is parsed it is the last message, and its text is a text
LEMMA ResponseTextType ==
  ASSUME TypeInv, pc = "parsing"
  PROVE  ResponseText \in Texts
<1>1. working.messages \in Seq(Message) /\ working.messages # << >>
  BY DEF TypeInv, TypeOK, ReplyReached, Conversation
<1>2. working.messages[Len(working.messages)] \in Message
  BY <1>1
<1>3. Response \in Seq(ContentBlock)
  BY <1>2 DEF Response, Message
<1> QED BY <1>3, FirstTextType, TranscriptAssumption DEF ResponseText

\* Every way out of a call leaves the variables well typed
LEMMA FinishType ==
  ASSUME TypeInv, NEW kind \in {"result", "provider_error", "structured_parse"},
         NEW output \in Texts, NEW conv \in Conversation, NEW tokens \in Nat,
         NEW n \in Int, NEW reason \in FinishReasons \cup {"none", "error"},
         Finish(kind, output, conv, tokens, n, reason)
  PROVE  TypeInv'
BY EmptyConversationType
   DEF TypeInv, TypeOK, ReplyReached, Finish, callVars, historyVars

\* The steps of a call keep the type invariant
LEMMA CallStepType == TypeInv /\ CallStep => TypeInv'
<1> SUFFICES ASSUME TypeInv, CallStep PROVE TypeInv'
  OBVIOUS
<1>0. NoText \in Texts
  BY TranscriptAssumption
<1>1. CASE ChatThrows
  BY <1>0, <1>1, FinishType DEF ChatThrows, TypeInv, TypeOK
<1>2. ASSUME NEW reply \in Replies, ChatReplies(reply) PROVE TypeInv'
  <2>1. AssistantMessage(reply.content) \in Message /\ working \in Conversation
    BY ReplyType DEF TypeInv, TypeOK
  <2>2. working' \in Conversation /\ working'.messages # << >>
    BY <1>2, <2>1, AddProperties, EmptySeq DEF ChatReplies, Conversation
  <2> QED
    BY <1>2, <2>2, ReplyType
       DEF ChatReplies, AttemptsLeft, AddUsage, callVars, TypeInv, TypeOK, ReplyReached
<1>3. CASE ParseSucceeds
  BY <1>3, FinishType, ResponseTextType DEF ParseSucceeds, TypeInv, TypeOK
<1>4. CASE ParseFails
  <2>1. working' \in Conversation
    BY <1>4, AddProperties, UserTurnType DEF ParseFails, Corrected, TypeInv, TypeOK
  <2> QED
    BY <1>4, <2>1 DEF ParseFails, callVars, historyVars, TypeInv, TypeOK, ReplyReached
<1>5. CASE Exhausted
  BY <1>0, <1>5, FinishType DEF Exhausted, TypeInv, TypeOK
<1> QED BY <1>1, <1>2, <1>3, <1>4, <1>5 DEF CallStep

\* The conversations calls are made with are conversations
LEMMA CallerTypes ==
  ASSUME TypeInv
  PROVE  /\ CallerConversations \subseteq Conversation
         /\ Add(outcome.conversation, UserMessage(Prompt)) \in Conversation
BY StructuredAssumption, AddProperties, UserTurnType DEF TypeInv, TypeOK

\* Every way into a call leaves the variables well typed
LEMMA CallType ==
  ASSUME TypeInv, NEW conv \in Conversation, NEW retries \in RetryLimits, Call(conv, retries)
  PROVE  TypeInv'
<1>1. retries \in Int
  BY StructuredAssumption
<1> QED BY <1>1 DEF Call, TypeInv, TypeOK, ReplyReached

\* Calls are well typed in every reachable state, and the retry loop's counter
\* never passes its limit (the loop of structured<T>).
THEOREM TypeInvariant == Spec => []TypeInv
<1>1. Init => TypeInv
  BY StructuredAssumption, TranscriptAssumption, EmptyConversationType
     DEF Init, TypeInv, TypeOK, ReplyReached, NoOutcome
<1>2. TypeInv /\ CallerStep => TypeInv'
  BY CallType, CallerTypes DEF CallerStep, Resume
<1>3. TypeInv /\ UNCHANGED vars => TypeInv'
  BY DEF vars, loopVars, callVars, historyVars, TypeInv, TypeOK, ReplyReached
<1>4. TypeInv /\ [Next]_vars => TypeInv'
  BY <1>2, <1>3, CallStepType DEF Next
<1> QED BY <1>1, <1>4, PTL DEF Spec

\* The type invariant the run checks (TypeOK), for every instance of the
\* constants.
THEOREM TypeCorrect == Spec => []TypeOK
<1>1. TypeInv => TypeOK
  BY DEF TypeInv
<1> QED BY <1>1, TypeInvariant, PTL
-----------------------------------------------------------------------------
(***************************************************************************)
(* The loop invariant.  A call's transcript is the caller's, then replies  *)
(* and corrective turns by turns; so where the loop has come to can be     *)
(* read from its length, and the counters from the replies received.       *)
(***************************************************************************)
Start == Len(given.messages)

\* Turns a call has added to the caller's: no corrective turn follows the reply
\* of the last attempt
TurnsAdded ==
  CASE pc = "parsing" -> 2 * attempt + 1
    [] pc # "parsing" /\ (attempt = 0 \/ attempt <= max_retries) -> 2 * attempt
    [] pc # "parsing" /\ attempt # 0 /\ attempt > max_retries -> 2 * attempt - 1

\* The message at a position behind the caller's is what belongs there
Alternates(conv) ==
  \A i \in Start + 1 .. Len(conv.messages) :
     IF (i - Start) % 2 = 1
       THEN conv.messages[i].role = "assistant"
       ELSE conv.messages[i] = UserMessage(Corrective)

LoopInv ==
  pc # "idle" =>
    /\ runs # 0
    /\ accumulated = spent
    /\ replied = attempt + (IF pc = "parsing" THEN 1 ELSE 0)
    /\ Len(working.messages) = Start + TurnsAdded
    /\ Extends(given, working)
    /\ Alternates(working)

\* Adding the turn that belongs behind a transcript
LEMMA AlternatesAdd ==
  ASSUME NEW conv \in Conversation, NEW m \in Message, Start \in Nat,
         Alternates(conv), Start <= Len(conv.messages), Extends(given, conv),
         IF (Len(conv.messages) + 1 - Start) % 2 = 1
           THEN m.role = "assistant" ELSE m = UserMessage(Corrective)
  PROVE  Alternates(Add(conv, m)) /\ Extends(given, Add(conv, m))
<1> DEFINE n == Len(conv.messages)
<1>1. n \in Nat /\ DOMAIN conv.messages = 1..n
  BY DEF Conversation
<1>2. /\ Len(Add(conv, m).messages) = n + 1
      /\ \A i \in 1..n : Add(conv, m).messages[i] = conv.messages[i]
      /\ Add(conv, m).messages[n + 1] = m
      /\ Add(conv, m).system_prompt = conv.system_prompt
  BY <1>1, AddProperties
<1>3. Alternates(Add(conv, m))
  <2> SUFFICES ASSUME NEW i \in Start + 1 .. n + 1
               PROVE  IF (i - Start) % 2 = 1
                        THEN Add(conv, m).messages[i].role = "assistant"
                        ELSE Add(conv, m).messages[i] = UserMessage(Corrective)
    BY <1>2 DEF Alternates
  <2>1. CASE i = n + 1
    <3>1. Add(conv, m).messages[i] = m
      BY <1>2, <2>1
    <3>2. i - Start = Len(conv.messages) + 1 - Start
      BY <2>1
    <3> QED BY <3>1, <3>2
  <2>2. CASE i # n + 1
    <3>1. i \in Start + 1 .. n /\ i \in 1..n
      BY <1>1, <2>2
    <3>2. IF (i - Start) % 2 = 1
            THEN conv.messages[i].role = "assistant"
            ELSE conv.messages[i] = UserMessage(Corrective)
      BY <3>1 DEF Alternates
    <3>3. Add(conv, m).messages[i] = conv.messages[i]
      BY <1>2, <3>1
    <3> QED BY <3>2, <3>3
  <2> QED BY <2>1, <2>2
<1>4. Extends(given, Add(conv, m))
  <2>1. DOMAIN given.messages \subseteq 1..n
    BY <1>1 DEF Extends, Start
  <2> QED BY <1>1, <1>2, <2>1 DEF Extends, Start
<1> QED BY <1>3, <1>4

\* Whether a turn is even or odd
LEMMA Parity ==
  ASSUME NEW k \in Nat
  PROVE  (2 * k) % 2 = 0 /\ (2 * k + 1) % 2 = 1
OBVIOUS

\* How the counters stand before a reply, before a retry, and after it
LEMMA TurnsCounted ==
  ASSUME TypeInv
  PROVE  /\ Start \in Nat /\ Len(working.messages) \in Nat /\ attempt \in Nat
         /\ max_retries \in Int /\ working \in Conversation
         /\ attempt <= max_retries + 1 \/ attempt = 0
         /\ TurnsAdded \in Nat
         /\ pc = "parsing" => attempt <= max_retries
<1>1. Start \in Nat /\ Len(working.messages) \in Nat /\ working \in Conversation
  BY DEF TypeInv, TypeOK, Conversation, Start
<1>2. /\ attempt \in Nat /\ max_retries \in Int
      /\ attempt <= max_retries + 1 \/ attempt = 0
      /\ pc = "parsing" => attempt <= max_retries
  BY DEF TypeInv, TypeOK, ReplyReached
<1>3. TurnsAdded \in Nat
  BY <1>2 DEF TurnsAdded
<1> QED BY <1>1, <1>2, <1>3

\* Between calls the loop invariant says nothing
LEMMA FinishLoop ==
  ASSUME NEW kind, NEW output, NEW conv, NEW tokens, NEW n, NEW reason,
         Finish(kind, output, conv, tokens, n, reason)
  PROVE  LoopInv'
BY DEF Finish, LoopInv

\* A transcript grown by the turn that belongs behind it is a loop's
LEMMA GrownLoop ==
  ASSUME NEW conv \in Conversation, working' = conv, given' = given, pc' # "idle",
         runs' # 0, accumulated' = spent', replied' = attempt' + (IF pc' = "parsing" THEN 1 ELSE 0),
         Len(conv.messages) = Start + TurnsAdded', Extends(given, conv), Alternates(conv)
  PROVE  LoopInv'
<1>1. Start' = Start
  BY DEF Start
<1>2. Alternates(working)'
  BY <1>1 DEF Alternates
<1>3. Extends(given, working)'
  BY DEF Extends
<1> QED BY <1>1, <1>2, <1>3 DEF LoopInv

\* A reply is added to the transcript and to the counters
LEMMA ReplyLoop ==
  ASSUME TypeInv, LoopInv, NEW reply \in Replies, ChatReplies(reply)
  PROVE  LoopInv'
<1> DEFINE conv == Add(working, AssistantMessage(reply.content))
<1>1. /\ attempt <= max_retries /\ pc = "calling" /\ pc' = "parsing" /\ attempt' = attempt
      /\ given' = given /\ runs' = runs /\ working' = conv /\ replied' = replied + 1
      /\ accumulated' = accumulated + reply.usage /\ spent' = spent + reply.usage
  BY DEF ChatReplies, AttemptsLeft, AddUsage, callVars
<1>2. Len(working.messages) = Start + 2 * attempt /\ Len(working.messages) >= Start
  BY <1>1, TurnsCounted DEF LoopInv, TurnsAdded
<1>3. AssistantMessage(reply.content) \in Message
  BY ReplyType
<1>4. (Len(working.messages) + 1 - Start) % 2 = 1
  <2>1. Len(working.messages) + 1 - Start = 2 * attempt + 1
    BY <1>2, TurnsCounted
  <2> QED BY <2>1, TurnsCounted, Parity
<1>5. Extends(given, conv) /\ Alternates(conv)
  BY <1>1, <1>2, <1>3, <1>4, TurnsCounted, AlternatesAdd DEF LoopInv, AssistantMessage
<1>6. conv \in Conversation /\ Len(conv.messages) = Len(working.messages) + 1
  BY <1>3, TurnsCounted, AddProperties
<1>7. Len(conv.messages) = Start + TurnsAdded'
  BY <1>1, <1>2, <1>6, TurnsCounted DEF TurnsAdded
<1>8. /\ runs # 0 /\ accumulated = spent /\ replied = attempt
  BY <1>1, TurnsCounted DEF LoopInv
<1> HIDE DEF conv
<1> QED BY <1>1, <1>5, <1>6, <1>7, <1>8, GrownLoop

\* A failed attempt adds its corrective turn, unless it was the last
LEMMA RetryLoop == ASSUME TypeInv, LoopInv, ParseFails PROVE LoopInv'
<1> DEFINE conv == Corrected
<1>1. /\ pc = "parsing" /\ pc' = "calling" /\ attempt' = attempt + 1 /\ working' = conv
      /\ given' = given /\ runs' = runs /\ max_retries' = max_retries
      /\ accumulated' = accumulated /\ spent' = spent /\ replied' = replied
  BY DEF ParseFails, callVars, historyVars
<1>2. /\ Len(working.messages) = Start + 2 * attempt + 1 /\ attempt <= max_retries
      /\ Len(working.messages) >= Start
  BY <1>1, TurnsCounted DEF LoopInv, TurnsAdded
<1>3. Extends(given, working) /\ Alternates(working) /\ runs # 0 /\ accumulated = spent
      /\ replied = attempt + 1
  BY <1>1 DEF LoopInv
<1>4. /\ Extends(given, conv) /\ Alternates(conv) /\ conv \in Conversation
      /\ Len(conv.messages) = Start + TurnsAdded'
  <2>1. CASE attempt < max_retries
    <3>1. conv = Add(working, UserMessage(Corrective))
      BY <2>1 DEF Corrected
    <3>2. Len(working.messages) + 1 - Start = 2 * (attempt + 1)
      BY <1>2, TurnsCounted
    <3>3. (Len(working.messages) + 1 - Start) % 2 = 0
      <4>1. attempt + 1 \in Nat
        BY TurnsCounted
      <4> QED BY <3>2, <4>1, Parity
    <3>4. Extends(given, conv) /\ Alternates(conv)
      BY <1>2, <1>3, <3>1, <3>3, TurnsCounted, UserTurnType, AlternatesAdd
    <3>5. conv \in Conversation /\ Len(conv.messages) = Len(working.messages) + 1
      BY <3>1, TurnsCounted, UserTurnType, AddProperties
    <3>6. TurnsAdded' = 2 * attempt + 2
      BY <1>1, <2>1, TurnsCounted DEF TurnsAdded
    <3> QED BY <1>2, <3>4, <3>5, <3>6, TurnsCounted
  <2>2. CASE ~ (attempt < max_retries)
    <3>1. conv = working
      BY <2>2 DEF Corrected
    <3>2. TurnsAdded' = 2 * attempt + 1
      BY <1>1, <2>2, TurnsCounted DEF TurnsAdded
    <3> QED BY <1>2, <1>3, <3>1, <3>2, TurnsCounted
  <2> QED BY <2>1, <2>2
<1> HIDE DEF conv
<1> QED BY <1>1, <1>3, <1>4, TurnsCounted, GrownLoop

\* A call starts from the caller's transcript with its counters at zero
LEMMA CallLoop ==
  ASSUME TypeInv, NEW conv \in Conversation, NEW retries \in RetryLimits, Call(conv, retries)
  PROVE  LoopInv'
<1>1. /\ working' = conv /\ given' = conv /\ attempt' = 0 /\ pc' = "calling"
      /\ runs' # 0 /\ accumulated' = 0 /\ spent' = 0 /\ replied' = 0
  BY DEF Call, TypeInv, TypeOK
<1>2. Len(conv.messages) \in Nat
  BY DEF Conversation
<1>3. TurnsAdded' = 0 /\ Start' = Len(conv.messages)
  BY <1>1 DEF TurnsAdded, Start
<1>4. Extends(given, working)'
  BY <1>1, <1>2 DEF Extends
<1>5. Alternates(working)'
  BY <1>1, <1>2, <1>3 DEF Alternates
<1> QED BY <1>1, <1>2, <1>3, <1>4, <1>5 DEF LoopInv

\* Where a call has come to can be read from its transcript, in every reachable
\* state (the retry loop of structured<T>).
THEOREM LoopInvariant == Spec => []LoopInv
<1>1. Init => LoopInv
  BY DEF Init, LoopInv
<1>2. TypeInv /\ LoopInv /\ CallStep => LoopInv'
  BY FinishLoop, ReplyLoop, RetryLoop
     DEF CallStep, ChatThrows, ParseSucceeds, Exhausted
<1>3. TypeInv /\ CallerStep => LoopInv'
  BY CallLoop, CallerTypes DEF CallerStep, Resume
<1>4. LoopInv /\ UNCHANGED vars => LoopInv'
  BY DEF vars, loopVars, callVars, historyVars, LoopInv, TurnsAdded, Start, Alternates
<1>5. TypeInv /\ LoopInv /\ [Next]_vars => LoopInv'
  BY <1>2, <1>3, <1>4 DEF Next
<1> QED BY <1>1, <1>5, TypeInvariant, PTL DEF Spec
-----------------------------------------------------------------------------
(***************************************************************************)
(* What a call hands back.                                                 *)
(***************************************************************************)
Promises == CostAccounted /\ AnswerFromLastTurn /\ ParseErrorKeepsAttempts

\* An exception of the provider reports the tokens spent before it
LEMMA ThrowsPromises == ASSUME TypeInv, LoopInv, ChatThrows PROVE Promises'
<1>1. /\ outcome'.kind = "provider_error" /\ outcome'.usage = accumulated
      /\ outcome'.iterations = attempt + 1 /\ spent' = spent /\ replied' = replied
  BY DEF ChatThrows, Finish, historyVars
<1>2. accumulated = spent /\ replied = attempt
  BY TurnsCounted DEF ChatThrows, LoopInv
<1> QED
  BY <1>1, <1>2 DEF Promises, CostAccounted, AnswerFromLastTurn, ParseErrorKeepsAttempts

\* An answer is the first text of the reply parsed last
LEMMA AnswerPromises == ASSUME TypeInv, LoopInv, ParseSucceeds PROVE Promises'
<1>1. /\ outcome'.kind = "result" /\ outcome'.usage = accumulated
      /\ outcome'.iterations = attempt + 1 /\ spent' = spent /\ replied' = replied
      /\ outcome'.output = ResponseText /\ outcome'.conversation = working
  BY DEF ParseSucceeds, Finish, historyVars
<1>2. accumulated = spent /\ replied = attempt + 1
  BY DEF ParseSucceeds, LoopInv
<1>3. ResponseText \in Parseable /\ ResponseText # NoText
  BY StructuredAssumption DEF ParseSucceeds
<1>4. CostAccounted' /\ ParseErrorKeepsAttempts'
  BY <1>1, <1>2 DEF CostAccounted, ParseErrorKeepsAttempts
<1>5. AnswerFromLastTurn'
  BY <1>1, <1>3 DEF AnswerFromLastTurn, ResponseText, Response
<1> QED BY <1>4, <1>5 DEF Promises

\* A parse error reports every attempt and hands back its turns
LEMMA ErrorPromises == ASSUME TypeInv, LoopInv, Exhausted PROVE Promises'
<1>1. /\ outcome'.kind = "structured_parse" /\ outcome'.usage = accumulated
      /\ outcome'.iterations = max_retries + 1 /\ spent' = spent /\ replied' = replied
      /\ outcome'.conversation = working /\ given' = given /\ max_retries' = max_retries
  BY DEF Exhausted, Finish, historyVars, callVars
<1>2. /\ accumulated = spent /\ replied = attempt /\ Extends(given, working)
      /\ Alternates(working) /\ Len(working.messages) = Start + TurnsAdded
      /\ pc = "calling" /\ attempt > max_retries
  BY TurnsCounted DEF Exhausted, AttemptsLeft, LoopInv
<1>3. max_retries >= -1 => attempt = max_retries + 1
  BY <1>2, TurnsCounted
<1>4. CostAccounted' /\ AnswerFromLastTurn'
  BY <1>1, <1>2, <1>3, TurnsCounted DEF CostAccounted, AnswerFromLastTurn
<1>5. max_retries >= 0 => Len(working.messages) = Start + 2 * max_retries + 1
  BY <1>2, <1>3, TurnsCounted DEF TurnsAdded
<1>6. ParseErrorKeepsAttempts'
  BY <1>1, <1>2, <1>5 DEF ParseErrorKeepsAttempts, Alternates, Start
<1> QED BY <1>4, <1>6 DEF Promises

\* A step between and within calls keeps what was handed back
LEMMA PromisesStep == TypeInv /\ LoopInv /\ Promises /\ [Next]_vars => Promises'
<1> SUFFICES ASSUME TypeInv, LoopInv, Promises, [Next]_vars PROVE Promises'
  OBVIOUS
<1>1. ASSUME pc' # "idle" PROVE Promises'
  BY <1>1 DEF Promises, CostAccounted, AnswerFromLastTurn, ParseErrorKeepsAttempts
<1>2. CASE CallStep
  BY <1>1, <1>2, ThrowsPromises, AnswerPromises, ErrorPromises
     DEF CallStep, ChatReplies, ParseFails
<1>3. CASE CallerStep
  BY <1>1, <1>3 DEF CallerStep, Resume, Call
<1>4. CASE UNCHANGED vars
  BY <1>4 DEF vars, callVars, historyVars, Promises, CostAccounted, AnswerFromLastTurn,
     ParseErrorKeepsAttempts
<1> QED BY <1>2, <1>3, <1>4 DEF Next

\* All that a call promises of its outcome, together
THEOREM PromisesKept == Spec => []Promises
<1>1. Init => Promises
  BY DEF Init, NoOutcome, Promises, CostAccounted, AnswerFromLastTurn,
     ParseErrorKeepsAttempts
<1> QED BY <1>1, PromisesStep, TypeInvariant, LoopInvariant, PTL DEF Spec

\* A call reports the tokens of every reply, however it ends, and on results and
\* parse errors an iteration for each (the accumulation in structured<T>).
THEOREM CostsAccounted == Spec => []CostAccounted
<1>1. Promises => CostAccounted
  BY DEF Promises
<1> QED BY <1>1, PromisesKept, PTL

\* The value returned was read from the last turn of the transcript returned
\* (extract_json_from_response).
THEOREM AnswersFromLastTurn == Spec => []AnswerFromLastTurn
<1>1. Promises => AnswerFromLastTurn
  BY DEF Promises
<1> QED BY <1>1, PromisesKept, PTL

\* A parse error hands back the caller's transcript, then failed replies and
\* corrective turns by turns, ending with a reply.
THEOREM ParseErrorsKeepAttempts == Spec => []ParseErrorKeepsAttempts
<1>1. Promises => ParseErrorKeepsAttempts
  BY DEF Promises
<1> QED BY <1>1, PromisesKept, PTL
-----------------------------------------------------------------------------
(***************************************************************************)
(* A call is an exchange as Session states it.  The reply of an attempt is *)
(* a turn of the model and the corrective turn behind it one of its input; *)
(* running out of attempts is no turn.                                     *)
(***************************************************************************)

\* Who has spoken last, at every point of a call
LEMMA SpeakerKnown ==
  ASSUME TypeInv, LoopInv, pc # "idle"
  PROVE  /\ pc = "calling" /\ attempt <= max_retries => Speaker \in {"caller", "input"}
         /\ pc = "parsing" => Speaker = "model"
<1> DEFINE n == Len(working.messages)
<1>1. n = Start + TurnsAdded /\ Alternates(working)
  BY DEF LoopInv
<1>2. TurnsAdded = 0 => Speaker = "caller"
  BY <1>1, TurnsCounted DEF Speaker, Start
<1>3. ASSUME TurnsAdded # 0
      PROVE  IF TurnsAdded % 2 = 1 THEN Speaker = "model" ELSE Speaker = "input"
  <2>1. n \in Start + 1 .. Len(working.messages) /\ n - Start = TurnsAdded
    BY <1>1, <1>3, TurnsCounted
  <2>2. IF TurnsAdded % 2 = 1
          THEN working.messages[n].role = "assistant"
          ELSE working.messages[n] = UserMessage(Corrective)
    BY <1>1, <2>1 DEF Alternates
  <2>3. Len(working.messages) # Len(given.messages)
    BY <2>1, TurnsCounted DEF Start
  <2> QED BY <2>2, <2>3 DEF Speaker, UserMessage
<1>4. pc = "calling" /\ attempt <= max_retries => TurnsAdded = 2 * attempt
  BY TurnsCounted DEF TurnsAdded
<1>5. pc = "parsing" => TurnsAdded = 2 * attempt + 1
  BY DEF TurnsAdded
<1>6. (2 * attempt) % 2 = 0 /\ (2 * attempt + 1) % 2 = 1 /\ 2 * attempt + 1 # 0
  BY TurnsCounted, Parity
<1> HIDE DEF n
<1> QED BY <1>2, <1>3, <1>4, <1>5, <1>6

\* A call that is over has given an answer, after a turn of the model, or failed
LEMMA FinishTurn ==
  ASSUME TypeInv, LoopInv, pc # "idle", NEW kind, NEW output, NEW conv, NEW tokens,
         NEW n, NEW reason, Finish(kind, output, conv, tokens, n, reason),
         kind = "result" => pc = "parsing"
  PROVE  Exchange!Next
<1>1. /\ pc' = "idle" /\ UNCHANGED <<replied, runs, max_retries>> /\ outcome'.kind = kind
      /\ Speaker' = "nobody" /\ runs # 0
  BY DEF Finish, callVars, historyVars, Speaker, LoopInv
<1>2. CASE kind = "result"
  <2>1. Speaker = "model"
    BY <1>2, SpeakerKnown
  <2>2. Exchange!Answer
    BY <1>1, <1>2, <2>1 DEF Exchange!Answer
  <2> QED BY <2>2 DEF Exchange!Next
<1>3. CASE kind # "result"
  <2>1. Exchange!Fail
    BY <1>1, <1>3 DEF Exchange!Fail
  <2> QED BY <2>1 DEF Exchange!Next
<1> QED BY <1>2, <1>3

\* A reply is a turn of the model, and one within its budget
LEMMA ReplyTurn ==
  ASSUME TypeInv, LoopInv, TypeInv', LoopInv', NEW reply \in Replies, ChatReplies(reply)
  PROVE  Exchange!ModelTurn
<1>1. /\ pc = "calling" /\ pc' = "parsing" /\ attempt <= max_retries
      /\ replied' = replied + 1 /\ max_retries' = max_retries
  BY DEF ChatReplies, AttemptsLeft, callVars
<1>2. Speaker \in {"caller", "input"}
  BY <1>1, SpeakerKnown
<1>3. Speaker' = "model"
  <2>1. (TypeInv /\ LoopInv /\ pc # "idle" => (pc = "parsing" => Speaker = "model"))'
    BY SpeakerKnown, PTL
  <2> QED BY <1>1, <2>1
<1>4. replied = attempt
  BY <1>1, TurnsCounted DEF LoopInv
<1> QED BY <1>1, <1>2, <1>3, <1>4, TurnsCounted DEF Exchange!ModelTurn

\* A reply that does not parse gets a corrective turn, which is input, or ends
\* the attempts without a turn
LEMMA RetryTurn ==
  ASSUME TypeInv, LoopInv, TypeInv', LoopInv', ParseFails
  PROVE  Exchange!InputTurn \/ UNCHANGED Exchange!vars
<1>1. /\ pc = "parsing" /\ pc' = "calling" /\ attempt' = attempt + 1 /\ working' = Corrected
      /\ UNCHANGED <<replied, max_retries, given, runs>> /\ outcome' = outcome
  BY DEF ParseFails, callVars, historyVars
<1>2. Speaker = "model"
  BY <1>1, SpeakerKnown
<1>3. CASE attempt < max_retries
  <2>1. (TypeInv /\ LoopInv /\ pc # "idle" =>
          (pc = "calling" /\ attempt <= max_retries => Speaker \in {"caller", "input"}))'
    BY SpeakerKnown, PTL
  <2>2. attempt' <= max_retries'
    BY <1>1, <1>3, TurnsCounted
  <2>3. Speaker' # "caller"
    <3>1. TurnsAdded' = 2 * attempt + 2 /\ Start' = Start
      BY <1>1, <1>3, TurnsCounted DEF TurnsAdded, Start
    <3>2. Len(working'.messages) = Start + 2 * attempt + 2
      BY <1>1, <3>1, TurnsCounted DEF LoopInv
    <3>3. Len(working'.messages) # Len(given'.messages)
      BY <1>1, <3>2, TurnsCounted DEF Start
    <3> QED BY <1>1, <3>3 DEF Speaker
  <2>4. Speaker' = "input"
    BY <1>1, <2>1, <2>2, <2>3
  <2> QED BY <1>1, <1>2, <2>4 DEF Exchange!InputTurn
<1>4. CASE ~ (attempt < max_retries)
  <2>1. working' = working
    BY <1>1, <1>4 DEF Corrected
  <2>2. Speaker' = Speaker
    BY <1>1, <2>1 DEF Speaker
  <2> QED BY <1>1, <2>2 DEF Exchange!vars
<1> QED BY <1>3, <1>4

\* A caller opens an exchange
LEMMA CallTurn ==
  ASSUME NEW conv, NEW retries \in RetryLimits, Call(conv, retries)
  PROVE  Exchange!Open
<1>1. retries \in Int
  BY StructuredAssumption
<1> QED BY <1>1 DEF Call, Speaker, Exchange!Open

\* Every call is an exchange of turns: replies and corrective turns alternate,
\* the replies are within the budget of max_retries + 1, and an answer follows a
\* reply (the retry loop of structured<T>).
THEOREM CallsTakeTurns == Spec => TakesTurns
<1>1. Init => Exchange!Init
  BY DEF Init, Speaker, Exchange!Init
<1>2. /\ TypeInv /\ TypeInv' /\ LoopInv /\ LoopInv' /\ [Next]_vars
      => [Exchange!Next]_Exchange!vars
  <2> SUFFICES ASSUME TypeInv, TypeInv', LoopInv, LoopInv', [Next]_vars
               PROVE  Exchange!Next \/ UNCHANGED Exchange!vars
    OBVIOUS
  <2>1. ASSUME NEW reply \in Replies, ChatReplies(reply) PROVE Exchange!Next
    BY <2>1, ReplyTurn DEF Exchange!Next
  <2>2. CASE ChatThrows
    BY <2>2, FinishTurn DEF ChatThrows
  <2>3. CASE ParseSucceeds
    BY <2>3, FinishTurn DEF ParseSucceeds
  <2>4. CASE Exhausted
    BY <2>4, FinishTurn DEF Exhausted
  <2>5. CASE ParseFails
    BY <2>5, RetryTurn DEF Exchange!Next
  <2>6. CASE CallerStep
    BY <2>6, CallTurn DEF CallerStep, Resume, Exchange!Next
  <2>7. CASE UNCHANGED vars
    BY <2>7 DEF vars, loopVars, callVars, historyVars, Speaker, Exchange!vars
  <2> QED BY <2>1, <2>2, <2>3, <2>4, <2>5, <2>6, <2>7 DEF Next, CallStep
<1> QED
  BY <1>1, <1>2, TypeInvariant, LoopInvariant, PTL DEF Spec, TakesTurns, Exchange!Spec
=============================================================================
