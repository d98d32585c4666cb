--------------------------- MODULE ProviderProofs ---------------------------
(***************************************************************************)
(* What holds of every conversation carried over providers, whatever the   *)
(* backends answer and in whatever order they take turns: its types, that  *)
(* requests are acceptable and continue each other, and that every backend *)
(* hears its own turns as it sent them and the calls of the others.        *)
(***************************************************************************)
EXTENDS Provider, DataProofs

-----------------------------------------------------------------------------
(***************************************************************************)
(* A message added to a conversation is written behind what is there.      *)
(***************************************************************************)

\* One more part is written last
LEMMA WritesMore ==
  ASSUME NEW S, NEW parts \in Seq(Seq(S)), NEW part \in Seq(S)
  PROVE  /\ Completions!FlattenSeq(parts) \in Seq(S)
         /\ Completions!FlattenSeq(Append(parts, part)) = Completions!FlattenSeq(parts) \o part
<1>0. PICK more \in Seq(Seq(S)) : more = Append(parts, part)
  <2>1. Append(parts, part) \in Seq(Seq(S))
    OBVIOUS
  <2> QED BY <2>1
<1>1. /\ Len(parts) \in Nat /\ Len(more) = Len(parts) + 1 /\ more[Len(parts) + 1] = part
      /\ \A n \in 1..Len(parts) : more[n] = parts[n]
  BY <1>0
<1>2. PICK g : Writes(g, parts, S) /\ Completions!FlattenSeq(parts) = g[Len(parts)]
  BY Flattened
<1>3. PICK h : Writes(h, more, S) /\ Completions!FlattenSeq(more) = h[Len(more)]
  BY Flattened
<1> DEFINE Same == {n \in 0..Len(parts) : h[n] = g[n]}
<1>4. 0 \in Same
  BY <1>1, <1>2, <1>3 DEF Writes
<1>5. ASSUME NEW n \in 1..Len(parts), n - 1 \in Same PROVE n \in Same
  <2>1. n \in 1..Len(more) /\ n \in 0..Len(parts) /\ h[n - 1] = g[n - 1]
    BY <1>1, <1>5
  <2>2. h[n] = h[n - 1] \o more[n] /\ g[n] = g[n - 1] \o parts[n]
    BY <1>2, <1>3, <2>1 DEF Writes
  <2> QED BY <1>1, <2>1, <2>2
<1>6. \A n \in 0..Len(parts) : n \in Same
  <2>1. \A n \in 1..Len(parts) : n - 1 \in Same => n \in Same
    BY <1>5
  <2> HIDE DEF Same
  <2> QED BY <1>1, <1>4, <2>1, Counting
<1>7. h[Len(more)] = h[Len(parts)] \o part
  <2>1. Len(more) \in 1..Len(more) /\ Len(more) - 1 = Len(parts) /\ more[Len(more)] = part
    BY <1>1
  <2> QED BY <1>3, <2>1 DEF Writes
<1>8. h[Len(parts)] = g[Len(parts)] /\ g[Len(parts)] \in Seq(S)
  BY <1>1, <1>2, <1>6 DEF Writes
<1> QED BY <1>0, <1>2, <1>3, <1>7, <1>8

\* What the Chat Completions dialect makes of a message
PartOf(message) ==
  IF message.role = "tool"
    THEN Completions!SerializeToolResults(message)
    ELSE <<Completions!SerializeMessage(message)>>

\* Results are written as tool messages
LEMMA ResultsTyped ==
  ASSUME NEW m \in Message
  PROVE  /\ Completions!SerializeToolResults(m) \in Seq(WireMessages)
         /\ \A k \in DOMAIN Completions!SerializeToolResults(m) :
               Completions!SerializeToolResults(m)[k].role = "tool"
<1> DEFINE content == m.content
           P == {i \in DOMAIN content : content[i].type = "tool_result"}
           pos == Positions(Len(content), P)
<1>1. content \in Seq(ContentBlock) /\ Len(content) \in Nat /\ DOMAIN content = 1..Len(content)
  BY DEF Message
<1>2. PICK results : results = Completions!Blocks(content, "tool_result")
  OBVIOUS
<1>3. results = Picked(content, P)
  BY <1>2, DialectsPick DEF Completions!Blocks
<1>4. Completions!SerializeToolResults(m)
        = [k \in DOMAIN results |-> [role |-> "tool", tool_call_id |-> results[k].tool_use_id]]
  BY <1>2 DEF Completions!SerializeToolResults
<1> HIDE DEF content
<1>5. pos \in Seq(1..Len(content)) /\ \A k \in 1..Len(pos) : pos[k] \in P
  BY <1>1, PositionsPicked
<1>6. results = [k \in 1..Len(pos) |-> content[pos[k]]]
  <2> HIDE DEF P
  <2> QED BY <1>1, <1>3, PickedByPosition
<1> HIDE DEF pos
<1>7. ASSUME NEW k \in 1..Len(pos) PROVE results[k].tool_use_id \in CallIds
  <2>1. results[k] = content[pos[k]] /\ pos[k] \in DOMAIN content
        /\ content[pos[k]].type = "tool_result"
    BY <1>5, <1>6
  <2>2. results[k] \in ContentBlock /\ results[k].type = "tool_result"
    BY <1>1, <2>1
  <2> QED BY <2>2 DEF ContentBlock, TextBlocks, ToolUseBlocks, ToolResultBlocks
<1>8. Len(pos) \in Nat /\ DOMAIN results = 1..Len(pos)
  BY <1>5, <1>6
<1>9. \A k \in 1..Len(pos) : [role |-> "tool", tool_call_id |-> results[k].tool_use_id] \in WireMessages
  BY <1>7 DEF WireMessages
<1>10. PICK n \in Nat : n = Len(pos)
  BY <1>8
<1> QED BY <1>4, <1>8, <1>9, <1>10

LEMMA PartType ==
  ASSUME NEW m \in Message
  PROVE  PartOf(m) \in Seq(WireMessages)
<1>1. CASE m.role = "tool"
  BY <1>1, ResultsTyped DEF PartOf
<1>2. CASE m.role # "tool"
  <2>1. PICK turn \in WireMessages : turn = Completions!SerializeMessage(m)
    BY TurnWritten
  <2> QED BY <1>2, <2>1 DEF PartOf
<1> QED BY <1>1, <1>2

\* The system prompt is at most one message, in front
LEMMA SystemWritten ==
  ASSUME NEW conv \in Conversation
  PROVE  /\ Completions!SystemMessages(conv) \in Seq(WireMessages)
         /\ \A k \in DOMAIN Completions!SystemMessages(conv) :
               Completions!SystemMessages(conv)[k].role = "system"
<1>1. CASE conv.system_prompt = NoPrompt
  <2>1. Completions!SystemMessages(conv) = << >>
    BY <1>1 DEF Completions!SystemMessages
  <2> QED BY <2>1
<1>2. CASE conv.system_prompt # NoPrompt
  <2>1. PICK message : message = [role |-> "system", content |-> conv.system_prompt]
    OBVIOUS
  <2>2. Completions!SystemMessages(conv) = <<message>>
    BY <1>2, <2>1 DEF Completions!SystemMessages
  <2>3. message \in WireMessages /\ message.role = "system"
    BY <1>2, <2>1 DEF Conversation, WireMessages
  <2> QED BY <2>2, <2>3
<1> QED BY <1>1, <1>2

\* In the Chat Completions dialect a message is written behind what is there
LEMMA OpenAiGrows ==
  ASSUME NEW conv \in Conversation, NEW m \in Message
  PROVE  /\ Completions!OpenAiRequest(conv) \in Seq(WireMessages)
         /\ Completions!OpenAiRequest(Add(conv, m)) = Completions!OpenAiRequest(conv) \o PartOf(m)
<1> DEFINE Parted(messages) == [i \in DOMAIN messages |-> PartOf(messages[i])]
<1>1. conv.messages \in Seq(Message) /\ Add(conv, m).messages = Append(conv.messages, m)
      /\ Add(conv, m).system_prompt = conv.system_prompt
  BY AddProperties DEF Conversation
<1>2. PICK messages \in Seq(Message) : messages = conv.messages
  BY <1>1
<1>3. \A c : Completions!TurnMessages(c) = Completions!FlattenSeq(Parted(c.messages))
  BY DEF Completions!TurnMessages, PartOf
<1>4. PICK parts : parts = Parted(messages)
  OBVIOUS
<1>5. parts \in Seq(Seq(WireMessages))
  <2>1. \A i \in 1..Len(messages) : messages[i] \in Message
    OBVIOUS
  <2>2. \A i \in 1..Len(messages) : PartOf(messages[i]) \in Seq(WireMessages)
    BY <2>1, PartType
  <2>3. DOMAIN messages = 1..Len(messages) /\ Len(messages) \in Nat
    OBVIOUS
  <2> QED BY <1>4, <2>2, <2>3
<1>6. Parted(Append(messages, m)) = Append(parts, PartOf(m))
  <2>1. PICK more : more = Append(messages, m)
    OBVIOUS
  <2>2. /\ Len(messages) \in Nat /\ DOMAIN more = 1..(Len(messages) + 1)
        /\ more[Len(messages) + 1] = m
        /\ \A i \in 1..Len(messages) : more[i] = messages[i]
    BY <2>1
  <2>3. PICK part : part = PartOf(m)
    OBVIOUS
  <2>4. Len(parts) = Len(messages) /\ \A i \in 1..Len(messages) : parts[i] = PartOf(messages[i])
    BY <1>4
  <2>5. /\ DOMAIN Append(parts, part) = 1..(Len(messages) + 1)
        /\ Append(parts, part)[Len(messages) + 1] = part
        /\ \A i \in 1..Len(messages) : Append(parts, part)[i] = parts[i]
    BY <1>5, <2>2, <2>3, <2>4
  <2>6. Append(parts, part) = [i \in 1..(Len(messages) + 1) |-> Append(parts, part)[i]]
    <3>1. PICK seq \in Seq(Seq(WireMessages)) : seq = Append(parts, part)
      <4>1. part \in Seq(WireMessages)
        BY <2>3, PartType
      <4>2. Append(parts, part) \in Seq(Seq(WireMessages))
        BY <1>5, <4>1
      <4> QED BY <4>2
    <3>2. DOMAIN seq = 1..(Len(messages) + 1) /\ Len(seq) \in Nat /\ DOMAIN seq = 1..Len(seq)
      BY <2>5, <3>1
    <3>3. seq = [i \in 1..Len(seq) |-> seq[i]]
      OBVIOUS
    <3>4. seq = [i \in DOMAIN seq |-> seq[i]]
      BY <3>2, <3>3
    <3> QED BY <3>1, <3>2, <3>4
  <2>7. \A i \in 1..(Len(messages) + 1) : Append(parts, part)[i] = PartOf(more[i])
    <3>1. \A i \in 1..(Len(messages) + 1) : i = Len(messages) + 1 \/ i \in 1..Len(messages)
      BY <2>2
    <3> QED BY <2>2, <2>3, <2>4, <2>5, <3>1
  <2> QED BY <2>1, <2>2, <2>3, <2>6, <2>7
<1>7. /\ Completions!FlattenSeq(parts) \in Seq(WireMessages)
      /\ Completions!FlattenSeq(Append(parts, PartOf(m))) = Completions!FlattenSeq(parts) \o PartOf(m)
  BY <1>5, PartType, WritesMore
<1>8. PICK system, turns, part \in Seq(WireMessages) :
         /\ system = Completions!SystemMessages(conv)
         /\ turns = Completions!FlattenSeq(parts)
         /\ part = PartOf(m)
  BY <1>7, PartType, SystemWritten
<1>9. Completions!SystemMessages(Add(conv, m)) = system
  BY <1>1, <1>8 DEF Completions!SystemMessages
<1>10. /\ Completions!TurnMessages(conv) = turns
       /\ Completions!TurnMessages(Add(conv, m)) = turns \o part
  BY <1>1, <1>2, <1>3, <1>4, <1>6, <1>7, <1>8
<1>11. system \o (turns \o part) = (system \o turns) \o part
  BY ConcatAssociative
<1>12. system \o turns \in Seq(WireMessages)
  OBVIOUS
<1> QED BY <1>8, <1>9, <1>10, <1>11, <1>12 DEF Completions!OpenAiRequest

\* The messages of the Messages dialect
WireTurns == {MessagesApi!WireMessage(message) : message \in Message}

\* In the Messages dialect a message is written as one, behind what is there
LEMMA AnthropicGrows ==
  ASSUME NEW conv \in Conversation, NEW m \in Message
  PROVE  /\ MessagesApi!AnthropicRequest(conv) \in Seq(WireTurns)
         /\ MessagesApi!AnthropicRequest(Add(conv, m))
              = MessagesApi!AnthropicRequest(conv) \o <<MessagesApi!WireMessage(m)>>
<1>1. conv.messages \in Seq(Message) /\ Add(conv, m).messages = Append(conv.messages, m)
  BY AddProperties DEF Conversation
<1>2. PICK messages \in Seq(Message) : messages = conv.messages
  BY <1>1
<1>3. PICK n \in Nat : n = Len(messages) /\ DOMAIN messages = 1..n
  OBVIOUS
<1>4. PICK more : more = Append(messages, m)
  OBVIOUS
<1>5. DOMAIN more = 1..(n + 1) /\ more[n + 1] = m /\ \A i \in 1..n : more[i] = messages[i]
  BY <1>3, <1>4
<1>6. PICK w \in WireTurns : w = MessagesApi!WireMessage(m)
  BY DEF WireTurns
<1>7. PICK wire \in Seq(WireTurns) :
         /\ wire = MessagesApi!AnthropicRequest(conv) /\ Len(wire) = n
         /\ \A i \in 1..n : wire[i] = MessagesApi!WireMessage(messages[i])
  <2>1. \A i \in 1..n : MessagesApi!WireMessage(messages[i]) \in WireTurns
    BY <1>3 DEF WireTurns
  <2>2. MessagesApi!AnthropicRequest(conv) = [i \in 1..n |-> MessagesApi!WireMessage(messages[i])]
    BY <1>2, <1>3 DEF MessagesApi!AnthropicRequest
  <2> QED BY <2>1, <2>2
<1>8. MessagesApi!AnthropicRequest(Add(conv, m))
        = [i \in 1..(n + 1) |-> MessagesApi!WireMessage(more[i])]
  BY <1>1, <1>2, <1>4, <1>5 DEF MessagesApi!AnthropicRequest
<1>9. \A i \in 1..(n + 1) : MessagesApi!WireMessage(more[i]) = IF i <= n THEN wire[i] ELSE w
  <2>1. \A i \in 1..(n + 1) : IF i <= n THEN i \in 1..n ELSE i = n + 1
    OBVIOUS
  <2> QED BY <1>5, <1>6, <1>7, <2>1
<1>10. wire \o <<w>> = [i \in 1..(n + 1) |-> IF i <= n THEN wire[i] ELSE w]
  BY <1>7
<1> QED BY <1>6, <1>7, <1>8, <1>9, <1>10

-----------------------------------------------------------------------------
(***************************************************************************)
(* The same of either backend: what a message adds to its requests, and    *)
(* the turns of the model a request tells.                                 *)
(***************************************************************************)
Wires(backend) == CASE backend = "openai" -> WireMessages
                    [] backend = "anthropic" -> WireTurns

\* A message as it is written for a backend, and a turn of the model
WrittenAs(backend, message) ==
  CASE backend = "openai" -> PartOf(message)
    [] backend = "anthropic" -> <<MessagesApi!WireMessage(message)>>

SpokenAs(backend, message) ==
  CASE backend = "openai" -> Completions!SerializeMessage(message)
    [] backend = "anthropic" -> MessagesApi!WireMessage(message)

LEMMA RequestGrows ==
  ASSUME NEW backend \in Backends, NEW conv \in Conversation, NEW m \in Message
  PROVE  /\ SerializeRequest(backend, conv) \in Seq(Wires(backend))
         /\ WrittenAs(backend, m) \in Seq(Wires(backend))
         /\ SerializeRequest(backend, Add(conv, m))
              = SerializeRequest(backend, conv) \o WrittenAs(backend, m)
<1>1. CASE backend = "openai"
  <2>1. /\ Wires(backend) = WireMessages /\ WrittenAs(backend, m) = PartOf(m)
        /\ \A c : SerializeRequest(backend, c) = Completions!OpenAiRequest(c)
    BY <1>1 DEF Wires, WrittenAs, SerializeRequest
  <2> QED BY <2>1, OpenAiGrows, PartType
<1>2. CASE backend = "anthropic"
  <2>1. PICK w \in WireTurns : w = MessagesApi!WireMessage(m)
    BY DEF WireTurns
  <2>2. /\ Wires(backend) = WireTurns /\ WrittenAs(backend, m) = <<w>>
        /\ \A c : SerializeRequest(backend, c) = MessagesApi!AnthropicRequest(c)
    BY <1>2, <2>1 DEF Wires, WrittenAs, SerializeRequest
  <2>3. <<w>> \in Seq(WireTurns)
    OBVIOUS
  <2> QED BY <2>1, <2>2, <2>3, AnthropicGrows
<1> QED BY <1>1, <1>2 DEF Backends

\* Requests are typed also of conversations that never grow
LEMMA RequestTyped ==
  ASSUME NEW backend \in Backends, NEW conv \in Conversation
  PROVE  SerializeRequest(backend, conv) \in Seq(Wires(backend))
<1>1. PICK m \in Message : m = AssistantMessage(<< >>)
  <2>1. << >> \in Seq(ContentBlock)
    OBVIOUS
  <2> QED BY <2>1, MessageTypes
<1> QED BY <1>1, RequestGrows

\* A turn of the model is written as one message of the assistant, and no other
\* message is written as one
LEMMA WrittenRoles ==
  ASSUME NEW backend \in Backends, NEW m \in Message
  PROVE  /\ SpokenAs(backend, m) \in Wires(backend)
         /\ SpokenAs(backend, m).role = "assistant" <=> m.role = "assistant"
         /\ m.role = "assistant" => WrittenAs(backend, m) = <<SpokenAs(backend, m)>>
         /\ m.role # "assistant" =>
               \A k \in DOMAIN WrittenAs(backend, m) : WrittenAs(backend, m)[k].role # "assistant"
<1>0. m.role \in Roles
  BY DEF Message
<1>1. CASE backend = "openai"
  <2>1. PICK turn \in WireMessages : turn = Completions!SerializeMessage(m) /\ turn.role = m.role
    BY TurnWritten
  <2>2. Wires(backend) = WireMessages /\ WrittenAs(backend, m) = PartOf(m)
        /\ SpokenAs(backend, m) = turn
    BY <1>1, <2>1 DEF Wires, WrittenAs, SpokenAs
  <2>3. m.role # "tool" => PartOf(m) = <<turn>>
    BY <2>1 DEF PartOf
  <2>4. m.role = "tool" => \A k \in DOMAIN PartOf(m) : PartOf(m)[k].role = "tool"
    BY ResultsTyped DEF PartOf
  <2> QED BY <1>0, <2>1, <2>2, <2>3, <2>4
<1>2. CASE backend = "anthropic"
  <2>1. PICK w \in WireTurns : w = MessagesApi!WireMessage(m)
    BY DEF WireTurns
  <2>2. Wires(backend) = WireTurns /\ WrittenAs(backend, m) = <<w>> /\ SpokenAs(backend, m) = w
    BY <1>2, <2>1 DEF Wires, WrittenAs, SpokenAs
  <2>3. w.role = "assistant" <=> m.role = "assistant"
    BY <2>1 DEF MessagesApi!WireMessage, MessagesApi!WireRole
  <2> QED BY <2>2, <2>3
<1> QED BY <1>1, <1>2 DEF Backends

\* The turns of the model in a request (Heard, of any conversation)
HeardIn(backend, conv) ==
  Picked(SerializeRequest(backend, conv), AssistantIndexes(SerializeRequest(backend, conv)))

LEMMA HeardGrows ==
  ASSUME NEW backend \in Backends, NEW conv \in Conversation, NEW m \in Message
  PROVE  /\ HeardIn(backend, conv) \in Seq(Wires(backend))
         /\ m.role # "assistant" => HeardIn(backend, Add(conv, m)) = HeardIn(backend, conv)
         /\ m.role = "assistant" =>
               HeardIn(backend, Add(conv, m))
                 = Append(HeardIn(backend, conv), SpokenAs(backend, m))
<1>1. PICK S : S = Wires(backend)
  OBVIOUS
<1>2. PICK wire \in Seq(S), rest \in Seq(S) :
         /\ wire = SerializeRequest(backend, conv) /\ rest = WrittenAs(backend, m)
  BY <1>1, RequestGrows
<1>3. SerializeRequest(backend, Add(conv, m)) = wire \o rest
  BY <1>2, RequestGrows
<1> DEFINE P == AssistantIndexes(wire)
           Q == AssistantIndexes(wire \o rest)
<1>4. HeardIn(backend, conv) = Picked(wire, P) /\ HeardIn(backend, Add(conv, m)) = Picked(wire \o rest, Q)
  BY <1>2, <1>3 DEF HeardIn
<1>5. /\ \A i \in 1..Len(wire) : i \in P <=> i \in Q
      /\ \A k \in 1..Len(rest) : Len(wire) + k \in Q <=> rest[k].role = "assistant"
  <2>1. PICK more : more = wire \o rest
    OBVIOUS
  <2>2. /\ Len(wire) \in Nat /\ Len(rest) \in Nat
        /\ DOMAIN wire = 1..Len(wire) /\ DOMAIN more = 1..(Len(wire) + Len(rest))
        /\ \A i \in 1..Len(wire) : more[i] = wire[i]
        /\ \A k \in 1..Len(rest) : more[Len(wire) + k] = rest[k]
    BY <2>1
  <2>3. /\ \A i \in 1..Len(wire) : i \in DOMAIN more /\ i \in DOMAIN wire
        /\ \A k \in 1..Len(rest) : Len(wire) + k \in DOMAIN more
    BY <2>2
  <2> QED BY <2>1, <2>2, <2>3 DEF AssistantIndexes
<1>6. Picked(wire, P) \in Seq(S)
  BY PickedType
<1>7. ASSUME m.role # "assistant" PROVE Picked(wire \o rest, Q) = Picked(wire, P)
  <2>1. \A k \in 1..Len(rest) : rest[k].role # "assistant"
    BY <1>2, <1>7, WrittenRoles
  <2>2. \A k \in 1..Len(rest) : Len(wire) + k \notin Q
    BY <1>5, <2>1
  <2> HIDE DEF P, Q
  <2> QED BY <1>5, <2>2, PickedSkips
<1>8. ASSUME m.role = "assistant"
      PROVE  Picked(wire \o rest, Q) = Append(Picked(wire, P), SpokenAs(backend, m))
  <2>1. PICK turn \in S : turn = SpokenAs(backend, m) /\ turn.role = "assistant" /\ rest = <<turn>>
    BY <1>1, <1>2, <1>8, WrittenRoles
  <2>2. Len(rest) = 1 /\ rest[1] = turn /\ wire \o rest = Append(wire, turn)
    BY <2>1
  <2>3. Len(wire) + 1 \in Q
    BY <1>5, <2>1, <2>2
  <2> HIDE DEF P, Q
  <2>4. Picked(Append(wire, turn), Q) = Append(Picked(wire, P), turn)
    BY <1>5, <2>3, PickedAppends
  <2> QED BY <2>1, <2>2, <2>4
<1> QED BY <1>1, <1>4, <1>6, <1>7, <1>8

-----------------------------------------------------------------------------
(***************************************************************************)
(* Reading a response and writing it back.                                 *)
(***************************************************************************)

\* A turn of the model as it is repeated to its backend, and as it should be
Retold(backend, heard, saying) ==
  /\ CallsSurvive(CallsIn(backend, heard), CallsIn(backend, saying))
  /\ CallsCastable(CallsIn(backend, saying)) => heard = saying

\* Strings and nothing are written as they are
LEMMA TextWritten ==
  /\ \A text : Written(Object([_raw |-> String(text)])) = Object([_raw |-> String(text)])
  /\ Written(NoMembers) = NoMembers
<1>1. ASSUME NEW text
      PROVE  Written(Object([_raw |-> String(text)])) = Object([_raw |-> String(text)])
  <2>1. PICK members : members = [_raw |-> String(text)]
    OBVIOUS
  <2>2. DOMAIN members = {"_raw"} /\ WrittenScalar(members["_raw"]) = members["_raw"]
    BY <2>1 DEF WrittenScalar, String
  <2>3. Written(Object(members)) = Object([key \in DOMAIN members |-> WrittenScalar(members[key])])
    BY DEF Written, Leafwise, Object
  <2>4. [key \in DOMAIN members |-> WrittenScalar(members[key])] = members
    BY <2>1, <2>2
  <2> QED BY <2>1, <2>3, <2>4
<1>2. Written(NoMembers) = NoMembers
  <2>1. PICK members : members = [key \in {} |-> NullValue]
    OBVIOUS
  <2>2. Written(Object(members)) = Object([key \in DOMAIN members |-> WrittenScalar(members[key])])
    BY DEF Written, Leafwise, Object
  <2>3. [key \in DOMAIN members |-> WrittenScalar(members[key])] = members
    BY <2>1
  <2> QED BY <2>1, <2>2, <2>3 DEF NoMembers
<1> QED BY <1>1, <1>2

\* What is read of the arguments of a call, and written back
LEMMA ArgumentsRead ==
  ASSUME NEW arguments \in Arguments
  PROVE  LET input == Completions!ParseArguments(arguments)
             saying == Completions!SaidInput(arguments)
         IN  /\ input \in Inputs
             /\ Castable(saying) => Written(input) = saying
<1>1. CASE \E value \in InputTexts : arguments = Completions!JsonString(value)
  <2>1. PICK value \in InputTexts : arguments = [form |-> "json", value |-> value]
    BY <1>1 DEF Completions!JsonString
  <2>2. arguments.form = "json" /\ arguments.value = value
    BY <2>1
  <2>3. /\ Completions!ParseArguments(arguments) = FromGeneric(value)
        /\ Completions!SaidInput(arguments) = InDoubles(value)
    BY <2>2, DialectsRead DEF Completions!ParseArguments, Completions!SaidInput
  <2>4. JsonText(value) /\ FromGeneric(value) \in Inputs
    BY ProviderAssumption
  <2> QED BY <2>3, <2>4, WrittenBack
<1>2. CASE \E text \in RawTexts : arguments = Completions!RawString(text)
  <2>1. PICK text \in RawTexts : arguments = [form |-> "raw", value |-> text]
    BY <1>2 DEF Completions!RawString
  <2>2. arguments.form = "raw" /\ arguments.value = text
    BY <2>1
  <2>3. /\ Completions!ParseArguments(arguments) = Object([_raw |-> String(text)])
        /\ Completions!SaidInput(arguments) = Object([_raw |-> String(text)])
    BY <2>2 DEF Completions!ParseArguments, Completions!SaidInput, Completions!Object, Object,
                Completions!String, String
  <2>4. Object([_raw |-> String(text)]) \in Inputs
    BY ProviderAssumption
  <2> QED BY <2>3, <2>4, TextWritten
<1>3. CASE arguments = Completions!NoString
  <2>1. arguments.form = "absent"
    <3>1. arguments = [form |-> "absent", value |-> Null]
      BY <1>3 DEF Completions!NoString
    <3> QED BY <3>1
  <2>2. /\ Completions!ParseArguments(arguments) = NoMembers
        /\ Completions!SaidInput(arguments) = NoMembers
    BY <2>1, DialectsRead DEF Completions!ParseArguments, Completions!SaidInput
  <2>3. NoMembers \in Inputs
    BY ProviderAssumption
  <2> QED BY <2>2, <2>3, TextWritten
<1> QED BY <1>1, <1>2, <1>3 DEF Arguments

\* What is read of a call of a Chat Completions backend, and written back
LEMMA CallRead ==
  ASSUME NEW call \in [id : CallIds, name : ToolNames, arguments : Arguments]
  PROVE  LET block == Completions!CallBlock(call)
             told == Completions!WireCall(block)
             saying == [call EXCEPT !.arguments =
                          Completions!JsonString(Completions!SaidInput(@))]
         IN  /\ block \in ToolUseBlocks
             /\ told.id = saying.id /\ told.name = saying.name
             /\ Castable(saying.arguments.value) => told = saying
<1>1. PICK input, said_input :
        /\ input \in Inputs
        /\ input = Completions!ParseArguments(call.arguments)
        /\ said_input = Completions!SaidInput(call.arguments)
        /\ Castable(said_input) => Written(input) = said_input
  BY ArgumentsRead
<1>2. PICK block :
        block = [type |-> "tool_use", id |-> call.id, name |-> call.name, input |-> input]
  OBVIOUS
<1>3. Completions!CallBlock(call) = block
  BY <1>1, <1>2 DEF Completions!CallBlock, Completions!ToolUseBlock
<1>4. block \in ToolUseBlocks
  BY <1>1, <1>2 DEF ToolUseBlocks
<1>5. PICK arguments, back :
        arguments = Completions!JsonString(said_input) /\ back = Completions!JsonString(Written(input))
  OBVIOUS
<1>6. arguments.value = said_input /\ (Castable(said_input) => back = arguments)
  BY <1>1, <1>5 DEF Completions!JsonString
<1>7. [call EXCEPT !.arguments = Completions!JsonString(Completions!SaidInput(@))]
        = [id |-> call.id, name |-> call.name, arguments |-> arguments]
  BY <1>1, <1>5
<1>8. Completions!WireCall(block) = [id |-> call.id, name |-> call.name, arguments |-> back]
  BY <1>2, <1>5, DialectsRead DEF Completions!WireCall
<1> QED BY <1>3, <1>4, <1>6, <1>7, <1>8

\* One list behind another
LEMMA Joined ==
  ASSUME NEW S, NEW front \in Seq(S), NEW rest \in Seq(S)
  PROVE  /\ DOMAIN (front \o rest) = 1..(Len(front) + Len(rest))
         /\ \A i \in 1..Len(front) : (front \o rest)[i] = front[i]
         /\ \A k \in 1..Len(rest) : (front \o rest)[Len(front) + k] = rest[k]
OBVIOUS

\* A turn read from a Chat Completions backend is retold to it
LEMMA OpenAiRoundTrip ==
  ASSUME NEW body \in Bodies["openai"], Readable("openai", body)
  PROVE  LET content == Completions!OpenAiContent(body)
         IN  /\ content \in Seq(TextBlocks \cup ToolUseBlocks)
             /\ Retold("openai", Completions!SerializeMessage(AssistantMessage(content)),
                       Completions!OpenAiSaid(body))
<1> DEFINE S == TextBlocks \cup ToolUseBlocks
           Calls == [id : CallIds, name : ToolNames, arguments : Arguments]
           silent == body.content \in {Null, NoText}
<1>1. PICK calls \in Seq(Calls) : calls = body.tool_calls
  BY ProviderAssumption
<1>2. PICK n \in Nat : n = Len(calls) /\ DOMAIN calls = 1..n
  OBVIOUS
<1>3. \A k \in 1..n : calls[k] \in Calls
  <2> HIDE DEF Calls
  <2> QED BY <1>1, <1>2
<1>4. PICK uses : uses = [k \in 1..n |-> Completions!CallBlock(calls[k])]
  OBVIOUS
<1>5. /\ uses \in Seq(S) /\ Len(uses) = n
      /\ \A k \in 1..n : uses[k].type = "tool_use"
  <2>1. \A k \in 1..n : Completions!CallBlock(calls[k]) \in ToolUseBlocks
    BY <1>3, CallRead
  <2>2. \A k \in 1..n : uses[k] \in ToolUseBlocks
    BY <1>4, <2>1
  <2>3. uses \in Seq(ToolUseBlocks)
    BY <1>4, <2>2
  <2> QED BY <1>4, <2>2, <2>3 DEF ToolUseBlocks
<1>6. PICK text : text = IF silent THEN << >> ELSE <<TextBlock(body.content)>>
  OBVIOUS
<1>7. /\ text \in Seq(S)
      /\ silent => text = << >> /\ Len(text) = 0
      /\ ~ silent => /\ Len(text) = 1 /\ text[1].type = "text" /\ text[1].text = body.content
  <2>1. CASE silent
    BY <1>6, <2>1
  <2>2. CASE ~ silent
    <3>1. body.content \in Texts
      BY <2>2, ProviderAssumption
    <3>2. PICK block : block = [type |-> "text", text |-> body.content]
      OBVIOUS
    <3>3. block \in S /\ block.type = "text" /\ block.text = body.content
      BY <3>1, <3>2 DEF TextBlocks
    <3>4. text = <<block>>
      BY <1>6, <2>2, <3>2 DEF TextBlock
    <3> HIDE DEF S, silent
    <3> QED BY <2>2, <3>3, <3>4
  <2> QED BY <2>1, <2>2
<1>8. PICK content \in Seq(S) : content = uses \o text /\ content = Completions!OpenAiContent(body)
  <2>1. uses \o text \in Seq(S)
    BY <1>5, <1>7
  <2>2. Completions!OpenAiContent(body) = uses \o text
    BY <1>1, <1>2, <1>4, <1>6
       DEF Completions!OpenAiContent, Completions!TextBlock, TextBlock
  <2> QED BY <2>1, <2>2
<1> DEFINE U == UseIndexes(content)
           T == Completions!TextIndexes(content)
<1>9. /\ DOMAIN content = 1..(n + Len(text)) /\ Len(text) \in {0, 1}
      /\ \A i \in 1..n : content[i] = uses[i]
      /\ ~ silent => content[n + 1] = text[1]
  <2> HIDE DEF S, silent
  <2>1. Len(text) \in {0, 1} /\ uses \in Seq(S) /\ text \in Seq(S)
        /\ Len(uses) = n /\ content = uses \o text
    BY <1>5, <1>7, <1>8
  <2>2. DOMAIN content = 1..(n + Len(text)) /\ \A i \in 1..n : content[i] = uses[i]
    <3>1. /\ DOMAIN (uses \o text) = 1..(Len(uses) + Len(text))
          /\ \A i \in 1..Len(uses) : (uses \o text)[i] = uses[i]
      BY <2>1, Joined
    <3> QED BY <2>1, <3>1
  <2>3. ~ silent => content[n + 1] = text[1]
    <3>1. ASSUME Len(text) = 1 PROVE content[n + 1] = text[1]
      <4>1. 1 \in 1..Len(text)
        BY <3>1
      <4>2. (uses \o text)[Len(uses) + 1] = text[1]
        BY <2>1, <4>1, Joined
      <4> QED BY <2>1, <4>2
    <3> QED BY <1>7, <3>1
  <2> QED BY <2>1, <2>2, <2>3
<1>10. U = 1..n /\ T = IF silent THEN {} ELSE {n + 1}
  <2>1. \A i \in 1..n : content[i].type = "tool_use"
    BY <1>5, <1>9
  <2>2. ~ silent => n + 1 \in DOMAIN content /\ content[n + 1].type = "text"
    BY <1>7, <1>9
  <2> HIDE DEF silent
  <2>3. \A i \in DOMAIN content : i \in 1..n \/ (~ silent /\ i = n + 1)
    <3>1. CASE Len(text) = 0
      BY <1>9, <3>1
    <3>2. CASE Len(text) = 1
      <4>1. ~ silent
        BY <1>7, <3>2
      <4> QED BY <1>9, <3>2, <4>1
    <3> QED BY <1>9, <3>1, <3>2
  <2>4. 1..n \subseteq DOMAIN content
    BY <1>9
  <2>5. U = 1..n
    BY <2>1, <2>2, <2>3, <2>4 DEF UseIndexes
  <2>6. T = IF silent THEN {} ELSE {n + 1}
    BY <2>1, <2>2, <2>3, <2>4 DEF Completions!TextIndexes
  <2> QED BY <2>5, <2>6
<1>11. Picked(content, U) = uses
  <2>1. PICK P, N : P = U /\ N = 1..n
    OBVIOUS
  <2>2. /\ \A i \in 1..Len(uses) : i \in N <=> i \in P
        /\ \A k \in 1..Len(text) : Len(uses) + k \notin P
        /\ \A i \in 1..Len(uses) : i \in N
    BY <1>5, <1>10, <2>1
  <2> HIDE DEF S, U, T
  <2>3. uses \in Seq(S) /\ text \in Seq(S)
    BY <1>5, <1>7
  <2>4. Picked(uses \o text, P) = Picked(uses, N)
    BY <2>2, <2>3, PickedSkips
  <2>5. Picked(uses, N) = uses
    BY <2>2, <2>3, PickedAll
  <2> QED BY <1>8, <2>1, <2>4, <2>5
<1>12. Completions!TextContent(content) = IF silent THEN NoText ELSE body.content
  <2>1. CASE silent
    BY <1>10, <2>1 DEF Completions!TextContent
  <2>2. CASE ~ silent
    <3>1. T = {n + 1}
      BY <1>10, <2>2
    <3>2. Completions!Greatest(T) = n + 1
      BY <3>1 DEF Completions!Greatest
    <3>3. content[n + 1].text = body.content
      BY <1>7, <1>9, <2>2
    <3> QED BY <2>2, <3>1, <3>2, <3>3 DEF Completions!TextContent
  <2> QED BY <2>1, <2>2
<1>13. Completions!Blocks(content, "tool_use") = uses
  BY <1>11, BlocksPicked
<1>14. PICK told : told = [k \in 1..n |-> Completions!WireCall(uses[k])]
  OBVIOUS
<1>15. Completions!SerializeMessage(AssistantMessage(content))
         = [role |-> "assistant",
            content |-> IF uses # << >> /\ Completions!TextContent(content) = NoText
                          THEN Null ELSE Completions!TextContent(content),
            tool_calls |-> told]
  <2>1. DOMAIN uses = 1..n
    BY <1>4
  <2>2. AssistantMessage(content).content = content /\ AssistantMessage(content).role = "assistant"
    BY DEF AssistantMessage
  <2> HIDE DEF S
  <2> QED BY <1>13, <1>14, <2>1, <2>2 DEF Completions!SerializeMessage
<1>16. PICK made : made = [k \in 1..n |->
          [calls[k] EXCEPT !.arguments = Completions!JsonString(Completions!SaidInput(@))]]
  OBVIOUS
<1>17. Completions!OpenAiSaid(body)
         = [role |-> "assistant",
            content |-> IF silent THEN IF made = << >> THEN NoText ELSE Null ELSE body.content,
            tool_calls |-> made]
  BY <1>1, <1>2, <1>16 DEF Completions!OpenAiSaid
<1>18. \A k \in 1..n : /\ told[k].id = made[k].id /\ told[k].name = made[k].name
                       /\ Castable(made[k].arguments.value) => told[k] = made[k]
  BY <1>3, <1>4, <1>14, <1>16, CallRead
<1>19. uses = << >> <=> made = << >>
  BY <1>4, <1>16
<1>20. ~ silent => body.content # NoText
  OBVIOUS
<1>21. PICK back, saying :
         /\ back = Completions!SerializeMessage(AssistantMessage(content))
         /\ saying = Completions!OpenAiSaid(body)
  OBVIOUS
<1>22. /\ CallsIn("openai", back)
            = [k \in 1..n |-> [id |-> told[k].id, name |-> told[k].name,
                               input |-> told[k].arguments.value]]
       /\ CallsIn("openai", saying)
            = [k \in 1..n |-> [id |-> made[k].id, name |-> made[k].name,
                               input |-> made[k].arguments.value]]
  <2>1. back.tool_calls = told /\ DOMAIN told = 1..n
    BY <1>14, <1>15, <1>21
  <2>2. saying.tool_calls = made /\ DOMAIN made = 1..n
    BY <1>16, <1>17, <1>21
  <2> QED BY <2>1, <2>2 DEF CallsIn, Completions!OpenAiCalls
<1>23. PICK heard, spoken :
         /\ heard = CallsIn("openai", back) /\ spoken = CallsIn("openai", saying)
         /\ Len(heard) = n /\ Len(spoken) = n /\ DOMAIN spoken = 1..n
         /\ \A k \in 1..n : /\ heard[k].id = told[k].id /\ heard[k].name = told[k].name
                            /\ heard[k].input = told[k].arguments.value
                            /\ spoken[k].id = made[k].id /\ spoken[k].name = made[k].name
                            /\ spoken[k].input = made[k].arguments.value
  BY <1>22
<1>24. CallsSurvive(heard, spoken)
  BY <1>18, <1>23 DEF CallsSurvive
<1>25. ASSUME CallsCastable(spoken) PROVE back = saying
  <2>1. \A k \in 1..n : Castable(made[k].arguments.value)
    BY <1>23, <1>25 DEF CallsCastable
  <2>2. \A k \in 1..n : told[k] = made[k]
    BY <1>18, <2>1
  <2>3. told = made
    BY <1>14, <1>16, <2>2
  <2> HIDE DEF silent
  <2> QED BY <1>12, <1>15, <1>17, <1>19, <1>20, <1>21, <2>3
<1> QED
  <2> HIDE DEF S
  <2>1. content = Completions!OpenAiContent(body) /\ content \in Seq(S)
    BY <1>8
  <2>2. Retold("openai", back, saying)
    BY <1>23, <1>24, <1>25 DEF Retold
  <2> QED BY <1>21, <2>1, <2>2 DEF S

\* A part of a reply of a Messages backend, as a request should say it
Saying(part) ==
  IF part.type = "tool_use"
    THEN MessagesApi!CallPart(part.id, part.name, MessagesApi!SaidInput(part))
    ELSE part

\* A part that is read, and written back
LEMMA PartRead ==
  ASSUME NEW part \in Parts, part.type \in {"text", "tool_use"}
  PROVE  LET block == MessagesApi!Block(part)
             told == MessagesApi!WireBlock(block)
         IN  /\ block \in TextBlocks \cup ToolUseBlocks
             /\ told.type = part.type /\ Saying(part).type = part.type
             /\ part.type # "tool_use" => told = Saying(part)
             /\ part.type = "tool_use" =>
                  /\ told.id = Saying(part).id /\ told.name = Saying(part).name
                  /\ Castable(Saying(part).input) => told = Saying(part)
<1> DEFINE T == [type : {"text"}, text : Texts]
           C == [type : {"tool_use"}, id : CallIds, name : ToolNames, input : InputTexts]
           B == [type : {"tool_use"}, id : CallIds, name : ToolNames]
<1>1. CASE part \in T
  <2>1. part = [type |-> "text", text |-> part.text] /\ part.type = "text" /\ part.text \in Texts
    BY <1>1
  <2>2. PICK block : block = [type |-> "text", text |-> part.text]
    OBVIOUS
  <2>3. MessagesApi!Block(part) = block
    BY <2>1, <2>2 DEF MessagesApi!Block, MessagesApi!TextBlock
  <2>4. MessagesApi!WireBlock(block) = [type |-> "text", text |-> part.text]
    BY <2>2 DEF MessagesApi!WireBlock
  <2>5. block \in TextBlocks
    BY <2>1, <2>2 DEF TextBlocks
  <2> QED BY <2>1, <2>3, <2>4, <2>5 DEF Saying
<1>2. CASE part \in C \/ part \in B
  <2>1. part.type = "tool_use" /\ part.id \in CallIds /\ part.name \in ToolNames
    BY <1>2
  <2>2. PICK input, said_input :
          /\ input \in Inputs
          /\ input = IF "input" \in DOMAIN part THEN FromGeneric(part.input) ELSE NoMembers
          /\ said_input = MessagesApi!SaidInput(part)
          /\ Castable(said_input) => Written(input) = said_input
    <3>1. CASE part \in C
      <4>1. "input" \in DOMAIN part /\ part.input \in InputTexts
        BY <3>1
      <4>2. JsonText(part.input) /\ FromGeneric(part.input) \in Inputs
        BY <4>1, ProviderAssumption
      <4>3. MessagesApi!SaidInput(part) = InDoubles(part.input)
        BY <4>1, DialectsRead DEF MessagesApi!SaidInput
      <4> QED BY <4>1, <4>2, <4>3, WrittenBack
    <3>2. CASE part \in B
      <4>1. "input" \notin DOMAIN part
        BY <3>2
      <4>2. MessagesApi!SaidInput(part) = NoMembers
        BY <4>1, DialectsRead DEF MessagesApi!SaidInput
      <4> QED BY <4>1, <4>2, TextWritten, ProviderAssumption
    <3> QED BY <1>2, <3>1, <3>2
  <2>3. PICK block :
          block = [type |-> "tool_use", id |-> part.id, name |-> part.name, input |-> input]
    OBVIOUS
  <2>4. MessagesApi!Block(part) = block
    BY <2>1, <2>2, <2>3, DialectsRead DEF MessagesApi!Block, MessagesApi!ToolUseBlock
  <2>5. block \in ToolUseBlocks
    BY <2>1, <2>2, <2>3 DEF ToolUseBlocks
  <2>6. MessagesApi!WireBlock(block)
          = [type |-> "tool_use", id |-> part.id, name |-> part.name, input |-> Written(input)]
    BY <2>3, DialectsRead DEF MessagesApi!WireBlock
  <2>7. Saying(part)
          = [type |-> "tool_use", id |-> part.id, name |-> part.name, input |-> said_input]
    BY <2>1, <2>2 DEF Saying, MessagesApi!CallPart
  <2> QED BY <2>1, <2>2, <2>4, <2>5, <2>6, <2>7
<1>3. part # MessagesApi!OtherPart
  BY DEF MessagesApi!OtherPart
<1> QED BY <1>1, <1>2, <1>3 DEF Parts

\* A turn read from a Messages backend is retold to it
LEMMA AnthropicRoundTrip ==
  ASSUME NEW body \in Bodies["anthropic"], Readable("anthropic", body)
  PROVE  LET content == MessagesApi!AnthropicContent(body)
         IN  /\ content \in Seq(TextBlocks \cup ToolUseBlocks)
             /\ Retold("anthropic", MessagesApi!WireMessage(AssistantMessage(content)),
                       MessagesApi!AnthropicSaid(body))
<1>1. PICK list \in Seq(Parts) : list = body.content
  BY ProviderAssumption
<1>2. PICK P : P = MessagesApi!Known(list)
  OBVIOUS
<1>3. PICK pos \in Seq(1..Len(list)) :
         /\ Picked(list, P) = [k \in 1..Len(pos) |-> list[pos[k]]]
         /\ \A k \in 1..Len(pos) : pos[k] \in P
  <2>1. Positions(Len(list), P) \in Seq(1..Len(list))
        /\ \A k \in 1..Len(Positions(Len(list), P)) : Positions(Len(list), P)[k] \in P
    BY PositionsPicked
  <2> QED BY <2>1, PickedByPosition
<1>4. PICK parts : parts = Picked(list, P)
  OBVIOUS
<1>5. PICK n \in Nat : n = Len(pos) /\ DOMAIN parts = 1..n
  BY <1>3, <1>4
<1>6. \A k \in 1..n : parts[k] \in Parts /\ parts[k].type \in {"text", "tool_use"}
  <2>1. \A k \in 1..n : parts[k] = list[pos[k]] /\ pos[k] \in P /\ pos[k] \in 1..Len(list)
    BY <1>3, <1>4, <1>5
  <2>2. \A i \in P : list[i].type \in {"text", "tool_use"}
    BY <1>2 DEF MessagesApi!Known
  <2>3. \A i \in 1..Len(list) : list[i] \in Parts
    OBVIOUS
  <2> QED BY <2>1, <2>2, <2>3
<1>7. PICK content : content = [k \in 1..n |-> MessagesApi!Block(parts[k])]
  OBVIOUS
<1>8. MessagesApi!AnthropicContent(body) = content
  BY <1>1, <1>2, <1>4, <1>5, <1>7, DialectsPick DEF MessagesApi!AnthropicContent
<1>9. content \in Seq(TextBlocks \cup ToolUseBlocks)
  <2>1. \A k \in 1..n : MessagesApi!Block(parts[k]) \in TextBlocks \cup ToolUseBlocks
    BY <1>6, PartRead
  <2> QED BY <1>7, <2>1
<1>10. PICK told : told = [k \in 1..n |-> MessagesApi!WireBlock(content[k])]
  OBVIOUS
<1>11. PICK made : made = [k \in 1..n |-> Saying(parts[k])]
  OBVIOUS
<1>12. \A k \in 1..n :
          /\ told[k].type = parts[k].type /\ made[k].type = parts[k].type
          /\ parts[k].type # "tool_use" => told[k] = made[k]
          /\ parts[k].type = "tool_use" => /\ told[k].id = made[k].id /\ told[k].name = made[k].name
                                           /\ Castable(made[k].input) => told[k] = made[k]
  BY <1>6, <1>7, <1>10, <1>11, PartRead
<1>13. PICK back : back = MessagesApi!WireMessage(AssistantMessage(content))
  OBVIOUS
<1>14. back = [role |-> "assistant", content |-> told]
  <2>1. DOMAIN content = 1..n
    BY <1>7
  <2>2. AssistantMessage(content).content = content /\ AssistantMessage(content).role = "assistant"
    BY DEF AssistantMessage
  <2> QED BY <1>10, <1>13, <2>1, <2>2 DEF MessagesApi!WireMessage, MessagesApi!WireRole
<1>15. PICK saying : saying = MessagesApi!AnthropicSaid(body)
  OBVIOUS
<1>16. saying = [role |-> "assistant", content |-> made]
  BY <1>1, <1>2, <1>4, <1>5, <1>11, <1>15, DialectsPick, ZenonT(40) DEF MessagesApi!AnthropicSaid, Saying
<1>17. PICK U : U = {k \in 1..n : parts[k].type = "tool_use"}
  OBVIOUS
<1>18. MessagesApi!UseIndexes(told) = U /\ MessagesApi!UseIndexes(made) = U
  BY <1>10, <1>11, <1>12, <1>17 DEF MessagesApi!UseIndexes
<1>19. PICK at \in Seq(1..n) :
          /\ Picked(told, U) = [k \in 1..Len(at) |-> told[at[k]]]
          /\ Picked(made, U) = [k \in 1..Len(at) |-> made[at[k]]]
          /\ \A k \in 1..Len(at) : at[k] \in U
          /\ \A i \in 1..n : i \in U => \E k \in 1..Len(at) : at[k] = i
  <2>1. PICK at : at = Positions(n, U)
    OBVIOUS
  <2>2. /\ at \in Seq(1..n) /\ \A k \in 1..Len(at) : at[k] \in U
        /\ \A i \in 1..n : i \in U => \E k \in 1..Len(at) : at[k] = i
    BY <2>1, PositionsPicked
  <2>3. PICK V : V = {told[k] : k \in 1..n} \cup {made[k] : k \in 1..n}
    OBVIOUS
  <2>4. told \in Seq(V) /\ Len(told) = n /\ made \in Seq(V) /\ Len(made) = n
    BY <1>10, <1>11, <2>3
  <2>5. /\ Picked(told, U) = [k \in 1..Len(at) |-> told[at[k]]]
        /\ Picked(made, U) = [k \in 1..Len(at) |-> made[at[k]]]
    BY <2>1, <2>4, PickedByPosition
  <2> QED BY <2>2, <2>5
<1>20. PICK len \in Nat : len = Len(at) /\ \A k \in 1..len : at[k] \in U /\ at[k] \in 1..n
  <2>1. Len(at) \in Nat /\ \A k \in 1..Len(at) : at[k] \in 1..n
    OBVIOUS
  <2> QED BY <1>19, <2>1
<1>21. /\ CallsIn("anthropic", back)
            = [k \in 1..len |-> [id |-> told[at[k]].id, name |-> told[at[k]].name,
                                 input |-> told[at[k]].input]]
       /\ CallsIn("anthropic", saying)
            = [k \in 1..len |-> [id |-> made[at[k]].id, name |-> made[at[k]].name,
                                 input |-> made[at[k]].input]]
  <2>1. PICK uses, others : uses = Picked(told, U) /\ others = Picked(made, U)
    OBVIOUS
  <2>2. /\ DOMAIN uses = 1..len /\ DOMAIN others = 1..len
        /\ \A k \in 1..len : uses[k] = told[at[k]] /\ others[k] = made[at[k]]
    BY <1>19, <1>20, <2>1
  <2>3. /\ MessagesApi!AnthropicCalls(back)
             = [k \in 1..len |-> [id |-> uses[k].id, name |-> uses[k].name, input |-> uses[k].input]]
        /\ MessagesApi!AnthropicCalls(saying)
             = [k \in 1..len |-> [id |-> others[k].id, name |-> others[k].name,
                                  input |-> others[k].input]]
    BY <1>14, <1>16, <1>18, <2>1, <2>2, DialectsPick DEF MessagesApi!AnthropicCalls
  <2> QED BY <2>2, <2>3, SMTT(30) DEF CallsIn
<1>22. \A k \in 1..len : /\ told[at[k]].id = made[at[k]].id /\ told[at[k]].name = made[at[k]].name
                         /\ Castable(made[at[k]].input) => told[at[k]] = made[at[k]]
  BY <1>12, <1>17, <1>20
<1>23. PICK heard, spoken :
         /\ heard = CallsIn("anthropic", back) /\ spoken = CallsIn("anthropic", saying)
         /\ Len(heard) = len /\ Len(spoken) = len /\ DOMAIN spoken = 1..len
         /\ \A k \in 1..len : /\ heard[k].id = told[at[k]].id /\ heard[k].name = told[at[k]].name
                              /\ heard[k].input = told[at[k]].input
                              /\ spoken[k].id = made[at[k]].id /\ spoken[k].name = made[at[k]].name
                              /\ spoken[k].input = made[at[k]].input
  BY <1>21
<1>24. CallsSurvive(heard, spoken)
  <2>1. ASSUME NEW k \in 1..len
        PROVE  /\ heard[k].id = spoken[k].id /\ heard[k].name = spoken[k].name
               /\ Castable(spoken[k].input) => heard[k].input = spoken[k].input
    <3>1. PICK heard_call, made_call : heard_call = told[at[k]] /\ made_call = made[at[k]]
      OBVIOUS
    <3>2. /\ heard_call.id = made_call.id /\ heard_call.name = made_call.name
          /\ Castable(made_call.input) => heard_call = made_call
      BY <1>22, <3>1
    <3>3. /\ heard[k].id = heard_call.id /\ heard[k].name = heard_call.name
          /\ heard[k].input = heard_call.input
          /\ spoken[k].id = made_call.id /\ spoken[k].name = made_call.name
          /\ spoken[k].input = made_call.input
      BY <1>23, <3>1
    <3> QED BY <3>2, <3>3
  <2> QED BY <1>23, <2>1 DEF CallsSurvive
<1>25. ASSUME CallsCastable(spoken) PROVE back = saying
  <2>1. \A k \in 1..len : Castable(made[at[k]].input)
    BY <1>23, <1>25 DEF CallsCastable
  <2>2. \A i \in 1..n : told[i] = made[i]
    BY <1>12, <1>17, <1>19, <1>20, <1>22, <2>1
  <2>3. told = made
    BY <1>10, <1>11, <2>2
  <2> QED BY <1>14, <1>16, <2>3
<1>26. Retold("anthropic", back, saying)
  BY <1>23, <1>24, <1>25 DEF Retold
<1> QED BY <1>8, <1>9, <1>13, <1>15, <1>26

\* Both dialects tell the same calls of a message
LEMMA CallsAgree ==
  ASSUME NEW m \in Message
  PROVE  Completions!OpenAiCalls(Completions!SerializeMessage(m))
           = MessagesApi!AnthropicCalls(MessagesApi!WireMessage(m))
<1> DEFINE WireBlocks == {MessagesApi!WireBlock(block) : block \in ContentBlock}
<1>1. PICK content \in Seq(ContentBlock) : content = m.content
  BY DEF Message
<1>2. PICK n \in Nat : n = Len(content) /\ DOMAIN content = 1..n
  OBVIOUS
<1>3. PICK wire \in Seq(WireBlocks) :
         /\ wire = [k \in 1..n |-> MessagesApi!WireBlock(content[k])]
         /\ Len(wire) = n /\ DOMAIN wire = 1..n
  <2>1. \A k \in 1..n : MessagesApi!WireBlock(content[k]) \in WireBlocks
    BY <1>2
  <2> HIDE DEF WireBlocks
  <2>2. PICK told : told = [k \in 1..n |-> MessagesApi!WireBlock(content[k])]
    OBVIOUS
  <2>3. told \in Seq(WireBlocks) /\ Len(told) = n
    BY <2>1, <2>2
  <2> QED BY <2>2, <2>3
<1>4. PICK P : P = UseIndexes(content)
  OBVIOUS
<1>5. MessagesApi!UseIndexes(wire) = P
  <2>1. \A k \in 1..n : wire[k].type = content[k].type
    BY <1>2, <1>3, BlockWritten
  <2> QED BY <1>2, <1>3, <1>4, <2>1 DEF MessagesApi!UseIndexes, UseIndexes
<1>6. PICK pos \in Seq(1..n) :
         /\ Picked(content, P) = [k \in 1..Len(pos) |-> content[pos[k]]]
         /\ Picked(wire, P) = [k \in 1..Len(pos) |-> wire[pos[k]]]
         /\ \A k \in 1..Len(pos) : pos[k] \in P
  <2>1. PICK pos : pos = Positions(n, P)
    OBVIOUS
  <2>2. pos \in Seq(1..n) /\ \A k \in 1..Len(pos) : pos[k] \in P
    BY <2>1, PositionsPicked
  <2>3. Picked(content, P) = [k \in 1..Len(pos) |-> content[pos[k]]]
    BY <1>2, <2>1, PickedByPosition
  <2>4. Picked(wire, P) = [k \in 1..Len(pos) |-> wire[pos[k]]]
    <3> HIDE DEF WireBlocks
    <3>1. wire \in Seq(WireBlocks) /\ Len(wire) = n
      BY <1>3
    <3> QED BY <2>1, <3>1, PickedByPosition
  <2> QED BY <2>2, <2>3, <2>4
<1>7. PICK uses, parts : uses = Picked(content, P) /\ parts = Picked(wire, P)
  OBVIOUS
<1>8. PICK len \in Nat : len = Len(pos) /\ DOMAIN uses = 1..len /\ DOMAIN parts = 1..len
  <2>1. Len(pos) \in Nat
    OBVIOUS
  <2>2. DOMAIN uses = 1..Len(pos) /\ DOMAIN parts = 1..Len(pos)
    BY <1>6, <1>7
  <2> QED BY <2>1, <2>2
<1>9. \A k \in 1..len : /\ parts[k].id = uses[k].id /\ parts[k].name = uses[k].name
                        /\ parts[k].input = Written(uses[k].input)
  <2>1. ASSUME NEW k \in 1..len
        PROVE  uses[k].type = "tool_use" /\ parts[k] = MessagesApi!WireBlock(uses[k])
    <3>1. uses[k] = content[pos[k]] /\ parts[k] = wire[pos[k]] /\ pos[k] \in P /\ pos[k] \in 1..n
      BY <1>6, <1>7, <1>8
    <3> QED BY <1>3, <1>4, <3>1 DEF UseIndexes
  <2>2. ASSUME NEW use, use.type = "tool_use"
        PROVE  LET part == MessagesApi!WireBlock(use)
               IN  part.id = use.id /\ part.name = use.name /\ part.input = Written(use.input)
    BY <2>2, DialectsRead DEF MessagesApi!WireBlock
  <2> QED BY <2>1, <2>2
<1>10. Completions!OpenAiCalls(Completions!SerializeMessage(m))
         = [k \in 1..len |-> [id |-> uses[k].id, name |-> uses[k].name,
                              input |-> Written(uses[k].input)]]
  <2>1. Completions!SerializeMessage(m).tool_calls = [k \in 1..len |-> Completions!WireCall(uses[k])]
    BY <1>1, <1>4, <1>7, <1>8, BlocksPicked DEF Completions!SerializeMessage
  <2>2. \A k \in 1..len : /\ Completions!WireCall(uses[k]).id = uses[k].id
                          /\ Completions!WireCall(uses[k]).name = uses[k].name
                          /\ Completions!WireCall(uses[k]).arguments.value = Written(uses[k].input)
    BY DialectsRead DEF Completions!WireCall, Completions!JsonString
  <2>3. PICK calls : calls = [k \in 1..len |-> Completions!WireCall(uses[k])]
    OBVIOUS
  <2>4. Completions!OpenAiCalls(Completions!SerializeMessage(m))
          = [k \in 1..len |-> [id |-> calls[k].id, name |-> calls[k].name,
                               input |-> calls[k].arguments.value]]
    BY <2>1, <2>3 DEF Completions!OpenAiCalls
  <2> QED BY <2>2, <2>3, <2>4
<1>11. MessagesApi!AnthropicCalls(MessagesApi!WireMessage(m))
         = [k \in 1..len |-> [id |-> parts[k].id, name |-> parts[k].name, input |-> parts[k].input]]
  <2>1. MessagesApi!WireMessage(m).content = wire
    BY <1>1, <1>2, <1>3 DEF MessagesApi!WireMessage
  <2> QED BY <1>5, <1>7, <1>8, <2>1, DialectsPick DEF MessagesApi!AnthropicCalls
<1> QED BY <1>9, <1>10, <1>11

-----------------------------------------------------------------------------
(***************************************************************************)
(* Either backend.                                                         *)
(***************************************************************************)

\* A response is read into a turn of the model that is retold
LEMMA RoundTrip ==
  ASSUME NEW backend \in Backends, NEW body \in Bodies[backend], Readable(backend, body)
  PROVE  LET m == AssistantMessage(DeserializeResponse(backend, body))
         IN  /\ m \in Message /\ m.role = "assistant" /\ RoleFits(m)
             /\ Retold(backend, SpokenAs(backend, m), Said(backend, body))
<1>1. PICK content :
         /\ content = DeserializeResponse(backend, body)
         /\ content \in Seq(TextBlocks \cup ToolUseBlocks)
         /\ Retold(backend, SpokenAs(backend, AssistantMessage(content)), Said(backend, body))
  <2>1. CASE backend = "openai"
    BY <2>1, OpenAiRoundTrip DEF DeserializeResponse, Said, SpokenAs
  <2>2. CASE backend = "anthropic"
    BY <2>2, AnthropicRoundTrip DEF DeserializeResponse, Said, SpokenAs
  <2> QED BY <2>1, <2>2 DEF Backends
<1>2. content \in Seq(ContentBlock)
  <2>1. TextBlocks \cup ToolUseBlocks \subseteq ContentBlock
    BY DEF ContentBlock
  <2> HIDE DEF TextBlocks, ToolUseBlocks, ContentBlock
  <2> QED BY <1>1, <2>1
<1>3. \A k \in DOMAIN content : content[k].type # "tool_result"
  <2>1. \A block \in TextBlocks \cup ToolUseBlocks : block.type # "tool_result"
    BY DEF TextBlocks, ToolUseBlocks
  <2> QED BY <1>1, <2>1
<1>4. PICK m \in Message : m = AssistantMessage(content)
  BY <1>2, MessageTypes
<1>5. m.role = "assistant" /\ m.content = content
  BY <1>4 DEF AssistantMessage
<1> QED BY <1>1, <1>3, <1>4, <1>5 DEF RoleFits

\* A turn has the same calls for every backend
LEMMA CallsTold ==
  ASSUME NEW m \in Message, NEW b \in Backends, NEW c \in Backends
  PROVE  CallsIn(b, SpokenAs(b, m)) = CallsIn(c, SpokenAs(c, m))
<1>1. CallsIn("openai", SpokenAs("openai", m)) = CallsIn("anthropic", SpokenAs("anthropic", m))
  BY CallsAgree DEF CallsIn, SpokenAs
<1> QED BY <1>1 DEF Backends

\* The results the loops append answer the calls of the last turn
LEMMA ResultsAnswer ==
  ASSUME NEW content \in Seq(ContentBlock),
         NEW errors \in [DOMAIN ToolUses(content) -> BOOLEAN]
  PROVE  LET uses == ToolUses(content)
             results == [k \in DOMAIN uses |-> ToolResultBlock(uses[k].id, errors[k])]
         IN  results \in Seq(ToolResultBlocks) /\ AnswersAll(results, content)
<1>1. PICK n \in Nat : n = Len(content) /\ DOMAIN content = 1..n
  OBVIOUS
<1>2. PICK P : P = UseIndexes(content)
  OBVIOUS
<1>3. PICK uses : uses = ToolUses(content)
  OBVIOUS
<1>4. PICK pos \in Seq(1..n) :
         /\ uses = [k \in 1..Len(pos) |-> content[pos[k]]]
         /\ \A k \in 1..Len(pos) : pos[k] \in P
         /\ \A k, l \in 1..Len(pos) : k < l => pos[k] < pos[l]
         /\ \A i \in 1..n : i \in P => \E k \in 1..Len(pos) : pos[k] = i
  <2>1. PICK pos : pos = Positions(n, P)
    OBVIOUS
  <2>2. /\ pos \in Seq(1..n) /\ \A k \in 1..Len(pos) : pos[k] \in P
        /\ \A k, l \in 1..Len(pos) : k < l => pos[k] < pos[l]
        /\ \A i \in 1..n : i \in P => \E k \in 1..Len(pos) : pos[k] = i
    BY <2>1, PositionsPicked
  <2>3. uses = [k \in 1..Len(pos) |-> content[pos[k]]]
    BY <1>1, <1>2, <1>3, <2>1, PickedByPosition DEF ToolUses
  <2> QED BY <2>2, <2>3
<1>5. PICK len \in Nat : len = Len(pos) /\ DOMAIN uses = 1..len /\ DOMAIN pos = 1..len
  BY <1>4
<1>6. PICK results : results = [k \in 1..len |-> ToolResultBlock(uses[k].id, errors[k])]
  OBVIOUS
<1>7. \A k \in 1..len : /\ pos[k] \in 1..n /\ pos[k] \in P
                        /\ uses[k] = content[pos[k]] /\ uses[k].id \in CallIds
  <2>1. ASSUME NEW k \in 1..len
        PROVE  pos[k] \in 1..n /\ pos[k] \in P /\ uses[k] = content[pos[k]]
    BY <1>4, <1>5
  <2>2. ASSUME NEW i \in 1..n, i \in P PROVE content[i].id \in CallIds
    <3>1. content[i] \in ContentBlock /\ content[i].type = "tool_use"
      BY <1>1, <1>2, <2>2 DEF UseIndexes
    <3> QED BY <3>1 DEF ContentBlock, TextBlocks, ToolUseBlocks, ToolResultBlocks
  <2> QED BY <2>1, <2>2
<1>8. \A k \in 1..len : /\ results[k] \in ToolResultBlocks
                        /\ results[k].type = "tool_result"
                        /\ results[k].tool_use_id = content[pos[k]].id
  BY <1>3, <1>5, <1>6, <1>7 DEF ToolResultBlock, ToolResultBlocks
<1>9. results \in Seq(ToolResultBlocks) /\ DOMAIN results = 1..len
  BY <1>6, <1>8
<1>10. pos \in [1..len -> {i \in UseIndexes(content) : i < n + 1}]
  <2>1. pos = [k \in 1..len |-> pos[k]]
    BY <1>5
  <2> QED BY <1>2, <1>7, <2>1
<1>11. \A i \in UseIndexes(content) : \E k \in 1..len : pos[k] = i
  <2>1. UseIndexes(content) \subseteq 1..n
    BY <1>1 DEF UseIndexes
  <2> QED BY <1>2, <1>4, <1>5, <2>1
<1>12. \A k, l \in 1..len : k < l => pos[k] < pos[l]
  BY <1>4, <1>5
<1>13. AnswersAll(results, content)
  <2>1. pos \in [DOMAIN results -> {i \in UseIndexes(content) : i < n + 1}]
    BY <1>9, <1>10
  <2>2. \A k \in DOMAIN results : /\ results[k].type = "tool_result"
                                 /\ results[k].tool_use_id = content[pos[k]].id
    BY <1>8, <1>9
  <2>3. \A k, l \in DOMAIN results : k < l => pos[k] < pos[l]
    BY <1>9, <1>12
  <2>4. \A i \in UseIndexes(content) : i < n + 1 => \E k \in DOMAIN results : pos[k] = i
    BY <1>9, <1>11
  <2>5. AnswersBefore(results, content, n + 1)
    BY <2>1, <2>2, <2>3, <2>4, Zenon DEF AnswersBefore
  <2> QED BY <1>1, <2>5 DEF AnswersAll
<1> QED BY <1>3, <1>5, <1>6, <1>9, <1>13

-----------------------------------------------------------------------------
(***************************************************************************)
(* Types, and what a step can be: the loops append a message that is not   *)
(* the model's, a request is posted, a turn is read, or none of it.        *)
(***************************************************************************)
Sayings ==
  UNION {{[backend |-> backend, message |-> Said(backend, body)] : body \in Bodies[backend]} :
           backend \in Backends}

TypeInv ==
  /\ pc \in {"ready"} \cup Backends
  /\ conversation \in Conversation
  /\ conversation.system_prompt \in SystemPrompts
  /\ DOMAIN request = Backends
  /\ request = [backend \in Backends |-> request[backend]]
  /\ \A backend \in Backends : request[backend] \in Seq(Wires(backend))
  /\ said \in Seq(Sayings)

\* The calls of the last turn are pending or every call is answered; nobody is
\* asked to go on from pending calls
CallsPendingIn(messages) == messages # << >> /\ HasToolUse(messages[Len(messages)])

PairedIn(messages) ==
  /\ RolesFit(messages)
  /\ IF CallsPendingIn(messages) THEN Pending(messages) ELSE WellPaired(messages)

PairInv ==
  /\ PairedIn(Turns)
  /\ pc \in Backends => ~ CallsPendingIn(Turns)

\* The loops go on
Continued ==
  /\ pc = "ready" /\ pc' = "ready" /\ request' = request /\ said' = said
  /\ \E m \in Message : /\ m.role # "assistant"
                        /\ conversation' = Add(conversation, m)
                        /\ PairedIn(Append(Turns, m))

\* The backend took its turn
Replied ==
  /\ pc \in Backends /\ pc' = "ready" /\ request' = request
  /\ \E m \in Message : /\ m.role = "assistant" /\ RoleFits(m)
                        /\ conversation' = Add(conversation, m)
                        /\ \E saying \in Sayings :
                              /\ saying.backend = pc /\ said' = Append(said, saying)
                              /\ Retold(pc, SpokenAs(pc, m), saying.message)

\* Nothing was said
Idled ==
  /\ pc' \in {"ready", pc}
  /\ conversation' = conversation /\ request' = request /\ said' = said

LEMMA AskStep ==
  ASSUME TypeInv, PairInv, NEW text \in Asks, AskModel(text)
  PROVE  Continued
<1>1. PICK messages \in Seq(Message) : messages = Turns
  BY DEF TypeInv, Turns, Conversation
<1>2. PICK m \in Message : m = UserMessage(text)
  BY MessageTypes, ProviderAssumption
<1>3. m.role = "user" /\ \A k \in DOMAIN m.content : m.content[k].type = "text"
  BY <1>2 DEF UserMessage, TextBlock
<1>4. ~ HasToolUse(m) /\ RoleFits(m)
  BY <1>3 DEF HasToolUse, UseIndexes, RoleFits
<1>5. WellPaired(messages) /\ RolesFit(messages)
  BY <1>1 DEF PairInv, PairedIn, AskModel, CallsPending, CallsPendingIn, LastTurn
<1>6. WellPaired(Append(messages, m))
  BY <1>3, <1>4, <1>5, PairedAppend
<1>7. RolesFit(Append(messages, m))
  BY <1>1, <1>4, <1>5, RolesAppend, AddProperties DEF TypeInv, Turns
<1>8. ~ CallsPendingIn(Append(messages, m))
  <2>1. Append(messages, m)[Len(Append(messages, m))] = m
    OBVIOUS
  <2> QED BY <1>4, <2>1 DEF CallsPendingIn
<1>9. PairedIn(Append(messages, m))
  BY <1>6, <1>7, <1>8 DEF PairedIn
<1> QED BY <1>1, <1>2, <1>3, <1>9 DEF AskModel, Extend, Continued

LEMMA AnswerStep ==
  ASSUME TypeInv, PairInv, AnswerCalls
  PROVE  Continued
<1>1. PICK messages \in Seq(Message) : messages = Turns
  BY DEF TypeInv, Turns, Conversation
<1>2. PICK last \in Message : last = messages[Len(messages)] /\ messages # << >>
  <2>1. messages # << >>
    BY <1>1 DEF AnswerCalls, CallsPending
  <2>2. Len(messages) \in 1..Len(messages)
    BY <2>1, EmptySeq
  <2> QED BY <2>1, <2>2
<1>3. last.content \in Seq(ContentBlock)
  BY DEF Message
<1>4. PICK uses : uses = ToolUses(last.content)
  OBVIOUS
<1>5. PICK errors \in [DOMAIN uses -> BOOLEAN] :
         Extend(ToolMessage([k \in DOMAIN uses |-> ToolResultBlock(uses[k].id, errors[k])]))
  BY <1>1, <1>2, <1>4 DEF AnswerCalls, LastTurn
<1>6. PICK results \in Seq(ToolResultBlocks) :
         /\ results = [k \in DOMAIN uses |-> ToolResultBlock(uses[k].id, errors[k])]
         /\ AnswersAll(results, last.content)
  BY <1>3, <1>4, ResultsAnswer
<1>7. PICK m \in Message : m = ToolMessage(results)
  BY MessageTypes
<1>8. m.role = "tool" /\ m.content = results
  BY <1>7 DEF ToolMessage
<1>9. ~ HasToolUse(m) /\ RoleFits(m)
  <2>1. \A k \in DOMAIN results : results[k].type = "tool_result"
    <3>1. \A block \in ToolResultBlocks : block.type = "tool_result"
      BY DEF ToolResultBlocks
    <3> HIDE DEF ToolResultBlocks
    <3>2. \A k \in DOMAIN results : results[k] \in ToolResultBlocks
      OBVIOUS
    <3> QED BY <3>1, <3>2
  <2> QED BY <1>8, <2>1 DEF HasToolUse, UseIndexes, RoleFits
<1>10. Pending(messages) /\ RolesFit(messages)
  BY <1>1 DEF PairInv, PairedIn, AnswerCalls, CallsPending, CallsPendingIn, LastTurn
<1>11. WellPaired(Append(messages, m))
  BY <1>2, <1>6, <1>7, <1>10, AnsweredAppend
<1>12. RolesFit(Append(messages, m))
  <2>1. conversation \in Conversation /\ conversation.messages = messages
    BY <1>1 DEF TypeInv, Turns
  <2>2. Add(conversation, m).messages = Append(messages, m)
    BY <2>1, AddProperties
  <2> QED BY <1>9, <1>10, <2>1, <2>2, RolesAppend
<1>13. ~ CallsPendingIn(Append(messages, m))
  <2>1. Append(messages, m)[Len(Append(messages, m))] = m
    OBVIOUS
  <2> QED BY <1>9, <2>1 DEF CallsPendingIn
<1>14. PairedIn(Append(messages, m))
  BY <1>11, <1>12, <1>13 DEF PairedIn
<1>15. pc = "ready" /\ pc' = pc /\ request' = request /\ said' = said
       /\ conversation' = Add(conversation, m)
  BY <1>5, <1>6, <1>7 DEF Extend
<1> QED BY <1>1, <1>8, <1>14, <1>15 DEF Continued

LEMMA ReplyStep ==
  ASSUME TypeInv, Posted, NEW status \in Statuses, NEW body \in Bodies[pc], ChatReplies(status, body)
  PROVE  Replied
<1>1. PICK backend \in Backends : backend = pc
  BY DEF Posted
<1>2. Readable(backend, body)
  BY <1>1 DEF ChatReplies
<1>3. PICK m \in Message : /\ m = AssistantMessage(DeserializeResponse(backend, body))
                           /\ m.role = "assistant" /\ RoleFits(m)
                           /\ Retold(backend, SpokenAs(backend, m), Said(backend, body))
  BY <1>1, <1>2, RoundTrip
<1>4. PICK saying \in Sayings : saying = [backend |-> backend, message |-> Said(backend, body)]
  <2>1. PICK saying : saying = [backend |-> backend, message |-> Said(backend, body)]
    OBVIOUS
  <2>2. body \in Bodies[backend]
    BY <1>1
  <2>3. saying \in {[backend |-> backend, message |-> Said(backend, b)] : b \in Bodies[backend]}
    BY <2>1, <2>2
  <2> QED BY <2>1, <2>3, Zenon DEF Sayings
<1>5. saying.backend = backend /\ saying.message = Said(backend, body)
  BY <1>4
<1>6. /\ pc \in Backends /\ pc' = "ready" /\ request' = request
      /\ conversation' = Add(conversation, m) /\ said' = Append(said, saying)
  BY <1>1, <1>3, <1>4 DEF ChatReplies
<1>7. Retold(pc, SpokenAs(pc, m), saying.message)
  BY <1>1, <1>3, <1>5
<1> QED BY <1>1, <1>3, <1>5, <1>6, <1>7 DEF Replied

\* Every step is one of these
LEMMA StepKinds ==
  ASSUME TypeInv, PairInv, [Next]_vars
  PROVE  \/ Continued
         \/ Replied
         \/ \E backend \in Backends : Post(backend)
         \/ Idled
<1>1. CASE \E text \in Asks : AskModel(text)
  BY <1>1, AskStep
<1>2. CASE AnswerCalls
  BY <1>2, AnswerStep
<1>3. CASE PostThrows
  BY <1>3 DEF PostThrows, Throw, Idled
<1>4. CASE \E status \in Statuses : ApiError(status)
  BY <1>4 DEF ApiError, Throw, Idled
<1>5. CASE \E status \in Statuses : Posted /\ \E body \in Bodies[pc] : UnreadableBody(status, body)
  BY <1>5 DEF UnreadableBody, Throw, Idled
<1>6. CASE \E status \in Statuses : Posted /\ \E body \in Bodies[pc] : ChatReplies(status, body)
  BY <1>6, ReplyStep
<1>7. CASE UNCHANGED vars
  BY <1>7 DEF vars, Idled
<1> QED BY <1>1, <1>2, <1>3, <1>4, <1>5, <1>6, <1>7 DEF Next

LEMMA InitTyped == Init => TypeInv
<1> SUFFICES ASSUME Init PROVE TypeInv
  OBVIOUS
<1>1. PICK p \in SystemPrompts : conversation = [system_prompt |-> p, messages |-> << >>]
  BY DEF Init, EmptyConversation
<1>2. conversation \in Conversation /\ conversation.system_prompt \in SystemPrompts
  <2>1. << >> \in Seq(Message)
    OBVIOUS
  <2>2. p \in Prompts \cup {NoPrompt}
    BY ProviderAssumption
  <2> QED BY <1>1, <2>1, <2>2 DEF Conversation
<1>3. request = [backend \in Backends |-> << >>] /\ pc = "ready" /\ said = << >>
  BY DEF Init
<1>4. \A backend \in Backends : request[backend] = << >>
  BY <1>3
<1>5. request = [backend \in Backends |-> request[backend]] /\ DOMAIN request = Backends
  BY <1>3
<1>6. \A backend \in Backends : request[backend] \in Seq(Wires(backend))
  <2>1. \A S : << >> \in Seq(S)
    OBVIOUS
  <2> QED BY <1>4, <2>1
<1>7. said \in Seq(Sayings)
  BY <1>3
<1> QED BY <1>2, <1>3, <1>5, <1>6, <1>7 DEF TypeInv

LEMMA StepTyped == TypeInv /\ PairInv /\ [Next]_vars => TypeInv'
<1> SUFFICES ASSUME TypeInv, PairInv, [Next]_vars PROVE TypeInv'
  OBVIOUS
<1>1. CASE Continued
  <2>1. PICK m \in Message : conversation' = Add(conversation, m)
    BY <1>1 DEF Continued
  <2>2. conversation' \in Conversation /\ conversation'.system_prompt = conversation.system_prompt
    BY <2>1, AddProperties DEF TypeInv
  <2> QED BY <1>1, <2>2 DEF Continued, TypeInv
<1>2. CASE Replied
  <2>1. PICK m \in Message, saying \in Sayings :
           conversation' = Add(conversation, m) /\ said' = Append(said, saying)
    BY <1>2 DEF Replied
  <2>2. conversation' \in Conversation /\ conversation'.system_prompt = conversation.system_prompt
    BY <2>1, AddProperties DEF TypeInv
  <2>3. said' \in Seq(Sayings)
    <3> HIDE DEF Sayings
    <3> QED BY <2>1 DEF TypeInv
  <2> QED BY <1>2, <2>2, <2>3 DEF Replied, TypeInv
<1>3. ASSUME NEW backend \in Backends, Post(backend) PROVE TypeInv'
  <2>1. PICK messages : messages = SerializeRequest(backend, conversation)
    OBVIOUS
  <2>2. messages \in Seq(Wires(backend))
    BY <2>1, RequestTyped DEF TypeInv
  <2>3. request' = [request EXCEPT ![backend] = messages] /\ pc' = backend
        /\ conversation' = conversation /\ said' = said
    BY <1>3, <2>1 DEF Post
  <2>4. /\ DOMAIN request' = Backends
        /\ request' = [b \in Backends |-> request'[b]]
        /\ \A b \in Backends : request'[b] = IF b = backend THEN messages ELSE request[b]
    BY <2>3 DEF TypeInv
  <2>5. \A b \in Backends : request'[b] \in Seq(Wires(b))
    BY <2>2, <2>4 DEF TypeInv
  <2> QED BY <2>3, <2>4, <2>5 DEF TypeInv
<1>4. CASE Idled
  BY <1>4 DEF Idled, TypeInv
<1> QED BY <1>1, <1>2, <1>3, <1>4, StepKinds

LEMMA InitPaired == Init => PairInv
<1> SUFFICES ASSUME Init PROVE PairInv
  OBVIOUS
<1>1. Turns = << >> /\ pc = "ready"
  BY DEF Init, Turns, EmptyConversation
<1>2. ~ CallsPendingIn(Turns)
  BY <1>1 DEF CallsPendingIn
<1>3. WellPaired(Turns) /\ RolesFit(Turns)
  BY <1>1 DEF WellPaired, ResultsFollowCalls, RolesFit
<1> QED BY <1>2, <1>3 DEF PairInv, PairedIn

LEMMA StepPaired == TypeInv /\ PairInv /\ [Next]_vars => PairInv'
<1> SUFFICES ASSUME TypeInv, PairInv, [Next]_vars PROVE PairInv'
  OBVIOUS
<1>0. PICK messages \in Seq(Message) : messages = Turns /\ conversation \in Conversation
                                      /\ messages = conversation.messages
  BY DEF TypeInv, Turns, Conversation
<1>1. CASE Continued
  <2>1. PICK m \in Message : conversation' = Add(conversation, m) /\ PairedIn(Append(messages, m))
    BY <1>0, <1>1 DEF Continued
  <2>2. Turns' = Append(messages, m)
    <3>1. Add(conversation, m).messages = Append(conversation.messages, m)
      BY <1>0, AddProperties
    <3> QED BY <1>0, <2>1, <3>1 DEF Turns
  <2>3. pc' \notin Backends
    BY <1>1 DEF Continued, Backends
  <2> QED BY <2>1, <2>2, <2>3 DEF PairInv
<1>2. CASE Replied
  <2>1. PICK m \in Message : conversation' = Add(conversation, m) /\ m.role = "assistant" /\ RoleFits(m)
    BY <1>2 DEF Replied
  <2>2. Turns' = Append(messages, m)
    <3>1. Add(conversation, m).messages = Append(conversation.messages, m)
      BY <1>0, AddProperties
    <3> QED BY <1>0, <2>1, <3>1 DEF Turns
  <2>3. WellPaired(messages) /\ RolesFit(messages)
    BY <1>0, <1>2 DEF Replied, PairInv, PairedIn
  <2>4. RolesFit(Append(messages, m))
    BY <1>0, <2>1, <2>2, <2>3, RolesAppend DEF Turns
  <2>5. Append(messages, m)[Len(Append(messages, m))] = m /\ Append(messages, m) # << >>
    OBVIOUS
  <2>6. PairedIn(Append(messages, m))
    <3>1. CASE HasToolUse(m)
      <4>1. Pending(Append(messages, m))
        BY <2>1, <2>3, <3>1, PendingAppend
      <4> QED BY <2>4, <2>5, <3>1, <4>1 DEF PairedIn, CallsPendingIn
    <3>2. CASE ~ HasToolUse(m)
      <4>1. WellPaired(Append(messages, m))
        BY <2>1, <2>3, <3>2, PairedAppend
      <4> QED BY <2>4, <2>5, <3>2, <4>1 DEF PairedIn, CallsPendingIn
    <3> QED BY <3>1, <3>2
  <2>7. pc' \notin Backends
    BY <1>2 DEF Replied, Backends
  <2> QED BY <2>2, <2>6, <2>7 DEF PairInv
<1>3. ASSUME NEW backend \in Backends, Post(backend) PROVE PairInv'
  <2>1. Turns' = Turns /\ LastTurn.role \in {"user", "tool"}
    BY <1>3 DEF Post, Turns
  <2>2. ~ CallsPendingIn(Turns)
    BY <2>1 DEF PairInv, PairedIn, Pending, LastTurn
  <2> QED BY <2>1, <2>2 DEF PairInv
<1>4. CASE Idled
  <2>1. Turns' = Turns /\ (pc' \in Backends => pc \in Backends)
    BY <1>4 DEF Idled, Turns, Backends
  <2> QED BY <2>1 DEF PairInv
<1> QED BY <1>1, <1>2, <1>3, <1>4, StepKinds

\* Every reachable state is typed, with its calls paired or pending
THEOREM PairingInvariant == Spec => [](TypeInv /\ PairInv)
<1>1. Init => TypeInv /\ PairInv
  BY InitTyped, InitPaired
<1>2. TypeInv /\ PairInv /\ [Next]_vars => (TypeInv /\ PairInv)'
  BY StepTyped, StepPaired
<1> QED BY <1>1, <1>2, PTL DEF Spec

\* The transcript is made of messages as the library has them, whatever the
\* backends' responses leave out or send as null (TypeOK of the runs).
THEOREM TypeCorrect == Spec => []TypeOK
<1>1. TypeInv => TypeOK
  <2> SUFFICES ASSUME TypeInv PROVE TypeOK
    OBVIOUS
  <2>1. PICK messages \in Seq(Message) : messages = Turns
    BY DEF TypeInv, Turns, Conversation
  <2>2. ASSUME NEW i \in DOMAIN messages
        PROVE  /\ messages[i].role \in Roles
               /\ \A k \in DOMAIN messages[i].content : messages[i].content[k] \in ContentBlock
    <3>1. messages[i] \in Message
      OBVIOUS
    <3>2. messages[i].role \in Roles /\ messages[i].content \in Seq(ContentBlock)
      BY <3>1 DEF Message
    <3> QED BY <3>2
  <2> QED BY <2>1, <2>2 DEF TypeInv, TypeOK
<1> QED BY <1>1, PairingInvariant, PTL

-----------------------------------------------------------------------------
(***************************************************************************)
(* Requests: acceptable, and a beginning of what the conversation is now.  *)
(***************************************************************************)
RequestInv ==
  \A backend \in Backends :
     /\ Acceptable(backend, request[backend])
     /\ Sequence!IsPrefix(request[backend], SerializeRequest(backend, conversation))

\* A list begins with itself, and still does when it grows
LEMMA BeginsWithItself ==
  ASSUME NEW S, NEW list \in Seq(S)
  PROVE  Sequence!IsPrefix(list, list)
BY DEF Sequence!IsPrefix

LEMMA BeginningStays ==
  ASSUME NEW S, NEW front \in Seq(S), NEW list \in Seq(S), NEW rest \in Seq(S),
         Sequence!IsPrefix(front, list)
  PROVE  Sequence!IsPrefix(front, list \o rest)
<1>1. /\ Len(front) \in Nat /\ Len(list) \in Nat /\ Len(rest) \in Nat
      /\ Len(front) <= Len(list) /\ SubSeq(front, 1, Len(front)) = SubSeq(list, 1, Len(front))
  BY DEF Sequence!IsPrefix
<1>2. PICK more : more = list \o rest
  OBVIOUS
<1>3. Len(more) = Len(list) + Len(rest) /\ \A i \in 1..Len(front) : more[i] = list[i]
  BY <1>1, <1>2
<1>4. SubSeq(more, 1, Len(front)) = SubSeq(list, 1, Len(front))
  <2>1. /\ SubSeq(more, 1, Len(front)) = [i \in 1..Len(front) |-> more[i]]
        /\ SubSeq(list, 1, Len(front)) = [i \in 1..Len(front) |-> list[i]]
    BY <1>1, <1>2, <1>3
  <2> QED BY <1>3, <2>1
<1> QED BY <1>1, <1>2, <1>3, <1>4 DEF Sequence!IsPrefix

\* A paired transcript is acceptable in either dialect
LEMMA RequestAcceptable ==
  ASSUME NEW backend \in Backends, NEW conv \in Conversation,
         WellPaired(conv.messages), RolesFit(conv.messages)
  PROVE  Acceptable(backend, SerializeRequest(backend, conv))
<1>1. CASE backend = "openai"
  BY <1>1, OpenAiAccepts DEF Acceptable, SerializeRequest
<1>2. CASE backend = "anthropic"
  BY <1>2, AnthropicAccepts DEF Acceptable, SerializeRequest
<1> QED BY <1>1, <1>2 DEF Backends

LEMMA InitRequests == Init => RequestInv
<1> SUFFICES ASSUME Init, NEW backend \in Backends
             PROVE  /\ Acceptable(backend, request[backend])
                    /\ Sequence!IsPrefix(request[backend], SerializeRequest(backend, conversation))
  BY DEF RequestInv
<1>1. request[backend] = << >>
  BY DEF Init
<1>2. Completions!OpenAiAcceptable(<< >>) /\ MessagesApi!AnthropicAcceptable(<< >>)
  BY DEF Completions!OpenAiAcceptable, MessagesApi!AnthropicAcceptable
<1>3. Acceptable(backend, << >>)
  BY <1>2 DEF Acceptable, Backends
<1>4. PICK wire \in Seq(Wires(backend)) : wire = SerializeRequest(backend, conversation)
  BY InitTyped, RequestTyped DEF TypeInv
<1>5. Sequence!IsPrefix(<< >>, wire)
  BY DEF Sequence!IsPrefix
<1> QED BY <1>1, <1>3, <1>4, <1>5

LEMMA StepRequests == TypeInv /\ PairInv /\ RequestInv /\ [Next]_vars => RequestInv'
<1> SUFFICES ASSUME TypeInv, PairInv, RequestInv, [Next]_vars PROVE RequestInv'
  OBVIOUS
<1>1. ASSUME NEW m \in Message, conversation' = Add(conversation, m), request' = request
      PROVE  RequestInv'
  <2> SUFFICES ASSUME NEW backend \in Backends
               PROVE  /\ Acceptable(backend, request'[backend])
                      /\ Sequence!IsPrefix(request'[backend], SerializeRequest(backend, conversation'))
    BY DEF RequestInv
  <2>1. PICK S : S = Wires(backend)
    OBVIOUS
  <2>2. PICK wire \in Seq(S), rest \in Seq(S), last \in Seq(S) :
           /\ wire = SerializeRequest(backend, conversation) /\ rest = WrittenAs(backend, m)
           /\ SerializeRequest(backend, conversation') = wire \o rest
           /\ last = request[backend]
    BY <1>1, <2>1, RequestGrows DEF TypeInv
  <2>3. Acceptable(backend, last) /\ Sequence!IsPrefix(last, wire)
    BY <2>2 DEF RequestInv
  <2> QED BY <1>1, <2>2, <2>3, BeginningStays
<1>2. ASSUME NEW backend \in Backends, Post(backend) PROVE RequestInv'
  <2>1. conversation \in Conversation /\ conversation' = conversation
        /\ WellPaired(conversation.messages) /\ RolesFit(conversation.messages)
    <3>1. LastTurn.role \in {"user", "tool"} /\ conversation' = conversation
      BY <1>2 DEF Post
    <3>2. ~ CallsPendingIn(Turns)
      BY <3>1 DEF PairInv, PairedIn, Pending, LastTurn
    <3> QED BY <3>1, <3>2 DEF TypeInv, PairInv, PairedIn, Turns
  <2>2. PICK S : S = Wires(backend)
    OBVIOUS
  <2>3. PICK wire \in Seq(S) : wire = SerializeRequest(backend, conversation)
    BY <2>1, <2>2, RequestTyped
  <2>4. \A b \in Backends : request'[b] = IF b = backend THEN wire ELSE request[b]
    BY <1>2, <2>3 DEF Post, TypeInv
  <2>5. Acceptable(backend, wire) /\ Sequence!IsPrefix(wire, wire)
    BY <2>1, <2>3, RequestAcceptable, BeginsWithItself
  <2> QED BY <2>1, <2>3, <2>4, <2>5 DEF RequestInv
<1>3. CASE Idled
  BY <1>3 DEF Idled, RequestInv
<1> QED BY <1>1, <1>2, <1>3, StepKinds DEF Continued, Replied

THEOREM RequestInvariant == Spec => []RequestInv
<1> QED BY InitRequests, StepRequests, PairingInvariant, PTL DEF Spec

\* Every request of either backend is acceptable by its rule on tool calls, also
\* when the calls were made by the other one: for all replies, conversations of
\* any length and any order of turns.
THEOREM RequestsAlwaysAcceptable == Spec => []RequestsAcceptable
<1>1. RequestInv => RequestsAcceptable
  BY DEF RequestInv, RequestsAcceptable
<1> QED BY <1>1, RequestInvariant, PTL

\* What a backend was told it is told again, unchanged, in front of what is new,
\* whatever was said in between and by whom.
THEOREM RequestsAlwaysContinue == Spec => RequestsContinue
<1>1. TypeInv /\ PairInv /\ RequestInv /\ [Next]_vars
        => \A backend \in Backends : Sequence!IsPrefix(request[backend], request'[backend])
  <2> SUFFICES ASSUME TypeInv, PairInv, RequestInv, [Next]_vars, NEW backend \in Backends
               PROVE  Sequence!IsPrefix(request[backend], request'[backend])
    OBVIOUS
  <2>1. PICK last \in Seq(Wires(backend)) : last = request[backend]
    BY DEF TypeInv
  <2>2. Sequence!IsPrefix(last, last)
    BY BeginsWithItself
  <2>3. CASE request' = request
    BY <2>1, <2>2, <2>3
  <2>4. ASSUME NEW b \in Backends, Post(b) PROVE Sequence!IsPrefix(request[backend], request'[backend])
    <3>1. request'[backend]
            = IF backend = b THEN SerializeRequest(b, conversation) ELSE request[backend]
      BY <2>4 DEF Post, TypeInv
    <3> QED BY <2>1, <2>2, <3>1 DEF RequestInv
  <2> QED BY <2>3, <2>4, StepKinds DEF Continued, Replied, Idled
<1> QED BY <1>1, PairingInvariant, RequestInvariant, PTL DEF Spec, RequestsContinue

-----------------------------------------------------------------------------
(***************************************************************************)
(* The turns of the model, as the backends hear them.                      *)
(***************************************************************************)

\* The i-th turn, said and heard
HeardRight(backend, heard, saying) ==
  /\ saying.backend = backend /\ CallsCastable(Made(saying)) => heard = saying.message
  /\ CallsSurvive(CallsIn(backend, heard), Made(saying))

HearInv ==
  \A backend \in Backends :
     /\ Len(HeardIn(backend, conversation)) = Len(said)
     /\ \A i \in 1..Len(said) :
           HeardRight(backend, HeardIn(backend, conversation)[i], said[i])

\* Nothing is heard of a conversation without turns
LEMMA NothingHeard ==
  ASSUME NEW backend \in Backends, NEW conv \in Conversation, conv.messages = << >>
  PROVE  HeardIn(backend, conv) = << >>
<1>1. PICK wire \in Seq(Wires(backend)) : wire = SerializeRequest(backend, conv)
  BY RequestTyped
<1>2. \A i \in 1..Len(wire) : wire[i].role # "assistant"
  <2>1. CASE backend = "openai"
    <3>1. PICK system \in Seq(WireMessages) :
             /\ system = Completions!SystemMessages(conv)
             /\ \A k \in DOMAIN system : system[k].role = "system"
      BY SystemWritten
    <3>2. Completions!TurnMessages(conv) = << >>
      <4>1. PICK none : none = << >>
        OBVIOUS
      <4>2. none \in Seq(Seq(WireMessages)) /\ Len(none) = 0
        BY <4>1
      <4>3. Completions!FlattenSeq(none) = << >>
        BY <4>2, Flattened DEF Writes
      <4>4. Completions!TurnMessages(conv) = Completions!FlattenSeq(<< >>)
        <5>1. \A f : DOMAIN f = {} => [i \in DOMAIN f |->
                  IF f[i].role = "tool" THEN Completions!SerializeToolResults(f[i])
                  ELSE <<Completions!SerializeMessage(f[i])>>] = << >>
          OBVIOUS
        <5>2. DOMAIN conv.messages = {}
          OBVIOUS
        <5> QED BY <5>1, <5>2 DEF Completions!TurnMessages
      <4> QED BY <4>1, <4>3, <4>4
    <3>3. wire = system \o << >>
      BY <1>1, <2>1, <3>1, <3>2 DEF SerializeRequest, Completions!OpenAiRequest
    <3>4. wire = system
      BY <3>3
    <3> QED BY <3>1, <3>4
  <2>2. CASE backend = "anthropic"
    <3>1. DOMAIN wire = {}
      BY <1>1, <2>2 DEF SerializeRequest, MessagesApi!AnthropicRequest
    <3> QED BY <3>1
  <2> QED BY <2>1, <2>2 DEF Backends
<1>3. \A i \in 1..Len(wire) : i \notin AssistantIndexes(wire)
  BY <1>2 DEF AssistantIndexes
<1> QED BY <1>1, <1>3, PickedNone DEF HeardIn

LEMMA InitHeard == Init => HearInv
<1> SUFFICES ASSUME Init, NEW backend \in Backends
             PROVE  /\ Len(HeardIn(backend, conversation)) = Len(said)
                    /\ \A i \in 1..Len(said) :
                          HeardRight(backend, HeardIn(backend, conversation)[i], said[i])
  BY DEF HearInv
<1>1. conversation \in Conversation /\ conversation.messages = << >> /\ said = << >>
  BY InitTyped DEF TypeInv, Init, EmptyConversation
<1>2. HeardIn(backend, conversation) = << >>
  BY <1>1, NothingHeard
<1> QED BY <1>1, <1>2

LEMMA StepHeard == TypeInv /\ PairInv /\ HearInv /\ [Next]_vars => HearInv'
<1> SUFFICES ASSUME TypeInv, PairInv, HearInv, [Next]_vars PROVE HearInv'
  OBVIOUS
<1>1. CASE Continued
  <2>1. PICK m \in Message : m.role # "assistant" /\ conversation' = Add(conversation, m)
    BY <1>1 DEF Continued
  <2>2. said' = said
    BY <1>1 DEF Continued
  <2>3. \A backend \in Backends :
           HeardIn(backend, conversation') = HeardIn(backend, conversation)
    BY <2>1, HeardGrows DEF TypeInv
  <2> QED BY <2>2, <2>3 DEF HearInv
<1>2. CASE Replied
  <2>1. PICK m \in Message, saying \in Sayings :
           /\ m.role = "assistant" /\ conversation' = Add(conversation, m)
           /\ saying.backend = pc /\ said' = Append(said, saying)
           /\ Retold(pc, SpokenAs(pc, m), saying.message)
    BY <1>2 DEF Replied
  <2>2. pc \in Backends
    BY <1>2 DEF Replied
  <2>3. said' = Append(said, saying)
    BY <2>1
  <2>4. PICK old \in Seq(Sayings) : old = said
    BY DEF TypeInv
  <2> SUFFICES ASSUME NEW backend \in Backends
               PROVE  /\ Len(HeardIn(backend, conversation')) = Len(said')
                      /\ \A i \in 1..Len(said') :
                            HeardRight(backend, HeardIn(backend, conversation')[i], said'[i])
    BY DEF HearInv
  <2>5. PICK S : S = Wires(backend)
    OBVIOUS
  <2>6. PICK heard \in Seq(S) : heard = HeardIn(backend, conversation)
    BY <2>5, HeardGrows, <2>1 DEF TypeInv
  <2>7. PICK turn \in S : turn = SpokenAs(backend, m)
    BY <2>5, WrittenRoles
  <2>8. HeardIn(backend, conversation') = Append(heard, turn)
    BY <2>1, <2>6, <2>7, HeardGrows DEF TypeInv
  <2>9. Len(heard) = Len(old) /\ \A i \in 1..Len(old) : HeardRight(backend, heard[i], old[i])
    BY <2>4, <2>6 DEF HearInv
  <2>10. HeardRight(backend, turn, saying)
    <3>1. CallsIn(backend, SpokenAs(backend, m)) = CallsIn(pc, SpokenAs(pc, m))
      BY <2>2, CallsTold
    <3>2. /\ CallsIn(backend, turn) = CallsIn(pc, SpokenAs(pc, m))
          /\ Made(saying) = CallsIn(pc, saying.message)
      BY <2>1, <2>7, <3>1 DEF Made
    <3> QED BY <2>1, <2>7, <3>2 DEF HeardRight, Retold
  <2>11. /\ Len(Append(heard, turn)) = Len(Append(old, saying))
         /\ \A i \in 1..Len(Append(old, saying)) :
               HeardRight(backend, Append(heard, turn)[i], Append(old, saying)[i])
    <3>1. Len(Append(heard, turn)) = Len(old) + 1 /\ Len(Append(old, saying)) = Len(old) + 1
          /\ Len(old) \in Nat
      BY <2>9
    <3>2. \A i \in 1..Len(old) :
             Append(heard, turn)[i] = heard[i] /\ Append(old, saying)[i] = old[i]
      BY <2>9
    <3>3. Append(heard, turn)[Len(old) + 1] = turn /\ Append(old, saying)[Len(old) + 1] = saying
      BY <2>9
    <3>4. \A i \in 1..(Len(old) + 1) : i = Len(old) + 1 \/ i \in 1..Len(old)
      BY <3>1
    <3> QED BY <2>9, <2>10, <3>1, <3>2, <3>3, <3>4
  <2> QED BY <2>3, <2>4, <2>8, <2>11
<1>3. ASSUME NEW b \in Backends, Post(b) PROVE HearInv'
  <2>1. conversation' = conversation /\ said' = said
    BY <1>3 DEF Post
  <2> QED BY <2>1 DEF HearInv
<1>4. CASE Idled
  BY <1>4 DEF Idled, HearInv
<1> QED BY <1>1, <1>2, <1>3, <1>4, StepKinds

THEOREM HearingInvariant == Spec => []HearInv
<1> QED BY InitHeard, StepHeard, PairingInvariant, PTL DEF Spec

LEMMA HeardTurns ==
  ASSUME NEW backend \in Backends
  PROVE  Heard(backend) = HeardIn(backend, conversation)
BY DEF Heard, HeardIn

\* A request tells its backend every turn of the model, in order and each once,
\* and its own as it sent them, to the precision of doubles and unless there is
\* 2^63 in it: for all replies either backend may give.
THEOREM BackendsHearThemselves == Spec => []BackendHearsItself
<1>1. TypeInv /\ HearInv => BackendHearsItself
  <2> SUFFICES ASSUME TypeInv, HearInv, NEW backend \in Backends
               PROVE  /\ Len(Heard(backend)) = Len(said)
                      /\ \A i \in DOMAIN said :
                            said[i].backend = backend /\ CallsCastable(Made(said[i]))
                              => Heard(backend)[i] = said[i].message
    BY DEF BackendHearsItself
  <2>1. DOMAIN said = 1..Len(said)
    BY DEF TypeInv
  <2> QED BY <2>1, HeardTurns DEF HearInv, HeardRight
<1> QED BY <1>1, PairingInvariant, HearingInvariant, PTL

\* A conversation that changes its backend takes its calls along: the new one is
\* told the id and the name of every call any of them made, and its input to the
\* precision of doubles unless there is 2^63 in it.
THEOREM CallsAlwaysOutlive == Spec => []CallsOutliveBackend
<1>1. TypeInv /\ HearInv => CallsOutliveBackend
  <2> SUFFICES ASSUME TypeInv, HearInv, NEW backend \in Backends, NEW i \in DOMAIN said
               PROVE  CallsSurvive(CallsIn(backend, Heard(backend)[i]), Made(said[i]))
    BY DEF CallsOutliveBackend
  <2>1. i \in 1..Len(said)
    BY DEF TypeInv
  <2> QED BY <2>1, HeardTurns DEF HearInv, HeardRight
<1> QED BY <1>1, PairingInvariant, HearingInvariant, PTL
=============================================================================
