------------------------------ MODULE Storage -------------------------------
(***************************************************************************)
(* A conversation kept as JSON text between runs: to_json and dump, parse  *)
(* and from_json (src/types, src/json).  The caller extends its            *)
(* conversation, saves it, and reads what was saved, or what somebody else *)
(* wrote, into a new conversation or into the one it has.                  *)
(*                                                                         *)
(* Only the inputs of tool calls hold numbers, so text is the JSON value   *)
(* with the inputs written.  What a tool result says is left out: its      *)
(* content is some string, which reading insists on.                       *)
(***************************************************************************)
EXTENDS Transcript, Json
Sequence == INSTANCE SequencesExt

CONSTANTS
  Messages,     \* the messages a caller adds
  Foreign,      \* texts somebody else wrote
  MaxMessages   \* bound: messages in the conversation

\* What a tool result says
ResultContent == String("content")

\* A text that does not parse
NotJson == [kind |-> "broken"]

VARIABLES
  conversation,  \* the caller's
  text,          \* what was saved last
  edited,        \* history: by somebody else
  origin,        \* history: the conversation that was saved last
  outcome        \* "ok" or "threw", of the last call

vars == <<conversation, text, edited, origin, outcome>>
-----------------------------------------------------------------------------
(***************************************************************************)
(* Writing.                                                                *)
(***************************************************************************)
FailureDropped(block) ==                                                  \* mutant
  CASE block.type = "text" ->
         Object([type |-> String("text"), text |-> String(block.text)])
    [] block.type = "tool_use" ->
         Object([type |-> String("tool_use"), id |-> String(block.id),
                 name |-> String(block.name), input |-> Written(block.input)])
    [] block.type = "tool_result" ->
         Object([type |-> String("tool_result"),
                 tool_use_id |-> String(block.tool_use_id), content |-> ResultContent])

\* to_json(ContentBlock)
BlockToJson(block) ==
  CASE block.type = "text" ->
         Object([type |-> String("text"), text |-> String(block.text)])
    [] block.type = "tool_use" ->
         Object([type |-> String("tool_use"), id |-> String(block.id),
                 name |-> String(block.name), input |-> Written(block.input)])
    [] block.type = "tool_result" ->
         Object([type |-> String("tool_result"),
                 tool_use_id |-> String(block.tool_use_id), content |-> ResultContent,
                 is_error |-> Boolean(block.is_error)])

\* to_json(Message), to_json(Role)
MessageToJson(message) ==
  Object([role |-> String(message.role),
          content |-> Array([k \in DOMAIN message.content |->
                               BlockToJson(message.content[k])])])

\* to_json(Conversation): no member for a prompt that is not there
ConversationToJson(conv) ==
  LET messages == Array([i \in DOMAIN conv.messages |-> MessageToJson(conv.messages[i])])
  IN  Object(IF conv.system_prompt = NoPrompt
               THEN [messages |-> messages]
               ELSE [messages |-> messages, system_prompt |-> String(conv.system_prompt)])

InputsOf(conv) ==
  UNION {{block.input : block \in {conv.messages[i].content[k] :
                                     k \in UseIndexes(conv.messages[i].content)}} :
         i \in DOMAIN conv.messages}

\* dump: "inf" and "nan" are written as they are
Dumped(conv) ==
  IF \E input \in InputsOf(conv) : Infinite \in Leaves(input)
    THEN NotJson
    ELSE ConversationToJson(conv)
-----------------------------------------------------------------------------
(***************************************************************************)
(* Reading.  What is readable makes no accessor throw.                     *)
(***************************************************************************)

\* from_json(ContentBlock)
BlockReadable(j) ==
  /\ Is("string", j, "type")
  /\ \/ At(j, "type") = String("text") /\ Is("string", j, "text")
     \/ /\ At(j, "type") = String("tool_use")
        /\ Is("string", j, "id") /\ Is("string", j, "name") /\ HasMember(j, "input")
     \/ /\ At(j, "type") = String("tool_result")
        /\ Is("string", j, "tool_use_id") /\ Is("string", j, "content")
        /\ HasMember(j, "is_error") => Is("boolean", j, "is_error")

BlockFromJson(j) ==
  CASE At(j, "type") = String("text") -> TextBlock(At(j, "text").string)
    [] At(j, "type") = String("tool_use") ->
         ToolUseBlock(At(j, "id").string, At(j, "name").string, FromGeneric(At(j, "input")))
    [] At(j, "type") = String("tool_result") ->
         ToolResultBlock(At(j, "tool_use_id").string,
                         HasMember(j, "is_error") /\ At(j, "is_error").boolean)

AnyRole(j) == Is("string", j, "role")                                     \* mutant
\* from_json(Role)
RoleReadable(j) == HasMember(j, "role") /\ At(j, "role") \in {String(r) : r \in Roles}

\* from_json(Message)
MessageReadable(j) ==
  /\ RoleReadable(j)
  /\ Is("array", j, "content")
  /\ \A k \in DOMAIN At(j, "content").elems : BlockReadable(At(j, "content").elems[k])

InsertedInFront(j) ==                                                     \* mutant
  LET elems == At(j, "content").elems
  IN  [role |-> At(j, "role").string,
       content |-> [k \in DOMAIN elems |-> BlockFromJson(elems[Len(elems) + 1 - k])]]

MessageFromJson(j) ==
  LET elems == At(j, "content").elems
  IN  [role |-> At(j, "role").string,
       content |-> [k \in DOMAIN elems |-> BlockFromJson(elems[k])]]

PromptReadable(j) == HasMember(j, "system_prompt") => Is("string", j, "system_prompt")
PromptRead(j, conv) ==
  IF HasMember(j, "system_prompt") THEN At(j, "system_prompt").string ELSE conv.system_prompt

\* from_json(Conversation) sets the prompt and adds the messages up to the
\* first that throws to what the conversation holds
ReadableMessages(j) ==
  IF ~ Is("array", j, "messages")
    THEN << >>
    ELSE LET elems == At(j, "messages").elems
             read == {i \in DOMAIN elems : \A k \in 1..i : MessageReadable(elems[k])}
         IN  [i \in read |-> MessageFromJson(elems[i])]

FromJson(j, conv) ==
  IF ~ PromptReadable(j)
    THEN conv
    ELSE [system_prompt |-> PromptRead(j, conv),
          messages |-> conv.messages \o ReadableMessages(j)]

Readable(j) ==
  /\ PromptReadable(j)
  /\ Is("array", j, "messages")
  /\ \A i \in DOMAIN At(j, "messages").elems : MessageReadable(At(j, "messages").elems[i])
-----------------------------------------------------------------------------
(***************************************************************************)
(* Texts made of the strings and inputs there are.                         *)
(***************************************************************************)
StringIn(j, key, strings) == Is("string", j, key) => At(j, key).string \in strings

BlockText(j) ==
  /\ StringIn(j, "text", Texts) /\ StringIn(j, "name", ToolNames)
  /\ StringIn(j, "id", CallIds) /\ StringIn(j, "tool_use_id", CallIds)
  /\ Is("boolean", j, "is_error") => At(j, "is_error").boolean \in BOOLEAN
  /\ HasMember(j, "input") => JsonText(At(j, "input")) /\ FromGeneric(At(j, "input")) \in Inputs

ListAt(j, key) ==
  LET elems == At(j, key).elems
  IN  Len(elems) \in Nat /\ elems = [i \in 1..Len(elems) |-> elems[i]]

MessageText(j) ==
  Is("array", j, "content") =>
    ListAt(j, "content") /\ \A k \in DOMAIN At(j, "content").elems : BlockText(At(j, "content").elems[k])

ConversationText(j) ==
  /\ StringIn(j, "system_prompt", Prompts)
  /\ Is("array", j, "messages") =>
       ListAt(j, "messages") /\ \A i \in DOMAIN At(j, "messages").elems : MessageText(At(j, "messages").elems[i])

ASSUME StorageAssumption ==
  /\ \A input \in Inputs : JsonValue(input) /\ FromGeneric(Written(input)) \in Inputs
  /\ \A message \in Messages : message \in Message
  /\ \A other \in Foreign : other = NotJson \/ ConversationText(other)
  /\ MaxMessages \in Nat
-----------------------------------------------------------------------------
Init ==
  /\ conversation = EmptyConversation
  /\ text = NotJson /\ edited = FALSE /\ origin = EmptyConversation
  /\ outcome = "ok"

Change(conv) ==
  /\ conversation' = conv
  /\ outcome' = "ok"
  /\ UNCHANGED <<text, edited, origin>>

AddMessage(message) ==
  Len(conversation.messages) < MaxMessages /\ Change(Add(conversation, message))

SetSystemPrompt(p) == Change([conversation EXCEPT !.system_prompt = p])

\* Conversation::clear keeps the prompt
Clear == Change([conversation EXCEPT !.messages = << >>])

Save ==
  /\ text' = Dumped(conversation)
  /\ edited' = FALSE
  /\ origin' = conversation
  /\ outcome' = "ok"
  /\ UNCHANGED conversation

Edit(other) ==
  /\ text' = other
  /\ edited' = TRUE /\ origin' = EmptyConversation
  /\ outcome' = "ok"
  /\ UNCHANGED conversation

RestoreOver ==                                                            \* mutant
  /\ conversation' = IF text = NotJson
                       THEN EmptyConversation
                       ELSE FromJson(text, EmptyConversation)
  /\ outcome' = IF text # NotJson /\ Readable(text) THEN "ok" ELSE "threw"
  /\ UNCHANGED <<text, edited, origin>>

\* Json::parse, then get<Conversation>: it reads into a conversation of its own
Restore ==
  /\ IF text # NotJson /\ Readable(text)
       THEN conversation' = FromJson(text, EmptyConversation) /\ outcome' = "ok"
       ELSE conversation' = conversation /\ outcome' = "threw"
  /\ UNCHANGED <<text, edited, origin>>

\* Json::parse, then from_json into the caller's conversation
ReadInto ==
  /\ text # NotJson => Len(conversation.messages) + Len(ReadableMessages(text)) <= MaxMessages
  /\ conversation' = IF text = NotJson THEN conversation ELSE FromJson(text, conversation)
  /\ outcome' = IF text # NotJson /\ Readable(text) THEN "ok" ELSE "threw"
  /\ UNCHANGED <<text, edited, origin>>

Next ==
  \/ \E message \in Messages : AddMessage(message)
  \/ \E p \in Prompts : SetSystemPrompt(p)
  \/ Clear
  \/ Save
  \/ \E other \in Foreign : Edit(other)
  \/ Restore
  \/ ReadInto

Spec == Init /\ [][Next]_vars
-----------------------------------------------------------------------------
\* Whatever text is read, the conversation is one of the library: known roles
\* and blocks, whole and with their members, and inputs that are written or
\* read as numbers are.
TypeOK ==
  /\ conversation.system_prompt \in Prompts \cup {NoPrompt}
  /\ \A i \in DOMAIN conversation.messages :
        /\ conversation.messages[i].role \in Roles
        /\ \A k \in DOMAIN conversation.messages[i].content :
              conversation.messages[i].content[k] \in ContentBlock
  /\ edited \in BOOLEAN /\ outcome \in {"ok", "threw"}

\* Numbers that text keeps: integers a double can tell from their neighbours,
\* and finite numbers with a fraction
Kept(j) ==
  CASE j.kind = "integer" -> Abs(j.integer) <= 2 ^ Precision
    [] j.kind = "number" -> j.halves = Rounded(j.halves) /\ j.halves % 2 = 1
    [] j.kind = "infinite" -> FALSE
    [] j.kind \notin {"integer", "number", "infinite"} -> TRUE

KeptWhole(conv) == \A input \in InputsOf(conv) : \A j \in Leaves(input) : Kept(j)

\* A conversation that was saved and not tampered with is restored as it was,
\* whatever the caller's conversation has become: prompt, roles, blocks, their
\* order, failed results, and inputs with the numbers text keeps.
RestoresWhatWasSaved ==
  [][Restore /\ ~ edited /\ text # NotJson /\ KeptWhole(origin)
       => conversation' = origin /\ outcome' = "ok"]_vars

\* What text changes it changes once: a conversation that was restored, from
\* any text, is the same after it is saved and restored again.  So the inputs
\* of calls parsed from a response are repeated as they were parsed.
Settled(conv) ==
  LET again == Dumped(conv)
  IN  again # NotJson /\ Readable(again) /\ FromJson(again, EmptyConversation) = conv

RestoredSettles == [][Restore /\ outcome' = "ok" => Settled(conversation')]_vars

\* No text, however broken, costs the caller a turn it has: restoring fails as
\* a whole, and reading into a conversation adds behind what is there.
NoTurnLost ==
  [][(Restore /\ outcome' = "threw") \/ ReadInto
       => Sequence!IsPrefix(conversation.messages, conversation'.messages)]_vars
=============================================================================
