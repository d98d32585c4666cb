----------------------------- MODULE MCProvider -----------------------------
(***************************************************************************)
(* A conversation with a Chat Completions and a Messages backend that make *)
(* no call, one call or two, with and without text and around it, with     *)
(* arguments that are no JSON or missing, and whose responses may be       *)
(* errors or broken.                                                       *)
(***************************************************************************)
EXTENDS Provider

CONSTANTS a, b, c1, c2, hello, ask, empty, base, junk

\* 9, which no double is, 10.0 and 2.5; and 2^63
args == Object([n |-> Number(18), x |-> Number(20), y |-> Number(5)])
huge == Array(<<Number(2 * (MaxInt + 1)), NullValue>>)

CompletionsBodies ==
  LET Call(id, name, arguments) == [id |-> id, name |-> name, arguments |-> arguments]
      CallA == Call(c1, a, Completions!JsonString(args))
      Body(content, calls) == Completions!Body(content, calls)
  IN  {Body(hello, << >>), Body(Null, << >>), Body(Null, <<CallA>>),
       Body(hello, <<CallA, Call(c2, b, Completions!RawString(junk))>>),
       Body(empty, <<Call(c2, b, Completions!NoString),
                     Call(c1, a, Completions!JsonString(huge))>>),
       Body(Null, Null),
       Completions!Broken("no_choices"), Completions!Broken("not_json")}

MessagesBodies ==
  LET Text(t) == MessagesApi!TextPart(t)
      CallA == MessagesApi!CallPart(c1, a, args)
      Body(parts) == MessagesApi!Body(parts)
  IN  {Body(<<Text(hello)>>), Body(<<MessagesApi!OtherPart>>), Body(<<CallA>>),
       Body(<<MessagesApi!CallPart(c2, b, huge)>>),
       Body(<<Text(hello), CallA, Text(empty), MessagesApi!BareCallPart(c2, b)>>),
       MessagesApi!Broken("no_content"), MessagesApi!Broken("null_content"),
       MessagesApi!Broken("not_json")}

MCBodies == [openai |-> CompletionsBodies, anthropic |-> MessagesBodies]
MCTexts == {args, huge}
MCInputs == {FromGeneric(text) : text \in MCTexts} \cup {NoMembers, Object([_raw |-> String(junk)])}
MCPrompts == {NoPrompt, base}
=============================================================================
