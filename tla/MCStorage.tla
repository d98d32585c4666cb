----------------------------- MODULE MCStorage ------------------------------
(***************************************************************************)
(* Small instances of Storage: integers of 5 bits and doubles with 3 bits  *)
(* of precision, inputs at their boundaries, and texts that lack members,  *)
(* have them of other kinds, or have numbers no int64 or double holds.     *)
(***************************************************************************)
EXTENDS Storage

CONSTANTS a, c1, hello, empty

\* 8 and 9 are the first integers around 2^Precision; 5.0 and 2.5
KeptInput == Object([n |-> Integer(8), x |-> Number(5), flag |-> Boolean(TRUE)])
RoundedInput == Object([n |-> Integer(9), max |-> Integer(MaxInt), x |-> Number(10)])

ForeignInputs ==
  {Number(2 * (MaxInt + 1)), Number(4 * (MaxInt + 1)), Object([n |-> Number(19)]), NullValue}
OwnInputs == {KeptInput, RoundedInput, Infinite}
MCInputs ==
  OwnInputs \cup {FromGeneric(Written(input)) : input \in OwnInputs}
    \cup {FromGeneric(input) : input \in ForeignInputs}

CallInput(input) == AssistantMessage(<<TextBlock(empty), ToolUseBlock(c1, a, input)>>)

MCMessages ==
  {UserMessage(hello),
   ToolMessage(<<ToolResultBlock(c1, TRUE)>>),
   CallInput(KeptInput), CallInput(RoundedInput), CallInput(Infinite)}

Said(role, blocks) == Object([role |-> String(role), content |-> Array(blocks)])
TextJson(value) == Object([type |-> String("text"), text |-> value])
CallJson(input) ==
  Object([type |-> String("tool_use"), id |-> String(c1), name |-> String(a),
          input |-> input])
ResultJson(content) ==
  Object([type |-> String("tool_result"), tool_use_id |-> String(c1), content |-> content])
Talk(turns) == Object([messages |-> Array(turns)])

MCForeign ==
  {NotJson, NullValue, Object([messages |-> NullValue]),
   Object([messages |-> Array(<< >>), system_prompt |-> NullValue]),
   Talk(<<Said("user", <<TextJson(String(hello))>>), Said("developer", << >>)>>),
   Talk(<<Said("assistant", <<TextJson(Number(2))>>)>>),
   Talk(<<Said("assistant", <<Object([type |-> String("thinking")])>>)>>),
   Talk(<<Said("tool", <<ResultJson(String(hello))>>), Said("tool", <<ResultJson(NullValue)>>)>>),
   Talk(<<Said("assistant", <<CallJson(Number(2 * (MaxInt + 1))),
                              CallJson(Number(4 * (MaxInt + 1))),
                              CallJson(Object([n |-> Number(19)])),
                              CallJson(NullValue)>>)>>)}
=============================================================================
