----------------------------- MODULE TypedTool ------------------------------
(***************************************************************************)
(* Where the model's JSON becomes a C++ value and back: the handler that   *)
(* make_tool wraps (include/forgeant/tool/tool.hpp), called with the       *)
(* arguments a provider read, and the answers that run<T> reads, each      *)
(* against the schema the model was given.  The types are the built-in     *)
(* ones, a vector, and structs, for which the caller writes both the       *)
(* schema (ParamSchema<T>) and what reads it (from_json).                  *)
(*                                                                         *)
(* A C++ value is a record with one field, named for its type; doubles are *)
(* in halves, as in Json.                                                  *)
(***************************************************************************)
EXTENDS Schema

CONSTANTS
  IntWidth,   \* bits of int
  Structs,    \* each struct's schema and, by their names, its members: their
              \* types and, where they need not be written, their defaults
  Arguments,  \* what a model writes: a text that is JSON or not, or none
  Values      \* what handlers return

Scalars == {"string", "int", "double", "bool"}
Types == Scalars \cup {"vector<double>"} \cup DOMAIN Structs

MinOfInt == -(2 ^ (IntWidth - 1))
MaxOfInt == 2 ^ (IntWidth - 1) - 1

\* No value
Nothing == [nothing |-> TRUE]

ReturnValue(value) ==
  \/ DOMAIN value \in {{"string"}, {"bool"}, {"infinity"}}
  \/ DOMAIN value = {"int"} /\ value.int \in MinOfInt..MaxOfInt
  \/ DOMAIN value = {"uint64"} /\ value.uint64 \in 0..(2 ^ Width - 1)
  \/ DOMAIN value = {"double"} /\ value.double \in Int

ASSUME TypedToolAssumption ==
  /\ IntWidth \in Nat \ {0} /\ IntWidth <= Precision + 1
  /\ \A arguments \in Arguments :
        \/ arguments.form = "json" /\ JsonText(arguments.value)
        \/ arguments.form \in {"raw", "none"}
  /\ \A value \in Values : ReturnValue(value)

\* The text a C++ value is written as, without loss
Denoted(value) ==
  CASE DOMAIN value = {"string"} -> String(value.string)
    [] DOMAIN value = {"bool"} -> Boolean(value.bool)
    [] DOMAIN value = {"int"} -> Number(2 * value.int)
    [] DOMAIN value = {"uint64"} -> Number(2 * value.uint64)
    [] DOMAIN value = {"double"} -> Number(value.double)
-----------------------------------------------------------------------------
(***************************************************************************)
(* ParamSchema<T>::schema() and get<T>(); those of the vector and of the   *)
(* structs are a caller's specializations.                                 *)
(***************************************************************************)
ParamSchema(type) ==
  CASE type = "string" -> StringSchema
    [] type = "int" -> IntegerSchema
    [] type = "double" -> NumberSchema
    [] type = "bool" -> BooleanSchema
    [] type = "vector<double>" -> Items(ArraySchema, NumberSchema)
    [] type \in DOMAIN Structs -> Structs[type].schema

\* A schema and a from_json that were written for each other: the schema has the
\* members that from_json reads, with their types, and requires those it reads
\* with at(); the others it reads when they are there, and a default the schema
\* states for one is what the struct has.
Agrees(struct) ==
  /\ struct.schema.kind = "object" /\ HasMember(struct.schema, "type")
  /\ TypeOf(struct.schema) = "object" /\ ~ HasMember(struct.schema, "items")
  /\ DOMAIN Properties(struct.schema) = DOMAIN struct.members
  /\ "_raw" \notin DOMAIN struct.members
  /\ RequiredFields(struct.schema) =
       {name \in DOMAIN struct.members : struct.members[name].default = Nothing}
  /\ \A name \in DOMAIN struct.members :
       LET prop == Properties(struct.schema)[name] IN
       /\ struct.members[name].type \in Scalars
       /\ TypeOf(prop) = TypeOf(ParamSchema(struct.members[name].type))
       /\ HasMember(prop, "default") => At(prop, "default") = Denoted(struct.members[name].default)

ASSUME StructsAssumption ==
  /\ DOMAIN Structs \cap (Scalars \cup {"vector<double>"}) = {}
  /\ \A type \in DOMAIN Structs : Agrees(Structs[type])

NumbersFromNumbers(type, j) ==                                            \* mutant
  CASE type = "string" -> j.kind = "string"
    [] type = "bool" -> j.kind = "boolean"
    [] type = "int" -> j.kind = "integer"
    [] type = "double" -> j.kind = "number"

\* get<T>() of a built-in type does not throw
Holds(type, j) ==
  CASE type = "string" -> j.kind = "string"
    [] type = "bool" -> j.kind = "boolean"
    [] type = "int" -> j.kind = "integer"
    [] type = "double" -> j.kind \in {"integer", "number"}

\* An int keeps the low bits of an integer_t; a double takes either number
GetScalar(type, j) ==
  CASE type = "string" -> [string |-> j.string]
    [] type = "bool" -> [bool |-> j.boolean]
    [] type = "int" -> [int |-> Wrapped(j.integer, IntWidth)]
    [] type = "double" ->
         [double |-> IF j.kind = "integer" THEN Rounded(2 * j.integer) ELSE j.halves]

\* from_json of a struct
StructReadable(struct, j) ==
  \A name \in DOMAIN struct.members :
    IF HasMember(j, name)
      THEN Holds(struct.members[name].type, At(j, name))
      ELSE struct.members[name].default # Nothing
StructRead(struct, j) ==
  [name \in DOMAIN struct.members |->
     IF HasMember(j, name)
       THEN GetScalar(struct.members[name].type, At(j, name))
       ELSE struct.members[name].default]

\* get<T>() does not throw
Gettable(type, j) ==
  CASE type \in Scalars -> Holds(type, j)
    [] type = "vector<double>" -> j.kind = "array" /\ \A elem \in Elements(j) : Holds("double", elem)
    [] type \in DOMAIN Structs -> StructReadable(Structs[type], j)

Get(type, j) ==
  CASE type \in Scalars -> GetScalar(type, j)
    [] type = "vector<double>" ->
         [vector |-> [k \in DOMAIN j.elems |-> GetScalar("double", j.elems[k])]]
    [] type \in DOMAIN Structs -> [struct |-> StructRead(Structs[type], j)]

AsInt(n) == Integer(Wrapped(n, IntWidth))                                 \* mutant
\* static_cast<integer_t>
AsInteger(n) == Integer(Wrapped(n, Width))

\* Json(f(params)): every integral type becomes an integer_t
ToJson(value) ==
  CASE DOMAIN value = {"string"} -> String(value.string)
    [] DOMAIN value = {"bool"} -> Boolean(value.bool)
    [] DOMAIN value = {"int"} -> AsInteger(value.int)
    [] DOMAIN value = {"uint64"} -> AsInteger(value.uint64)
    [] DOMAIN value = {"double"} -> Number(value.double)
    [] DOMAIN value = {"infinity"} -> Infinite
-----------------------------------------------------------------------------
VARIABLES
  params,    \* the type of the tool's parameters and of the answers
  pc,        \* "model" writes, "tool" is to be executed, "handler" is called
  reader,    \* who reads what it wrote: "tool" or "answer"
  sent,      \* what the model wrote last
  input,     \* the Json it was parsed to
  outcome,   \* of reading it: "none", "read" or "refused"
  handed,    \* the C++ value the handler or the caller of run<T> got
  returned,  \* what the handler returned
  content    \* the tool result, as JSON text

vars == <<params, pc, reader, sent, input, outcome, handed, returned, content>>

Init ==
  /\ params \in Types
  /\ pc = "model" /\ reader = "tool" /\ sent = [form |-> "none", value |-> NullValue]
  /\ input = NullValue /\ outcome = "none"
  /\ handed = Nothing /\ returned = Nothing /\ content = Nothing

\* The arguments of a call: text that is no JSON is wrapped, none is {}
ParseArguments(arguments) ==
  CASE arguments.form = "json" -> FromGeneric(arguments.value)
    [] arguments.form = "raw" -> Set(NoMembers, "_raw", arguments.value)
    [] arguments.form = "none" -> NoMembers

\* A value that get<T>() reads is handed on, any other is refused
Read(j) ==
  /\ outcome' = IF Gettable(params, j) THEN "read" ELSE "refused"
  /\ handed' = IF Gettable(params, j) THEN Get(params, j) ELSE Nothing

Call(arguments) ==
  /\ pc = "model"
  /\ pc' = "tool" /\ reader' = "tool"
  /\ sent' = arguments /\ input' = ParseArguments(arguments)
  /\ outcome' = "none"
  /\ handed' = Nothing /\ returned' = Nothing /\ content' = Nothing
  /\ UNCHANGED params

CallAnyway(j) == "handler"                                                \* mutant
\* What get<Params>() throws answers the call
AfterReading(j) == IF Gettable(params, j) THEN "handler" ELSE "model"

\* Tool::execute
Execute ==
  /\ pc = "tool"
  /\ Read(input)
  /\ pc' = AfterReading(input)
  /\ UNCHANGED <<params, reader, sent, input, returned, content>>

HandlerReturns(value) ==
  /\ pc = "handler"
  /\ pc' = "model"
  /\ returned' = value /\ content' = Written(ToJson(value))
  /\ UNCHANGED <<params, reader, sent, input, outcome, handed>>

HandlerThrows ==
  /\ pc = "handler"
  /\ pc' = "model"
  /\ UNCHANGED <<params, reader, sent, input, outcome, handed, returned, content>>

\* A text run<T> reads: what is no JSON is refused before get<T>()
Answer(arguments) ==
  /\ pc = "model" /\ arguments.form # "none"
  /\ reader' = "answer" /\ sent' = arguments
  /\ IF arguments.form = "json"
       THEN input' = FromGeneric(arguments.value) /\ Read(input')
       ELSE input' = NullValue /\ outcome' = "refused" /\ handed' = Nothing
  /\ returned' = Nothing /\ content' = Nothing
  /\ UNCHANGED <<params, pc>>

Next ==
  \/ \E arguments \in Arguments : Call(arguments) \/ Answer(arguments)
  \/ Execute
  \/ \E value \in Values : HandlerReturns(value)
  \/ HandlerThrows

Spec == Init /\ [][Next]_vars
-----------------------------------------------------------------------------
\* The schema the model was given
Advertised == IF reader = "answer" THEN Closed(ParamSchema(params)) ELSE ParamSchema(params)

\* A number of that schema type has a C++ value.  2^63 has none: it passes the
\* range check of from_generic, and what its cast gives is undefined.
Exact(type, j) ==
  CASE type = "integer" -> j.halves \div 2 \in MinOfInt..MaxOfInt
    [] type = "number" -> j.halves = Rounded(j.halves) /\ j.halves # 2 * (MaxInt + 1)
    [] type \notin {"integer", "number"} -> TRUE

AllExact(schema, j) ==
  CASE TypeOf(schema) = "object" ->
         \A name \in DOMAIN Properties(schema) :
            HasMember(j, name) => Exact(TypeOf(Properties(schema)[name]), At(j, name))
    [] TypeOf(schema) = "array" -> \A elem \in Elements(j) : Exact(TypeOf(At(schema, "items")), elem)
    [] TypeOf(schema) \notin {"object", "array"} -> Exact(TypeOf(schema), j)

\* handed is what j says, or the schema's default where j says nothing
Arrived(schema, j) ==
  CASE TypeOf(schema) = "object" ->
         \A name \in DOMAIN Properties(schema) :
            LET prop == Properties(schema)[name]  value == Denoted(handed.struct[name]) IN
            /\ HasMember(j, name) => value = At(j, name)
            /\ ~ HasMember(j, name) /\ HasMember(prop, "default") => value = At(prop, "default")
    [] TypeOf(schema) = "array" -> Array([k \in DOMAIN handed.vector |-> Denoted(handed.vector[k])]) = j
    [] TypeOf(schema) \notin {"object", "array"} -> Denoted(handed) = j

\* Something is handed on exactly when something was read, and only a handler
\* that ran leaves content.
TypeOK ==
  /\ params \in Types /\ pc \in {"model", "tool", "handler"} /\ reader \in {"tool", "answer"}
  /\ outcome \in {"none", "read", "refused"}
  /\ (handed # Nothing) <=> (outcome = "read")
  /\ content # Nothing => reader = "tool" /\ handed # Nothing

\* A model that keeps to the schema it was given is understood: its arguments
\* reach the handler, and its answers the caller, with the values it wrote and
\* the advertised defaults where it wrote none, whatever type the parser chose
\* for its numbers (from_generic, get<T>() and the from_json of the structs
\* against SchemaBuilder).  Numbers no C++ value holds are left out.
ConformingArrives ==
  outcome # "none" /\ sent.form = "json" /\ Conforms(Advertised, sent.value)
    /\ AllExact(Advertised, sent.value)
  => outcome = "read" /\ Arrived(Advertised, sent.value)

\* Nothing else is passed off for arguments: a handler is called, and an answer
\* returned, only for JSON with the types and the required members of the
\* schema, as far as doubles tell.  The exception is a struct that requires
\* nothing: it can be read from what is no object, and even from arguments that
\* are no JSON or missing, but then nothing of that is handed on, only defaults.
\* (Values outside an enum and members the schema does not have pass.)
MisshapenRefused ==
  outcome = "read" =>
    \/ sent.form = "json" /\ Shaped(ParamSchema(params), InDoubles(sent.value))
    \/ /\ params \in DOMAIN Structs /\ RequiredFields(ParamSchema(params)) = {}
       /\ handed = Get(params, NoMembers)

\* What a handler returns is what the model reads in the result, but for numbers
\* integer_t or JSON have none of.
ResultsArrive ==
  content # Nothing
    /\ ("uint64" \in DOMAIN returned => returned.uint64 <= MaxInt)
    /\ DOMAIN returned # {"infinity"}
  => content = Denoted(returned)
=============================================================================
