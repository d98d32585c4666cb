------------------------------- MODULE Schema -------------------------------
(***************************************************************************)
(* JSON Schemas: SchemaBuilder (src/schema/schema.cpp), the built-in       *)
(* ParamSchemas, and what a schema means to the model that is given it.    *)
(* A builder is the schema it has built so far.                            *)
(***************************************************************************)
EXTENDS Json

\* schema_[key] = value
Set(schema, key, value) ==
  Object([k \in DOMAIN schema.members \cup {key} |-> IF k = key THEN value ELSE schema.members[k]])

SchemaBuilder(type) == Set(NoMembers, "type", String(type))
StringSchema == SchemaBuilder("string")
IntegerSchema == SchemaBuilder("integer")
NumberSchema == SchemaBuilder("number")
BooleanSchema == SchemaBuilder("boolean")
ObjectSchema == SchemaBuilder("object")
ArraySchema == SchemaBuilder("array")

Strings(values) == Array([i \in DOMAIN values |-> String(values[i])])

Description(schema, desc) == Set(schema, "description", String(desc))
DefaultValue(schema, value) == Set(schema, "default", value)
EnumValues(schema, values) == Set(schema, "enum", Strings(values))
Required(schema, fields) == Set(schema, "required", Strings(fields))
Items(schema, item) == Set(schema, "items", item)

\* Properties are added to those there
Property(schema, name, prop) ==
  LET properties == IF HasMember(schema, "properties") THEN At(schema, "properties") ELSE NoMembers
  IN  Set(schema, "properties", Set(properties, name, prop))

\* Both dialects close the schema of an answer, at its top level
Closed(schema) ==
  IF At(schema, "type") = String("object")
    THEN Set(schema, "additionalProperties", Boolean(FALSE))
    ELSE schema
-----------------------------------------------------------------------------
(***************************************************************************)
(* What a schema means, for a JSON value as it is written: its numbers     *)
(* have no type.                                                           *)
(***************************************************************************)
Elements(j) == {j.elems[k] : k \in DOMAIN j.elems}

OfType(type, j) ==
  CASE type \in {"string", "boolean", "object", "array"} -> j.kind = type
    [] type = "number" -> j.kind = "number"
    [] type = "integer" -> j.kind = "number" /\ j.halves % 2 = 0

TypeOf(schema) == At(schema, "type").string

Properties(schema) ==
  IF HasMember(schema, "properties") THEN At(schema, "properties").members ELSE << >>

RequiredFields(schema) ==
  IF HasMember(schema, "required")
    THEN {field.string : field \in Elements(At(schema, "required"))}
    ELSE {}

\* j has the types and the members the schema asks for
Shaped(schema, j) ==
  /\ OfType(TypeOf(schema), j)
  /\ \A field \in RequiredFields(schema) : HasMember(j, field)
  /\ \A name \in DOMAIN Properties(schema) :
       HasMember(j, name) => OfType(TypeOf(Properties(schema)[name]), At(j, name))
  /\ HasMember(schema, "items") =>
       \A elem \in Elements(j) : OfType(TypeOf(At(schema, "items")), elem)

\* and no other members or values than it allows
Conforms(schema, j) ==
  /\ Shaped(schema, j)
  /\ \A name \in DOMAIN Properties(schema) :
       LET prop == Properties(schema)[name] IN
       HasMember(j, name) /\ HasMember(prop, "enum") => At(j, name) \in Elements(At(prop, "enum"))
  /\ HasMember(schema, "additionalProperties") => DOMAIN j.members \subseteq DOMAIN Properties(schema)
=============================================================================
