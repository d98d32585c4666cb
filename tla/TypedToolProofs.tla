-------------------------- MODULE TypedToolProofs ---------------------------
(***************************************************************************)
(* What crosses the border between JSON and C++: proofs of the properties  *)
(* of TypedTool, for every width of ints, integers and doubles and all     *)
(* structs whose schema and from_json agree.                               *)
(***************************************************************************)
EXTENDS TypedTool, DataProofs

(***************************************************************************)
(* Numbers.                                                                *)
(***************************************************************************)
\* ints are integers that doubles tell from their neighbours
LEMMA IntRange ==
  /\ MinOfInt \in Int /\ MaxOfInt \in Int
  /\ \A n \in MinOfInt .. MaxOfInt :
        n \in MinInt .. MaxInt /\ Abs(n) <= 2 ^ Precision /\ n <= 2 ^ Precision
<1>1. PICK i \in Nat, v \in Nat : i = IntWidth - 1 /\ v = Width - 1 /\ i <= Precision /\ Precision <= v
  BY JsonAssumption, TypedToolAssumption
<1>2. PICK I \in Nat, P \in Nat, H \in Nat : I = 2 ^ i /\ P = 2 ^ Precision /\ H = 2 ^ v
  BY JsonAssumption, Powers
<1>3. I <= P
  <2>1. CASE i = Precision
    BY <1>2, <2>1
  <2>2. CASE i < Precision
    <3>1. 2 * 2 ^ i <= 2 ^ Precision
      BY <2>2, JsonAssumption, PowersGrow
    <3> QED BY <1>2, <3>1
  <2> QED BY <1>1, <2>1, <2>2, JsonAssumption
<1>4. P <= H
  BY <1>1, <1>2, JsonAssumption, IntegerRange
<1>5. MinOfInt = -I /\ MaxOfInt = I - 1 /\ MinInt = -H /\ MaxInt = H - 1
  BY <1>1, <1>2 DEF MinOfInt, MaxOfInt, MinInt, MaxInt
<1> QED BY <1>2, <1>3, <1>4, <1>5 DEF Abs

\* What fits in a width is kept by it
LEMMA WrappedInRange ==
  ASSUME NEW w \in Nat \ {0}, NEW n \in Int, -(2 ^ (w - 1)) <= n, n <= 2 ^ (w - 1) - 1
  PROVE  Wrapped(n, w) = n
<1>1. PICK v \in Nat : v = w - 1 /\ v + 1 = w
  OBVIOUS
<1>2. PICK H \in Nat \ {0} : H = 2 ^ (w - 1) /\ 2 ^ w = 2 * H
  BY <1>1, Powers
<1>3. PICK m \in Nat, W \in Nat \ {0} : m = n + H /\ W = 2 * H /\ m < W
  BY <1>2
<1>4. m % W = m
  BY <1>3
<1> QED BY <1>2, <1>3, <1>4 DEF Wrapped

\* Integers that doubles tell from their neighbours are parsed as they are
LEMMA IntegerParsed ==
  ASSUME NEW n \in MinInt .. MaxInt, Abs(n) <= 2 ^ Precision, n <= 2 ^ Precision
  PROVE  FromGenericScalar(Number(2 * n)) = Integer(n)
<1>1. n \in Int /\ MinInt <= n /\ n <= MaxInt
  BY IntegerTypes
<1>2. PICK h \in Int : h = 2 * n /\ h % 2 = 0 /\ h \div 2 = n
  BY <1>1
<1>3. Rounded(h) = h
  BY <1>1, <1>2, JsonAssumption, NearestOfInteger DEF Rounded
<1>4. Rounded(2 * MinInt) <= h /\ h <= Rounded(2 * MaxInt)
  BY <1>1, <1>2, IntegerTypes
<1>5. FitsInteger(h)
  BY <1>2, <1>4 DEF FitsInteger
<1> QED BY <1>2, <1>3, <1>5 DEF FromGenericScalar, Number, Cast

(***************************************************************************)
(* Schemas.                                                                *)
(***************************************************************************)
LEMMA SetMember ==
  ASSUME NEW schema, NEW key, NEW value
  PROVE  /\ Set(schema, key, value).kind = "object"
         /\ At(Set(schema, key, value), key) = value
         /\ DOMAIN Set(schema, key, value).members = DOMAIN schema.members \cup {key}
         /\ \A k : HasMember(Set(schema, key, value), k) <=> k = key \/ k \in DOMAIN schema.members
         /\ \A k \in DOMAIN schema.members :
               k # key => At(Set(schema, key, value), k) = At(schema, k)
<1>1. PICK members :
        members = [k \in DOMAIN schema.members \cup {key} |->
                     IF k = key THEN value ELSE schema.members[k]]
  OBVIOUS
<1>2. Set(schema, key, value) = [kind |-> "object", members |-> members]
  BY <1>1 DEF Set, Object
<1>3. /\ members[key] = value /\ DOMAIN members = DOMAIN schema.members \cup {key}
      /\ \A k \in DOMAIN schema.members : k # key => members[k] = schema.members[k]
  BY <1>1
<1> QED BY <1>2, <1>3 DEF HasMember, At

\* What SchemaBuilder starts with
LEMMA Built ==
  ASSUME NEW type
  PROVE  /\ SchemaBuilder(type).kind = "object" /\ TypeOf(SchemaBuilder(type)) = type
         /\ DOMAIN SchemaBuilder(type).members = {"type"}
<1>1. DOMAIN NoMembers.members = {}
  BY DEF NoMembers, Object
<1>2. /\ SchemaBuilder(type).kind = "object"
      /\ At(SchemaBuilder(type), "type") = String(type)
      /\ DOMAIN SchemaBuilder(type).members = {"type"}
  BY <1>1, SetMember DEF SchemaBuilder
<1> QED BY <1>2 DEF TypeOf, String

\* The schema type of a type
Named == [type \in Scalars |->
            CASE type = "string" -> "string" [] type = "int" -> "integer"
              [] type = "double" -> "number" [] type = "bool" -> "boolean"]

\* The kinds of types exclude each other
LEMMA TypesApart ==
  ASSUME NEW type
  PROVE  /\ type \in Scalars => type # "vector<double>" /\ type \notin DOMAIN Structs
         /\ type = "vector<double>" => type \notin DOMAIN Structs
  BY StructsAssumption DEF Scalars

LEMMA ScalarSchema ==
  ASSUME NEW type \in Scalars
  PROVE  /\ TypeOf(ParamSchema(type)) = Named[type]
         /\ ParamSchema(type).kind = "object" /\ DOMAIN ParamSchema(type).members = {"type"}
<1>1. ParamSchema(type) = SchemaBuilder(Named[type])
  BY TypesApart DEF ParamSchema, Scalars, Named, StringSchema, IntegerSchema, NumberSchema, BooleanSchema
<1> QED BY <1>1, Built

LEMMA VectorSchema ==
  /\ TypeOf(ParamSchema("vector<double>")) = "array"
  /\ ParamSchema("vector<double>").kind = "object"
  /\ DOMAIN ParamSchema("vector<double>").members = {"type", "items"}
  /\ TypeOf(At(ParamSchema("vector<double>"), "items")) = "number"
<1>1. ParamSchema("vector<double>") = Set(ArraySchema, "items", NumberSchema)
  BY TypesApart DEF ParamSchema, Scalars, Items
<1>2. TypeOf(NumberSchema) = "number" /\ TypeOf(ArraySchema) = "array" /\ DOMAIN ArraySchema.members = {"type"}
  BY Built DEF NumberSchema, ArraySchema
<1>3. At(ParamSchema("vector<double>"), "type") = At(ArraySchema, "type")
  BY <1>1, <1>2, SetMember
<1> QED BY <1>1, <1>2, <1>3, SetMember DEF TypeOf

\* Closing an answer's schema changes nothing it asks of what is there
LEMMA ClosedKeeps ==
  ASSUME NEW schema, NEW closed, closed \in {schema, Closed(schema)},
         schema.kind = "object", "type" \in DOMAIN schema.members
  PROVE  /\ closed.kind = "object" /\ "type" \in DOMAIN closed.members
         /\ TypeOf(closed) = TypeOf(schema) /\ Properties(closed) = Properties(schema)
         /\ RequiredFields(closed) = RequiredFields(schema)
         /\ HasMember(closed, "items") <=> HasMember(schema, "items")
         /\ HasMember(schema, "items") => At(closed, "items") = At(schema, "items")
<1>1. CASE closed = schema
  BY <1>1
<1>2. CASE closed = Set(schema, "additionalProperties", Boolean(FALSE))
  <2>1. /\ closed.kind = "object"
        /\ DOMAIN closed.members = DOMAIN schema.members \cup {"additionalProperties"}
        /\ \A k \in DOMAIN schema.members :
              k # "additionalProperties" => At(closed, k) = At(schema, k)
    <3>1. PICK members :
            members = [k \in DOMAIN schema.members \cup {"additionalProperties"} |->
                         IF k = "additionalProperties" THEN Boolean(FALSE) ELSE schema.members[k]]
      OBVIOUS
    <3>2. closed = [kind |-> "object", members |-> members]
      BY <1>2, <3>1 DEF Set, Object
    <3>3. /\ DOMAIN members = DOMAIN schema.members \cup {"additionalProperties"}
          /\ \A k \in DOMAIN schema.members : k # "additionalProperties" => members[k] = schema.members[k]
      BY <3>1
    <3> QED BY <3>2, <3>3 DEF At
  <2>2. \A k : k # "additionalProperties" => (HasMember(closed, k) <=> HasMember(schema, k))
    BY <2>1 DEF HasMember
  <2>3. At(closed, "type") = At(schema, "type")
    BY <2>1
  <2>4. Properties(closed) = Properties(schema)
    BY <2>1, <2>2 DEF Properties, HasMember
  <2>5. RequiredFields(closed) = RequiredFields(schema)
    BY <2>1, <2>2 DEF RequiredFields, HasMember
  <2> QED BY <2>1, <2>2, <2>3, <2>4, <2>5 DEF TypeOf, HasMember
<1> QED BY <1>1, <1>2 DEF Closed

(***************************************************************************)
(* Scalars.                                                                *)
(***************************************************************************)

\* What parsing makes of a scalar
LEMMA ScalarParsed ==
  ASSUME NEW j, ScalarText(j)
  PROVE  \E k :
            /\ k = FromGenericScalar(j)
            /\ j.kind # "number" => k = j
            /\ j.kind = "number" =>
                 \E d \in Int :
                    /\ j = Number(j.halves) /\ j.halves \in Int
                    /\ d = Rounded(j.halves) /\ Rounded(d) = d
                    /\ \/ /\ d % 2 = 0
                          /\ \E n \in MinInt .. MaxInt :
                                k = Integer(n) /\ (d # 2 * (MaxInt + 1) => 2 * n = d)
                       \/ k = Number(d)
<1>1. CASE j.kind # "number"
  BY <1>1 DEF FromGenericScalar
<1>2. CASE j.kind = "number"
  <2>1. j = Number(j.halves) /\ j.halves \in Int
    BY <1>2 DEF ScalarText, NullValue, Boolean, String
  <2>2. PICK h \in Int : h = j.halves /\ j = Number(h)
    BY <2>1
  <2>3. PICK d \in Int :
            /\ d = Rounded(h) /\ Rounded(d) = d
            /\ \/ /\ d % 2 = 0
                  /\ \E n \in MinInt .. MaxInt :
                        /\ FromGenericScalar(Number(h)) = Integer(n)
                        /\ d # 2 * (MaxInt + 1) => 2 * n = d
               \/ FromGenericScalar(Number(h)) = Number(d)
    BY NumberParsed
  <2>4. PICK k : k = FromGenericScalar(j)
    OBVIOUS
  <2>5. k = FromGenericScalar(Number(h))
    BY <2>2, <2>4
  <2> QED BY <1>2, <2>2, <2>3, <2>4, <2>5
<1> QED BY <1>1, <1>2

\* What get<T>() reads from a parsed scalar was of the schema's type, as far as
\* doubles tell
LEMMA HeldIsOfType ==
  ASSUME NEW type \in Scalars, NEW j, ScalarText(j), Holds(type, FromGenericScalar(j))
  PROVE  OfType(Named[type], InDouble(j))
<1>1. PICK k : /\ k = FromGenericScalar(j)
               /\ j.kind # "number" => k = j
               /\ j.kind = "number" =>
                    \E d \in Int :
                       /\ d = Rounded(j.halves)
                       /\ \/ d % 2 = 0 /\ \E n \in MinInt .. MaxInt : k = Integer(n)
                          \/ k = Number(d)
  BY ScalarParsed
<1>2. Holds(type, k)
  BY <1>1
<1>3. j.kind \in {"null", "boolean", "number", "string"}
  BY DEF ScalarText, NullValue, Boolean, Number, String
<1>4. CASE j.kind # "number"
  <2>1. InDouble(j) = j /\ k = j
    BY <1>1, <1>4 DEF InDouble
  <2> QED BY <1>2, <1>3, <1>4, <2>1 DEF Scalars, Named, Holds, OfType
<1>5. CASE j.kind = "number"
  <2>1. PICK d \in Int : /\ d = Rounded(j.halves)
                         /\ \/ d % 2 = 0 /\ \E n \in MinInt .. MaxInt : k = Integer(n)
                            \/ k = Number(d)
    BY <1>1, <1>5
  <2>2. InDouble(j) = Number(d) /\ Number(d).kind = "number" /\ Number(d).halves = d
    BY <1>5, <2>1 DEF InDouble, Number
  <2>3. k.kind = "number" \/ (k.kind = "integer" /\ d % 2 = 0)
    BY <2>1 DEF Integer, Number
  <2> QED BY <1>2, <2>2, <2>3 DEF Scalars, Named, Holds, OfType
<1> QED BY <1>4, <1>5

\* A scalar of the schema's type that has a C++ value is read, as that value
LEMMA ExactArrives ==
  ASSUME NEW type \in Scalars, NEW j, ScalarText(j), OfType(Named[type], j), Exact(Named[type], j)
  PROVE  /\ Holds(type, FromGenericScalar(j))
         /\ Denoted(GetScalar(type, FromGenericScalar(j))) = j
<1>1. PICK k : k = FromGenericScalar(j)
  OBVIOUS
<1>2. CASE type = "string"
  <2>1. j.kind = "string" /\ j = String(j.string) /\ k = j
    BY <1>1, <1>2 DEF ScalarText, NullValue, Boolean, Number, OfType, Named, Scalars, FromGenericScalar
  <2>2. GetScalar(type, k) = [string |-> j.string]
    BY <1>2, <2>1 DEF GetScalar
  <2> QED BY <1>1, <1>2, <2>1, <2>2 DEF Holds, Denoted
<1>3. CASE type = "bool"
  <2>1. j.kind = "boolean" /\ j = Boolean(j.boolean) /\ k = j
    BY <1>1, <1>3 DEF ScalarText, NullValue, String, Number, OfType, Named, Scalars, FromGenericScalar
  <2>2. GetScalar(type, k) = [bool |-> j.boolean]
    BY <1>3, <2>1 DEF GetScalar
  <2> QED BY <1>1, <1>3, <2>1, <2>2 DEF Holds, Denoted
<1>4. CASE type = "int"
  <2>1. j.kind = "number" /\ j.halves % 2 = 0 /\ j.halves \div 2 \in MinOfInt .. MaxOfInt
    BY <1>4 DEF OfType, Named, Scalars, Exact
  <2>2. PICK h \in Int : h = j.halves /\ j = Number(h)
    BY <2>1 DEF ScalarText, NullValue, Boolean, String
  <2>3. PICK n \in Int : n = h \div 2 /\ h = 2 * n
    BY <2>1, <2>2
  <2>4. n \in MinOfInt .. MaxOfInt
    BY <2>1, <2>2, <2>3
  <2>5. k = Integer(n)
    BY <1>1, <2>2, <2>3, <2>4, IntRange, IntegerParsed
  <2>6. Wrapped(n, IntWidth) = n
    <3>1. -(2 ^ (IntWidth - 1)) <= n /\ n <= 2 ^ (IntWidth - 1) - 1
      BY <2>4, IntRange DEF MinOfInt, MaxOfInt
    <3> QED BY <3>1, WrappedInRange, TypedToolAssumption
  <2>7. GetScalar(type, k) = [int |-> n]
    BY <1>4, <2>5, <2>6 DEF GetScalar, Integer
  <2>8. Denoted([int |-> n]) = Number(2 * n)
    BY DEF Denoted
  <2> QED BY <1>1, <1>4, <2>2, <2>3, <2>5, <2>7, <2>8 DEF Holds, Integer
<1>5. CASE type = "double"
  <2>1. j.kind = "number" /\ j.halves = Rounded(j.halves) /\ j.halves # 2 * (MaxInt + 1)
    BY <1>5 DEF OfType, Named, Scalars, Exact
  <2>2. PICK d \in Int : /\ d = j.halves /\ j = Number(d) /\ Rounded(d) = d
                         /\ \/ \E n \in MinInt .. MaxInt : k = Integer(n) /\ 2 * n = d
                            \/ k = Number(d)
    BY <1>1, <2>1, ScalarParsed
  <2>3. CASE k = Number(d)
    <3>1. GetScalar(type, k) = [double |-> d] /\ Holds(type, k)
      BY <1>5, <2>3 DEF GetScalar, Number, Holds
    <3> QED BY <1>1, <2>2, <3>1 DEF Denoted
  <2>4. ASSUME NEW n \in MinInt .. MaxInt, k = Integer(n), 2 * n = d
        PROVE  Holds(type, k) /\ Denoted(GetScalar(type, k)) = j
    <3>1. GetScalar(type, k) = [double |-> Rounded(d)] /\ Holds(type, k)
      BY <1>5, <2>4 DEF GetScalar, Integer, Holds
    <3> QED BY <2>2, <3>1 DEF Denoted
  <2> QED BY <1>1, <2>2, <2>3, <2>4
<1> QED BY <1>2, <1>3, <1>4, <1>5 DEF Scalars

(***************************************************************************)
(* Whole values.                                                           *)
(***************************************************************************)

\* Parsing goes into objects and arrays, member by member
LEMMA ParsedParts ==
  ASSUME NEW j
  PROVE  /\ j.kind = "object" =>
              /\ FromGeneric(j).kind = "object"
              /\ \A key : HasMember(FromGeneric(j), key) <=> HasMember(j, key)
              /\ \A key : HasMember(j, key) => At(FromGeneric(j), key) = FromGenericScalar(At(j, key))
         /\ j.kind = "array" =>
              /\ FromGeneric(j).kind = "array"
              /\ FromGeneric(j).elems = [k \in DOMAIN j.elems |-> FromGenericScalar(j.elems[k])]
         /\ j.kind \notin {"object", "array"} => FromGeneric(j) = FromGenericScalar(j)
<1>1. CASE j.kind = "object"
  <2>1. PICK members : members = [key \in DOMAIN j.members |-> FromGenericScalar(j.members[key])]
    OBVIOUS
  <2>2. FromGeneric(j) = [kind |-> "object", members |-> members]
    BY <1>1, <2>1 DEF FromGeneric, Leafwise, Object
  <2>3. FromGeneric(j).kind = "object" /\ FromGeneric(j).members = members
    BY <2>2
  <2> QED BY <1>1, <2>1, <2>3 DEF HasMember, At
<1>2. CASE j.kind = "array"
  <2>1. PICK elems : elems = [k \in DOMAIN j.elems |-> FromGenericScalar(j.elems[k])]
    OBVIOUS
  <2>2. FromGeneric(j) = [kind |-> "array", elems |-> elems]
    BY <1>2, <2>1 DEF FromGeneric, Leafwise, Array
  <2> QED BY <1>2, <2>1, <2>2
<1>3. CASE j.kind \notin {"object", "array"}
  BY <1>3 DEF FromGeneric, Leafwise
<1> QED BY <1>1, <1>2, <1>3

LEMMA DoubledParts ==
  ASSUME NEW j
  PROVE  /\ j.kind = "object" =>
              /\ InDoubles(j).kind = "object"
              /\ \A key : HasMember(InDoubles(j), key) <=> HasMember(j, key)
              /\ \A key : HasMember(j, key) => At(InDoubles(j), key) = InDouble(At(j, key))
         /\ j.kind = "array" =>
              /\ InDoubles(j).kind = "array"
              /\ InDoubles(j).elems = [k \in DOMAIN j.elems |-> InDouble(j.elems[k])]
         /\ j.kind \notin {"object", "array"} => InDoubles(j) = InDouble(j)
<1>1. CASE j.kind = "object"
  <2>1. PICK members : members = [key \in DOMAIN j.members |-> InDouble(j.members[key])]
    OBVIOUS
  <2>2. InDoubles(j) = [kind |-> "object", members |-> members]
    BY <1>1, <2>1 DEF InDoubles, Leafwise, Object
  <2>3. InDoubles(j).kind = "object" /\ InDoubles(j).members = members
    BY <2>2
  <2> QED BY <1>1, <2>1, <2>3 DEF HasMember, At
<1>2. CASE j.kind = "array"
  <2>1. PICK elems : elems = [k \in DOMAIN j.elems |-> InDouble(j.elems[k])]
    OBVIOUS
  <2>2. InDoubles(j) = [kind |-> "array", elems |-> elems]
    BY <1>2, <2>1 DEF InDoubles, Leafwise, Array
  <2> QED BY <1>2, <2>1, <2>2
<1>3. CASE j.kind \notin {"object", "array"}
  BY <1>3 DEF InDoubles, Leafwise
<1> QED BY <1>1, <1>2, <1>3

\* What a text is made of
LEMMA TextParts ==
  ASSUME NEW j, JsonText(j)
  PROVE  /\ \A key : HasMember(j, key) => ScalarText(At(j, key))
         /\ j.kind = "array" => /\ j = Array([k \in DOMAIN j.elems |-> j.elems[k]])
                              /\ \A k \in DOMAIN j.elems : ScalarText(j.elems[k])
         /\ j.kind \notin {"object", "array"} => ScalarText(j)
<1>1. ASSUME ScalarText(j) PROVE j.kind \notin {"object", "array"}
  BY <1>1 DEF ScalarText, NullValue, Boolean, Number, String
<1>2. j.kind = "object" => \A key \in DOMAIN j.members : ScalarText(j.members[key])
  BY <1>1 DEF JsonText, Shallow
<1>3. j.kind = "array" => /\ j = Array([k \in DOMAIN j.elems |-> j.elems[k]])
                           /\ \A k \in DOMAIN j.elems : ScalarText(j.elems[k])
  <2>1. CASE j.kind = "array"
    <3>1. PICK elems : elems = [k \in 1..Len(j.elems) |-> j.elems[k]]
      OBVIOUS
    <3>2. j = [kind |-> "array", elems |-> elems] /\ \A k \in DOMAIN j.elems : ScalarText(j.elems[k])
      BY <1>1, <2>1, <3>1 DEF JsonText, Shallow, Array
    <3>3. j.elems = elems
      BY <3>2
    <3>4. elems = [k \in DOMAIN elems |-> elems[k]]
      BY <3>1
    <3> QED BY <3>2, <3>3, <3>4 DEF Array
  <2> QED BY <2>1
<1>4. j.kind \notin {"object", "array"} => ScalarText(j)
  BY DEF JsonText, Shallow
<1> QED BY <1>2, <1>3, <1>4 DEF HasMember, At

\* What the schema of a type asks for, for arguments and for answers
LEMMA ScalarAsks ==
  ASSUME NEW type \in Scalars, NEW schema \in {ParamSchema(type), Closed(ParamSchema(type))}
  PROVE  /\ TypeOf(schema) = Named[type]
         /\ RequiredFields(schema) = {} /\ ~ HasMember(schema, "items")
         /\ DOMAIN Properties(schema) = {}
<1>1. PICK given : given = ParamSchema(type) /\ schema \in {given, Closed(given)}
  OBVIOUS
<1>2. TypeOf(given) = Named[type] /\ given.kind = "object" /\ DOMAIN given.members = {"type"}
  BY <1>1, ScalarSchema
<1>3. RequiredFields(given) = {} /\ ~ HasMember(given, "items") /\ DOMAIN Properties(given) = {}
  <2>1. DOMAIN << >> = {}
    OBVIOUS
  <2> QED BY <1>2, <2>1 DEF HasMember, Properties, RequiredFields
<1> QED BY <1>1, <1>2, <1>3, ClosedKeeps

LEMMA VectorAsks ==
  ASSUME NEW schema \in {ParamSchema("vector<double>"), Closed(ParamSchema("vector<double>"))}
  PROVE  /\ TypeOf(schema) = "array" /\ TypeOf(At(schema, "items")) = "number"
         /\ RequiredFields(schema) = {} /\ HasMember(schema, "items")
         /\ DOMAIN Properties(schema) = {}
<1>1. PICK given : given = ParamSchema("vector<double>") /\ schema \in {given, Closed(given)}
  OBVIOUS
<1>2. /\ TypeOf(given) = "array" /\ given.kind = "object"
      /\ DOMAIN given.members = {"type", "items"} /\ TypeOf(At(given, "items")) = "number"
  BY <1>1, VectorSchema
<1>3. RequiredFields(given) = {} /\ HasMember(given, "items") /\ DOMAIN Properties(given) = {}
  <2>1. DOMAIN << >> = {}
    OBVIOUS
  <2> QED BY <1>2, <2>1 DEF HasMember, Properties, RequiredFields
<1> QED BY <1>1, <1>2, <1>3, ClosedKeeps

LEMMA StructAsks ==
  ASSUME NEW type \in DOMAIN Structs, NEW struct, struct = Structs[type],
         NEW schema \in {ParamSchema(type), Closed(ParamSchema(type))}
  PROVE  /\ TypeOf(schema) = "object" /\ ~ HasMember(schema, "items")
         /\ DOMAIN Properties(schema) = DOMAIN struct.members
         /\ "_raw" \notin DOMAIN struct.members
         /\ RequiredFields(schema) =
              {name \in DOMAIN struct.members : struct.members[name].default = Nothing}
         /\ \A name \in DOMAIN struct.members :
              /\ struct.members[name].type \in Scalars
              /\ TypeOf(Properties(schema)[name]) = Named[struct.members[name].type]
              /\ HasMember(Properties(schema)[name], "default") =>
                   At(Properties(schema)[name], "default") = Denoted(struct.members[name].default)
<1>1. PICK given : given = ParamSchema(type) /\ schema \in {given, Closed(given)}
  OBVIOUS
<1>2. given = struct.schema /\ Agrees(struct)
  <2>1. type \notin Scalars /\ type # "vector<double>" /\ Agrees(struct)
    BY StructsAssumption
  <2> QED BY <1>1, <2>1 DEF ParamSchema, Scalars
<1>3. /\ given.kind = "object" /\ "type" \in DOMAIN given.members
      /\ TypeOf(given) = "object" /\ ~ HasMember(given, "items")
      /\ DOMAIN Properties(given) = DOMAIN struct.members
      /\ "_raw" \notin DOMAIN struct.members
      /\ RequiredFields(given) =
           {name \in DOMAIN struct.members : struct.members[name].default = Nothing}
  BY <1>2 DEF Agrees, HasMember
<1>4. ASSUME NEW name \in DOMAIN struct.members
      PROVE  /\ struct.members[name].type \in Scalars
             /\ TypeOf(Properties(given)[name]) = Named[struct.members[name].type]
             /\ HasMember(Properties(given)[name], "default") =>
                  At(Properties(given)[name], "default") = Denoted(struct.members[name].default)
  BY <1>2, ScalarSchema DEF Agrees
<1>5. /\ TypeOf(schema) = TypeOf(given) /\ Properties(schema) = Properties(given)
      /\ RequiredFields(schema) = RequiredFields(given) /\ ~ HasMember(schema, "items")
  BY <1>1, <1>3, ClosedKeeps
<1> QED BY <1>3, <1>4, <1>5

\* What get<T>() does for each kind of type
LEMMA GetCases ==
  ASSUME NEW type, NEW j
  PROVE  /\ type \in Scalars =>
              (Gettable(type, j) <=> Holds(type, j)) /\ Get(type, j) = GetScalar(type, j)
         /\ type = "vector<double>" =>
              /\ Gettable(type, j) <=>
                   j.kind = "array" /\ \A elem \in Elements(j) : Holds("double", elem)
              /\ Get(type, j) = [vector |-> [k \in DOMAIN j.elems |-> GetScalar("double", j.elems[k])]]
         /\ type \in DOMAIN Structs =>
              /\ Gettable(type, j) <=> StructReadable(Structs[type], j)
              /\ Get(type, j) = [struct |-> StructRead(Structs[type], j)]
<1>1. CASE type \in Scalars
  BY <1>1, TypesApart DEF Gettable, Get
<1>2. CASE type = "vector<double>"
  BY <1>2, TypesApart DEF Gettable, Get
<1>3. CASE type \in DOMAIN Structs
  BY <1>3, TypesApart DEF Gettable, Get
<1> QED BY <1>1, <1>2, <1>3

\* A struct read from what has none of its members requires nothing, and gets
\* nothing but defaults
LEMMA NothingRead ==
  ASSUME NEW type \in DOMAIN Structs, NEW j, Gettable(type, j),
         \A name \in DOMAIN Structs[type].members : ~ HasMember(j, name)
  PROVE  RequiredFields(ParamSchema(type)) = {} /\ Get(type, j) = Get(type, NoMembers)
<1>1. PICK struct : struct = Structs[type]
  OBVIOUS
<1>2. \A name \in DOMAIN struct.members : struct.members[name].default # Nothing
  BY <1>1, GetCases DEF StructReadable
<1>3. RequiredFields(ParamSchema(type)) =
        {name \in DOMAIN struct.members : struct.members[name].default = Nothing}
  BY <1>1, StructAsks
<1>4. \A name : ~ HasMember(NoMembers, name)
  BY DEF HasMember, NoMembers, Object
<1>5. StructRead(struct, j) = StructRead(struct, NoMembers)
  BY <1>1, <1>4 DEF StructRead
<1> QED BY <1>1, <1>2, <1>3, <1>5, GetCases

\* What can be got from a parsed text has the shape of the schema, as far as
\* doubles tell, or has nothing that is got
LEMMA GettableIsShaped ==
  ASSUME NEW type \in Types, NEW j, JsonText(j), Gettable(type, FromGeneric(j))
  PROVE  \/ Shaped(ParamSchema(type), InDoubles(j))
         \/ /\ type \in DOMAIN Structs /\ RequiredFields(ParamSchema(type)) = {}
            /\ Get(type, FromGeneric(j)) = Get(type, NoMembers)
<1>1. PICK schema : schema = ParamSchema(type) /\ schema \in {ParamSchema(type), Closed(ParamSchema(type))}
  OBVIOUS
<1>2. CASE type \in Scalars
  <2>1. Holds(type, FromGeneric(j))
    BY <1>2, GetCases
  <2>2. j.kind \notin {"object", "array"}
    <3>1. FromGeneric(j).kind \notin {"object", "array"}
      BY <1>2, <2>1 DEF Holds, Scalars
    <3> QED BY <3>1, ParsedParts
  <2>3. /\ ScalarText(j) /\ FromGeneric(j) = FromGenericScalar(j) /\ InDoubles(j) = InDouble(j)
    BY <2>2, TextParts, ParsedParts, DoubledParts
  <2>4. OfType(Named[type], InDoubles(j))
    BY <1>2, <2>1, <2>3, HeldIsOfType
  <2>5. /\ TypeOf(schema) = Named[type]
        /\ RequiredFields(schema) = {} /\ ~ HasMember(schema, "items")
        /\ DOMAIN Properties(schema) = {}
    BY <1>1, <1>2, ScalarAsks
  <2> QED BY <1>1, <2>4, <2>5 DEF Shaped
<1>3. CASE type = "vector<double>"
  <2>1. /\ FromGeneric(j).kind = "array"
        /\ \A elem \in Elements(FromGeneric(j)) : Holds("double", elem)
    BY <1>3, GetCases
  <2>2. j.kind = "array"
    <3>1. j.kind \notin {"object", "array"} => FromGeneric(j).kind # "array"
      <4>1. CASE j.kind \notin {"object", "array"}
        <5>1. ScalarText(j) /\ FromGeneric(j) = FromGenericScalar(j)
          BY <4>1, TextParts, ParsedParts
        <5>2. PICK k : /\ k = FromGenericScalar(j)
                       /\ j.kind # "number" => k = j
                       /\ j.kind = "number" => (\E n \in Int : k = Integer(n)) \/ (\E d \in Int : k = Number(d))
          BY <5>1, ScalarParsed, IntegerTypes
        <5> QED BY <4>1, <5>1, <5>2 DEF Integer, Number
      <4> QED BY <4>1
    <3>2. j.kind = "object" => FromGeneric(j).kind = "object"
      BY ParsedParts
    <3> QED BY <2>1, <3>1, <3>2
  <2>3. PICK elems : /\ elems = j.elems /\ \A k \in DOMAIN elems : ScalarText(elems[k])
                     /\ FromGeneric(j).elems = [k \in DOMAIN elems |-> FromGenericScalar(elems[k])]
                     /\ InDoubles(j).elems = [k \in DOMAIN elems |-> InDouble(elems[k])]
                     /\ InDoubles(j).kind = "array"
    BY <2>2, TextParts, ParsedParts, DoubledParts
  <2>4. ASSUME NEW elem \in Elements(InDoubles(j)) PROVE OfType("number", elem)
    <3>1. PICK k \in DOMAIN elems : elem = InDouble(elems[k])
      BY <2>3 DEF Elements
    <3>2. Holds("double", FromGenericScalar(elems[k]))
      BY <2>1, <2>3 DEF Elements
    <3>3. "double" \in Scalars /\ Named["double"] = "number"
      BY DEF Scalars, Named
    <3> QED BY <2>3, <3>1, <3>2, <3>3, HeldIsOfType
  <2>5. OfType("array", InDoubles(j))
    BY <2>3 DEF OfType
  <2>6. /\ TypeOf(schema) = "array" /\ TypeOf(At(schema, "items")) = "number"
        /\ RequiredFields(schema) = {} /\ HasMember(schema, "items")
        /\ DOMAIN Properties(schema) = {}
    BY <1>1, <1>3, VectorAsks
  <2> QED BY <1>1, <2>4, <2>5, <2>6 DEF Shaped
<1>4. j.kind # "object" => FromGeneric(j).kind # "object"
  <2>1. j.kind = "array" => FromGeneric(j).kind = "array"
    BY ParsedParts
  <2>2. CASE j.kind \notin {"object", "array"}
    <3>1. ScalarText(j) /\ FromGeneric(j) = FromGenericScalar(j)
      BY <2>2, TextParts, ParsedParts
    <3>2. PICK k : /\ k = FromGenericScalar(j)
                   /\ j.kind # "number" => k = j
                   /\ j.kind = "number" => (\E n \in Int : k = Integer(n)) \/ (\E d \in Int : k = Number(d))
      BY <3>1, ScalarParsed, IntegerTypes
    <3> QED BY <2>2, <3>1, <3>2 DEF Integer, Number
  <2> QED BY <2>1, <2>2
<1>5. CASE type \in DOMAIN Structs
  <2>1. PICK struct : struct = Structs[type]
    OBVIOUS
  <2>2. StructReadable(struct, FromGeneric(j))
    BY <1>5, <2>1, GetCases
  <2>3. CASE j.kind # "object"
    <3>1. \A name : ~ HasMember(FromGeneric(j), name)
      BY <1>4, <2>3 DEF HasMember
    <3> QED BY <1>5, <3>1, NothingRead
  <2>4. CASE j.kind = "object"
    <3>1. /\ TypeOf(schema) = "object" /\ ~ HasMember(schema, "items")
          /\ DOMAIN Properties(schema) = DOMAIN struct.members
          /\ RequiredFields(schema) =
               {name \in DOMAIN struct.members : struct.members[name].default = Nothing}
          /\ \A name \in DOMAIN struct.members :
               /\ struct.members[name].type \in Scalars
               /\ TypeOf(Properties(schema)[name]) = Named[struct.members[name].type]
      BY <1>1, <1>5, <2>1, StructAsks
    <3>2. OfType("object", InDoubles(j))
      BY <2>4, DoubledParts DEF OfType
    <3>3. \A name : HasMember(InDoubles(j), name) <=> HasMember(FromGeneric(j), name)
      BY <2>4, DoubledParts, ParsedParts
    <3>4. ASSUME NEW name \in DOMAIN struct.members, HasMember(InDoubles(j), name)
          PROVE  OfType(TypeOf(Properties(schema)[name]), At(InDoubles(j), name))
      <4>1. PICK kind \in Scalars : kind = struct.members[name].type /\ TypeOf(Properties(schema)[name]) = Named[kind]
        BY <3>1
      <4>2. HasMember(FromGeneric(j), name) /\ HasMember(j, name)
        BY <2>4, <3>3, <3>4, ParsedParts
      <4>3. Holds(kind, At(FromGeneric(j), name))
        BY <2>2, <4>1, <4>2 DEF StructReadable
      <4>4. ScalarText(At(j, name)) /\ At(FromGeneric(j), name) = FromGenericScalar(At(j, name))
        BY <2>4, <4>2, TextParts, ParsedParts
      <4>5. At(InDoubles(j), name) = InDouble(At(j, name))
        BY <2>4, <4>2, DoubledParts
      <4> QED BY <4>1, <4>3, <4>4, <4>5, HeldIsOfType
    <3>5. \A field \in RequiredFields(schema) : HasMember(InDoubles(j), field)
      BY <2>2, <3>1, <3>3 DEF StructReadable
    <3>6. Shaped(schema, InDoubles(j))
      BY <3>1, <3>2, <3>4, <3>5 DEF Shaped
    <3> QED BY <1>1, <3>6
  <2> QED BY <2>3, <2>4
<1> QED BY <1>2, <1>3, <1>5 DEF Types

\* A text that conforms to a schema, and whose numbers have C++ values, is got,
\* as the values it says
LEMMA ConformingIsGot ==
  ASSUME NEW type \in Types, NEW schema \in {ParamSchema(type), Closed(ParamSchema(type))},
         NEW j, JsonText(j), Conforms(schema, j), AllExact(schema, j)
  PROVE  /\ Gettable(type, FromGeneric(j))
         /\ handed = Get(type, FromGeneric(j)) => Arrived(schema, j)
<1>1. Shaped(schema, j)
  BY DEF Conforms
<1>2. CASE type \in Scalars
  <2>1. TypeOf(schema) = Named[type]
    BY <1>2, ScalarAsks
  <2>2. Named[type] \notin {"object", "array"}
    BY <1>2 DEF Scalars, Named
  <2>3. OfType(Named[type], j) /\ Exact(Named[type], j)
    BY <1>1, <2>1, <2>2 DEF Shaped, AllExact
  <2>4. j.kind \notin {"object", "array"}
    BY <1>2, <2>3 DEF OfType, Scalars, Named
  <2>5. ScalarText(j) /\ FromGeneric(j) = FromGenericScalar(j)
    BY <2>4, TextParts, ParsedParts
  <2>6. Holds(type, FromGeneric(j)) /\ Denoted(GetScalar(type, FromGeneric(j))) = j
    BY <1>2, <2>3, <2>5, ExactArrives
  <2>7. Gettable(type, FromGeneric(j))
    BY <1>2, <2>6, GetCases
  <2>8. Get(type, FromGeneric(j)) = GetScalar(type, FromGeneric(j))
    BY <1>2, GetCases
  <2> QED BY <2>1, <2>2, <2>6, <2>7, <2>8 DEF Arrived
<1>3. CASE type = "vector<double>"
  <2>1. /\ TypeOf(schema) = "array" /\ TypeOf(At(schema, "items")) = "number"
        /\ HasMember(schema, "items")
    BY <1>3, VectorAsks
  <2>2. j.kind = "array"
    BY <1>1, <2>1 DEF Shaped, OfType
  <2>3. PICK elems : /\ elems = j.elems /\ j = Array([k \in DOMAIN elems |-> elems[k]])
                     /\ \A k \in DOMAIN elems : ScalarText(elems[k])
                     /\ FromGeneric(j).kind = "array"
                     /\ FromGeneric(j).elems = [k \in DOMAIN elems |-> FromGenericScalar(elems[k])]
    <3>1. PICK elems : elems = j.elems
      OBVIOUS
    <3>2. /\ j = Array([k \in DOMAIN elems |-> elems[k]])
          /\ \A k \in DOMAIN elems : ScalarText(elems[k])
      <4>1. /\ j = Array([k \in DOMAIN j.elems |-> j.elems[k]])
            /\ \A k \in DOMAIN j.elems : ScalarText(j.elems[k])
        BY <1>1, <2>2, TextParts
      <4> QED BY <3>1, <4>1
    <3>3. /\ FromGeneric(j).kind = "array"
          /\ FromGeneric(j).elems = [k \in DOMAIN elems |-> FromGenericScalar(elems[k])]
      <4>1. PICK parsed : parsed = [k \in DOMAIN j.elems |-> FromGenericScalar(j.elems[k])]
        OBVIOUS
      <4>2. FromGeneric(j) = [kind |-> "array", elems |-> parsed]
        BY <2>2, <4>1 DEF FromGeneric, Leafwise, Array
      <4>3. parsed = [k \in DOMAIN elems |-> FromGenericScalar(elems[k])]
        BY <3>1, <4>1
      <4> QED BY <4>2, <4>3
    <3> QED BY <3>1, <3>2, <3>3, ZenonT(40)
  <2>4. \A elem \in Elements(j) : OfType("number", elem) /\ Exact("number", elem)
    BY <1>1, <2>1 DEF Shaped, AllExact
  <2>5. ASSUME NEW k \in DOMAIN elems
        PROVE  /\ Holds("double", FromGenericScalar(elems[k]))
               /\ Denoted(GetScalar("double", FromGenericScalar(elems[k]))) = elems[k]
    <3>1. elems[k] \in Elements(j)
      BY <2>3 DEF Elements
    <3>2. "double" \in Scalars /\ Named["double"] = "number"
      BY DEF Scalars, Named
    <3> QED BY <2>3, <2>4, <3>1, <3>2, ExactArrives
  <2>6. ASSUME NEW elem \in Elements(FromGeneric(j)) PROVE Holds("double", elem)
    <3>1. PICK parsed : parsed = FromGeneric(j).elems
      OBVIOUS
    <3>2. PICK k \in DOMAIN parsed : elem = parsed[k]
      BY <2>6, <3>1 DEF Elements
    <3> QED BY <2>3, <2>5, <3>1, <3>2
  <2>7. Gettable(type, FromGeneric(j))
    BY <1>3, <2>3, <2>6, GetCases
  <2>8. ASSUME handed = Get(type, FromGeneric(j)) PROVE Arrived(schema, j)
    <3>1. PICK parsed : parsed = FromGeneric(j).elems
      OBVIOUS
    <3>2. PICK vector : vector = [k \in DOMAIN parsed |-> GetScalar("double", parsed[k])]
      OBVIOUS
    <3>3. handed = [vector |-> vector]
      BY <1>3, <2>8, <3>1, <3>2, GetCases
    <3>4. handed.vector = vector
      BY <3>3
    <3>5. DOMAIN vector = DOMAIN elems
      BY <2>3, <3>1, <3>2
    <3>6. \A k \in DOMAIN elems : Denoted(vector[k]) = elems[k]
      BY <2>3, <2>5, <3>1, <3>2
    <3>7. [k \in DOMAIN vector |-> Denoted(vector[k])] = [k \in DOMAIN elems |-> elems[k]]
      BY <3>5, <3>6
    <3>8. Array([k \in DOMAIN vector |-> Denoted(vector[k])]) = Array([k \in DOMAIN elems |-> elems[k]])
      BY <3>7
    <3>9. Array([k \in DOMAIN elems |-> elems[k]]) = j
      BY <2>3
    <3> QED BY <2>1, <3>4, <3>8, <3>9 DEF Arrived
  <2> QED BY <2>7, <2>8
<1>4. CASE type \in DOMAIN Structs
  <2>1. PICK struct : struct = Structs[type]
    OBVIOUS
  <2>2. /\ TypeOf(schema) = "object"
        /\ DOMAIN Properties(schema) = DOMAIN struct.members
        /\ RequiredFields(schema) =
             {name \in DOMAIN struct.members : struct.members[name].default = Nothing}
        /\ \A name \in DOMAIN struct.members :
             /\ struct.members[name].type \in Scalars
             /\ TypeOf(Properties(schema)[name]) = Named[struct.members[name].type]
             /\ HasMember(Properties(schema)[name], "default") =>
                  At(Properties(schema)[name], "default") = Denoted(struct.members[name].default)
    BY <1>4, <2>1, StructAsks
  <2>3. j.kind = "object" /\ \A field \in RequiredFields(schema) : HasMember(j, field)
    BY <1>1, <2>2 DEF Shaped, OfType
  <2>4. \A name : HasMember(FromGeneric(j), name) <=> HasMember(j, name)
    BY <2>3, ParsedParts
  <2>5. ASSUME NEW name \in DOMAIN struct.members, HasMember(j, name)
        PROVE  /\ Holds(struct.members[name].type, At(FromGeneric(j), name))
               /\ Denoted(GetScalar(struct.members[name].type, At(FromGeneric(j), name))) = At(j, name)
    <3>1. PICK kind \in Scalars : kind = struct.members[name].type /\ TypeOf(Properties(schema)[name]) = Named[kind]
      BY <2>2
    <3>2. OfType(Named[kind], At(j, name)) /\ Exact(Named[kind], At(j, name))
      BY <1>1, <2>2, <2>5, <3>1 DEF Shaped, AllExact
    <3>3. ScalarText(At(j, name)) /\ At(FromGeneric(j), name) = FromGenericScalar(At(j, name))
      BY <2>3, <2>5, TextParts, ParsedParts
    <3> QED BY <3>1, <3>2, <3>3, ExactArrives
  <2>6. StructReadable(struct, FromGeneric(j))
    BY <2>2, <2>3, <2>4, <2>5 DEF StructReadable
  <2>7. Gettable(type, FromGeneric(j))
    BY <1>4, <2>1, <2>6, GetCases
  <2>8. ASSUME handed = Get(type, FromGeneric(j)) PROVE Arrived(schema, j)
    <3>1. PICK read : read = StructRead(struct, FromGeneric(j))
      OBVIOUS
    <3>2. handed.struct = read
      BY <1>4, <2>1, <2>8, <3>1, GetCases
    <3>3. ASSUME NEW name \in DOMAIN struct.members
          PROVE  /\ HasMember(j, name) => Denoted(read[name]) = At(j, name)
                 /\ ~ HasMember(j, name) => read[name] = struct.members[name].default
      BY <2>4, <2>5, <3>1, <3>3 DEF StructRead
    <3> QED BY <2>2, <3>2, <3>3 DEF Arrived
  <2> QED BY <2>7, <2>8
<1> QED BY <1>2, <1>3, <1>4 DEF Types

-----------------------------------------------------------------------------
(***************************************************************************)
(* The steps.                                                              *)
(***************************************************************************)
LEMMA GotSomething ==
  ASSUME NEW type \in Types, NEW j
  PROVE  Get(type, j) # Nothing
<1>1. DOMAIN Nothing = {"nothing"}
  BY DEF Nothing
<1>2. ASSUME type \in Scalars PROVE DOMAIN Get(type, j) # {"nothing"}
  <2>1. Get(type, j) = GetScalar(type, j)
    BY <1>2, GetCases
  <2>2. DOMAIN GetScalar(type, j) \in {{"string"}, {"bool"}, {"int"}, {"double"}}
    BY <1>2 DEF GetScalar, Scalars
  <2> QED BY <2>1, <2>2
<1>3. ASSUME type = "vector<double>" PROVE DOMAIN Get(type, j) # {"nothing"}
  <2>1. PICK vector : vector = [k \in DOMAIN j.elems |-> GetScalar("double", j.elems[k])]
    OBVIOUS
  <2>2. Get(type, j) = [vector |-> vector]
    BY <1>3, <2>1, GetCases
  <2> QED BY <2>2
<1>4. ASSUME type \in DOMAIN Structs PROVE DOMAIN Get(type, j) # {"nothing"}
  <2>1. PICK struct : struct = StructRead(Structs[type], j)
    OBVIOUS
  <2>2. Get(type, j) = [struct |-> struct]
    BY <1>4, <2>1, GetCases
  <2> QED BY <2>2
<1> QED BY <1>1, <1>2, <1>3, <1>4 DEF Types

\* From what stands for text that is no JSON, or for none, nothing is read
LEMMA WrappedRead ==
  ASSUME NEW type \in Types, NEW arguments \in Arguments, arguments.form # "json",
         Gettable(type, ParseArguments(arguments))
  PROVE  /\ type \in DOMAIN Structs /\ RequiredFields(ParamSchema(type)) = {}
         /\ Get(type, ParseArguments(arguments)) = Get(type, NoMembers)
<1>1. PICK j : j = ParseArguments(arguments)
  OBVIOUS
<1>2. j.kind = "object" /\ DOMAIN j.members \subseteq {"_raw"}
  <2>1. NoMembers.kind = "object" /\ DOMAIN NoMembers.members = {}
    BY DEF NoMembers, Object
  <2>2. CASE arguments.form = "raw"
    <3>1. j = Set(NoMembers, "_raw", arguments.value)
      BY <1>1, <2>2 DEF ParseArguments
    <3> QED BY <2>1, <3>1, SetMember
  <2>3. CASE arguments.form = "none"
    BY <1>1, <2>1, <2>3 DEF ParseArguments
  <2> QED BY <2>2, <2>3, TypedToolAssumption
<1>3. type \notin Scalars
  <2>1. ASSUME type \in Scalars PROVE ~ Holds(type, j)
    BY <1>2, <2>1 DEF Holds, Scalars
  <2> QED BY <1>1, <2>1, GetCases
<1>4. type # "vector<double>"
  <2>1. "vector<double>" \notin Scalars
    BY DEF Scalars
  <2> QED BY <1>1, <1>2, <2>1, GetCases
<1>5. type \in DOMAIN Structs
  BY <1>3, <1>4 DEF Types
<1>6. PICK schema : schema = ParamSchema(type) /\ schema \in {ParamSchema(type), Closed(ParamSchema(type))}
  OBVIOUS
<1>7. "_raw" \notin DOMAIN Structs[type].members
  BY <1>5, <1>6, StructAsks
<1>8. \A name \in DOMAIN Structs[type].members : ~ HasMember(j, name)
  BY <1>2, <1>7 DEF HasMember
<1> QED BY <1>1, <1>5, <1>8, NothingRead

\* Where a call is, and what it has left behind
StageInv ==
  /\ pc \in {"tool", "handler"} => reader = "tool" /\ content = Nothing
  /\ pc = "tool" => outcome = "none" /\ sent \in Arguments /\ input = ParseArguments(sent)
  /\ pc = "handler" => outcome = "read"

\* What has been read is what text says
ReadInv ==
  /\ outcome # "none" => sent \in Arguments
  /\ outcome = "read" =>
       Gettable(params, ParseArguments(sent)) /\ handed = Get(params, ParseArguments(sent))
  /\ outcome = "refused" /\ sent.form = "json" => ~ Gettable(params, FromGeneric(sent.value))

\* and what was returned is what text says
ReturnInv == content # Nothing => returned \in Values /\ content = Written(ToJson(returned))

Inv == TypeOK /\ StageInv /\ ReadInv /\ ReturnInv

LEMMA InvInit == Init => Inv
  BY DEF Init, Inv, TypeOK, StageInv, ReadInv, ReturnInv

LEMMA InvCall ==
  ASSUME Inv, NEW arguments \in Arguments, Call(arguments)
  PROVE  Inv'
BY DEF Inv, Call, TypeOK, StageInv, ReadInv, ReturnInv

LEMMA InvExecute ==
  ASSUME Inv, Execute
  PROVE  Inv'
<1>1. params \in Types /\ sent \in Arguments /\ input = ParseArguments(sent) /\ content = Nothing
      /\ reader = "tool" /\ pc = "tool"
  BY DEF Inv, TypeOK, StageInv, Execute
<1>2. UNCHANGED <<params, reader, sent, input, returned, content>>
  BY DEF Execute
<1>3. CASE Gettable(params, input)
  <2>1. outcome' = "read" /\ handed' = Get(params, input) /\ pc' = "handler"
    BY <1>3 DEF Execute, Read, AfterReading
  <2>3. handed' # Nothing
    BY <1>1, <2>1, GotSomething
  <2>4. TypeOK'
    BY <1>1, <1>2, <2>1, <2>3 DEF TypeOK
  <2>5. StageInv' /\ ReturnInv'
    BY <1>1, <1>2, <2>1 DEF StageInv, ReturnInv
  <2>6. ReadInv'
    BY <1>1, <1>2, <1>3, <2>1 DEF ReadInv, ParseArguments
  <2> QED BY <2>4, <2>5, <2>6 DEF Inv
<1>4. CASE ~ Gettable(params, input)
  <2>1. outcome' = "refused" /\ handed' = Nothing /\ pc' = "model"
    BY <1>4 DEF Execute, Read, AfterReading
  <2>2. TypeOK'
    BY <1>1, <1>2, <2>1 DEF TypeOK
  <2>3. StageInv' /\ ReturnInv'
    BY <1>1, <1>2, <2>1 DEF StageInv, ReturnInv
  <2>4. ReadInv'
    BY <1>1, <1>2, <1>4, <2>1 DEF ReadInv, ParseArguments
  <2> QED BY <2>2, <2>3, <2>4 DEF Inv
<1> QED BY <1>3, <1>4

LEMMA InvHandler ==
  ASSUME Inv, HandlerThrows \/ \E value \in Values : HandlerReturns(value)
  PROVE  Inv'
<1>1. CASE HandlerThrows
  BY <1>1 DEF Inv, HandlerThrows, TypeOK, StageInv, ReadInv, ReturnInv
<1>2. ASSUME NEW value \in Values, HandlerReturns(value) PROVE Inv'
  <2>1. /\ pc' = "model" /\ returned' = value /\ content' = Written(ToJson(value))
        /\ UNCHANGED <<params, reader, sent, input, outcome, handed>>
        /\ reader = "tool" /\ outcome = "read"
    BY <1>2 DEF HandlerReturns, Inv, StageInv
  <2>2. TypeOK'
    BY <2>1 DEF Inv, TypeOK
  <2> QED BY <2>1, <2>2 DEF Inv, StageInv, ReadInv, ReturnInv
<1> QED BY <1>1, <1>2

LEMMA InvAnswer ==
  ASSUME Inv, NEW arguments \in Arguments, Answer(arguments)
  PROVE  Inv'
<1>1. /\ params \in Types /\ pc = "model" /\ pc' = "model" /\ params' = params
      /\ reader' = "answer" /\ sent' = arguments /\ returned' = Nothing /\ content' = Nothing
  BY DEF Inv, TypeOK, Answer
<1>2. ASSUME TypeOK', ReadInv' PROVE Inv'
  BY <1>1, <1>2 DEF Inv, StageInv, ReturnInv
<1>3. CASE arguments.form # "json"
  <2>1. outcome' = "refused" /\ handed' = Nothing
    BY <1>3 DEF Answer
  <2>2. TypeOK' /\ ReadInv'
    BY <1>1, <1>3, <2>1 DEF TypeOK, ReadInv
  <2> QED BY <1>2, <2>2
<1>4. CASE arguments.form = "json" /\ Gettable(params, FromGeneric(arguments.value))
  <2>1. outcome' = "read" /\ handed' = Get(params, FromGeneric(arguments.value))
    BY <1>4 DEF Answer, Read
  <2>2. handed' # Nothing
    BY <1>1, <2>1, GotSomething
  <2>3. TypeOK' /\ ReadInv'
    BY <1>1, <1>4, <2>1, <2>2 DEF TypeOK, ReadInv, ParseArguments
  <2> QED BY <1>2, <2>3
<1>5. CASE arguments.form = "json" /\ ~ Gettable(params, FromGeneric(arguments.value))
  <2>1. outcome' = "refused" /\ handed' = Nothing
    BY <1>5 DEF Answer, Read
  <2>2. TypeOK' /\ ReadInv'
    BY <1>1, <1>5, <2>1 DEF TypeOK, ReadInv
  <2> QED BY <1>2, <2>2
<1> QED BY <1>3, <1>4, <1>5

LEMMA InvNext == Inv /\ [Next]_vars => Inv'
<1> SUFFICES ASSUME Inv, [Next]_vars PROVE Inv'
  OBVIOUS
<1>1. CASE UNCHANGED vars
  BY <1>1 DEF Inv, TypeOK, StageInv, ReadInv, ReturnInv, vars
<1> QED BY <1>1, InvCall, InvExecute, InvHandler, InvAnswer DEF Next

LEMMA InvAlways == Spec => []Inv
  BY InvInit, InvNext, PTL DEF Spec

\* Something is handed to the handler or the caller exactly when something was
\* read, and only a handler that ran leaves a result.
THEOREM TypeCorrect == Spec => []TypeOK
<1>1. Inv => TypeOK
  BY DEF Inv
<1> QED BY <1>1, InvAlways, PTL

\* A handler is called, and an answer returned, only for JSON of the schema's
\* shape, as far as doubles tell, or with nothing but defaults for a struct that
\* requires nothing.
THEOREM MisshapenAlwaysRefused == Spec => []MisshapenRefused
<1>1. Inv => MisshapenRefused
  <2> SUFFICES ASSUME Inv, outcome = "read"
               PROVE  \/ sent.form = "json" /\ Shaped(ParamSchema(params), InDoubles(sent.value))
                      \/ /\ params \in DOMAIN Structs /\ RequiredFields(ParamSchema(params)) = {}
                         /\ handed = Get(params, NoMembers)
    BY DEF MisshapenRefused
  <2>1. /\ params \in Types /\ sent \in Arguments /\ Gettable(params, ParseArguments(sent))
        /\ handed = Get(params, ParseArguments(sent))
    BY DEF Inv, TypeOK, ReadInv
  <2>2. CASE sent.form = "json"
    <3>1. ParseArguments(sent) = FromGeneric(sent.value)
      BY <2>2 DEF ParseArguments
    <3>2. JsonText(sent.value)
      BY <2>1, <2>2, TypedToolAssumption
    <3> QED BY <2>1, <2>2, <3>1, <3>2, GettableIsShaped
  <2>3. CASE sent.form # "json"
    BY <2>1, <2>3, WrappedRead
  <2> QED BY <2>2, <2>3
<1> QED BY <1>1, InvAlways, PTL

\* A model that keeps to the schema it was given is understood, whatever type
\* the parser chose for its numbers, as far as its numbers have C++ values.
THEOREM ConformingAlwaysArrives == Spec => []ConformingArrives
<1>1. Inv => ConformingArrives
  <2> SUFFICES ASSUME Inv, outcome # "none", sent.form = "json",
                      Conforms(Advertised, sent.value), AllExact(Advertised, sent.value)
               PROVE  outcome = "read" /\ Arrived(Advertised, sent.value)
    BY DEF ConformingArrives
  <2>1. params \in Types /\ sent \in Arguments /\ outcome \in {"read", "refused"}
    BY DEF Inv, TypeOK, ReadInv
  <2>2. JsonText(sent.value)
    BY <2>1, TypedToolAssumption
  <2>3. PICK schema \in {ParamSchema(params), Closed(ParamSchema(params))} : schema = Advertised
    BY DEF Advertised
  <2>4. /\ Gettable(params, FromGeneric(sent.value))
        /\ handed = Get(params, FromGeneric(sent.value)) => Arrived(schema, sent.value)
    BY <2>1, <2>2, <2>3, ConformingIsGot
  <2>5. outcome = "read" /\ handed = Get(params, FromGeneric(sent.value))
    BY <2>1, <2>4 DEF Inv, ReadInv, ParseArguments
  <2> QED BY <2>3, <2>4, <2>5
<1> QED BY <1>1, InvAlways, PTL

\* What integers are written as when they fit, and what the rest is
LEMMA ReturnedIsRead ==
  ASSUME NEW value \in Values, DOMAIN value # {"infinity"},
         "uint64" \in DOMAIN value => value.uint64 <= MaxInt
  PROVE  Written(ToJson(value)) = Denoted(value)
<1>1. /\ \A s : Written(String(s)) = String(s)
      /\ \A b : Written(Boolean(b)) = Boolean(b)
      /\ \A h : Written(Number(h)) = Number(h)
      /\ \A n : Written(Integer(n)) = Number(2 * n)
  BY DEF Written, Leafwise, WrittenScalar, String, Boolean, Number, Integer
<1>2. ASSUME NEW n \in MinInt .. MaxInt PROVE AsInteger(n) = Integer(n)
  <2>1. -(2 ^ (Width - 1)) <= n /\ n <= 2 ^ (Width - 1) - 1 /\ n \in Int /\ Width \in Nat \ {0}
    BY IntegerTypes, JsonAssumption DEF MinInt, MaxInt
  <2> QED BY <2>1, WrappedInRange DEF AsInteger
<1>3. ReturnValue(value)
  BY TypedToolAssumption
<1>4. CASE DOMAIN value = {"string"}
  BY <1>1, <1>4 DEF ToJson, Denoted
<1>5. CASE DOMAIN value = {"bool"}
  BY <1>1, <1>5 DEF ToJson, Denoted
<1>6. CASE DOMAIN value = {"int"}
  <2>1. value.int \in MinInt .. MaxInt
    BY <1>3, <1>6, IntRange DEF ReturnValue
  <2>2. ToJson(value) = Integer(value.int)
    BY <1>2, <1>6, <2>1 DEF ToJson
  <2> QED BY <1>1, <1>6, <2>2 DEF Denoted
<1>7. CASE DOMAIN value = {"uint64"}
  <2>1. value.uint64 \in 0 .. (2 ^ Width - 1) /\ value.uint64 <= MaxInt
    BY <1>3, <1>7 DEF ReturnValue
  <2>2. value.uint64 \in MinInt .. MaxInt
    <3>1. PICK least \in Int, greatest \in Int : least = MinInt /\ greatest = MaxInt /\ least < 0
      BY IntegerTypes
    <3>2. 2 ^ Width \in Nat
      BY JsonAssumption, Powers
    <3> QED BY <2>1, <3>1, <3>2
  <2>3. ToJson(value) = Integer(value.uint64)
    BY <1>2, <1>7, <2>2 DEF ToJson
  <2> QED BY <1>1, <1>7, <2>3 DEF Denoted
<1>8. CASE DOMAIN value = {"double"}
  BY <1>1, <1>8 DEF ToJson, Denoted
<1> QED BY <1>3, <1>4, <1>5, <1>6, <1>7, <1>8 DEF ReturnValue

\* What a handler returns is what the model reads in the result.
THEOREM ResultsAlwaysArrive == Spec => []ResultsArrive
<1>1. Inv => ResultsArrive
  BY ReturnedIsRead DEF Inv, ReturnInv, ResultsArrive
<1> QED BY <1>1, InvAlways, PTL
=============================================================================
