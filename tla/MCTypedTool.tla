---------------------------- MODULE MCTypedTool -----------------------------
(***************************************************************************)
(* Small instances of TypedTool: integers of 5 bits, ints of 4, doubles    *)
(* with 3 bits of precision; numbers around each boundary; the structs of  *)
(* the examples, and one that requires nothing; and objects that keep to   *)
(* their schemas or break them in one place.                               *)
(***************************************************************************)
EXTENDS TypedTool, TLC

CONSTANTS city, hello

Needed(type) == [type |-> type, default |-> Nothing]

UnitSchema ==
  DefaultValue(EnumValues(StringSchema, <<"fahrenheit", "celsius">>), String("fahrenheit"))
Unit == [type |-> "string", default |-> [string |-> "fahrenheit"]]

WeatherParams ==
  [schema |-> Required(Property(Property(ObjectSchema, "city", StringSchema), "unit", UnitSchema),
                       <<"city">>),
   members |-> [city |-> Needed("string"), unit |-> Unit]]

MovieReview ==
  [schema |-> Required(Property(Property(Property(ObjectSchema, "title", StringSchema),
                                         "rating", IntegerSchema),
                                "summary", StringSchema),
                       <<"title", "rating", "summary">>),
   members |-> [title |-> Needed("string"), rating |-> Needed("int"),
                summary |-> Needed("string")]]

\* Only members that need not be written, one with no default in the schema
Options ==
  [schema |-> Property(Property(ObjectSchema, "unit", UnitSchema), "days", NumberSchema),
   members |-> [unit |-> Unit, days |-> [type |-> "double", default |-> [double |-> 2]]]]

MCStructs == [WeatherParams |-> WeatherParams, MovieReview |-> MovieReview, Options |-> Options]

\* 5, 2.5, 9.5, and both sides of the ints, the integers and beyond
Numbers == {Number(h) : h \in {10, 5, 19, 14, 16, -16, -18, 30, 2 * (MaxInt + 1), -32, 64}}
Others == {NullValue, String(hello), Boolean(TRUE), Boolean(FALSE)}
Arrays == {Array(<< >>), Array(<<Number(10), Number(5)>>), Array(<<Number(10), NullValue>>)}

Weather ==
  {Object([city |-> c, unit |-> u]) :
     c \in {String(city), Number(10)}, u \in {String("celsius"), String("kelvin"), NullValue}}
  \cup {NoMembers, Object([city |-> String(city)]), Object([unit |-> String("celsius")]),
        Object([city |-> String(city), days |-> Number(5)]),
        Object([days |-> NullValue]), Object([days |-> Number(2 * MaxInt)])}

Review(rating) == [title |-> String(hello), rating |-> rating, summary |-> String(hello)]
Reviews ==
  {Object(Review(rating)) : rating \in Numbers \cup Others}
  \cup {Object([title |-> String(hello), rating |-> Number(10)]),
        Object([stars |-> Number(10)] @@ Review(Number(10)))}

MCArguments ==
  {[form |-> "json", value |-> j] : j \in Numbers \cup Others \cup Arrays \cup Weather \cup Reviews}
  \cup {[form |-> "raw", value |-> String(hello)], [form |-> "none", value |-> NullValue]}

MCValues ==
  {[string |-> hello], [bool |-> FALSE], [infinity |-> TRUE]}
  \cup {[int |-> n] : n \in {MinOfInt, MaxOfInt}}
  \cup {[uint64 |-> n] : n \in {MaxInt, MaxInt + 1}}
  \cup {[double |-> h] : h \in {5, 10, 64}}
=============================================================================
