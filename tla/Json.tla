-------------------------------- MODULE Json --------------------------------
(***************************************************************************)
(* JSON values (json.hpp) and what writing and parsing do to numbers       *)
(* (json.cpp).  Every number is parsed as a double and kept as an integer  *)
(* when it is one, so text is where integers beyond the doubles' precision *)
(* and doubles without a fraction change.  The widths are parameters: 64   *)
(* and 53 bits in the code.  Numbers are counted in halves, so that there  *)
(* are some with a fraction.  Strings are escaped on the way out and back  *)
(* on the way in: what is read is what was written.                        *)
(***************************************************************************)
EXTENDS Doubles, Sequences

CONSTANTS
  Width,      \* bits of Json::integer_t
  Precision,  \* bits of the significand of Json::number_t
  Overflowed  \* what the build makes of a cast of 2^63 to integer_t

MinInt == -(2 ^ (Width - 1))
MaxInt == 2 ^ (Width - 1) - 1

ASSUME JsonAssumption ==
  /\ Width \in Nat /\ Precision \in Nat \ {0} /\ Precision < Width
  /\ Overflowed \in {MinInt, MaxInt}
-----------------------------------------------------------------------------
NullValue == [kind |-> "null"]
Boolean(b) == [kind |-> "boolean", boolean |-> b]
Integer(n) == [kind |-> "integer", integer |-> n]
Number(h) == [kind |-> "number", halves |-> h]
Infinite == [kind |-> "infinite"]  \* a number_t, but no number of JSON
String(s) == [kind |-> "string", string |-> s]
Array(elems) == [kind |-> "array", elems |-> elems]
Object(members) == [kind |-> "object", members |-> members]

\* Json::object()
NoMembers == Object([key \in {} |-> NullValue])

\* Json::contains, Json::at
HasMember(j, key) == j.kind = "object" /\ key \in DOMAIN j.members
At(j, key) == j.members[key]

\* get<T>() does not throw
Is(kind, j, key) == HasMember(j, key) /\ At(j, key).kind = kind

\* A value that is a scalar or an object or array of scalars: nothing here looks
\* deeper
Shallow(Scalar(_), j) ==
  \/ /\ j.kind = "object" /\ j = Object([key \in DOMAIN j.members |-> j.members[key]])
     /\ \A key \in DOMAIN j.members : Scalar(j.members[key])
  \/ /\ j.kind = "array" /\ j = Array([k \in 1..Len(j.elems) |-> j.elems[k]])
     /\ Len(j.elems) \in Nat
     /\ \A k \in DOMAIN j.elems : Scalar(j.elems[k])
  \/ Scalar(j)

\* Text has one kind of number
ScalarText(j) ==
  \/ j = NullValue
  \/ j.kind = "boolean" /\ j = Boolean(j.boolean) /\ j.boolean \in BOOLEAN
  \/ j.kind = "number" /\ j = Number(j.halves) /\ j.halves \in Int
  \/ j.kind = "string" /\ j = String(j.string)
JsonText(j) == Shallow(ScalarText, j)

\* and a Json two, one of which is not finite
ScalarValue(j) ==
  \/ ScalarText(j)
  \/ j.kind = "integer" /\ j = Integer(j.integer) /\ j.integer \in MinInt .. MaxInt
  \/ j = Infinite
JsonValue(j) == Shallow(ScalarValue, j)

\* A conversion of scalars, for a value that is a scalar or an object or array
\* of them
Leafwise(Convert(_), j) ==
  CASE j.kind = "object" -> Object([key \in DOMAIN j.members |-> Convert(j.members[key])])
    [] j.kind = "array" -> Array([k \in DOMAIN j.elems |-> Convert(j.elems[k])])
    [] j.kind \notin {"object", "array"} -> Convert(j)

\* Those scalars
Leaves(j) ==
  CASE j.kind = "object" -> {j.members[key] : key \in DOMAIN j.members}
    [] j.kind = "array" -> {j.elems[k] : k \in DOMAIN j.elems}
    [] j.kind \notin {"object", "array"} -> {j}
-----------------------------------------------------------------------------
Rounded(h) == Nearest(h, Precision)

\* Json::write_to: a number in text has no type, only a value
WrittenScalar(j) == IF j.kind = "integer" THEN Number(2 * j.integer) ELSE j
Written(j) == Leafwise(WrittenScalar, j)

\* What a signed integer of that many bits keeps of n
Wrapped(n, width) == ((n + 2 ^ (width - 1)) % (2 ^ width)) - 2 ^ (width - 1)

InRange(d) == Rounded(2 * MinInt) <= d /\ d <= Rounded(2 * MaxInt)         \* mutant
\* from_generic.  Converted to a double the greatest integer is rounded up, so
\* that it lets one number pass the cast is not defined for.
FitsInteger(d) == d % 2 = 0 /\ Rounded(2 * MinInt) <= d /\ d <= Rounded(2 * MaxInt)
Cast(n) == IF n \in MinInt .. MaxInt THEN n ELSE Overflowed

FromGenericScalar(j) ==
  IF j.kind # "number"
    THEN j
    ELSE LET d == Rounded(j.halves)
         IN  IF FitsInteger(d) THEN Integer(Cast(d \div 2)) ELSE Number(d)
FromGeneric(j) == Leafwise(FromGenericScalar, j)
-----------------------------------------------------------------------------
(***************************************************************************)
(* What reading and writing should come to.                                *)
(***************************************************************************)

\* A text as a parser that knows only doubles tells it
InDouble(scalar) == IF scalar.kind = "number" THEN Number(Rounded(scalar.halves)) ELSE scalar
InDoubles(j) == Leafwise(InDouble, j)

\* Not 2^63: it passes for an integer, and what its cast gives is undefined
Castable(j) == Number(2 * (MaxInt + 1)) \notin Leaves(j)
=============================================================================
