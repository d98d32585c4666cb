--------------------------- MODULE StorageProofs ----------------------------
(***************************************************************************)
(* What is saved and restored: proofs of the properties of Storage, for    *)
(* every width of integers and doubles.                                    *)
(***************************************************************************)
EXTENDS Storage, DataProofs

(***************************************************************************)
(* Numbers.                                                                *)
(***************************************************************************)
\* What is written and parsed again
Again(j) == FromGenericScalar(WrittenScalar(j))

\* Integers in range: those that doubles tell from their neighbours, and the
\* greatest, though it may be written as a number that is out of range
LEMMA IntegerAgain ==
  ASSUME NEW n \in MinInt .. MaxInt
  PROVE  /\ Abs(n) <= 2 ^ Precision => Again(Integer(n)) = Integer(n)
         /\ n = Overflowed \/ Rounded(2 * n) = 2 * n => Again(Integer(n)) = Integer(n)
<1>1. n \in Int /\ MinInt <= n /\ n <= MaxInt
  BY IntegerTypes
<1>2. PICK h \in Int : h = 2 * n /\ h % 2 = 0 /\ h \div 2 = n
  BY <1>1
<1>3. Again(Integer(n)) = FromGenericScalar(Number(h))
  BY <1>2 DEF Again, WrittenScalar, Integer
<1>4. FromGenericScalar(Number(h)) =
        IF FitsInteger(Rounded(h)) THEN Integer(Cast(Rounded(h) \div 2)) ELSE Number(Rounded(h))
  BY DEF FromGenericScalar, Number
<1>5. ASSUME Rounded(h) = h, h <= Rounded(2 * MaxInt) PROVE Again(Integer(n)) = Integer(n)
  <2>1. Rounded(2 * MinInt) <= h
    BY <1>1, <1>2, IntegerTypes
  <2>2. FitsInteger(h)
    BY <1>2, <1>5, <2>1 DEF FitsInteger
  <2> QED BY <1>2, <1>3, <1>4, <1>5, <2>2 DEF Cast
<1>6. ASSUME Abs(n) <= 2 ^ Precision PROVE Again(Integer(n)) = Integer(n)
  <2>1. Rounded(h) = h
    BY <1>1, <1>2, <1>6, JsonAssumption, NearestOfInteger DEF Rounded
  <2>2. n <= 2 ^ Precision
    <3>1. PICK P \in Nat : P = 2 ^ Precision
      BY JsonAssumption, Powers
    <3> QED BY <1>1, <1>6, <3>1 DEF Abs
  <2>3. h <= Rounded(2 * MaxInt)
    BY <1>2, <2>2, IntegerTypes
  <2> QED BY <1>5, <2>1, <2>3
<1>7. ASSUME Rounded(h) = h PROVE Again(Integer(n)) = Integer(n)
  <2>1. h <= Rounded(2 * MaxInt)
    BY <1>1, <1>2, IntegerTypes
  <2> QED BY <1>5, <1>7, <2>1
<1>8. ASSUME n = MaxInt, Rounded(h) # h, n = Overflowed PROVE Again(Integer(n)) = Integer(n)
  <2>1. PICK d \in Int : d = Rounded(h) /\ d = 2 * MaxInt + 2
    BY <1>2, <1>8, IntegerTypes
  <2>2. d % 2 = 0 /\ d \div 2 = MaxInt + 1
    BY <2>1, IntegerTypes
  <2>3. FitsInteger(d)
    BY <1>2, <1>8, <2>1, <2>2, IntegerTypes DEF FitsInteger
  <2>4. Cast(d \div 2) = Overflowed
    BY <2>2, IntegerTypes DEF Cast
  <2> QED BY <1>3, <1>4, <1>8, <2>1, <2>3, <2>4
<1>9. ASSUME n = Overflowed PROVE Again(Integer(n)) = Integer(n)
  <2>1. n = MinInt => Rounded(h) = h
    BY <1>2, IntegerTypes
  <2> QED BY <1>7, <1>8, <1>9, <2>1, IntegerTypes
<1> QED BY <1>2, <1>6, <1>7, <1>9

\* What is parsed is finite, and changes no more
LEMMA ParsedAgain ==
  ASSUME NEW j, ScalarText(j)
  PROVE  Again(FromGenericScalar(j)) = FromGenericScalar(j) /\ FromGenericScalar(j) # Infinite
<1>1. CASE j.kind # "number"
  <2>1. FromGenericScalar(j) = j
    BY <1>1 DEF FromGenericScalar
  <2>2. j.kind \in {"null", "boolean", "string"}
    BY <1>1 DEF ScalarText, NullValue, Boolean, String
  <2>3. WrittenScalar(j) = j /\ j # Infinite
    BY <2>2 DEF WrittenScalar, Infinite
  <2> QED BY <2>1, <2>3 DEF Again
<1>2. CASE j.kind = "number"
  <2>1. PICK h \in Int : j = Number(h)
    BY <1>2 DEF ScalarText, NullValue, Boolean, String
  <2>2. PICK d \in Int : d = Rounded(h) /\ Rounded(d) = d
    BY JsonAssumption, NearestTwice DEF Rounded
  <2>3. FromGenericScalar(j) = IF FitsInteger(d) THEN Integer(Cast(d \div 2)) ELSE Number(d)
    BY <2>1, <2>2 DEF FromGenericScalar, Number
  <2>4. CASE ~ FitsInteger(d)
    <3>1. Again(Number(d)) = Number(d)
      BY <2>2, <2>4 DEF Again, WrittenScalar, FromGenericScalar, Number
    <3> QED BY <2>3, <2>4, <3>1 DEF Number, Infinite
  <2>5. CASE FitsInteger(d)
    <3>1. d % 2 = 0 /\ Rounded(2 * MinInt) <= d /\ d <= Rounded(2 * MaxInt)
      BY <2>5 DEF FitsInteger
    <3>2. PICK n \in Int : n = d \div 2 /\ 2 * n = d
      BY <3>1
    <3>3. CASE n \in MinInt .. MaxInt
      <4>1. Again(Integer(n)) = Integer(n)
        BY <2>2, <3>2, <3>3, IntegerAgain
      <4> QED BY <2>3, <2>5, <3>2, <3>3, <4>1 DEF Cast, Integer, Infinite
    <3>4. CASE n \notin MinInt .. MaxInt
      <4>1. Overflowed \in MinInt .. MaxInt
        BY IntegerTypes
      <4>2. Again(Integer(Overflowed)) = Integer(Overflowed)
        BY <4>1, IntegerAgain
      <4> QED BY <2>3, <2>5, <3>2, <3>4, <4>2 DEF Cast, Integer, Infinite
    <3> QED BY <3>3, <3>4
  <2> QED BY <2>4, <2>5
<1> QED BY <1>1, <1>2

\* Values that text keeps
LEMMA KeptAgain ==
  ASSUME NEW j, ScalarValue(j), Kept(j)
  PROVE  Again(j) = j /\ j # Infinite
<1>1. j # Infinite /\ j.kind # "infinite"
  <2>1. CASE j.kind = "infinite"
    <3>1. ~ Kept(j)
      BY <2>1 DEF Kept
    <3> QED BY <3>1
  <2>2. CASE j = Infinite
    <3>1. j.kind = "infinite"
      BY <2>2 DEF Infinite
    <3> QED BY <2>1, <3>1
  <2> QED BY <2>1, <2>2
<1>2. CASE j.kind = "integer"
  <2>1. PICK n \in MinInt .. MaxInt : j = Integer(n) /\ n = j.integer
    BY <1>1, <1>2 DEF ScalarValue, ScalarText, NullValue, Boolean, Number, String
  <2>2. Abs(n) <= 2 ^ Precision
    BY <1>2, <2>1 DEF Kept
  <2> QED BY <1>1, <2>1, <2>2, IntegerAgain
<1>3. CASE j.kind = "number"
  <2>1. PICK h \in Int : j = Number(h) /\ h = j.halves
    BY <1>1, <1>3 DEF ScalarValue, ScalarText, NullValue, Boolean, Integer, String
  <2>2. Rounded(h) = h /\ h % 2 = 1
    BY <1>3, <2>1 DEF Kept
  <2>3. ~ FitsInteger(h)
    BY <2>2 DEF FitsInteger
  <2> QED BY <1>1, <2>1, <2>2, <2>3 DEF Again, WrittenScalar, FromGenericScalar, Number
<1>4. CASE j.kind \notin {"integer", "number"}
  BY <1>1, <1>4 DEF Again, WrittenScalar, FromGenericScalar
<1> QED BY <1>2, <1>3, <1>4

(***************************************************************************)
(* Inputs of calls: what is written is text, and what is parsed from it is *)
(* the input again unless text changes a number.                           *)
(***************************************************************************)

\* Writing and parsing go into objects and arrays, member by member
LEMMA Rewriting ==
  ASSUME NEW j
  PROVE  /\ j.kind = "object" =>
              FromGeneric(Written(j)) = Object([key \in DOMAIN j.members |-> Again(j.members[key])])
         /\ j.kind = "array" =>
              FromGeneric(Written(j)) = Array([k \in DOMAIN j.elems |-> Again(j.elems[k])])
         /\ j.kind \notin {"object", "array"} => FromGeneric(Written(j)) = Again(j)
<1>1. CASE j.kind = "object"
  <2>1. PICK members : members = [key \in DOMAIN j.members |-> WrittenScalar(j.members[key])]
    OBVIOUS
  <2>2. Written(j) = [kind |-> "object", members |-> members]
    BY <1>1, <2>1 DEF Written, Leafwise, Object
  <2>3. FromGeneric(Written(j)) = Object([key \in DOMAIN members |-> FromGenericScalar(members[key])])
    BY <2>2 DEF FromGeneric, Leafwise
  <2>4. [key \in DOMAIN members |-> FromGenericScalar(members[key])]
          = [key \in DOMAIN j.members |-> Again(j.members[key])]
    BY <2>1 DEF Again
  <2> QED BY <1>1, <2>3, <2>4
<1>2. CASE j.kind = "array"
  <2>1. PICK elems : elems = [k \in DOMAIN j.elems |-> WrittenScalar(j.elems[k])]
    OBVIOUS
  <2>2. Written(j) = [kind |-> "array", elems |-> elems]
    BY <1>2, <2>1 DEF Written, Leafwise, Array
  <2>3. FromGeneric(Written(j)) = Array([k \in DOMAIN elems |-> FromGenericScalar(elems[k])])
    BY <2>2 DEF FromGeneric, Leafwise
  <2>4. [k \in DOMAIN elems |-> FromGenericScalar(elems[k])]
          = [k \in DOMAIN j.elems |-> Again(j.elems[k])]
    BY <2>1 DEF Again
  <2> QED BY <1>2, <2>3, <2>4
<1>3. CASE j.kind \notin {"object", "array"}
  <2>1. Written(j) = WrittenScalar(j)
    BY <1>3 DEF Written, Leafwise
  <2>2. WrittenScalar(j).kind \notin {"object", "array"}
    BY <1>3 DEF WrittenScalar, Number
  <2> QED BY <1>3, <2>1, <2>2 DEF FromGeneric, Leafwise, Again
<1> QED BY <1>1, <1>2, <1>3

\* Saved and restored as it is
Stable(input) == FromGeneric(Written(input)) = input /\ Infinite \notin Leaves(input)

\* What a value is made of
LEMMA ValueParts ==
  ASSUME NEW j, JsonValue(j)
  PROVE  /\ j.kind = "object" => /\ j = Object([key \in DOMAIN j.members |-> j.members[key]])
                                 /\ \A key \in DOMAIN j.members : ScalarValue(j.members[key])
         /\ j.kind = "array" => /\ j = Array([k \in DOMAIN j.elems |-> j.elems[k]])
                                /\ Len(j.elems) \in Nat /\ DOMAIN j.elems = 1..Len(j.elems)
                                /\ \A k \in DOMAIN j.elems : ScalarValue(j.elems[k])
         /\ j.kind \notin {"object", "array"} => ScalarValue(j)
<1>1. ASSUME ScalarValue(j) PROVE j.kind \notin {"object", "array"}
  BY <1>1 DEF ScalarValue, ScalarText, NullValue, Boolean, Number, String, Integer, Infinite
<1>2. j.kind = "object" => /\ j = Object([key \in DOMAIN j.members |-> j.members[key]])
                           /\ \A key \in DOMAIN j.members : ScalarValue(j.members[key])
  BY <1>1 DEF JsonValue, Shallow
<1>3. CASE j.kind = "array"
  <2>1. PICK elems : elems = [k \in 1..Len(j.elems) |-> j.elems[k]]
    OBVIOUS
  <2>2. /\ j = [kind |-> "array", elems |-> elems] /\ Len(j.elems) \in Nat
        /\ \A k \in DOMAIN j.elems : ScalarValue(j.elems[k])
    BY <1>1, <1>3, <2>1 DEF JsonValue, Shallow, Array
  <2>3. j.elems = elems
    BY <2>2
  <2>4. elems = [k \in DOMAIN elems |-> elems[k]] /\ DOMAIN elems = 1..Len(j.elems)
    BY <2>1
  <2> QED BY <1>3, <2>2, <2>3, <2>4 DEF Array
<1>4. j.kind \notin {"object", "array"} => ScalarValue(j)
  BY DEF JsonValue, Shallow
<1> QED BY <1>2, <1>3, <1>4

\* Values that text keeps are stable
LEMMA KeptStable ==
  ASSUME NEW input, JsonValue(input), \A j \in Leaves(input) : Kept(j)
  PROVE  Stable(input)
<1>1. CASE input.kind = "object"
  <2>1. \A key \in DOMAIN input.members : input.members[key] \in Leaves(input)
    BY <1>1 DEF Leaves
  <2>2. \A key \in DOMAIN input.members :
          Again(input.members[key]) = input.members[key] /\ input.members[key] # Infinite
    BY <1>1, <2>1, ValueParts, KeptAgain
  <2>3. FromGeneric(Written(input)) = Object([key \in DOMAIN input.members |-> Again(input.members[key])])
    BY <1>1, Rewriting
  <2>4. [key \in DOMAIN input.members |-> Again(input.members[key])]
          = [key \in DOMAIN input.members |-> input.members[key]]
    BY <2>2
  <2>5. input = Object([key \in DOMAIN input.members |-> input.members[key]])
    BY <1>1, ValueParts
  <2>6. Infinite \notin Leaves(input)
    BY <1>1, <2>2 DEF Leaves
  <2> QED BY <2>3, <2>4, <2>5, <2>6 DEF Stable
<1>2. CASE input.kind = "array"
  <2>1. \A k \in DOMAIN input.elems : input.elems[k] \in Leaves(input)
    BY <1>2 DEF Leaves
  <2>2. \A k \in DOMAIN input.elems : Again(input.elems[k]) = input.elems[k] /\ input.elems[k] # Infinite
    BY <1>2, <2>1, ValueParts, KeptAgain
  <2>3. FromGeneric(Written(input)) = Array([k \in DOMAIN input.elems |-> Again(input.elems[k])])
    BY <1>2, Rewriting
  <2>4. [k \in DOMAIN input.elems |-> Again(input.elems[k])] = [k \in DOMAIN input.elems |-> input.elems[k]]
    BY <2>2
  <2>5. input = Array([k \in DOMAIN input.elems |-> input.elems[k]])
    BY <1>2, ValueParts
  <2>6. Infinite \notin Leaves(input)
    BY <1>2, <2>2 DEF Leaves
  <2> QED BY <2>3, <2>4, <2>5, <2>6 DEF Stable
<1>3. CASE input.kind \notin {"object", "array"}
  <2>1. Leaves(input) = {input}
    BY <1>3 DEF Leaves
  <2>2. Again(input) = input /\ input # Infinite
    BY <1>3, <2>1, ValueParts, KeptAgain
  <2> QED BY <1>3, <2>1, <2>2, Rewriting DEF Stable
<1> QED BY <1>1, <1>2, <1>3

\* What a text is made of
LEMMA TextParts ==
  ASSUME NEW j, JsonText(j)
  PROVE  /\ j.kind = "object" => \A key \in DOMAIN j.members : ScalarText(j.members[key])
         /\ j.kind = "array" => \A k \in DOMAIN j.elems : ScalarText(j.elems[k])
         /\ j.kind \notin {"object", "array"} => ScalarText(j)
<1>1. ASSUME ScalarText(j) PROVE j.kind \notin {"object", "array"}
  BY <1>1 DEF ScalarText, NullValue, Boolean, Number, String
<1> QED BY <1>1 DEF JsonText, Shallow

\* What was parsed from text is stable, its numbers once rounded
LEMMA ParsedStable ==
  ASSUME NEW j, JsonText(j)
  PROVE  Stable(FromGeneric(j))
<1>1. CASE j.kind = "object"
  <2>1. PICK members : members = [key \in DOMAIN j.members |-> FromGenericScalar(j.members[key])]
    OBVIOUS
  <2>2. PICK input : input = FromGeneric(j) /\ input = [kind |-> "object", members |-> members]
    BY <1>1, <2>1 DEF FromGeneric, Leafwise, Object
  <2>3. \A key \in DOMAIN members : Again(members[key]) = members[key] /\ members[key] # Infinite
    <3>1. \A key \in DOMAIN j.members : ScalarText(j.members[key])
      BY <1>1, TextParts
    <3>2. \A key \in DOMAIN j.members : LET value == FromGenericScalar(j.members[key])
                                        IN  Again(value) = value /\ value # Infinite
      BY <3>1, ParsedAgain
    <3> QED BY <2>1, <3>2
  <2>4. FromGeneric(Written(input)) = Object([key \in DOMAIN members |-> Again(members[key])])
    BY <2>2, Rewriting
  <2>5. [key \in DOMAIN members |-> Again(members[key])] = members
    BY <2>1, <2>3
  <2>6. Infinite \notin Leaves(input)
    BY <2>2, <2>3 DEF Leaves
  <2> QED BY <2>2, <2>4, <2>5, <2>6 DEF Stable, Object
<1>2. CASE j.kind = "array"
  <2>1. PICK elems : elems = [k \in DOMAIN j.elems |-> FromGenericScalar(j.elems[k])]
    OBVIOUS
  <2>2. PICK input : input = FromGeneric(j) /\ input = [kind |-> "array", elems |-> elems]
    BY <1>2, <2>1 DEF FromGeneric, Leafwise, Array
  <2>3. \A k \in DOMAIN elems : Again(elems[k]) = elems[k] /\ elems[k] # Infinite
    <3>1. \A k \in DOMAIN j.elems : ScalarText(j.elems[k])
      BY <1>2, TextParts
    <3>2. \A k \in DOMAIN j.elems : LET value == FromGenericScalar(j.elems[k])
                                    IN  Again(value) = value /\ value # Infinite
      BY <3>1, ParsedAgain
    <3> QED BY <2>1, <3>2
  <2>4. FromGeneric(Written(input)) = Array([k \in DOMAIN elems |-> Again(elems[k])])
    BY <2>2, Rewriting
  <2>5. [k \in DOMAIN elems |-> Again(elems[k])] = elems
    BY <2>1, <2>3
  <2>6. Infinite \notin Leaves(input)
    BY <2>2, <2>3 DEF Leaves
  <2> QED BY <2>2, <2>4, <2>5, <2>6 DEF Stable, Array
<1>3. CASE j.kind \notin {"object", "array"}
  <2>1. FromGeneric(j) = FromGenericScalar(j)
    BY <1>3 DEF FromGeneric, Leafwise
  <2>2. PICK input : input = FromGeneric(j) /\ Again(input) = input /\ input # Infinite
    BY <1>3, <2>1, TextParts, ParsedAgain
  <2>3. input.kind \notin {"object", "array"}
    BY <1>3, <2>1, <2>2 DEF FromGenericScalar, Integer, Number
  <2> QED BY <2>2, <2>3, Rewriting DEF Stable, Leaves
<1> QED BY <1>1, <1>2, <1>3

\* A value that is finite is written as a text
LEMMA ScalarWritten ==
  ASSUME NEW j, ScalarValue(j), j # Infinite
  PROVE  ScalarText(WrittenScalar(j))
<1>1. CASE j.kind = "integer"
  <2>1. j.integer \in Int
    BY <1>1, IntegerTypes DEF ScalarValue, ScalarText, NullValue, Boolean, Number, String
  <2>2. PICK h \in Int : h = 2 * j.integer
    BY <2>1
  <2>3. WrittenScalar(j) = [kind |-> "number", halves |-> h]
    BY <1>1, <2>2 DEF WrittenScalar, Number
  <2> QED BY <2>3 DEF ScalarText, Number
<1>2. CASE j.kind # "integer"
  BY <1>2 DEF WrittenScalar, ScalarValue
<1> QED BY <1>1, <1>2

LEMMA WrittenText ==
  ASSUME NEW input, JsonValue(input), Infinite \notin Leaves(input)
  PROVE  JsonText(Written(input))
<1>1. CASE input.kind = "object"
  <2>1. PICK members : members = [key \in DOMAIN input.members |-> WrittenScalar(input.members[key])]
    OBVIOUS
  <2>2. PICK j : j = Written(input) /\ j = [kind |-> "object", members |-> members]
    BY <1>1, <2>1 DEF Written, Leafwise, Object
  <2>3. \A key \in DOMAIN members : ScalarText(members[key])
    <3>1. \A key \in DOMAIN input.members :
            ScalarValue(input.members[key]) /\ input.members[key] # Infinite
      BY <1>1, ValueParts DEF Leaves
    <3> QED BY <2>1, <3>1, ScalarWritten
  <2>4. members = [key \in DOMAIN members |-> members[key]]
    BY <2>1
  <2>5. j = Object([key \in DOMAIN j.members |-> j.members[key]])
    BY <2>2, <2>4 DEF Object
  <2>6. j.kind = "object" /\ j.members = members
    BY <2>2
  <2> QED BY <2>2, <2>3, <2>5, <2>6 DEF JsonText, Shallow
<1>2. CASE input.kind = "array"
  <2>1. PICK n \in Nat : n = Len(input.elems) /\ DOMAIN input.elems = 1..n
    BY <1>2, ValueParts
  <2>2. PICK elems : elems = [k \in 1..n |-> WrittenScalar(input.elems[k])]
    OBVIOUS
  <2>3. PICK j : j = Written(input) /\ j = [kind |-> "array", elems |-> elems]
    BY <1>2, <2>1, <2>2 DEF Written, Leafwise, Array
  <2>4. \A k \in DOMAIN elems : ScalarText(elems[k])
    <3>1. \A k \in 1..n : ScalarValue(input.elems[k]) /\ input.elems[k] # Infinite
      BY <1>2, <2>1, ValueParts DEF Leaves
    <3> QED BY <2>2, <3>1, ScalarWritten
  <2>5. Len(elems) = n /\ elems = [k \in 1..Len(elems) |-> elems[k]]
    <3>1. elems \in Seq({elems[k] : k \in 1..n}) /\ DOMAIN elems = 1..n
      BY <2>2
    <3>2. Len(elems) = n
      BY <3>1
    <3> QED BY <2>2, <3>2
  <2>6. j.kind = "array" /\ j.elems = elems
    BY <2>3
  <2>7. j = Array([k \in 1..Len(j.elems) |-> j.elems[k]]) /\ Len(j.elems) \in Nat
    BY <2>3, <2>5, <2>6 DEF Array
  <2> QED BY <2>3, <2>4, <2>6, <2>7 DEF JsonText, Shallow
<1>3. CASE input.kind \notin {"object", "array"}
  <2>1. ScalarText(WrittenScalar(input))
    BY <1>3, ValueParts, ScalarWritten DEF Leaves
  <2>2. Written(input) = WrittenScalar(input)
    BY <1>3 DEF Written, Leafwise
  <2> QED BY <2>1, <2>2 DEF JsonText, Shallow
<1> QED BY <1>1, <1>2, <1>3

(***************************************************************************)
(* Blocks.                                                                 *)
(***************************************************************************)
FiniteBlock(block) == block.type = "tool_use" => Infinite \notin Leaves(block.input)
StableBlock(block) == block.type = "tool_use" => Stable(block.input)

\* A block that is written is text, is readable, and is read as it was unless
\* text changes its input
LEMMA BlockRound ==
  ASSUME NEW block \in ContentBlock, FiniteBlock(block)
  PROVE  /\ BlockReadable(BlockToJson(block)) /\ BlockText(BlockToJson(block))
         /\ StableBlock(block) => BlockFromJson(BlockToJson(block)) = block
<1>1. CASE block \in TextBlocks
  <2>1. PICK t \in Texts : block = [type |-> "text", text |-> t]
    BY <1>1 DEF TextBlocks
  <2>2. PICK j : j = BlockToJson(block)
    OBVIOUS
  <2>3. j = Object([type |-> String("text"), text |-> String(t)])
    BY <2>1, <2>2 DEF BlockToJson
  <2>4. /\ \A key : HasMember(j, key) <=> key \in {"type", "text"}
        /\ At(j, "type") = String("text") /\ At(j, "text") = String(t)
    BY <2>3 DEF Object, HasMember, At
  <2>5. String(t).kind = "string" /\ String(t).string = t /\ String("text").kind = "string"
    BY DEF String
  <2>6. BlockReadable(j) /\ BlockText(j)
    BY <2>4, <2>5 DEF BlockReadable, BlockText, StringIn, Is
  <2>7. BlockFromJson(j) = TextBlock(t)
    BY <2>4, <2>5 DEF BlockFromJson, String
  <2> QED BY <2>1, <2>2, <2>6, <2>7 DEF TextBlock
<1>2. CASE block \in ToolUseBlocks
  <2>1. PICK id \in CallIds, name \in ToolNames, input \in Inputs :
          block = [type |-> "tool_use", id |-> id, name |-> name, input |-> input]
    BY <1>2 DEF ToolUseBlocks
  <2>2. PICK j : j = BlockToJson(block)
    OBVIOUS
  <2>3. j = Object([type |-> String("tool_use"), id |-> String(id), name |-> String(name),
                    input |-> Written(input)])
    BY <2>1, <2>2 DEF BlockToJson
  <2>4. /\ \A key : HasMember(j, key) <=> key \in {"type", "id", "name", "input"}
        /\ At(j, "type") = String("tool_use") /\ At(j, "id") = String(id)
        /\ At(j, "name") = String(name) /\ At(j, "input") = Written(input)
    BY <2>3 DEF Object, HasMember, At
  <2>5. \A s : String(s).kind = "string" /\ String(s).string = s
    BY DEF String
  <2>6. JsonText(Written(input)) /\ FromGeneric(Written(input)) \in Inputs
    BY <2>1, StorageAssumption, WrittenText DEF FiniteBlock
  <2>7. BlockReadable(j)
    BY <2>4, <2>5 DEF BlockReadable, Is
  <2>8. BlockText(j)
    BY <2>4, <2>5, <2>6 DEF BlockText, StringIn, Is
  <2>9. BlockFromJson(j) = ToolUseBlock(id, name, FromGeneric(Written(input)))
    BY <2>4, <2>5 DEF BlockFromJson, String
  <2>10. StableBlock(block) => FromGeneric(Written(input)) = input
    BY <2>1 DEF StableBlock, Stable
  <2> QED BY <2>1, <2>2, <2>7, <2>8, <2>9, <2>10 DEF ToolUseBlock
<1>3. CASE block \in ToolResultBlocks
  <2>1. PICK id \in CallIds, failed \in BOOLEAN :
          block = [type |-> "tool_result", tool_use_id |-> id, is_error |-> failed]
    BY <1>3 DEF ToolResultBlocks
  <2>2. PICK j : j = BlockToJson(block)
    OBVIOUS
  <2>3. j = Object([type |-> String("tool_result"), tool_use_id |-> String(id),
                    content |-> ResultContent, is_error |-> Boolean(failed)])
    BY <2>1, <2>2 DEF BlockToJson
  <2>4. /\ \A key : HasMember(j, key) <=> key \in {"type", "tool_use_id", "content", "is_error"}
        /\ At(j, "type") = String("tool_result") /\ At(j, "tool_use_id") = String(id)
        /\ At(j, "content") = ResultContent /\ At(j, "is_error") = Boolean(failed)
    BY <2>3 DEF Object, HasMember, At
  <2>5. /\ String(id).kind = "string" /\ String(id).string = id
        /\ String("tool_result").kind = "string" /\ ResultContent.kind = "string"
        /\ Boolean(failed).kind = "boolean" /\ Boolean(failed).boolean = failed
    BY DEF String, Boolean, ResultContent
  <2>6. BlockReadable(j) /\ BlockText(j)
    BY <2>4, <2>5 DEF BlockReadable, BlockText, StringIn, Is
  <2>7. BlockFromJson(j) =
          ToolResultBlock(id, HasMember(j, "is_error") /\ At(j, "is_error").boolean)
    BY <2>4, <2>5 DEF BlockFromJson, String
  <2>8. (HasMember(j, "is_error") /\ At(j, "is_error").boolean) = failed
    BY <2>4, <2>5
  <2> QED BY <2>1, <2>2, <2>6, <2>7, <2>8 DEF ToolResultBlock
<1> QED BY <1>1, <1>2, <1>3 DEF ContentBlock

\* A block that is read is one of the library's, and its input stable
LEMMA BlockRead ==
  ASSUME NEW j, BlockReadable(j), BlockText(j)
  PROVE  BlockFromJson(j) \in ContentBlock /\ StableBlock(BlockFromJson(j))
<1>1. CASE At(j, "type") = String("text") /\ Is("string", j, "text")
  <2>1. PICK t \in Texts : t = At(j, "text").string
    BY <1>1 DEF BlockText, StringIn
  <2>2. BlockFromJson(j) = [type |-> "text", text |-> t]
    BY <1>1, <2>1 DEF BlockFromJson, String, TextBlock
  <2> QED BY <2>2 DEF ContentBlock, TextBlocks, StableBlock
<1>2. CASE /\ At(j, "type") = String("tool_use")
           /\ Is("string", j, "id") /\ Is("string", j, "name") /\ HasMember(j, "input")
  <2>1. PICK id \in CallIds, name \in ToolNames : id = At(j, "id").string /\ name = At(j, "name").string
    BY <1>2 DEF BlockText, StringIn
  <2>2. PICK input \in Inputs : input = FromGeneric(At(j, "input")) /\ Stable(input)
    BY <1>2, ParsedStable DEF BlockText
  <2>3. BlockFromJson(j) = [type |-> "tool_use", id |-> id, name |-> name, input |-> input]
    BY <1>2, <2>1, <2>2 DEF BlockFromJson, String, ToolUseBlock
  <2> QED BY <2>2, <2>3 DEF ContentBlock, ToolUseBlocks, StableBlock
<1>3. CASE /\ At(j, "type") = String("tool_result")
           /\ Is("string", j, "tool_use_id")
           /\ HasMember(j, "is_error") => Is("boolean", j, "is_error")
  <2>1. PICK id \in CallIds : id = At(j, "tool_use_id").string
    BY <1>3 DEF BlockText, StringIn
  <2>2. PICK failed \in BOOLEAN : failed = (HasMember(j, "is_error") /\ At(j, "is_error").boolean)
    OBVIOUS
  <2>3. BlockFromJson(j) = [type |-> "tool_result", tool_use_id |-> id, is_error |-> failed]
    BY <1>3, <2>1, <2>2 DEF BlockFromJson, String, ToolResultBlock
  <2> QED BY <2>3 DEF ContentBlock, ToolResultBlocks, StableBlock
<1> QED BY <1>1, <1>2, <1>3 DEF BlockReadable

(***************************************************************************)
(* Messages.                                                               *)
(***************************************************************************)
LEMMA MessageParts ==
  ASSUME NEW message \in Message
  PROVE  /\ message = [role |-> message.role, content |-> message.content]
         /\ message.role \in Roles /\ message.content \in Seq(ContentBlock)
         /\ Len(message.content) \in Nat /\ DOMAIN message.content = 1..Len(message.content)
         /\ \A k \in DOMAIN message.content : message.content[k] \in ContentBlock
<1>1. message \in [role : Roles, content : Seq(ContentBlock)]
  BY DEF Message
<1> QED BY <1>1

LEMMA MessageRound ==
  ASSUME NEW message \in Message,
         \A k \in DOMAIN message.content : FiniteBlock(message.content[k])
  PROVE  /\ MessageReadable(MessageToJson(message)) /\ MessageText(MessageToJson(message))
         /\ (\A k \in DOMAIN message.content : StableBlock(message.content[k]))
              => MessageFromJson(MessageToJson(message)) = message
<1>1. PICK n \in Nat, role \in Roles, content \in Seq(ContentBlock) :
        /\ n = Len(content) /\ role = message.role /\ content = message.content
        /\ message = [role |-> role, content |-> content] /\ DOMAIN content = 1..n
        /\ \A k \in 1..n : content[k] \in ContentBlock
  BY MessageParts
<1>2. PICK elems : elems = [k \in 1..n |-> BlockToJson(content[k])]
  OBVIOUS
<1>3. PICK j : j = MessageToJson(message)
  OBVIOUS
<1>4. j = Object([role |-> String(role), content |-> Array(elems)])
  BY <1>1, <1>2, <1>3 DEF MessageToJson
<1>5. /\ HasMember(j, "role") /\ HasMember(j, "content")
      /\ At(j, "role") = String(role) /\ At(j, "content") = Array(elems)
  BY <1>4 DEF Object, HasMember, At
<1>6. Array(elems).kind = "array" /\ Array(elems).elems = elems /\ String(role).string = role
  BY DEF Array, String
<1>7. Len(elems) = n /\ elems = [i \in 1..Len(elems) |-> elems[i]]
  <2>1. elems \in Seq({elems[k] : k \in 1..n}) /\ DOMAIN elems = 1..n
    BY <1>2
  <2>2. Len(elems) = n
    BY <2>1
  <2> QED BY <1>2, <2>2
<1>8. \A k \in 1..n : /\ BlockReadable(elems[k]) /\ BlockText(elems[k])
                      /\ StableBlock(content[k]) => BlockFromJson(elems[k]) = content[k]
  BY <1>1, <1>2, BlockRound
<1>9. DOMAIN elems = 1..n
  BY <1>2
<1>10. MessageReadable(j)
  BY <1>5, <1>6, <1>8, <1>9 DEF MessageReadable, RoleReadable, Is
<1>11. MessageText(j)
  BY <1>5, <1>6, <1>7, <1>8, <1>9 DEF MessageText, ListAt
<1>12. MessageFromJson(j) = [role |-> role, content |-> [k \in 1..n |-> BlockFromJson(elems[k])]]
  BY <1>5, <1>6, <1>9 DEF MessageFromJson
<1>13. ASSUME \A k \in DOMAIN message.content : StableBlock(message.content[k])
       PROVE  MessageFromJson(j) = message
  <2>1. [k \in 1..n |-> BlockFromJson(elems[k])] = [k \in 1..n |-> content[k]]
    BY <1>1, <1>8, <1>13
  <2>2. content = [k \in 1..n |-> content[k]]
    BY <1>1
  <2> QED BY <1>1, <1>12, <2>1, <2>2
<1> QED BY <1>3, <1>10, <1>11, <1>13

LEMMA MessageRead ==
  ASSUME NEW j, MessageReadable(j), MessageText(j)
  PROVE  /\ MessageFromJson(j) \in Message
         /\ \A k \in DOMAIN MessageFromJson(j).content : StableBlock(MessageFromJson(j).content[k])
<1>1. PICK elems : elems = At(j, "content").elems
  OBVIOUS
<1>2. /\ Len(elems) \in Nat /\ elems = [i \in 1..Len(elems) |-> elems[i]]
      /\ \A k \in DOMAIN elems : BlockReadable(elems[k]) /\ BlockText(elems[k])
  BY <1>1 DEF MessageReadable, MessageText, ListAt
<1>3. PICK n \in Nat : n = Len(elems) /\ DOMAIN elems = 1..n
  BY <1>2
<1>4. PICK content : content = [k \in 1..n |-> BlockFromJson(elems[k])]
  OBVIOUS
<1>5. \A k \in 1..n : content[k] \in ContentBlock /\ StableBlock(content[k])
  BY <1>2, <1>3, <1>4, BlockRead
<1>6. content \in Seq(ContentBlock) /\ DOMAIN content = 1..n
  BY <1>4, <1>5
<1>7. PICK role \in Roles : role = At(j, "role").string
  BY DEF MessageReadable, RoleReadable, String
<1>8. MessageFromJson(j) = [role |-> role, content |-> content]
  BY <1>1, <1>3, <1>4, <1>7 DEF MessageFromJson
<1>9. MessageFromJson(j).content = content
  BY <1>8
<1> QED BY <1>5, <1>6, <1>8, <1>9 DEF Message

(***************************************************************************)
(* Conversations.                                                          *)
(***************************************************************************)
StableConversation(conv) == \A input \in InputsOf(conv) : Stable(input)

LEMMA ConversationParts ==
  ASSUME NEW conv \in Conversation
  PROVE  /\ conv = [system_prompt |-> conv.system_prompt, messages |-> conv.messages]
         /\ conv.system_prompt \in Prompts \cup {NoPrompt} /\ conv.messages \in Seq(Message)
         /\ Len(conv.messages) \in Nat /\ DOMAIN conv.messages = 1..Len(conv.messages)
         /\ \A i \in DOMAIN conv.messages : conv.messages[i] \in Message
<1>1. conv \in [system_prompt : Prompts \cup {NoPrompt}, messages : Seq(Message)]
  BY DEF Conversation
<1> QED BY <1>1

\* The inputs of a conversation are those of its blocks
LEMMA InputsInBlocks ==
  ASSUME NEW conv, NEW input
  PROVE  input \in InputsOf(conv) <=>
           \E i \in DOMAIN conv.messages : \E k \in DOMAIN conv.messages[i].content :
              /\ conv.messages[i].content[k].type = "tool_use"
              /\ input = conv.messages[i].content[k].input
BY DEF InputsOf, UseIndexes

LEMMA InputsAreInputs ==
  ASSUME NEW conv \in Conversation
  PROVE  InputsOf(conv) \subseteq Inputs
<1> SUFFICES ASSUME NEW input \in InputsOf(conv) PROVE input \in Inputs
  OBVIOUS
<1>1. PICK i \in DOMAIN conv.messages : \E k \in DOMAIN conv.messages[i].content :
         /\ conv.messages[i].content[k].type = "tool_use"
         /\ input = conv.messages[i].content[k].input
  BY InputsInBlocks
<1>2. PICK k \in DOMAIN conv.messages[i].content :
         /\ conv.messages[i].content[k].type = "tool_use"
         /\ input = conv.messages[i].content[k].input
  BY <1>1
<1>3. PICK block \in ContentBlock : block.type = "tool_use" /\ input = block.input
  BY <1>2, ConversationParts, MessageParts
<1>4. block \in ToolUseBlocks
  BY <1>3 DEF ContentBlock, TextBlocks, ToolResultBlocks
<1> QED BY <1>3, <1>4 DEF ToolUseBlocks

\* What was read before the first message that is not readable
LEMMA MessagesRead ==
  ASSUME NEW j, ConversationText(j)
  PROVE  /\ ReadableMessages(j) \in Seq(Message)
         /\ \A i \in DOMAIN ReadableMessages(j) :
              \A k \in DOMAIN ReadableMessages(j)[i].content :
                 StableBlock(ReadableMessages(j)[i].content[k])
<1>1. CASE ~ Is("array", j, "messages")
  BY <1>1 DEF ReadableMessages
<1>2. CASE Is("array", j, "messages")
  <2>1. PICK elems : elems = At(j, "messages").elems
    OBVIOUS
  <2>2. /\ Len(elems) \in Nat /\ elems = [i \in 1..Len(elems) |-> elems[i]]
        /\ \A i \in DOMAIN elems : MessageText(elems[i])
    BY <1>2, <2>1 DEF ConversationText, ListAt
  <2>3. PICK n \in Nat : n = Len(elems) /\ DOMAIN elems = 1..n
    BY <2>2
  <2>4. PICK read : read = {i \in 1..n : \A k \in 1..i : MessageReadable(elems[k])}
    OBVIOUS
  <2>5. read \in SUBSET (1..n) /\ \A i \in read : \A k \in 1..i : k \in read
    BY <2>3, <2>4
  <2>6. PICK m \in Nat : read = 1..m
    BY <2>3, <2>5, Beginning
  <2>7. PICK messages : messages = [i \in 1..m |-> MessageFromJson(elems[i])]
    OBVIOUS
  <2>8. ReadableMessages(j) = messages
    BY <1>2, <2>1, <2>3, <2>4, <2>6, <2>7 DEF ReadableMessages
  <2>9. \A i \in 1..m : MessageReadable(elems[i]) /\ MessageText(elems[i])
    <3>1. \A i \in 1..m : i \in read /\ i \in 1..i
      BY <2>6
    <3> QED BY <2>2, <2>3, <2>4, <3>1
  <2>10. \A i \in 1..m : /\ messages[i] \in Message
                         /\ \A k \in DOMAIN messages[i].content : StableBlock(messages[i].content[k])
    BY <2>7, <2>9, MessageRead
  <2>11. messages \in Seq(Message) /\ DOMAIN messages = 1..m
    BY <2>7, <2>10
  <2> QED BY <2>8, <2>10, <2>11
<1> QED BY <1>1, <1>2

\* When every message is readable all are read
LEMMA AllRead ==
  ASSUME NEW j, NEW n \in Nat, NEW elems,
         Is("array", j, "messages"), At(j, "messages").elems = elems, DOMAIN elems = 1..n,
         \A i \in 1..n : MessageReadable(elems[i])
  PROVE  ReadableMessages(j) = [i \in 1..n |-> MessageFromJson(elems[i])]
<1>1. {i \in 1..n : \A k \in 1..i : MessageReadable(elems[k])} = 1..n
  OBVIOUS
<1>2. ReadableMessages(j) =
        [i \in {i \in 1..n : \A k \in 1..i : MessageReadable(elems[k])} |-> MessageFromJson(elems[i])]
  BY DEF ReadableMessages
<1> QED BY <1>1, <1>2

\* What is read into a conversation
LEMMA ConversationRead ==
  ASSUME NEW j, ConversationText(j), NEW conv \in Conversation
  PROVE  /\ FromJson(j, conv) \in Conversation
         /\ StableConversation(conv) => StableConversation(FromJson(j, conv))
<1>1. CASE ~ PromptReadable(j)
  BY <1>1 DEF FromJson
<1>2. CASE PromptReadable(j)
  <2>1. PICK prompt \in Prompts \cup {NoPrompt} : prompt = PromptRead(j, conv)
    <3>1. CASE HasMember(j, "system_prompt")
      BY <1>2, <3>1 DEF PromptReadable, PromptRead, ConversationText, StringIn
    <3>2. CASE ~ HasMember(j, "system_prompt")
      BY <3>2, ConversationParts DEF PromptRead
    <3> QED BY <3>1, <3>2
  <2>2. PICK front \in Seq(Message) : front = conv.messages
    BY ConversationParts
  <2>3. PICK rest \in Seq(Message) :
          /\ rest = ReadableMessages(j)
          /\ \A i \in DOMAIN rest : \A k \in DOMAIN rest[i].content : StableBlock(rest[i].content[k])
    BY MessagesRead
  <2>4. PICK all \in Seq(Message) : all = front \o rest
    <3>1. front \o rest \in Seq(Message)
      BY ConcatProperties
    <3> QED BY <3>1
  <2>5. PICK read : read = FromJson(j, conv) /\ read = [system_prompt |-> prompt, messages |-> all]
    BY <1>2, <2>1, <2>2, <2>3, <2>4 DEF FromJson
  <2>6. read \in Conversation
    BY <2>1, <2>4, <2>5 DEF Conversation
  <2>7. ASSUME StableConversation(conv) PROVE StableConversation(read)
    <3> SUFFICES ASSUME NEW input \in InputsOf(read) PROVE Stable(input)
      BY DEF StableConversation
    <3>1. read.messages = all
      BY <2>5
    <3>2. PICK i \in DOMAIN all : \E k \in DOMAIN all[i].content :
             all[i].content[k].type = "tool_use" /\ input = all[i].content[k].input
      BY <3>1, InputsInBlocks
    <3>3. PICK k \in DOMAIN all[i].content :
             all[i].content[k].type = "tool_use" /\ input = all[i].content[k].input
      BY <3>2
    <3>4. PICK m \in Nat, n \in Nat : m = Len(front) /\ n = Len(rest)
      OBVIOUS
    <3>5. i \in 1..(m + n) /\ i \in Int
      BY <2>4, <3>4
    <3>6. CASE i <= m
      <4>1. i \in DOMAIN front /\ all[i] = front[i]
        BY <2>4, <3>4, <3>5, <3>6
      <4>2. input \in InputsOf(conv)
        BY <2>2, <3>3, <4>1, InputsInBlocks
      <4> QED BY <2>7, <4>2 DEF StableConversation
    <3>7. CASE i > m
      <4>1. PICK l \in DOMAIN rest : all[i] = rest[l]
        <5>1. i - m \in DOMAIN rest /\ all[i] = rest[i - m]
          BY <2>4, <3>4, <3>5, <3>7
        <5> QED BY <5>1
      <4> QED BY <2>3, <3>3, <4>1 DEF StableBlock
    <3> QED BY <3>5, <3>6, <3>7, <3>4
  <2> QED BY <2>5, <2>6, <2>7
<1> QED BY <1>1, <1>2

\* A conversation whose inputs are finite is written as text that is readable,
\* and read from it as it was unless text changes its inputs
LEMMA ConversationRound ==
  ASSUME NEW conv \in Conversation, Dumped(conv) # NotJson
  PROVE  /\ ConversationText(Dumped(conv)) /\ Readable(Dumped(conv))
         /\ StableConversation(conv) => FromJson(Dumped(conv), EmptyConversation) = conv
<1>1. PICK prompt \in Prompts \cup {NoPrompt}, messages \in Seq(Message) :
        /\ prompt = conv.system_prompt /\ messages = conv.messages
        /\ conv = [system_prompt |-> prompt, messages |-> messages]
  BY ConversationParts
<1>2. PICK n \in Nat : n = Len(messages) /\ DOMAIN messages = 1..n
  OBVIOUS
<1>3. /\ Dumped(conv) = ConversationToJson(conv)
      /\ \A input \in InputsOf(conv) : Infinite \notin Leaves(input)
  BY DEF Dumped
<1>4. \A i \in 1..n : /\ messages[i] \in Message
                      /\ \A k \in DOMAIN messages[i].content : FiniteBlock(messages[i].content[k])
  BY <1>1, <1>2, <1>3, InputsInBlocks DEF FiniteBlock
<1>5. PICK elems : elems = [i \in 1..n |-> MessageToJson(messages[i])]
  OBVIOUS
<1>6. PICK j : j = Dumped(conv)
  OBVIOUS
<1>7. j = Object(IF prompt = NoPrompt
                   THEN [messages |-> Array(elems)]
                   ELSE [messages |-> Array(elems), system_prompt |-> String(prompt)])
  BY <1>1, <1>2, <1>3, <1>5, <1>6 DEF ConversationToJson
<1>8. /\ HasMember(j, "messages") /\ At(j, "messages") = Array(elems)
      /\ HasMember(j, "system_prompt") <=> prompt # NoPrompt
      /\ prompt # NoPrompt => At(j, "system_prompt") = String(prompt)
  <2>1. CASE prompt = NoPrompt
    BY <1>7, <2>1 DEF Object, HasMember, At
  <2>2. CASE prompt # NoPrompt
    BY <1>7, <2>2 DEF Object, HasMember, At
  <2> QED BY <2>1, <2>2
<1>9. /\ Array(elems).kind = "array" /\ Array(elems).elems = elems
      /\ String(prompt).kind = "string" /\ String(prompt).string = prompt
  BY DEF Array, String
<1>10. Len(elems) = n /\ elems = [i \in 1..Len(elems) |-> elems[i]] /\ DOMAIN elems = 1..n
  <2>1. elems \in Seq({elems[k] : k \in 1..n}) /\ DOMAIN elems = 1..n
    BY <1>5
  <2>2. Len(elems) = n
    BY <2>1
  <2> QED BY <1>5, <2>1, <2>2
<1>11. \A i \in 1..n :
         /\ MessageReadable(elems[i]) /\ MessageText(elems[i])
         /\ (\A k \in DOMAIN messages[i].content : StableBlock(messages[i].content[k]))
              => MessageFromJson(elems[i]) = messages[i]
  BY <1>4, <1>5, MessageRound
<1>12. ConversationText(j)
  BY <1>8, <1>9, <1>10, <1>11 DEF ConversationText, StringIn, ListAt, Is
<1>13. PromptReadable(j) /\ Is("array", j, "messages")
  BY <1>8, <1>9 DEF PromptReadable, Is
<1>14. Readable(j)
  BY <1>8, <1>9, <1>10, <1>11, <1>13 DEF Readable
<1>15. ASSUME StableConversation(conv) PROVE FromJson(j, EmptyConversation) = conv
  <2>1. \A i \in 1..n : MessageFromJson(elems[i]) = messages[i]
    BY <1>1, <1>2, <1>11, <1>15, InputsInBlocks DEF StableBlock, StableConversation
  <2>2. ReadableMessages(j) = [i \in 1..n |-> MessageFromJson(elems[i])]
    BY <1>8, <1>9, <1>10, <1>11, <1>13, AllRead
  <2>3. [i \in 1..n |-> MessageFromJson(elems[i])] = [i \in 1..n |-> messages[i]]
    BY <2>1
  <2>4. messages = [i \in 1..n |-> messages[i]]
    BY <1>2
  <2>5. PromptRead(j, EmptyConversation) = prompt
    BY <1>8, <1>9 DEF PromptRead, EmptyConversation
  <2>6. EmptyConversation.messages \o messages = messages
    BY DEF EmptyConversation
  <2> QED BY <1>1, <1>13, <2>2, <2>3, <2>4, <2>5, <2>6 DEF FromJson
<1> QED BY <1>6, <1>12, <1>14, <1>15

\* A stable conversation is written, and read as it was
LEMMA StableSettles ==
  ASSUME NEW conv \in Conversation, StableConversation(conv)
  PROVE  Settled(conv)
<1>1. Dumped(conv) = ConversationToJson(conv)
  BY DEF Dumped, StableConversation, Stable
<1>2. Dumped(conv) # NotJson
  BY <1>1 DEF ConversationToJson, Object, NotJson
<1> QED BY <1>2, ConversationRound DEF Settled

LEMMA KeptConversation ==
  ASSUME NEW conv \in Conversation, KeptWhole(conv)
  PROVE  StableConversation(conv)
BY InputsAreInputs, StorageAssumption, KeptStable DEF KeptWhole, StableConversation

(***************************************************************************)
(* The invariant: what was saved is what the caller had, and what somebody *)
(* else wrote is some text.                                                *)
(***************************************************************************)
IsText(j) == j = NotJson \/ ConversationText(j)

Inv ==
  /\ conversation \in Conversation /\ origin \in Conversation
  /\ IsText(text)
  /\ ~ edited => text \in {NotJson, Dumped(origin)}
  /\ edited \in BOOLEAN /\ outcome \in {"ok", "threw"}

LEMMA EmptyIsConversation == EmptyConversation \in Conversation
<1>1. << >> \in Seq(Message)
  OBVIOUS
<1> QED BY <1>1 DEF EmptyConversation, Conversation

LEMMA DumpIsText ==
  ASSUME NEW conv \in Conversation
  PROVE  IsText(Dumped(conv))
BY ConversationRound DEF IsText

LEMMA InvInit == Init => Inv
BY EmptyIsConversation DEF Init, Inv, IsText

\* What the caller does to its conversation
LEMMA InvChange ==
  ASSUME Inv, NEW conv \in Conversation, Change(conv)
  PROVE  Inv'
BY DEF Inv, Change

LEMMA InvNext == Inv /\ [Next]_vars => Inv'
<1> SUFFICES ASSUME Inv, [Next]_vars PROVE Inv'
  OBVIOUS
<1>1. ASSUME NEW message \in Messages, AddMessage(message) PROVE Inv'
  <2>1. message \in Message /\ conversation \in Conversation
    BY StorageAssumption DEF Inv
  <2>2. Add(conversation, message) \in Conversation
    BY <2>1, AddProperties
  <2> QED BY <1>1, <2>2, InvChange DEF AddMessage
<1>2. ASSUME NEW p \in Prompts, SetSystemPrompt(p) PROVE Inv'
  <2>1. [conversation EXCEPT !.system_prompt = p] \in Conversation
    BY DEF Inv, Conversation
  <2> QED BY <1>2, <2>1, InvChange DEF SetSystemPrompt
<1>3. ASSUME Clear PROVE Inv'
  <2>1. << >> \in Seq(Message)
    OBVIOUS
  <2>2. [conversation EXCEPT !.messages = << >>] \in Conversation
    BY <2>1 DEF Inv, Conversation
  <2> QED BY <1>3, <2>2, InvChange DEF Clear
<1>4. ASSUME Save PROVE Inv'
  <2>1. IsText(Dumped(conversation))
    BY DumpIsText DEF Inv
  <2> QED BY <1>4, <2>1 DEF Inv, Save
<1>5. ASSUME NEW other \in Foreign, Edit(other) PROVE Inv'
  <2>1. IsText(other)
    BY StorageAssumption DEF IsText
  <2> QED BY <1>5, <2>1, EmptyIsConversation DEF Inv, Edit
<1>6. ASSUME Restore PROVE Inv'
  <2>1. text # NotJson => FromJson(text, EmptyConversation) \in Conversation
    BY EmptyIsConversation, ConversationRead DEF Inv, IsText
  <2> QED BY <1>6, <2>1 DEF Inv, Restore
<1>7. ASSUME ReadInto PROVE Inv'
  <2>1. text # NotJson => FromJson(text, conversation) \in Conversation
    BY ConversationRead DEF Inv, IsText
  <2> QED BY <1>7, <2>1 DEF Inv, ReadInto
<1>8. ASSUME UNCHANGED vars PROVE Inv'
  BY <1>8 DEF Inv, vars
<1> QED BY <1>1, <1>2, <1>3, <1>4, <1>5, <1>6, <1>7, <1>8 DEF Next

LEMMA InvAlways == Spec => []Inv
BY InvInit, InvNext, PTL DEF Spec

\* Whatever text is read, the conversation is one of the library (TypeOK).
THEOREM TypeCorrect == Spec => []TypeOK
<1>1. Inv => TypeOK
  <2> SUFFICES ASSUME Inv PROVE TypeOK
    OBVIOUS
  <2>1. conversation \in Conversation /\ edited \in BOOLEAN /\ outcome \in {"ok", "threw"}
    BY DEF Inv
  <2>2. conversation.system_prompt \in Prompts \cup {NoPrompt}
    BY <2>1, ConversationParts
  <2>3. \A i \in DOMAIN conversation.messages : conversation.messages[i] \in Message
    BY <2>1, ConversationParts
  <2> QED BY <2>1, <2>2, <2>3, MessageParts DEF TypeOK
<1> QED BY <1>1, InvAlways, PTL

\* What was saved and is not tampered with is restored as it was, wherever the
\* conversation has gone since (RestoresWhatWasSaved): from_json undoes to_json
\* for every conversation whose inputs hold numbers that text keeps.
THEOREM SavedIsRestored == Spec => RestoresWhatWasSaved
<1>1. Inv /\ [Next]_vars =>
        [Restore /\ ~ edited /\ text # NotJson /\ KeptWhole(origin)
           => conversation' = origin /\ outcome' = "ok"]_vars
  <2> SUFFICES ASSUME Inv, Restore, ~ edited, text # NotJson, KeptWhole(origin)
               PROVE  conversation' = origin /\ outcome' = "ok"
    OBVIOUS
  <2>1. origin \in Conversation /\ text = Dumped(origin)
    BY DEF Inv
  <2>2. Readable(text) /\ FromJson(text, EmptyConversation) = origin
    BY <2>1, KeptConversation, ConversationRound
  <2> QED BY <2>2 DEF Restore
<1> QED BY <1>1, InvAlways, PTL DEF Spec, RestoresWhatWasSaved

\* What text changes it changes once (RestoredSettles): parsing rounds a number
\* and picks its kind, and the result is written and parsed as itself.
THEOREM RestoredOnceForAll == Spec => RestoredSettles
<1>1. Inv /\ [Next]_vars => [Restore /\ outcome' = "ok" => Settled(conversation')]_vars
  <2> SUFFICES ASSUME Inv, Restore, outcome' = "ok" PROVE Settled(conversation')
    OBVIOUS
  <2>1. text # NotJson /\ conversation' = FromJson(text, EmptyConversation)
    BY DEF Restore
  <2>2. ConversationText(text)
    BY <2>1 DEF Inv, IsText
  <2>3. StableConversation(EmptyConversation)
    BY InputsInBlocks DEF StableConversation, EmptyConversation
  <2>4. FromJson(text, EmptyConversation) \in Conversation
    BY <2>2, EmptyIsConversation, ConversationRead
  <2>5. StableConversation(FromJson(text, EmptyConversation))
    BY <2>2, <2>3, EmptyIsConversation, ConversationRead
  <2> QED BY <2>1, <2>4, <2>5, StableSettles
<1> QED BY <1>1, InvAlways, PTL DEF Spec, RestoredSettles

LEMMA BeginsWithItself ==
  ASSUME NEW list \in Seq(Message)
  PROVE  Sequence!IsPrefix(list, list)
BY DEF Sequence!IsPrefix

LEMMA BeginsWithFront ==
  ASSUME NEW front \in Seq(Message), NEW rest \in Seq(Message)
  PROVE  Sequence!IsPrefix(front, front \o rest)
<1>1. PICK all \in Seq(Message) : all = front \o rest
  <2>1. front \o rest \in Seq(Message)
    BY ConcatProperties
  <2> QED BY <2>1
<1>2. /\ Len(front) \in Nat /\ Len(rest) \in Nat /\ Len(all) = Len(front) + Len(rest)
      /\ \A i \in 1..Len(front) : all[i] = front[i]
  BY <1>1
<1>3. SubSeq(all, 1, Len(front)) = SubSeq(front, 1, Len(front))
  <2>1. /\ SubSeq(all, 1, Len(front)) = [i \in 1..Len(front) |-> all[i]]
        /\ SubSeq(front, 1, Len(front)) = [i \in 1..Len(front) |-> front[i]]
    BY <1>1, <1>2
  <2> QED BY <1>2, <2>1
<1> QED BY <1>1, <1>2, <1>3 DEF Sequence!IsPrefix

\* No text, however broken, costs the caller a turn it has (NoTurnLost).
THEOREM TurnsAlwaysKept == Spec => NoTurnLost
<1>1. Inv /\ [Next]_vars =>
        [(Restore /\ outcome' = "threw") \/ ReadInto
           => Sequence!IsPrefix(conversation.messages, conversation'.messages)]_vars
  <2> SUFFICES ASSUME Inv, (Restore /\ outcome' = "threw") \/ ReadInto
               PROVE  Sequence!IsPrefix(conversation.messages, conversation'.messages)
    OBVIOUS
  <2>1. conversation \in Conversation /\ conversation.messages \in Seq(Message)
    BY ConversationParts DEF Inv
  <2>2. CASE conversation' = conversation
    BY <2>1, <2>2, BeginsWithItself
  <2>3. CASE text # NotJson /\ conversation' = FromJson(text, conversation)
    <3>1. ConversationText(text)
      BY <2>3 DEF Inv, IsText
    <3>2. CASE ~ PromptReadable(text)
      BY <2>2, <2>3, <3>2 DEF FromJson
    <3>3. CASE PromptReadable(text)
      <4>1. conversation'.messages = conversation.messages \o ReadableMessages(text)
        BY <2>3, <3>3 DEF FromJson
      <4> QED BY <2>1, <3>1, <4>1, MessagesRead, BeginsWithFront
    <3> QED BY <3>2, <3>3
  <2> QED BY <2>2, <2>3 DEF Restore, ReadInto
<1> QED BY <1>1, InvAlways, PTL DEF Spec, NoTurnLost

=============================================================================
