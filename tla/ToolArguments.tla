----------------------------- MODULE ToolArguments -----------------------------
(***************************************************************************)
(* The arguments of a tool call before the tool sees them: validation.rs   *)
(* coerces them to the tool's schema and then holds them to it.            *)
(*                                                                         *)
(* A value is a record whose one field is its JSON type; a number, never   *)
(* below 0, is told in halves, and whether it is a float: 1.0 is not 1 for *)
(* an enum. Doubles and integers keep their limits, at a small scale: a    *)
(* double has 3 significant bits for 53, a long 5 bits for 63, and one     *)
(* without a sign 6 for 64, so that each is cut where the code's is. A schema*)
(* is a record of its keywords: `type` the sequence of its names, `pattern`*)
(* the texts that match (none when it is no expression), `properties` and  *)
(* `items` schemas again; the schema true is empty, false is [never].      *)
(***************************************************************************)
EXTENDS Integers, Sequences, SequencesExt, Functions

Number(halves, float) == [number |-> halves, float |-> float]
Text(text) == [string |-> text]
Flag(flag) == [boolean |-> flag]
Null == [null |-> TRUE]
Array(items) == [array |-> items]
Object(members) == [object |-> members]

Has(record, field) == field \in DOMAIN record

\* What a schema says under a keyword, or what stands for it.
Said(schema, keyword, default) ==
  IF Has(schema, keyword) THEN schema[keyword] ELSE default

\* The texts that are numbers, in halves, and how numbers are written.
Numerals == ("0" :> 0) @@ ("1" :> 2) @@ ("2" :> 4) @@ ("2.5" :> 5) @@ ("8" :> 16) @@
            ("9" :> 18) @@ ("12" :> 24) @@ ("31" :> 62) @@ ("32" :> 64) @@
            ("63" :> 126) @@ ("64" :> 128) @@ ("80" :> 160) @@ (" 1 " :> 2)
Written(halves) ==
  CHOOSE text \in DOMAIN Numerals \ {" 1 "} : Numerals[text] = halves

\* The bounds of the scaled numbers: the bits of a double, i64::MAX and u64::MAX.
Precision == 3
LongMax == 31
ULongMax == 63
MaxExponent == 8

\* The double nearest to a number, in halves; of two the even one.
Float(halves) ==
  LET unit == Min({u \in {2 ^ k : k \in 0 .. MaxExponent} : halves < u * 2 ^ Precision})
      below == halves \div unit
      rest == 2 * (halves % unit)
  IN unit * (IF rest > unit \/ (rest = unit /\ below % 2 = 1) THEN below + 1 ELSE below)

-----------------------------------------------------------------------------
(* Validation                                                              *)

\* matches_one_type: a name that is no type matches everything.
Matches(value, type) ==
  \/ Has(value, type)
  \/ type = "integer" /\ Has(value, "number") /\ value.number % 2 = 0
  \/ type \notin {"null", "boolean", "number", "integer", "string", "array", "object"}

\* matches_schema_type
MatchesAny(value, types) == \E k \in DOMAIN types : Matches(value, types[k])

\* The quotient is a double: a large one has no bits left for a rest.
IsMultiple(double, divisor) ==
  double % divisor = 0 \/ double \div divisor >= 2 ^ (Precision - 1)

\* validate_scalar_constraints: numbers are compared as doubles.
ScalarFits(value, schema) ==
  /\ Has(value, "string") =>
       /\ Len(value.string) >= Said(schema, "minLength", 0)
       /\ Len(value.string) <= Said(schema, "maxLength", Len(value.string))
       /\ Has(schema, "pattern") => value.string \in schema.pattern
  /\ Has(value, "number") =>
       LET double == Float(value.number)
       IN /\ double >= Float(Said(schema, "minimum", double))
          /\ double <= Float(Said(schema, "maximum", double))
          /\ Has(schema, "exclusiveMinimum") => double > Float(schema.exclusiveMinimum)
          /\ Has(schema, "exclusiveMaximum") => double < Float(schema.exclusiveMaximum)
          /\ Has(schema, "multipleOf") => IsMultiple(double, Float(schema.multipleOf))

Properties(schema) == Said(schema, "properties", <<>>)
Additional(schema) == Said(schema, "additionalProperties", <<>>)
Never == [never |-> TRUE]

\* The schema of a member: its own, or the one of additional properties.
MemberSchema(schema, key) ==
  IF Has(Properties(schema), key) THEN Properties(schema)[key] ELSE Additional(schema)

\* The schema of an item: `items` for all, or `tuple` for the first ones and
\* additionalItems for the rest.
ItemSchema(schema, k) ==
  IF Has(schema, "items") THEN schema.items
  ELSE IF k \in DOMAIN schema.tuple THEN schema.tuple[k]
  ELSE Said(schema, "additionalItems", <<>>)

ListsItems(schema) == Has(schema, "items") \/ Has(schema, "tuple")

RECURSIVE Fits(_, _)

\* validate_value of members, validate_object_constraints
MembersFit(members, schema) ==
  /\ Said(schema, "required", {}) \subseteq DOMAIN members
  /\ Cardinality(DOMAIN members) >= Said(schema, "minProperties", 0)
  /\ Has(schema, "maxProperties") => Cardinality(DOMAIN members) <= schema.maxProperties
  /\ \A key \in DOMAIN members : Fits(members[key], MemberSchema(schema, key))

\* validate_array_items: the limits count only beside items.
ItemsFit(items, schema) ==
  ListsItems(schema) =>
    /\ \A k \in DOMAIN items : Fits(items[k], ItemSchema(schema, k))
    /\ Len(items) >= Said(schema, "minItems", 0)
    /\ Len(items) <= Said(schema, "maxItems", Len(items))
    /\ Said(schema, "uniqueItems", FALSE) => IsInjective(items)

\* validate_value, schema_matches
Fits(value, schema) ==
  /\ ~Has(schema, "never")
  /\ \A k \in DOMAIN Said(schema, "allOf", <<>>) : Fits(value, schema.allOf[k])
  /\ Has(schema, "anyOf") => \E k \in DOMAIN schema.anyOf : Fits(value, schema.anyOf[k])
  /\ Has(schema, "oneOf") =>
       Cardinality({k \in DOMAIN schema.oneOf : Fits(value, schema.oneOf[k])}) = 1
  /\ Has(schema, "type") => MatchesAny(value, schema.type)
  /\ Has(schema, "const") => value = schema.const
  /\ Has(schema, "enum") => value \in schema.enum
  /\ ScalarFits(value, schema)
  /\ Has(value, "object") => MembersFit(value.object, schema)
  /\ Has(value, "array") => ItemsFit(value.array, schema)

-----------------------------------------------------------------------------
(* Coercion: what a value becomes is a set, empty when it becomes nothing. *)

\* A mutation: the half of a number that is no integer is dropped.
RoundedNumber(halves) == {Number(2 * (halves \div 2), FALSE)}

\* integer_value_from_f64: a double at the edge of an integer type is cut to it.
WholeNumber(halves) ==
  IF halves % 2 = 1 THEN {}
  ELSE {IF halves <= Float(2 * LongMax) THEN Number(Min({halves, 2 * LongMax}), FALSE)
        ELSE IF halves <= Float(2 * ULongMax) THEN Number(Min({halves, 2 * ULongMax}), FALSE)
        ELSE Number(halves, TRUE)}

ToNumber(value) ==
  IF Has(value, "null") THEN {Number(0, TRUE)}
  ELSE IF Has(value, "boolean") THEN {Number(IF value.boolean THEN 2 ELSE 0, TRUE)}
  ELSE IF Has(value, "string") /\ Has(Numerals, value.string)
  THEN {Number(Float(Numerals[value.string]), TRUE)} ELSE {}

\* coerce_integer_string among others: the text of an integer is read as a double.
ToInteger(value) ==
  UNION {WholeNumber(number.number) : number \in ToNumber(value)}

ToBoolean(value) ==
  CASE value \in {Null, Text("false"), Number(0, TRUE), Number(0, FALSE)} -> {Flag(FALSE)}
    [] value \in {Text("true"), Number(2, TRUE), Number(2, FALSE)} -> {Flag(TRUE)}
    [] OTHER -> {}

\* number_to_js_like_string
ToText(value) ==
  CASE Has(value, "null") -> {Text("")}
    [] Has(value, "boolean") -> {Text(IF value.boolean THEN "true" ELSE "false")}
    [] Has(value, "number") -> {Text(Written(value.number))}
    [] OTHER -> {}

ToNull(value) ==
  IF value \in {Text(""), Flag(FALSE), Number(0, TRUE), Number(0, FALSE)}
  THEN {Null} ELSE {}

\* coerce_primitive
Primitive(value, type) ==
  CASE type = "number" -> ToNumber(value)
    [] type = "integer" -> ToInteger(value)
    [] type = "boolean" -> ToBoolean(value)
    [] type = "string" -> ToText(value)
    [] type = "null" -> ToNull(value)
    [] OTHER -> {}

\* The first of the types to which a value of none of them can be coerced.
ToOneOf(value, types) ==
  LET able == {k \in DOMAIN types : Primitive(value, types[k]) # {}}
  IN IF MatchesAny(value, types) \/ able = {} THEN value
     ELSE CHOOSE next \in Primitive(value, types[Min(able)]) : TRUE

\* normalize_integer_value
Normalized(value, types) ==
  IF /\ Has(value, "number") /\ "integer" \in ToSet(types)
     /\ value.float /\ WholeNumber(value.number) # {}
  THEN CHOOSE next \in WholeNumber(value.number) : TRUE ELSE value

RECURSIVE Coerced(_, _)

\* The first candidate of a union that the coerced value fits has its way.
UnionCoerced(value, candidates) ==
  LET fitting == {k \in DOMAIN candidates : Fits(Coerced(value, candidates[k]), candidates[k])}
  IN IF fitting = {} THEN value ELSE Coerced(value, candidates[Min(fitting)])

\* coerce_object, and the items of an array
PartsCoerced(value, schema) ==
  IF Has(value, "object") /\ "object" \in ToSet(schema.type)
  THEN Object([key \in DOMAIN value.object |->
                 Coerced(value.object[key], MemberSchema(schema, key))])
  ELSE IF Has(value, "array") /\ "array" \in ToSet(schema.type) /\ ListsItems(schema)
  THEN Array([k \in DOMAIN value.array |->
                Coerced(value.array[k], ItemSchema(schema, k))])
  ELSE value

\* coerce_with_schema: only a schema with a type goes into the parts.
Coerced(value, schema) ==
  LET ofAll == FoldLeft(LAMBDA v, nested : Coerced(v, nested), value,
                        Said(schema, "allOf", <<>>))
      ofAny == UnionCoerced(ofAll, Said(schema, "anyOf", <<>>))
      ofOne == UnionCoerced(ofAny, Said(schema, "oneOf", <<>>))
  IN IF Has(schema, "type")
     THEN PartsCoerced(Normalized(ToOneOf(ofOne, schema.type), schema.type), schema)
     ELSE ofOne

-----------------------------------------------------------------------------
(* validate_tool_arguments_value                                           *)

\* What the tool gets, or nothing when the call is refused.
Validated(arguments, schema) ==
  LET coerced == Coerced(arguments, schema)
  IN IF Fits(coerced, schema) THEN {coerced} ELSE {}

-----------------------------------------------------------------------------
(* Properties                                                              *)

RECURSIVE Without(_, _)

\* A keyword is used nowhere in a schema.
Without(schema, keyword) ==
  LET below == Range(Properties(schema)) \cup ToSet(Said(schema, "tuple", <<>>))
                 \cup ToSet(Said(schema, "allOf", <<>>)) \cup ToSet(Said(schema, "anyOf", <<>>))
                 \cup {Said(schema, part, <<>>) :
                         part \in {"items", "additionalProperties", "additionalItems"}}
  IN /\ ~Has(schema, keyword)
     /\ \A part \in below \ {<<>>} : Without(part, keyword)

\* The texts a scalar can be read as.
Readings(value) ==
  CASE Has(value, "null") -> {"", "0", "false"}
    [] Has(value, "boolean") -> IF value.boolean THEN {"true", "1"} ELSE {"false", "0", ""}
    [] Has(value, "number") -> {Written(value.number)}
    [] Has(value, "string") ->
         {value.string} \cup IF value.string = " 1 " THEN {"1"} ELSE {}

\* A text or a float and a number that no double tells from it.
NumbersOf(value) ==
  CASE Has(value, "number") -> {value.number}
    [] Has(value, "string") /\ Has(Numerals, value.string) -> {Numerals[value.string]}
    [] OTHER -> {}
Near(a, b) ==
  /\ Has(a, "number") => a.float
  /\ \E m \in NumbersOf(a), n \in NumbersOf(b) : Float(m) = Float(n)

RECURSIVE SaysTheSame(_, _)

\* Two values have the same keys and lengths, and their scalars a common reading
\* or, of a text or a float, the same double.
SaysTheSame(a, b) ==
  IF Has(a, "object") \/ Has(b, "object")
  THEN /\ Has(a, "object") /\ Has(b, "object")
       /\ DOMAIN a.object = DOMAIN b.object
       /\ \A key \in DOMAIN a.object : SaysTheSame(a.object[key], b.object[key])
  ELSE IF Has(a, "array") \/ Has(b, "array")
  THEN /\ Has(a, "array") /\ Has(b, "array")
       /\ DOMAIN a.array = DOMAIN b.array
       /\ \A k \in DOMAIN a.array : SaysTheSame(a.array[k], b.array[k])
  ELSE Readings(a) \cap Readings(b) # {} \/ Near(a, b)

RECURSIVE Integral(_)

\* A value with its numbers as doubles, and those that are integers written so.
Integral(value) ==
  CASE Has(value, "object") ->
         Object([key \in DOMAIN value.object |-> Integral(value.object[key])])
    [] Has(value, "array") ->
         Array([k \in DOMAIN value.array |-> Integral(value.array[k])])
    [] Has(value, "number") /\ Float(value.number) % 2 = 0 ->
         Number(Float(value.number), FALSE)
    [] OTHER -> value

\* A tool gets what the model has said, with scalars read as the types that the
\* schema names and nothing added or cut. An integer of the model stays what it is;
\* a text or a float that becomes a number keeps what a double can tell: the text
\* of an integer beyond 2^53 is rounded, and one at i64::MAX or u64::MAX cut to it.
\* A call that fits is not changed more than that and, without oneOf, which coercion
\* can make ambiguous, not refused. A union takes its first alternative that
\* coercion can reach. To fit is meant for each way of writing a number and for its
\* double, for 1 and 1.0 are no duplicates to the code.
CallKept(arguments, schema, got) ==
  /\ \A value \in got : SaysTheSame(arguments, value) /\ Fits(value, schema)
  /\ Fits(arguments, schema) /\ Fits(Integral(arguments), schema) /\ Without(schema, "oneOf") =>
       /\ got # {}
       /\ Without(schema, "anyOf") => got = {value \in got : Integral(value) = Integral(arguments)}
===============================================================================
