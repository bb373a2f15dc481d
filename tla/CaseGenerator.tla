---------------------------- MODULE CaseGenerator ---------------------------
(***************************************************************************)
(* The case generator of kahea-conformance and the two schema validators   *)
(* beside it, as operators over JSON values and schemas.                   *)
(*                                                                         *)
(* A schema is a record with the keywords it has and no others: "type" is  *)
(* the string form of type and "types" the array form, "ref" a local       *)
(* reference, "exclusiveMinimum" and "exclusiveMaximum" the numeric forms, *)
(* "aboveMinimum" and "belowMaximum" their boolean forms, "closed" says    *)
(* additionalProperties: false.  "properties" is a sequence of entries in  *)
(* the order of their names, as the code iterates over them.               *)
(*                                                                         *)
(* The generator takes every decision from residues of a 64-bit hash, and  *)
(* gives each child a hash of its own.  Here every such choice is free:    *)
(* an operator returns the set of results some hash leads to.              *)
(***************************************************************************)
EXTENDS Integers, Sequences, FiniteSets, SequencesExt, FiniteSetsExt, TLC

CONSTANTS Components,        \* what local references resolve to
          GenerationDepth,   \* MAX_GENERATION_DEPTH
          GeneratedArray,    \* MAX_GENERATED_ARRAY
          GeneratedString,   \* MAX_GENERATED_STRING
          DefaultBound,      \* numbers without bounds lie in -100 .. 100
          Widest             \* i64::MAX

-----------------------------------------------------------------------------
(* JSON values.  A string is known by its text and its length; a number    *)
(* that is not an integer is counted in units of the last place.           *)

Null        == [kind |-> "null"]
Boolean(b)  == [kind |-> "boolean", bool |-> b]
Integer(i)  == [kind |-> "integer", int |-> i]
Number(n)   == [kind |-> "number", units |-> n]
Text(t, n)  == [kind |-> "string", text |-> t, len |-> n]
Array(s)    == [kind |-> "array", items |-> s]
Object(f)   == [kind |-> "object", fields |-> f]

IsError(v) == v.kind = "error"
Failed     == [kind |-> "error"]

Names(v) == IF v.kind = "object" THEN DOMAIN v.fields ELSE {}

\* Insert or replace a field, or take one away.
With(v, name, child) ==
    Object([n \in Names(v) \cup {name} |-> IF n = name THEN child ELSE v.fields[n]])

Without(v, name) == Object([n \in Names(v) \ {name} |-> v.fields[n]])

Has(schema, keyword) == keyword \in DOMAIN schema

Get(schema, keyword, default) ==
    IF Has(schema, keyword) THEN schema[keyword] ELSE default

\* resolve follows one local reference.
Resolvable(schema) == Has(schema, "ref") => schema.ref \in DOMAIN Components

Resolve(schema) == IF Has(schema, "ref") THEN Components[schema.ref] ELSE schema

DeclaredTypes(schema) ==
    IF Has(schema, "type") THEN <<schema.type>> ELSE Get(schema, "types", << >>)

Entries(schema)   == Get(schema, "properties", << >>)
Declared(schema)  == {Entries(schema)[i].name : i \in DOMAIN Entries(schema)}
Child(schema, n)  == (CHOOSE e \in Range(Entries(schema)) : e.name = n).schema
ReadOnly(schema)  == Get(schema, "readOnly", FALSE)
Required(schema)  == Range(Get(schema, "required", << >>))

-----------------------------------------------------------------------------
(* generate_integer, generate_number and generate_string.                  *)

Saturated(i) == Max({-(Widest + 1), Min({Widest, i})})

Clamp(i, low, high) == Max({low, Min({high, i})})

\* Two's complement, where the code multiplies without a check.
Wrapped(i) == ((i + Widest + 1) % (2 * (Widest + 1))) - (Widest + 1)

\* The bounds, one further in where they are exclusive in either form.
LeastInteger(schema) ==
    LET m == Get(schema, "minimum", -DefaultBound) IN
    IF Has(schema, "exclusiveMinimum")
    THEN Max({m, Saturated(schema.exclusiveMinimum + 1)})
    ELSE IF Has(schema, "aboveMinimum") THEN Saturated(m + 1) ELSE m

GreatestInteger(schema) ==
    LET m == Get(schema, "maximum", DefaultBound) IN
    IF Has(schema, "exclusiveMaximum")
    THEN Min({m, Saturated(schema.exclusiveMaximum - 1)})
    ELSE IF Has(schema, "belowMaximum") THEN Saturated(m - 1) ELSE m

\* The largest multiple not above the choice, or the next one if that is below
\* the minimum.
MultipleOf(i, m, low) ==
    LET down == Wrapped((i \div m) * m) IN
    IF down < low THEN Saturated(down + m) ELSE down

GenerateInteger(schema) ==
    LET low  == LeastInteger(schema)
        high == GreatestInteger(schema)
        choices == {low, high, Clamp(0, low, high)}
        m == schema.multipleOf
    IN  IF low > high THEN {Failed}
        ELSE IF ~Has(schema, "multipleOf") THEN {Integer(i) : i \in choices}
        ELSE IF m <= 0 THEN {Failed}
        ELSE {LET n == MultipleOf(i, m, low) IN
              IF n > high THEN Failed ELSE Integer(n) : i \in choices}

\* The nearest multiple; of two equally near ones the one further from zero.
NearestMultiple(i, m) ==
    LET near(n) == ((2 * n + m) \div (2 * m)) * m
    IN  IF i < 0 THEN -near(-i) ELSE near(i)

\* Floating point: an exclusive bound is moved by the smallest step, here one
\* unit; the boolean forms are not read, and a multiple is the nearest one.
GenerateNumber(schema) ==
    LET low  == LET m == Get(schema, "minimum", -DefaultBound) IN
                Max({m, Get(schema, "exclusiveMinimum", m - 1) + 1})
        high == LET m == Get(schema, "maximum", DefaultBound) IN
                Min({m, Get(schema, "exclusiveMaximum", m + 1) - 1})
        choices == {low, high, Clamp(0, low, high)}
        m == schema.multipleOf
    IN  IF low > high THEN {Failed}
        ELSE IF ~Has(schema, "multipleOf") THEN {Number(i) : i \in choices}
        ELSE IF m <= 0 THEN {Failed}
        ELSE {LET n == NearestMultiple(i, m) IN
              IF n \in low .. high THEN Number(n) ELSE Failed : i \in choices}

\* Mutant: the longest string is one letter too long.
GreatestLengthOneMore(schema, minimum) ==
    Get(schema, "maxLength", minimum + 16) + 1

GreatestLength(schema, minimum) == Get(schema, "maxLength", minimum + 16)

\* A known format is a fixed text whatever the bounds say; a pattern is met by
\* the letters its classes name (schema.pattern is the letter, "" when the
\* pattern is outside the built-in subset) or by an example.
GenerateString(schema) ==
    LET minimum == Get(schema, "minLength", 0)
        maximum == GreatestLength(schema, minimum)
        length  == Max({minimum, 1})
        upper   == Min({maximum, GeneratedString})
        sample  == Get(schema, "example", Get(schema, "default", Failed))
    IN  IF Has(schema, "format") /\ schema.format = "binary" THEN {Failed}
        ELSE IF Has(schema, "format") THEN {Text(schema.format, 10)}
        ELSE IF minimum > maximum \/ minimum > GeneratedString THEN {Failed}
        ELSE IF Has(schema, "pattern")
        THEN IF schema.pattern # "" /\ length <= maximum
             THEN {Text(schema.pattern, length)}
             ELSE {IF sample.kind = "string" THEN sample ELSE Failed}
        ELSE {IF n = 0 THEN Text("", 0) ELSE Text(letter, n) :
                n \in {minimum, upper, Min({minimum + 1, upper})},
                letter \in {"a", "Z", "7"}}

-----------------------------------------------------------------------------
(* generate_value.                                                         *)

Unsupported ==
    {"not", "if", "then", "else", "dependentRequired", "dependentSchemas",
     "patternProperties", "propertyNames", "contains", "prefixItems",
     "unevaluatedProperties", "unevaluatedItems"}

Kinds(schema) ==
    LET types == DeclaredTypes(schema) IN
    IF types # << >> THEN Range(types)
    ELSE IF Has(schema, "properties") THEN {"object"}
    ELSE IF Has(schema, "items") THEN {"array"}
    ELSE {"string"}

\* One result of several steps: an error ends it, a value is carried on.
Then(results, next(_)) ==
    UNION {IF IsError(r) THEN {Failed} ELSE next(r) : r \in results}

\* The properties a request may carry.
Writable(schema) ==
    {e.name : e \in {x \in Range(Entries(schema)) : ~ReadOnly(x.schema)}}

RECURSIVE GenerateValue(_, _), ExtendAll(_, _, _, _), ExtendArray(_, _, _, _),
          GenerateAll(_, _, _)

\* Every way to give the object the named properties, in their order.
ExtendAll(objects, schema, names, d) ==
    IF names = {} THEN objects
    ELSE LET n == CHOOSE n \in names : TRUE
             more == GenerateValue(Child(schema, n), d + 1)
         IN  ExtendAll(Then(objects, LAMBDA o :
                         Then(more, LAMBDA c : {With(o, n, c)})),
                       schema, names \ {n}, d)

\* The required and some of the optional properties; then, in their order,
\* further ones until there are minProperties of them.
GenerateObject(schema, d) ==
    LET needed  == Required(schema) \cap Writable(schema)
        minimum == Get(schema, "minProperties", 0)
        ordered == SelectSeq([i \in DOMAIN Entries(schema) |->
                                 Entries(schema)[i].name],
                             LAMBDA n : n \in Writable(schema))
        filled(chosen) ==
            LET rest == SelectSeq(ordered, LAMBDA n : n \notin chosen)
                lack == Max({0, Min({Len(rest), minimum - Cardinality(chosen)})})
            IN  chosen \cup {rest[i] : i \in 1 .. lack}
        sets == {filled(needed \cup extra) :
                    extra \in SUBSET (Writable(schema) \ needed)}
    IN  UNION {IF \/ Cardinality(s) < minimum
                  \/ Cardinality(s) > Get(schema, "maxProperties", Cardinality(s))
               THEN {Failed}
               ELSE ExtendAll({Object(<< >>)}, schema, s, d) : s \in sets}

\* Items one after the other; a duplicate of a unique item is tried again,
\* sixteen times at most.
ExtendArray(arrays, schema, n, d) ==
    IF n = 0 THEN arrays
    ELSE LET items == GenerateValue(Get(schema, "items", << >>), d + 1)
             unique == Get(schema, "uniqueItems", FALSE)
         IN  ExtendArray(Then(arrays, LAMBDA a :
                           Then(items, LAMBDA c :
                             IF unique /\ c \in Range(a.items) THEN {Failed}
                             ELSE {Array(Append(a.items, c))})),
                         schema, n - 1, d)

GenerateArray(schema, d) ==
    LET minimum == Get(schema, "minItems", 0)
        maximum == Get(schema, "maxItems", minimum + 3)
    IN  IF minimum > maximum \/ minimum > GeneratedArray THEN {Failed}
        ELSE UNION {ExtendArray({Array(<< >>)}, schema, n, d) :
                      n \in minimum .. Min({maximum, GeneratedArray})}

\* allOf: the objects of the branches joined, or the first value that is none.
GenerateAll(combined, branches, d) ==
    IF branches = << >> THEN {combined}
    ELSE Then(GenerateValue(Head(branches), d + 1), LAMBDA v :
           IF v.kind # "object" THEN {v}
           ELSE GenerateAll(Object(v.fields @@ combined.fields),
                            Tail(branches), d))

\* example, default or one of the examples, one time in five.
Samples(schema) ==
    IF Has(schema, "example") THEN {schema.example}
    ELSE IF Has(schema, "default") THEN {schema.default}
    ELSE Range(Get(schema, "examples", << >>))

OfKind(schema, kind, d) ==
    CASE kind = "null"    -> {Null}
      [] kind = "boolean" -> {Boolean(TRUE), Boolean(FALSE)}
      [] kind = "integer" -> GenerateInteger(schema)
      [] kind = "number"  -> GenerateNumber(schema)
      [] kind = "string"  -> GenerateString(schema)
      [] kind = "array"   -> GenerateArray(schema, d)
      [] kind = "object"  -> GenerateObject(schema, d)
      [] OTHER            -> {Failed}

\* Past const, enum and the samples: a branch, all branches, or the type.
Composed(schema, d) ==
    LET branches == Get(schema, "oneOf", Get(schema, "anyOf", << >>)) IN
    IF branches # << >>
    THEN UNION {GenerateValue(b, d + 1) : b \in Range(branches)}
    ELSE IF Has(schema, "allOf")
    THEN GenerateAll(Object(<< >>), schema.allOf, d)
    ELSE UNION {OfKind(schema, k, d) : k \in Kinds(schema)}

GenerateValue(unresolved, d) ==
    LET schema == Resolve(unresolved) IN
    IF \/ d >= GenerationDepth \/ ~Resolvable(unresolved)
       \/ DOMAIN schema \cap Unsupported # {}
    THEN {Failed}
    ELSE IF Has(schema, "const") THEN {schema.const}
    ELSE IF Has(schema, "enum")
    THEN IF schema.enum = << >> THEN {Failed} ELSE Range(schema.enum)
    ELSE Samples(schema) \cup Composed(schema, d)

RECURSIVE GenerateOver(_, _, _), MergeAll(_, _, _, _, _)

\* Each property of a caller's object: what it gives is kept and completed,
\* what it leaves out is generated like in GenerateObject.
MergeAll(objects, schema, names, given, d) ==
    IF names = {} THEN objects
    ELSE LET n == CHOOSE n \in names : TRUE
             more == IF n \in Names(given)
                     THEN GenerateOver(Child(schema, n), given.fields[n], d + 1)
                     ELSE GenerateValue(Child(schema, n), d + 1)
         IN  MergeAll(Then(objects, LAMBDA o :
                        Then(more, LAMBDA c : {With(o, n, c)})),
                      schema, names \ {n}, given, d)

\* generate_value_with_baseline.
GenerateOver(unresolved, given, d) ==
    LET schema == Resolve(unresolved)
        kept   == Names(given) \cup Required(schema)
    IN  IF d >= GenerationDepth \/ ~Resolvable(unresolved) THEN {Failed}
        ELSE IF given.kind # "object" \/ ~Has(schema, "properties") THEN {given}
        ELSE UNION {MergeAll({given}, schema,
                             Writable(schema) \cap (kept \cup extra), given, d) :
                      extra \in SUBSET (Writable(schema) \ kept)}

-----------------------------------------------------------------------------
(* invalid_json_values and its parts: one violation at a time.             *)

OutsideEnum == Text("outside_enum", 22)
Outside(schema) == OutsideEnum \notin Range(Get(schema, "enum", << >>))

\* Mutant: an omitted bound is broken too.
InvalidStringLonger(schema) ==
    IF Get(schema, "minLength", 0) > 0 THEN Text("", 0)
    ELSE Text("x", Get(schema, "maxLength", GeneratedString))

InvalidString(schema) ==
    IF Get(schema, "minLength", 0) > 0 THEN Text("", 0)
    ELSE IF Get(schema, "maxLength", GeneratedString) < GeneratedString
    THEN Text("x", schema.maxLength + 1)
    ELSE Boolean(FALSE)

\* invalid_value: a value outside the enum, else one of another type; an array
\* of types counts as no type.
InvalidValue(schema, v) ==
    IF Has(schema, "enum") /\ Outside(schema) THEN {OutsideEnum}
    ELSE LET t == Get(schema, "type", "none") IN
         CASE t = "string" -> {InvalidString(schema)}
           [] t \in {"integer", "number"} -> {Text("not-a-number", 12)}
           [] t = "boolean" -> {Text("not-a-boolean", 13)}
           [] t = "array"   -> {Object([not |-> Text("an-array", 8)])}
           [] t = "object"  -> {Array(<<Text("not-an-object", 13)>>)}
           [] t = "null"    -> {Boolean(TRUE)}
           [] OTHER -> IF v.kind = "string" THEN {Boolean(FALSE)} ELSE {}

RECURSIVE InvalidJsonValues(_, _, _)

InvalidJsonValues(unresolved, v, d) ==
    LET schema == Resolve(unresolved)
        omitted == {Without(v, n) : n \in Required(schema) \cap Names(v)}
        unknown == IF Has(schema, "closed") /\ v.kind = "object"
                   THEN {With(v, "__kahea_unknown", Boolean(TRUE))} ELSE {}
        nested == UNION {{With(v, n, c) :
                            c \in InvalidJsonValues(Child(schema, n),
                                                    v.fields[n], d + 1)} :
                           n \in Declared(schema) \cap Names(v)}
        items == IF Has(schema, "items") /\ v.kind = "array"
                 THEN UNION {{Array([v.items EXCEPT ![i] = c]) :
                                c \in InvalidJsonValues(schema.items,
                                                        v.items[i], d + 1)} :
                               i \in DOMAIN v.items}
                 ELSE {}
    IN  IF d >= GenerationDepth THEN {}
        ELSE omitted \cup unknown \cup nested \cup items
                \cup InvalidValue(schema, v)

\* invalid_scalar: a text no parameter of this schema has.
InvalidScalar(schema) ==
    LET t == Get(schema, "type", "none") IN
    IF Has(schema, "enum") THEN {OutsideEnum}
    ELSE IF t \in {"integer", "number"} THEN {Text("not-a-number", 12)}
    ELSE IF t = "boolean" THEN {Text("not-a-boolean", 13)}
    ELSE IF t = "string" /\ Get(schema, "minLength", 0) > 0 THEN {Text("", 0)}
    ELSE {}

-----------------------------------------------------------------------------
(* The validators: validate_value of the planner, validate_schema_value of *)
(* the executor.                                                           *)

TypeMatches(kind, v) ==
    \/ kind = v.kind
    \/ kind = "number" /\ v.kind = "integer"
    \/ kind \notin {"null", "boolean", "integer", "number", "string", "array",
                    "object"}

HasType(schema, v) ==
    DeclaredTypes(schema) = << >>
    \/ \E t \in Range(DeclaredTypes(schema)) : TypeMatches(t, v)

InEnum(schema, v) == Has(schema, "enum") => v \in Range(schema.enum)

\* What a file to upload is described by.
IsUpload(schema, v) ==
    /\ Get(schema, "type", "none") = "string"
    /\ Get(schema, "format", "none") = "binary"
    /\ "$file" \in Names(v)

UploadValid(v) ==
    /\ Names(v) \subseteq {"$file", "filename", "content_type"}
    /\ \A n \in Names(v) : v.fields[n].kind = "string"

RECURSIVE PlanValid(_, _)

\* The planner reads neither bounds nor lengths nor alternatives, accepts null
\* for what is nullable and misses no read-only property.
PlanValid(unresolved, v) ==
    LET schema == Resolve(unresolved) IN
    /\ Resolvable(unresolved)
    /\ IF IsUpload(schema, v) THEN UploadValid(v)
       ELSE \/ v.kind = "null" /\ Get(schema, "nullable", FALSE)
            \/ /\ \A b \in Range(Get(schema, "allOf", << >>)) : PlanValid(b, v)
               /\ InEnum(schema, v) /\ HasType(schema, v)
               /\ v.kind = "object" =>
                     /\ \A n \in Required(schema) :
                           \/ n \in Names(v)
                           \/ n \in Declared(schema) /\ ReadOnly(Child(schema, n))
                     /\ \A n \in Names(v) :
                           IF n \in Declared(schema)
                           THEN PlanValid(Child(schema, n), v.fields[n])
                           ELSE ~Has(schema, "closed")
               /\ v.kind = "array" /\ Has(schema, "items") =>
                     \A i \in DOMAIN v.items : PlanValid(schema.items, v.items[i])

Quantity(v) == IF v.kind = "integer" THEN v.int ELSE v.units

WithinLengths(schema, v) ==
    v.kind = "string" => /\ v.len >= Get(schema, "minLength", 0)
                         /\ v.len <= Get(schema, "maxLength", v.len)

WithinBounds(schema, v) ==
    v.kind \in {"integer", "number"} =>
       /\ Quantity(v) >= Get(schema, "minimum", Quantity(v))
       /\ Quantity(v) <= Get(schema, "maximum", Quantity(v))

RECURSIVE ResponseValid(_, _, _)

\* The executor follows chains of references, sixty-four levels deep.
ResponseValid(schema, v, levels) ==
    /\ levels > 0
    /\ IF Has(schema, "ref")
       THEN Resolvable(schema) /\ ResponseValid(Resolve(schema), v, levels - 1)
       ELSE /\ Has(schema, "const") => v = schema.const
            /\ InEnum(schema, v)
            /\ \A b \in Range(Get(schema, "allOf", << >>)) :
                  ResponseValid(b, v, levels - 1)
            /\ Has(schema, "anyOf") =>
                  \E b \in Range(schema.anyOf) : ResponseValid(b, v, levels - 1)
            /\ Has(schema, "oneOf") =>
                  Cardinality({i \in DOMAIN schema.oneOf :
                     ResponseValid(schema.oneOf[i], v, levels - 1)}) = 1
            /\ HasType(schema, v)
            /\ WithinLengths(schema, v) /\ WithinBounds(schema, v)
            /\ v.kind = "object" =>
                  /\ Required(schema) \subseteq Names(v)
                  /\ \A n \in Names(v) \cap Declared(schema) :
                        ResponseValid(Child(schema, n), v.fields[n], levels - 1)
                  /\ Has(schema, "closed") => Names(v) \subseteq Declared(schema)
            /\ v.kind = "array" /\ Has(schema, "items") =>
                  \A i \in DOMAIN v.items :
                     ResponseValid(schema.items, v.items[i], levels - 1)

-----------------------------------------------------------------------------
(* Requests.  An operation has the segments of its path (a text, or the    *)
(* name of a path parameter), its parameters, and a body with its schema.  *)
(* A request has the texts of its path and the <<name, text>> pairs of its *)
(* query, headers and cookies.                                             *)

NoBody == [kind |-> "none"]

Locations == {"query", "header", "cookie"}

\* The text of a scalar on the wire; "7" is the string and the number.
Wire(v) ==
    CASE v.kind = "integer" -> Text(ToString(v.int), 1)
      [] v.kind = "number"  -> Text(ToString(v.units), 1)
      [] v.kind = "boolean" -> Text(ToString(v.bool), 1)
      [] OTHER -> v

\* selected_content_type: the media types to take the first of, the one asked
\* for, else the JSON ones, else any.
MediaTypes(content, requested) ==
    LET asked == {i \in DOMAIN content : content[i].media = requested}
        json  == {i \in DOMAIN content : content[i].json}
    IN  IF requested # "" THEN asked
        ELSE IF json # {} THEN json ELSE DOMAIN content

\* request_body_schema.
Selected(op, requested) ==
    LET pick == MediaTypes(op.body.content, requested) IN
    IF op.body = NoBody THEN op
    ELSE IF pick = {} THEN Failed
    ELSE [op EXCEPT !.body = [schema |-> op.body.content[Min(pick)].schema,
                              json |-> op.body.content[Min(pick)].json,
                              required |-> op.body.required]]

RECURSIVE InsertNested(_, _, _)

\* insert_nested: the objects on the way are made, another value is an error.
InsertNested(v, path, new) ==
    IF v.kind # "object" THEN Failed
    ELSE IF Len(path) = 1 THEN With(v, path[1], new)
    ELSE LET child == IF path[1] \in Names(v) THEN v.fields[path[1]]
                      ELSE Object(<< >>)
             inner == InsertNested(child, Tail(path), new)
         IN  IF IsError(inner) THEN Failed ELSE With(v, path[1], inner)

\* baseline_with_explicit for one explicit field.
Explicit(given, field) ==
    IF IsError(given) THEN Failed
    ELSE IF field.in = "body"
    THEN LET old == IF given.body = NoBody THEN Object(<< >>) ELSE given.body
             new == InsertNested(old, field.path, field.value)
         IN  IF IsError(new) THEN Failed ELSE [given EXCEPT !.body = new]
    ELSE IF field.in \in Locations \cup {"path"}
    THEN [given EXCEPT !.params = (<<field.in, field.path[1]>> :> field.value) @@ @]
    ELSE Failed

BaselineWithExplicit(given, explicit) == FoldLeft(Explicit, given, explicit)

\* parameters(): those of the path item and of the operation, in this order.
Parameters(op) == op.shared \o op.params

Compulsory(p) == p.required \/ p.in = "path"

RECURSIVE GeneratedParameters(_, _, _)

\* What the caller gave stays; else a compulsory parameter is generated and an
\* optional one sometimes is.  A parameter met before is not generated again.
GeneratedParameters(inputs, parameters, op) ==
    IF parameters = << >> THEN inputs
    ELSE LET p == Head(parameters)
             key == <<p.in, p.name>>
             next(input) ==
               IF key \in DOMAIN input.params THEN {input}
               ELSE Then(GenerateValue(p.schema, 0), LAMBDA v :
                       {[input EXCEPT !.params = (key :> v) @@ @]})
                    \cup (IF Compulsory(p) THEN {} ELSE {input})
         IN  GeneratedParameters(Then(inputs, next), Tail(parameters), op)

\* generated_input: the parameters, then the body over the caller's.
GeneratedInputs(op, given) ==
    LET start == [kind |-> "input", params |-> given.params, body |-> given.body]
        bodies == IF given.body = NoBody THEN GenerateValue(op.body.schema, 0)
                  ELSE GenerateOver(op.body.schema, given.body, 0)
    IN  Then(GeneratedParameters({start}, Parameters(op), op), LAMBDA input :
           IF op.body = NoBody THEN {input}
           ELSE Then(bodies, LAMBDA v : {[input EXCEPT !.body = v]})
                \cup (IF op.body.required \/ given.body # NoBody THEN {}
                      ELSE {input}))

\* The planner's own list: an operation's parameter replaces the path item's.
PlannedParameters(op) ==
    SelectSeq(op.shared, LAMBDA p : \A i \in DOMAIN op.params :
                 <<op.params[i].in, op.params[i].name>> # <<p.in, p.name>>)
    \o op.params

\* The planner's part: every value is held to its schema, then serialised.
PlannedRequest(op, input) ==
    LET given == SelectSeq(PlannedParameters(op),
                           LAMBDA p : <<p.in, p.name>> \in DOMAIN input.params)
        value(p)  == input.params[<<p.in, p.name>>]
        pairs(in) == LET at == SelectSeq(given, LAMBDA p : p.in = in) IN
                     [i \in DOMAIN at |-> <<at[i].name, Wire(value(at[i]))>>]
        segment(s) == IF s.name = "" THEN s.text
                      ELSE Wire(input.params[<<"path", s.name>>])
    IN  IF \/ \E p \in Range(given) : ~PlanValid(p.schema, value(p))
           \/ op.body # NoBody /\ input.body # NoBody
              /\ ~PlanValid(op.body.schema, input.body)
        THEN Failed
        ELSE [kind  |-> "request",
              path  |-> [i \in DOMAIN op.path |-> segment(op.path[i])],
              named |-> [n \in {s.name : s \in Range(op.path)} \ {""} |->
                           Wire(input.params[<<"path", n>>])],
              pairs |-> [in \in Locations |-> pairs(in)],
              body  |-> input.body]

\* build_conformance_plan, one attempt.
PositiveRequests(options) ==
    LET op == Selected(options.operation, options.content_type)
        given == BaselineWithExplicit(options.given, options.explicit)
    IN  IF IsError(op) \/ IsError(given) THEN {Failed}
        ELSE Then(GeneratedInputs(op, given),
                  LAMBDA input : {PlannedRequest(op, input)})

-----------------------------------------------------------------------------
(* negative_plans.                                                         *)

Present(r, p) == \E i \in DOMAIN r.pairs[p.in] : r.pairs[p.in][i][1] = p.name

RemoveParameter(r, p) ==
    [r EXCEPT !.pairs[p.in] = SelectSeq(@, LAMBDA pair : pair[1] # p.name)]

\* A path parameter is found by its text: the first segment that has it.
ReplaceParameter(r, p, text) ==
    IF p.in = "path"
    THEN LET i == Min({j \in DOMAIN r.path : r.path[j] = r.named[p.name]})
         IN  [r EXCEPT !.path[i] = text]
    ELSE [r EXCEPT !.pairs[p.in] =
            [i \in DOMAIN @ |-> IF @[i][1] = p.name THEN <<p.name, text>> ELSE @[i]]]

NegativeRequests(options, r) ==
    LET op == Selected(options.operation, options.content_type)
        inBody == IF op.body = NoBody \/ r.body = NoBody \/ ~op.body.json THEN {}
                  ELSE {[strategy |-> <<"body">>, request |-> [r EXCEPT !.body = v]] :
                          v \in InvalidJsonValues(op.body.schema, r.body, 0)}
        omitted(p) ==
            IF p.required /\ p.in # "path" /\ Present(r, p)
            THEN {[strategy |-> <<"omit", p.in, p.name>>,
                   request |-> RemoveParameter(r, p)]}
            ELSE {}
        invalid(p) ==
            IF p.in = "path" \/ Present(r, p)
            THEN {[strategy |-> <<"invalid", p.in, p.name>>,
                   request |-> ReplaceParameter(r, p, text)] :
                     text \in InvalidScalar(p.schema)}
            ELSE {}
    IN  inBody \cup UNION {omitted(p) \cup invalid(p) : p \in Range(Parameters(op))}
=============================================================================
