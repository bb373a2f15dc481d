----------------------------- MODULE MCCampaign -----------------------------
(* Campaigns over generated requests: Campaign with the generator of       *)
(* CaseGenerator, for TLC.                                                 *)
EXTENDS CaseGenerator, Campaign

-----------------------------------------------------------------------------
(* A reference definition of what a schema allows, with every keyword the  *)
(* generator reads, and of what an operation accepts.                      *)

RECURSIVE Valid(_, _)

Valid(unresolved, v) ==
    LET schema == Resolve(unresolved)
        n == Quantity(v)
        passing(branches) == {i \in DOMAIN branches : Valid(branches[i], v)}
    IN  \/ v.kind = "null" /\ Get(schema, "nullable", FALSE)
        \/ /\ Has(schema, "const") => v = schema.const
           /\ InEnum(schema, v) /\ HasType(schema, v)
           /\ WithinLengths(schema, v) /\ WithinBounds(schema, v)
           /\ v.kind = "string" /\ Has(schema, "pattern") => v.text = schema.pattern
           /\ v.kind \in {"integer", "number"} =>
                /\ n > Get(schema, "exclusiveMinimum", n - 1)
                /\ n < Get(schema, "exclusiveMaximum", n + 1)
                /\ Has(schema, "aboveMinimum") => n > schema.minimum
                /\ Has(schema, "belowMaximum") => n < schema.maximum
                /\ n % Get(schema, "multipleOf", 1) = 0
           /\ Has(schema, "oneOf") => Cardinality(passing(schema.oneOf)) = 1
           /\ Has(schema, "anyOf") => passing(schema.anyOf) # {}
           /\ Has(schema, "allOf") => passing(schema.allOf) = DOMAIN schema.allOf
           /\ v.kind = "array" =>
                /\ Len(v.items) >= Get(schema, "minItems", 0)
                /\ Len(v.items) <= Get(schema, "maxItems", Len(v.items))
                /\ Get(schema, "uniqueItems", FALSE) => IsInjective(v.items)
                /\ Has(schema, "items") =>
                      \A i \in DOMAIN v.items : Valid(schema.items, v.items[i])
           /\ v.kind = "object" =>
                /\ Cardinality(Names(v)) >= Get(schema, "minProperties", 0)
                /\ Cardinality(Names(v))
                      <= Get(schema, "maxProperties", Cardinality(Names(v)))
                /\ Required(schema) \cap Writable(schema) \subseteq Names(v)
                /\ Has(schema, "closed") => Names(v) \subseteq Declared(schema)
                /\ \A x \in Names(v) \cap Declared(schema) :
                      x \in Writable(schema) /\ Valid(Child(schema, x), v.fields[x])

\* A text that a parameter of this schema may have.
ReadsAs(schema, text) ==
    \/ Valid(schema, text)
    \/ \E v \in {Boolean(TRUE), Boolean(FALSE)}
                \cup {Integer(i) : i \in -Widest .. Widest} :
          Wire(v) = text /\ Valid(schema, v)

Accepts(op, r) ==
    /\ \A i \in DOMAIN op.path :
          IF op.path[i].name = "" THEN r.path[i] = op.path[i].text
          ELSE \A p \in Range(PlannedParameters(op)) :
                  p.in = "path" /\ p.name = op.path[i].name =>
                     ReadsAs(p.schema, r.path[i])
    /\ \A p \in {q \in Range(PlannedParameters(op)) : q.in # "path"} :
          /\ p.required => Present(r, p)
          /\ \A i \in DOMAIN r.pairs[p.in] :
                r.pairs[p.in][i][1] = p.name =>
                   ReadsAs(p.schema, r.pairs[p.in][i][2])
    /\ IF r.body = NoBody THEN op.body = NoBody \/ ~op.body.required
       ELSE Valid(op.body.schema, r.body)

Operation == Selected(options.operation, options.content_type)

Baseline == BaselineWithExplicit(options.given, options.explicit)

\* A path parameter is looked for by its text, so the mutation may hit an
\* earlier segment that has the same one.
Ambiguous(c) ==
    /\ Len(c.strategy) = 3 /\ c.strategy[2] = "path"
    /\ \E p \in Range(positive) : \E i, j \in DOMAIN p.request.path :
          i < j /\ p.request.path[i] = p.request.path[j]

-----------------------------------------------------------------------------
(* Properties.                                                             *)

\* A positive case is a request its operation accepts, for every choice the
\* hash may make; what the caller gave is in it unchanged.  (A body the caller
\* began is completed with required properties, but not to minProperties.)
GeneratedConforms ==
    \A c \in Range(positive) :
       /\ Baseline.body = NoBody => Accepts(Operation, c.request)
       /\ \A key \in DOMAIN Baseline.params :
             IF key[1] = "path"
             THEN c.request.named[key[2]] = Wire(Baseline.params[key])
             ELSE <<key[2], Wire(Baseline.params[key])>>
                     \in Range(c.request.pairs[key[1]])
       /\ \A n \in Names(Baseline.body) :
             n \in Names(c.request.body)
             /\ (Baseline.body.fields[n].kind # "object" =>
                   c.request.body.fields[n] = Baseline.body.fields[n])

\* A negative case is a request its operation does not accept, and a body that
\* was made invalid is one the executor's own validator would refuse.
NegativesViolate ==
    \A c \in Range(negative) :
       /\ Ambiguous(c) \/ ~Accepts(Operation, c.request)
       /\ c.strategy = <<"body">> =>
             ~ResponseValid(Operation.body.schema, c.request.body, 64)

-----------------------------------------------------------------------------
(* The instances.                                                          *)

MCComponents ==
    [node |-> [type |-> "object",
               properties |-> <<[name |-> "next", schema |-> [ref |-> "node"]],
                                [name |-> "v", schema |-> [type |-> "boolean"]]>>,
               required |-> <<"v">>]]

Prop(n, s) == [name |-> n, schema |-> s]

\* Schemas of every construct the generator handles on its own.
BodySchemas ==
    {[ref |-> "node"],
     [type |-> "integer", minimum |-> -8, maximum |-> 7],
     [type |-> "integer", exclusiveMinimum |-> 1, exclusiveMaximum |-> 5,
      multipleOf |-> 3],
     [type |-> "integer", minimum |-> 1, maximum |-> 5, aboveMinimum |-> TRUE,
      belowMaximum |-> TRUE],
     [type |-> "number", exclusiveMinimum |-> -2, maximum |-> 5, multipleOf |-> 2],
     [type |-> "number", minimum |-> 8, exclusiveMaximum |-> 13, multipleOf |-> 3],
     [type |-> "string", minLength |-> 2, maxLength |-> 4],
     [type |-> "string", maxLength |-> 0],
     [type |-> "string", maxLength |-> 6],
     [type |-> "string", pattern |-> "7", minLength |-> 2],
     [type |-> "string", format |-> "date"],
     [const |-> Text("k", 1)],
     [types |-> <<"integer", "null">>, minimum |-> 0, maximum |-> 2],
     [enum |-> <<Text("red", 3), Text("blue", 4)>>, type |-> "string"],
     [oneOf |-> <<[type |-> "integer", minimum |-> 0, maximum |-> 1],
                  [type |-> "string", minLength |-> 1, maxLength |-> 1]>>],
     [allOf |-> <<[type |-> "object", properties |-> <<Prop("a", [type |-> "null"])>>,
                   required |-> <<"a">>],
                  [type |-> "object", required |-> <<"b">>,
                   properties |-> <<Prop("b", [type |-> "boolean"])>>]>>],
     [type |-> "array", items |-> [type |-> "boolean"], minItems |-> 1,
      maxItems |-> 2, uniqueItems |-> TRUE],
     [type |-> "object", closed |-> TRUE, minProperties |-> 2, maxProperties |-> 2,
      required |-> <<"a">>,
      properties |-> <<Prop("a", [type |-> "boolean"]),
                       Prop("b", [type |-> "integer", minimum |-> 0, maximum |-> 1]),
                       Prop("c", [type |-> "string", maxLength |-> 1]),
                       Prop("id", [type |-> "string", readOnly |-> TRUE])>>]}

Lit(t)  == [name |-> "", text |-> t]
Arg(n)  == [name |-> n, text |-> Text("", 0)]
Param(n, in, required, s) == [name |-> n, in |-> in, required |-> required, schema |-> s]
Json(s) == <<[media |-> "application/json", json |-> TRUE, schema |-> s]>>

Nothing == [kind |-> "input", params |-> << >>, body |-> NoBody]

Op(path, shared, params, body) ==
    [kind |-> "operation", path |-> path, shared |-> shared, params |-> params,
     body |-> body]

Creates(s) == Op(<<Lit(Text("things", 6))>>, << >>, << >>,
                 [required |-> TRUE, content |-> Json(s)])

\* Parameters at every place, one of them declared twice, and two path
\* parameters that may have the same text.
Finds ==
    Op(<<Lit(Text("a", 1)), Arg("name"), Arg("id")>>,
       <<Param("name", "path", TRUE, [type |-> "string", minLength |-> 1,
                                      maxLength |-> 1])>>,
       <<Param("id", "path", TRUE, [type |-> "integer", minimum |-> 7,
                                    maximum |-> 7]),
         Param("on", "query", TRUE, [type |-> "boolean"]),
         Param("tag", "header", FALSE, [enum |-> <<Text("red", 3)>>]),
         Param("sid", "cookie", TRUE, [type |-> "string", minLength |-> 1,
                                       maxLength |-> 1])>>,
       NoBody)

\* The first media type is not JSON: its mutations are left out.
Uploads ==
    Op(<<Lit(Text("files", 5))>>, << >>, << >>,
       [required |-> FALSE,
        content |-> <<[media |-> "text/plain", json |-> FALSE,
                       schema |-> [type |-> "string", maxLength |-> 1]]>>])

\* An operation with one valid and two invalid requests, for the races and
\* the faults.
Toggles ==
    Op(<<Lit(Text("t", 1))>>, << >>,
       <<Param("on", "query", TRUE, [type |-> "boolean",
                                     enum |-> <<Boolean(TRUE)>>])>>, NoBody)

AllGrants(n) == {Grant("request", 0), Grant("negative", 0), Grant("execute", n)}

Asked(op, given, explicit, media, mode, cases) ==
    [operation |-> op, given |-> given, explicit |-> explicit,
     content_type |-> media, mode |-> mode, cases |-> cases, max_failures |-> 1,
     delay_ms |-> 0, planners |-> {"p1"}, faults |-> FALSE, grants |-> {},
     same_policy |-> TRUE]

Generations ==
    {Asked(Creates(s), Nothing, << >>, "", "mixed", 1) : s \in BodySchemas}
    \cup {Asked(Finds, Nothing, << >>, "", "negative", 1),
          Asked(Uploads, Nothing, << >>, "", "mixed", 1),
          Asked(Uploads, Nothing, << >>, "application/xml", "mixed", 1),
          Asked(Toggles, Nothing, << >>, "", "mixed", 0),
          Asked(Toggles, Nothing,
                <<[in |-> "nowhere", path |-> <<"x">>, value |-> Null]>>, "",
                "mixed", 1),
          Asked(Toggles, Nothing,
                <<[in |-> "query", path |-> <<"on">>, value |-> Boolean(TRUE)]>>,
                "", "positive", 2),
          Asked(Uploads, Nothing,
                <<[in |-> "body", path |-> <<"x">>, value |-> Null]>>, "",
                "mixed", 1)}
    \cup {Asked(Creates(s), Nothing,
                <<[in |-> "body", path |-> <<"a">>, value |-> Boolean(TRUE)]>>,
                "", "positive", 1) :
            s \in {t \in BodySchemas : Has(t, "minProperties") \/ Has(t, "ref")}}

\* Gates: a grant for another number of cases, another policy.
Gated ==
    {[Asked(Toggles, Nothing, << >>, "", mode, 2) EXCEPT
        !.grants = AllGrants(granted), !.same_policy = same] :
       mode \in {"mixed", "negative", "positive"}, granted \in {1, 2},
       same \in BOOLEAN}

\* Two planners race and die, plans are substituted, evidence fails.
Executed ==
    {[Asked(Toggles, Nothing, << >>, "", "mixed", 2) EXCEPT
        !.max_failures = failures, !.planners = Planners, !.faults = TRUE,
        !.grants = AllGrants(2)] : failures \in {1, 2}}

MCOptions == Generations \cup Gated \cup Executed
=============================================================================
