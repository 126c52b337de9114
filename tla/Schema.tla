------------------------------- MODULE Schema -------------------------------
(***************************************************************************)
(* The validators of packages/core/src/schema: the builder `t`, the        *)
(* recursive compileSchema, and the adapters for foreign schemas.          *)
(*                                                                         *)
(* A value is a record tagged with what JavaScript says it is.  Numbers    *)
(* are in halves, so that some of them are no integers.  The paths and     *)
(* messages of issues are left out: a validator fails or returns a value.  *)
(***************************************************************************)
EXTENDS Integers, SequencesExt

CONSTANTS
    Names,          \* of properties
    Texts,          \* what strings may say
    BasicSchemas,   \* schemas without a schema inside, foreign ones too
    Depth           \* bound: how deep schemas and values are nested

Undefined == [is |-> "undefined"]
Null == [is |-> "null"]
Text(text) == [is |-> "string", text |-> text]
Halves(n) == [is |-> "number", halves |-> n]
NotANumber == [is |-> "number", nan |-> TRUE]
Bool(b) == [is |-> "boolean", bool |-> b]
Items(items) == [is |-> "array", items |-> items]
File == [is |-> "file"]
Function == [is |-> "function"]

\* An object reads undefined where it has no property.
Obj(props) ==
    [is |-> "object",
     props |-> [k \in Names |-> IF k \in DOMAIN props THEN props[k] ELSE Undefined]]

\* typeof v === "object" && v !== null && !Array.isArray(v)
IsObject(v) == v.is \in {"object", "file"}

\* What `in` and v[key] find: own properties, those of a File, and what every
\* object inherits, of which "constructor" stands for all.
Inherited == "constructor"
OwnKeys(v) == IF v.is = "object" THEN {k \in Names : v.props[k] # Undefined} ELSE {}
Has(v, key) == key \in OwnKeys(v) \/ key = Inherited \/ (v.is = "file" /\ key = "name")
Get(v, key) ==
    IF key \in OwnKeys(v) THEN v.props[key]
    ELSE IF key = Inherited THEN Function
    ELSE IF v.is = "file" /\ key = "name" THEN Text("name") ELSE Undefined

\* { ...g, ...f }
Over(f, g) == [k \in DOMAIN f \cup DOMAIN g |-> IF k \in DOMAIN f THEN f[k] ELSE g[k]]

OrUndefined(V) == V \cup {Undefined}

\* Objects that have properties of these names, with values in V.
Objects(names, V) ==
    [is : {"object"}, props : {f \in [Names -> OrUndefined(V)] : \A k \in Names \ names : f[k] = Undefined}]

Scalars ==
    [is : {"string"}, text : Texts] \cup [is : {"number"}, halves : Int] \cup [is : {"boolean"}, bool : BOOLEAN]
        \cup {Null, NotANumber, Function}

\* The values that are nested at most n deep; no part of a value is undefined, as
\* JSON, forms and parameters have it.
ValuesOf(names) ==
    LET upTo[n \in 0..Depth] ==
            IF n = 0 THEN Scalars
            ELSE Scalars \cup {File} \cup [is : {"array"}, items : Seq(upTo[n - 1])]
                    \cup Objects(names, upTo[n - 1])
    IN upTo

ValueTerms == OrUndefined(ValuesOf(Names)[Depth])

-----------------------------------------------------------------------------
(* The builder t. *)

\* The options are a record of those that are given; a pattern, or the format
\* "email", is the set of the texts it accepts.
tString(options) == [kind |-> "string", options |-> options]
tNumber(options) == [kind |-> "number", options |-> options]
tInteger(options) == [kind |-> "integer", options |-> options]
tBoolean == [kind |-> "boolean"]
tLiteral(value) == [kind |-> "literal", literal |-> value]
tEnum(values) == [kind |-> "enum", literals |-> values]
tArray(items) == [kind |-> "array", items |-> items]
tTuple(elements) == [kind |-> "tuple", elements |-> elements]
tUnion(variants) == [kind |-> "union", variants |-> variants]
tOptional(items) == [kind |-> "optional", items |-> items]
tNullable(items) == [kind |-> "nullable", items |-> items]
tRecord(values) == [kind |-> "record", values |-> values]
tUnknown == [kind |-> "unknown"]
tFile == [kind |-> "file"]
tFiles == [kind |-> "files"]

\* t.Object(properties, options), strict for additionalProperties: false.  Without
\* a list of what is required, that is every property that is not optional.
NoSchema == [kind |-> "none"]
tObject(properties, options) ==
    [kind |-> "object",
     properties |-> [k \in Names |-> IF k \in DOMAIN properties THEN properties[k] ELSE NoSchema],
     required |-> IF "required" \in DOMAIN options
                  THEN options.required
                  ELSE {k \in DOMAIN properties : properties[k].kind # "optional"},
     strict |-> "strict" \in DOMAIN options]

PropertyKeys(schema) == {k \in Names : schema.properties[k] # NoSchema}
RequiredKeys(schema) == schema.required

Composed == {"optional", "nullable", "array", "record", "union", "object"}

\* The schemas that are nested at most n deep.
SchemasOf(basic, strictness) ==
    LET upTo[n \in 0..Depth] ==
            IF n = 0 THEN basic
            ELSE basic
                \cup [kind : {"optional", "nullable", "array"}, items : upTo[n - 1]]
                \cup [kind : {"record"}, values : upTo[n - 1]]
                \cup [kind : {"union"}, variants : Seq(upTo[n - 1])]
                \cup [kind : {"object"}, properties : [Names -> upTo[n - 1] \cup {NoSchema}],
                      required : SUBSET Names, strict : strictness]
    IN upTo

SchemaTerms == SchemasOf(BasicSchemas, BOOLEAN)[Depth]

\* What a Standard Schema makes of a value is not looked into.
ASSUME SchemaAssumption ==
    /\ Depth \in Nat
    /\ {Inherited, "name"} \subseteq Names /\ "name" \in Texts
    /\ \A s \in BasicSchemas :
          /\ s.kind \notin Composed \cup {"none"}
          /\ s.kind = "standard" => \A v \in DOMAIN s.outputs : s.outputs[v] \in OrUndefined(Scalars)

-----------------------------------------------------------------------------
(* compileSchema(schema)(input). *)

Ok(value) == [success |-> TRUE, value |-> value]
Fail == [success |-> FALSE]
Check(test, input) == IF test THEN Ok(input) ELSE Fail

AllOk(results) == \A i \in DOMAIN results : results[i].success

IsText(input, o) ==
    /\ input.is = "string"
    /\ "minLength" \in DOMAIN o => Len(input.text) >= o.minLength
    /\ "maxLength" \in DOMAIN o => Len(input.text) <= o.maxLength
    /\ "pattern" \in DOMAIN o => input.text \in o.pattern

IsNumber(input, o) ==
    /\ input.is = "number" /\ input # NotANumber
    /\ "min" \in DOMAIN o => input.halves >= o.min
    /\ "max" \in DOMAIN o => input.halves <= o.max

\* A File, or an object that has a name.
IsFile(input) == IsObject(input) /\ Has(input, "name")
AreFiles(input) == input.is = "array" /\ Range(input.items) \subseteq {File}

\* The options of an integer are not looked at.
IsInteger(input) == input.is = "number" /\ input # NotANumber /\ input.halves % 2 = 0

\* Slip: properties that are there are validated, and none has to be.
NothingRequired(schema, input) == TRUE

HasRequired(schema, input) == \A key \in RequiredKeys(schema) : Has(input, key)

\* A strict object has only keys that props knows, which inherits some too.
NothingUnexpected(schema, input) ==
    schema.strict => \A key \in OwnKeys(input) : key \in PropertyKeys(schema) \cup {Inherited}

\* Slip: what validators returned is all there is.
OnlyValidated(schema, input, out) == Obj(out)

\* stripExtra ? out : { ...obj, ...out }
Merged(schema, input, out) ==
    Obj(IF schema.strict THEN out ELSE Over(out, [k \in OwnKeys(input) |-> input.props[k]]))

\* The adapter of TypeBox-like schemas: an undefined property has any type.
fromTypeBoxLike(schema, input) ==
    Check(/\ IsObject(input)
          /\ \A key \in schema.required : Has(input, key)
          /\ \A key \in DOMAIN schema.types : Get(input, key).is \in {"undefined", schema.types[key]},
          input)

\* The adapter of Standard Schema: a value that is null or undefined is the input.
fromStandardSchema(schema, input) ==
    IF input \in DOMAIN schema.outputs
    THEN Ok(IF schema.outputs[input] \in {Null, Undefined} THEN input ELSE schema.outputs[input])
    ELSE Fail

\* The validators of the schemas inside are made first: validate answers for them.

\* The keys that are there, each through its validator; undefined is not kept.
compileObject(validate, schema, input) ==
    LET present == {k \in PropertyKeys(schema) : Has(input, k)}
        results == [k \in present |-> validate[<<schema.properties[k], Get(input, k)>>]]
        kept == {k \in present : results[k].value # Undefined}
    IN IF IsObject(input) /\ HasRequired(schema, input) /\ NothingUnexpected(schema, input)
          /\ AllOk(results)
       THEN Ok(Merged(schema, input, [k \in kept |-> results[k].value]))
       ELSE Fail

compileArray(validate, schema, input) ==
    LET results == [i \in DOMAIN input.items |-> validate[<<schema.items, input.items[i]>>]]
    IN IF input.is = "array" /\ AllOk(results)
       THEN Ok(Items([i \in DOMAIN results |-> results[i].value]))
       ELSE Fail

compileRecord(validate, schema, input) ==
    LET results == [k \in OwnKeys(input) |-> validate[<<schema.values, input.props[k]>>]]
    IN IF IsObject(input) /\ AllOk(results)
       THEN Ok(Obj([k \in DOMAIN results |-> results[k].value]))
       ELSE Fail

\* The first variant that accepts.
compileUnion(validate, schema, input) ==
    LET results == [i \in DOMAIN schema.variants |-> validate[<<schema.variants[i], input>>]]
        accepting == {i \in DOMAIN results : results[i].success}
    IN IF accepting = {} THEN Fail
       ELSE results[CHOOSE i \in accepting : \A j \in accepting : i <= j]

\* Kinds without a case of their own, a tuple among them, accept everything.
compileBasic(schema, input) ==
    CASE schema.kind = "string"   -> Check(IsText(input, schema.options), input)
      [] schema.kind = "number"   -> Check(IsNumber(input, schema.options), input)
      [] schema.kind = "integer"  -> Check(IsInteger(input), input)
      [] schema.kind = "boolean"  -> Check(input.is = "boolean", input)
      [] schema.kind = "literal"  -> Check(input = schema.literal, input)
      [] schema.kind = "enum"     -> Check(input \in schema.literals, input)
      [] schema.kind = "file"     -> Check(IsFile(input), input)
      [] schema.kind = "files"    -> Check(AreFiles(input), input)
      [] schema.kind = "typebox"  -> fromTypeBoxLike(schema, input)
      [] schema.kind = "standard" -> fromStandardSchema(schema, input)
      [] OTHER -> Ok(input)

Compiled(validate, schema, input) ==
    CASE schema.kind = "optional" -> IF input = Undefined THEN Ok(input) ELSE validate[<<schema.items, input>>]
      [] schema.kind = "nullable" -> IF input = Null THEN Ok(input) ELSE validate[<<schema.items, input>>]
      [] schema.kind = "array"    -> compileArray(validate, schema, input)
      [] schema.kind = "object"   -> compileObject(validate, schema, input)
      [] schema.kind = "record"   -> compileRecord(validate, schema, input)
      [] schema.kind = "union"    -> compileUnion(validate, schema, input)
      [] OTHER -> compileBasic(schema, input)

Validators[n \in 0..Depth] ==
    [p \in SchemasOf(BasicSchemas, BOOLEAN)[n] \X ValueTerms |->
        Compiled(IF n = 0 THEN <<>> ELSE Validators[n - 1], p[1], p[2])]

compileSchema(schema, input) == Validators[Depth][<<schema, input>>]
=============================================================================
