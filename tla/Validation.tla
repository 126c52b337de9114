----------------------------- MODULE Validation -----------------------------
(***************************************************************************)
(* Values on their way through the validators of module Schema: one that   *)
(* arrived in a request, or a configuration that was written into the      *)
(* environment and the defaults of loadEnv (packages/core/src/env.ts).     *)
(***************************************************************************)
EXTENDS Schema

CONSTANTS
    Schemas, Inputs,    \* of requests
    Configurations,     \* schemas of environments with a value of each
    NumberOf,           \* the texts that Number() reads as a finite number, in halves
    TrueTexts,          \* "1", and true in small and capital letters
    PartsOf,            \* the texts that splitting at commas and trimming change
    UpperCase           \* of the names of environment variables

VARIABLES
    schema,
    meant,        \* the value its author has in mind
    environment,  \* NoValue for a value of a request, else the process's variables
    defaults,     \* options.defaults
    output        \* what validation returned, or NoValue

validationVars == <<schema, meant, environment, defaults, output>>

NoValue == [is |-> "none"]

-----------------------------------------------------------------------------
(* loadEnv. *)

\* raw.split(",").map((s) => s.trim())
SplitAndTrimmed(raw) ==
    LET parts == IF raw \in DOMAIN PartsOf THEN PartsOf[raw] ELSE <<raw>>
    IN Items([i \in DOMAIN parts |-> Text(parts[i])])

\* By the field's own kind: the text of an optional number stays a text.
coerceEnvValue(field, raw) ==
    CASE field.kind = "boolean" -> Bool(raw \in TrueTexts)
      [] field.kind \in {"number", "integer"} /\ raw \in DOMAIN NumberOf -> Halves(NumberOf[raw])
      [] field.kind = "array" -> SplitAndTrimmed(raw)
      [] OTHER -> Text(raw)

\* A variable named like the property, or else like it in upper case.
envToObject(s, env) ==
    LET name(key) == IF key \in DOMAIN env THEN key ELSE UpperCase[key]
        set == {key \in PropertyKeys(s) : name(key) \in DOMAIN env}
    IN [key \in set |-> coerceEnvValue(s.properties[key], env[name(key)])]

loadEnv ==
    /\ environment # NoValue /\ output = NoValue
    /\ output' = compileSchema(schema, Obj(Over(envToObject(schema, environment), defaults)))
    /\ UNCHANGED <<schema, meant, environment, defaults>>

Validate ==
    /\ environment = NoValue /\ output = NoValue
    /\ output' = compileSchema(schema, meant)
    /\ UNCHANGED <<schema, meant, environment, defaults>>

-----------------------------------------------------------------------------
(* How a configuration is written down. *)

Shown(value) ==
    CASE value.is = "string" -> {value.text}
      [] value.is = "boolean" -> IF value.bool THEN TrueTexts ELSE {"0", "false"}
      [] value.is = "number" -> {t \in DOMAIN NumberOf : NumberOf[t] = value.halves /\ t # ""}
      [] value.is = "array" -> {t \in DOMAIN PartsOf \cup {value.items[i].text : i \in DOMAIN value.items} :
                                   SplitAndTrimmed(t) = value}

\* Values that the text of a variable can say, for a field of this kind.
Readable(field, value) ==
    IF field.kind = "boolean" THEN value.is = "boolean"
    ELSE IF field.kind \in {"number", "integer"} THEN value.is = "number" /\ value # NotANumber
    ELSE IF field.kind = "array"
         THEN value.is = "array" /\ \A i \in DOMAIN value.items : value.items[i].is = "string"
         ELSE value.is = "string"

Places == {"variable", "upper case", "default"}

\* The variables and defaults for a choice of place and of text per property; the
\* name in upper case and the default of a property that stands in front of
\* them are taken by something else.
Written(config, place, text) ==
    LET keys == OwnKeys(config)
        Under(p) == {k \in keys : place[k] \in p}
        other == [n \in {UpperCase[k] : k \in Under({"variable"})} |-> "other"]
        named == [k \in Under({"variable"}) |-> text[k]]
        upper == [n \in {UpperCase[k] : k \in Under({"upper case"})} |->
                    text[CHOOSE k \in keys : UpperCase[k] = n]]
    IN [env |-> Over(named, Over(upper, other)),
        defaults |-> [k \in keys |-> IF place[k] = "default" THEN config.props[k] ELSE Text("other")]]

\* A configuration is one that its schema allows, and no two of its properties
\* are read from one variable.
ASSUME ValidationAssumption ==
    /\ Schemas \subseteq SchemaTerms /\ Inputs \subseteq ValueTerms
    /\ TrueTexts \cap {"0", "false"} = {}
    /\ \A c \in Configurations :
          /\ c.schema \in SchemaTerms /\ c.schema.kind = "object"
          /\ c.value \in ValueTerms /\ c.value.is = "object"
          /\ compileSchema(c.schema, c.value).success
          /\ OwnKeys(c.value) \subseteq PropertyKeys(c.schema)
          /\ \A j, k \in PropertyKeys(c.schema) : UpperCase[j] \in {k, UpperCase[k]} => j = k
          /\ \A k \in OwnKeys(c.value) : Readable(c.schema.properties[k], c.value.props[k])

ValidationInit ==
    /\ output = NoValue
    /\ \/ /\ schema \in Schemas /\ meant \in Inputs
          /\ environment = NoValue /\ defaults = NoValue
       \/ \E c \in Configurations :
            LET keys == OwnKeys(c.value)
                texts == UNION {Shown(c.value.props[k]) : k \in keys}
            IN \E place \in [keys -> Places], text \in [keys -> texts] :
                /\ \A k \in keys : text[k] \in Shown(c.value.props[k])
                /\ schema = c.schema /\ meant = c.value
                /\ environment = Written(c.value, place, text).env
                /\ defaults = Written(c.value, place, text).defaults

ValidationNext == Validate \/ loadEnv

ValidationSpec == ValidationInit /\ [][ValidationNext]_validationVars

-----------------------------------------------------------------------------
(* What is promised of a value that came through.  Both are defined by the  *)
(* depth of what they look into, like the validators themselves.           *)

\* Kinds that types.ts does not name, a tuple among them, are unknown; a property
\* that a list leaves out of what is required may be missing.
HasType(typed, s, v) ==
    /\ s.kind = "string" => v.is = "string"
    /\ s.kind \in {"number", "integer"} => v.is = "number"
    /\ s.kind = "boolean" => v.is = "boolean"
    /\ s.kind = "literal" => v = s.literal
    /\ s.kind = "enum" => v \in s.literals
    /\ s.kind = "object" =>
          /\ IsObject(v)
          /\ \A k \in PropertyKeys(s) :
                \/ typed[<<s.properties[k], Get(v, k)>>]
                \/ k \notin RequiredKeys(s) /\ ~Has(v, k)
    /\ s.kind = "array" => v.is = "array" /\ \A i \in DOMAIN v.items : typed[<<s.items, v.items[i]>>]
    /\ s.kind = "optional" => v = Undefined \/ typed[<<s.items, v>>]
    /\ s.kind = "nullable" => v = Null \/ typed[<<s.items, v>>]
    /\ s.kind = "union" => \E i \in DOMAIN s.variants : typed[<<s.variants[i], v>>]

\* v has the TypeScript type Static<s>.
InferSchema[n \in 0..Depth] ==
    [p \in SchemasOf(BasicSchemas, BOOLEAN)[n] \X ValueTerms |->
        HasType(IF n = 0 THEN <<>> ELSE InferSchema[n - 1], p[1], p[2])]

ReadAlike(same, v, w) ==
    /\ v.is = w.is
    /\ IF IsObject(v)
       THEN \A k \in OwnKeys(v) \cup OwnKeys(w) : same[<<Get(v, k), Get(w, k)>>]
       ELSE IF v.is = "array"
            THEN /\ Len(v.items) = Len(w.items)
                 /\ \A i \in DOMAIN v.items : same[<<v.items[i], w.items[i]>>]
            ELSE v = w

\* v and w are of one kind and read the same at every key and index.
Same[n \in 0..Depth] ==
    LET V == OrUndefined(ValuesOf(Names)[n])
    IN [p \in V \X V |-> ReadAlike(IF n = 0 THEN <<>> ELSE Same[n - 1], p[1], p[2])]

\* A validator of objects or of records copies what it is given to a plain object,
\* and meets a File in v; of a union, any variant's validator.
CopiesFile(copied, s, v) ==
    \/ s.kind \in {"object", "record"} /\ v.is = "file"
    \/ s.kind = "object" /\ IsObject(v) /\ \E k \in PropertyKeys(s) : copied[<<s.properties[k], Get(v, k)>>]
    \/ s.kind = "record" /\ \E k \in OwnKeys(v) : copied[<<s.values, Get(v, k)>>]
    \/ s.kind = "array" /\ v.is = "array" /\ \E i \in DOMAIN v.items : copied[<<s.items, v.items[i]>>]
    \/ s.kind \in {"optional", "nullable"} /\ copied[<<s.items, v>>]
    \/ s.kind = "union" /\ \E i \in DOMAIN s.variants : copied[<<s.variants[i], v>>]

FileCopied[n \in 0..Depth] ==
    [p \in SchemasOf(BasicSchemas, BOOLEAN)[n] \X ValueTerms |->
        CopiesFile(IF n = 0 THEN <<>> ELSE FileCopied[n - 1], p[1], p[2])]

\* No Standard Schema in it, no strict object in it; no own property called like an
\* inherited one.
Untransformed == SchemasOf({s \in BasicSchemas : s.kind # "standard"}, BOOLEAN)[Depth]
Unstripped == SchemasOf(BasicSchemas, {FALSE})[Depth]
Unshadowed == OrUndefined(ValuesOf(Names \ {Inherited})[Depth])

\* Neither a Standard Schema nor the copy of a File changes what is validated.
PassedOn == schema \in Untransformed /\ ~FileCopied[Depth][<<schema, meant>>]

\* What a handler, or the caller of loadEnv, gets has the type that TypeScript
\* inferred for the schema, but for properties that an explicit list of what is
\* required leaves out (docs/VALIDATION.md promises "full TypeScript inference"; its
\* own example is such a list); and it would be accepted again, unless a Standard
\* Schema transformed it or a File was copied (compileSchema, Static).  The bounds of
\* an integer and the items of a tuple are no part of it: nothing checks them.
ValidatedHasItsType ==
    output # NoValue /\ output.success =>
        /\ InferSchema[Depth][<<schema, output.value>>]
        /\ PassedOn => compileSchema(schema, output.value).success

\* Validation changes nothing that it lets through: no key, item or extra
\* property is lost, a File stays one, and a configuration comes back from the
\* environment whichever way it was written there (compileObject, loadEnv); except
\* that a strict object drops an own property called like an inherited one, that an
\* object or a record makes a plain object of a File it accepts, without its name
\* unless that is a property, and that a Standard Schema transforms.
ValuesComeThrough ==
    output # NoValue =>
        /\ environment # NoValue => output.success
        /\ output.success /\ PassedOn /\ (schema \in Unstripped \/ meant \in Unshadowed) =>
              Same[Depth][<<output.value, meant>>]
=============================================================================
