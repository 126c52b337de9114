---------------------------- MODULE MCValidation ----------------------------
(***************************************************************************)
(* Validation for TLC: schemas of every kind, nested one level into every  *)
(* other, against scalars, arrays of up to two items and objects of up to  *)
(* three properties, one of them called like an inherited one.             *)
(***************************************************************************)
EXTENDS Validation

NoOptions == [k \in {} |-> 0]
Keys == {"a", "name", "constructor"}
AllKeys == Keys \cup {"b"}
MCTexts == STRING

Leaves ==
    {tString(NoOptions), tString([minLength |-> 1, maxLength |-> 1]), tString([pattern |-> {"a"}]),
     tNumber(NoOptions), tNumber([min |-> 0, max |-> 2]), tInteger([min |-> 2]), tBoolean,
     tLiteral(Text("a")), tEnum({Text("a"), Text("ab")}), tUnknown, tTuple(<<tString(NoOptions)>>),
     tFile, tFiles}

Fields ==
    {tString(NoOptions), tNullable(tString([maxLength |-> 1])), tOptional(tInteger(NoOptions)),
     tOptional(tArray(tString(NoOptions))), tFile}

SomeOf(keys, options) == UNION {[K -> options] : K \in SUBSET keys}

Strictness == {NoOptions, [strict |-> TRUE]}

\* Some with a list of what is required: too little, or more than there is.
ListedSchemas ==
    {tObject(properties, [required |-> r] @@ o) :
        properties \in SomeOf({"a", "name"}, {tString(NoOptions), tOptional(tInteger(NoOptions)), tFile}),
        r \in SUBSET Keys, o \in Strictness}

ObjectSchemas == {tObject(properties, o) : properties \in SomeOf(Keys, Fields), o \in Strictness} \cup ListedSchemas

Nested ==
    LET inner == Leaves \cup {tObject(p, [strict |-> TRUE]) : p \in SomeOf({"a"}, Fields)}
    IN {tOptional(s) : s \in inner} \cup {tNullable(s) : s \in inner} \cup {tArray(s) : s \in inner}
        \cup {tRecord(s) : s \in inner} \cup {tUnion(<<s, u>>) : s \in inner, u \in inner}

Foreign ==
    {[kind |-> "typebox", types |-> p, required |-> r] :
        p \in SomeOf({"a", "name"}, {"string", "number"}), r \in SUBSET {"a", "name"}}
    \cup {[kind |-> "standard", outputs |-> o] : o \in SomeOf({Text("a"), Null}, {Null, Text("ab")})}

MCBasicSchemas ==
    Leaves \cup Foreign \cup {tString([maxLength |-> 1]), tNumber([max |-> 1]), tInteger(NoOptions)}

MCSchemas == Leaves \cup ObjectSchemas \cup Nested \cup Foreign

Atoms ==
    {Null, Text(""), Text("a"), Text("ab"), Halves(0), Halves(1), Halves(6), NotANumber, Bool(TRUE), File}
Parts == {Null, Text("ab"), Halves(1), Halves(6), File, Items(<<Text("a")>>)}

MCInputs ==
    {Undefined} \cup Atoms \cup {Items(s) : s \in BoundedSeq(Atoms, 2)}
        \cup {Obj(f) : f \in SomeOf(Keys, Parts)}

\* One field of each kind that loadEnv reads, with the values it may have.
EnvFields ==
    {<<tString(NoOptions), Text("1")>>, <<tEnum({Text("a"), Text("ab")}), Text("ab")>>,
     <<tBoolean, Bool(TRUE)>>, <<tBoolean, Bool(FALSE)>>,
     <<tInteger(NoOptions), Halves(2)>>, <<tNumber([max |-> 1]), Halves(1)>>,
     <<tArray(tString(NoOptions)), Items(<<Text("a"), Text("b")>>)>>,
     <<tArray(tString(NoOptions)), Items(<<Text("a")>>)>>,
     <<tOptional(tString(NoOptions)), Text("ab")>>}

MCConfigurations ==
    {[schema |-> tObject([k \in {"a", "b"} |-> f[k][1]], o),
      value |-> Obj([k \in {"a", "b"} |-> f[k][2]])] :
        f \in [{"a", "b"} -> EnvFields], o \in Strictness}

MCNumberOf == ("" :> 0) @@ ("0" :> 0) @@ ("1" :> 2) @@ ("0.5" :> 1) @@ (".5" :> 1)
MCTrueTexts == {"1", "true", "True", "TRUE"}
MCPartsOf == ("a,b" :> <<"a", "b">>) @@ ("a, b" :> <<"a", "b">>) @@ (" a" :> <<"a">>) @@ (" a, b " :> <<"a", "b">>)
MCUpperCase == ("a" :> "A") @@ ("b" :> "B")
=============================================================================
