--------------------------- MODULE MCApplication ----------------------------
(***************************************************************************)
(* Instances of Application for TLC: an instance of a plugin with a hook   *)
(* and a route, a plugin function with a macro, a module with a decorator; *)
(* a guard given one hook and a guard given an array.                      *)
(***************************************************************************)
EXTENDS Application

NoPlugin == [key |-> NoSeed, perUse |-> FALSE, scope |-> "local", hooks |-> [k \in HookKinds |-> <<>>],
             routes |-> <<>>, macros |-> {}, derives |-> 0, decorates |-> FALSE]
Installed == [NoPlugin EXCEPT !.key = "limiter", !.routes = <<<<>>>>,
                              !.hooks["beforeHandle"] = <<"limit">>]
Scoped == [NoPlugin EXCEPT !.key = "tracer", !.perUse = TRUE, !.scope = "global",
                           !.hooks["onRequest"] = <<"trace">>, !.derives = 1]
Module == [NoPlugin EXCEPT !.perUse = TRUE, !.scope = "scoped", !.routes = <<<<"own">>>>,
                           !.decorates = TRUE, !.macros = {"auth"}]

MCPluginOf == "limiter" :> Installed @@ "tracer" :> Scoped @@ "module" :> Module
MCMacroOf == "auth" :> [hooks |-> <<"authenticate">>, schema |-> "headers" :> "macro"]
MCGuardOf == "one"  :> [hook |-> "allow", many |-> FALSE, schema |-> "query" :> "guard"]
          @@ "many" :> [hook |-> "check", many |-> TRUE, schema |-> <<>>]

\* Every consistent handler text; handlers with parameters throw in the trial
\* call, which has none to give them.
Call(arg, async, text, sample) ==
    [arg |-> arg, arity |-> IF arg = "none" THEN 0 ELSE 1, async |-> async, text |-> text, sample |-> sample]
Calls0 == {Call("none", FALSE, "literal", "string"), Call("none", TRUE, "awaitReturn", "throws")}
          \cup {Call("none", FALSE, "newResponse", s) : s \in {"response", "raw"}}
          \cup {Call("none", FALSE, "other", s) : s \in Samples}
Calls1 == {Call(a, b, "other", "throws") : a \in Args \ {"none"}, b \in BOOLEAN}
          \cup {Call("request", TRUE, t, "throws") : t \in {"jsonText", "drainText", "awaitReturn"}}
          \cup {Call("{request}", FALSE, "branch", "throws")}
          \cup {Call("{params}", FALSE, t, "throws") : t \in {"param", "callParam"}}
          \cup {Call(a, FALSE, "call", "string") : a \in {"request", "{request}"}}
Registrations ==
    {[method |-> "GET", dynamic |-> d, given |-> g, schema |-> {}, transfer |-> FALSE] :
            d \in BOOLEAN, g \in {"none", "response"}}
    \cup {[method |-> "POST", dynamic |-> d, given |-> g, schema |-> s, transfer |-> FALSE] :
            d \in BOOLEAN, g \in {"none", "response"}, s \in {{}, {"body"}}}
    \cup {[method |-> "POST", dynamic |-> d, given |-> "none", schema |-> {"body"}, transfer |-> TRUE] :
            d \in BOOLEAN}
    \cup {[method |-> "POST", dynamic |-> FALSE, given |-> "map", schema |-> {}, transfer |-> FALSE]}
MCHandlers == {r @@ c @@ [hookText |-> t] : r \in Registrations, c \in Calls0 \cup Calls1, t \in HookTexts}
=============================================================================
