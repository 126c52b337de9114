--------------------------- MODULE MCPluginStack ----------------------------
(***************************************************************************)
(* PluginStack for TLC: a browser with two requests, and the applications  *)
(* whose plugins meet: caching, cookies and tokens, credentials and        *)
(* bodies; each on Bun and on Node.                                        *)
(***************************************************************************)
EXTENDS PluginStack, TLC

App(plugins) ==
    [plugins |-> plugins, signed |-> FALSE, encrypted |-> FALSE, flag |-> None, now |-> 1,
     keys |-> {"valid"}, keyInQuery |-> FALSE,
     policy |-> [listed |-> {"listed"}, credentials |-> FALSE, any |-> FALSE],
     maxSize |-> BodyLimit, rules |-> <<>>, schema |-> FALSE, onError |-> FALSE, node |-> FALSE]

Caching == {App(<<"helmet", "cors", "compress", "etag">>),
            [App(<<"etag", "compress">>) EXCEPT !.onError = TRUE]}

Sessions ==
    {[App(<<"cookie", "csrf", "etag">>) EXCEPT !.signed = s, !.encrypted = e, !.onError = o] :
        s \in BOOLEAN, e \in BOOLEAN, o \in BOOLEAN}

Guards ==
    {App(<<"csrf", "requestId", "basicAuth">>),
     [App(<<"cors", "etag">>) EXCEPT !.flag = "jwt", !.policy.any = TRUE],
     [App(<<>>) EXCEPT !.flag = "bearer"],
     [App(<<>>) EXCEPT !.flag = "apiKey"],
     [App(<<"etag">>) EXCEPT !.flag = "apiKey", !.keyInQuery = TRUE]}

Uploads ==
    {[App(<<"bodyLimit">>) EXCEPT
        !.rules = <<[here |-> TRUE, type |-> None, maxSize |-> 0],
                    [here |-> TRUE, type |-> "json", maxSize |-> BodyLimit],
                    [here |-> FALSE, type |-> None, maxSize |-> BodyLimit]>>],
     [App(<<"bodyLimit">>) EXCEPT !.schema = TRUE, !.onError = TRUE]}

MCStacks ==
    UNION {{app, [app EXCEPT !.node = TRUE]} : app \in Caching \cup Sessions \cup Guards \cup Uploads}

MCTokens ==
    {[shape |-> "empty", signature |-> "none", exp |-> 2, nbf |-> 0],
     [shape |-> "jwt", signature |-> "good", exp |-> 1, nbf |-> 1],
     [shape |-> "jwt", signature |-> "good", exp |-> 0, nbf |-> 0],
     [shape |-> "jwt", signature |-> "forged", exp |-> 2, nbf |-> 0],
     [shape |-> "jwt", signature |-> "garbled", exp |-> 2, nbf |-> 0]}

Symmetry == Permutations(Requests)
=============================================================================
