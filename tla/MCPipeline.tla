----------------------------- MODULE MCPipeline -----------------------------
(***************************************************************************)
(* Small routes for Pipeline: together they have every step, two hooks in  *)
(* the steps where the order of hooks matters, and the combinations that   *)
(* choose between the generated forms (with and without afterHandle,       *)
(* mapResponse, onError and onAfterResponse hooks).                        *)
(***************************************************************************)
EXTENDS Pipeline

NoHooks == [s \in Steps |-> IF s = "handler" THEN 1 ELSE 0]

MCRoutes == {
    \* guards, then a handler with its result hooks
    [NoHooks EXCEPT !["derive"] = 1, !["parse"] = 1, !["body"] = 1, !["transform"] = 1,
                    !["validators"] = 2, !["beforeHandle"] = 2, !["onError"] = 2],
    [NoHooks EXCEPT !["onRequest"] = 2, !["bodyLimit"] = 1, !["beforeHandle"] = 1,
                    !["afterHandle"] = 1, !["onAfterResponse"] = 1],
    \* every result step, with observers
    [NoHooks EXCEPT !["beforeHandle"] = 2, !["afterHandle"] = 2, !["mapResponse"] = 2,
                    !["onError"] = 1, !["onAfterResponse"] = 2],
    \* no afterHandle: the direct return, and a short-circuit that is mapped
    [NoHooks EXCEPT !["beforeHandle"] = 1, !["mapResponse"] = 2, !["onAfterResponse"] = 2],
    [NoHooks EXCEPT !["derive"] = 2, !["validators"] = 1, !["onError"] = 1,
                    !["onAfterResponse"] = 1],
    \* decorators alone
    NoHooks }

=============================================================================
