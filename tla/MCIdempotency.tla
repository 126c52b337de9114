--------------------------- MODULE MCIdempotency ----------------------------
(***************************************************************************)
(* Instances of Idempotency.  The requests are values of this module so    *)
(* that a cfg can choose which of them carry a key.                        *)
(***************************************************************************)
EXTENDS Idempotency

\* The last of the requests is, say, a GET: the plugin does not apply to it.
CONSTANT Unkeyed
OneUnkeyed == [r \in Requests |-> IF r = Unkeyed THEN None ELSE Key]

\* One request has a key of its own, and one has none.
CONSTANT Other
TwoKeys ==
    [r \in Requests |->
        CASE r = Unkeyed -> None
          [] r = Other -> CHOOSE k \in Keys \ {Key} : TRUE
          [] OTHER -> Key]

=============================================================================
