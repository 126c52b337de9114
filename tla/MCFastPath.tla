----------------------------- MODULE MCFastPath -----------------------------
(***************************************************************************)
(* Two requests on a route with two beforeHandle hooks: enough for one to  *)
(* rebind the slot while the other waits, and for the flag that one sets   *)
(* to meet the other.                                                      *)
(***************************************************************************)
EXTENDS FastPath
=============================================================================
