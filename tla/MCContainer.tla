---------------------------- MODULE MCContainer -----------------------------
(***************************************************************************)
(* Container for TLC: two tokens that may need each other, the             *)
(* application's container and one request's.                              *)
(***************************************************************************)
EXTENDS Container

MCDependencies == {<<>>, <<"A">>, <<"B">>, <<"B", "A">>}
=============================================================================
