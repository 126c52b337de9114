---------------------------- MODULE MCNodeServer ----------------------------
(***************************************************************************)
(* NodeServer for TLC: two connections of any kind.                        *)
(***************************************************************************)
EXTENDS NodeServer
=============================================================================
