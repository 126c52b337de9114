---------------------------- MODULE MCRateLimit -----------------------------
(***************************************************************************)
(* Two clients with a key each: one is known by its forwarded address, the *)
(* other shares the key of all clients nothing is known of.                *)
(***************************************************************************)
EXTENDS RateLimit
CONSTANTS Known, Proxied
Remotes == [c \in Clients |-> None]
Forwarded == [c \in Clients |-> IF c = Proxied THEN Known ELSE None]
=============================================================================
