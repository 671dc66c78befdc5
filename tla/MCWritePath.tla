----------------------------- MODULE MCWritePath -----------------------------
(***************************************************************************)
(* Two bodies race under one key, to the two endpoints, and the first call *)
(* is retried.                                                             *)
(***************************************************************************)
EXTENDS WritePath

CONSTANTS c1, c2, c3, k1, k2, b1, b2

MCKeyOf == [c \in Calls |-> IF c = c3 THEN k2 ELSE k1]
MCOpOf == [c \in Calls |-> IF c = c2 THEN "revoke" ELSE "delegate"]

\* Different bodies under k1, one retry of c1.
MCBodyOf == [c \in Calls |-> IF c = c1 THEN b1 ELSE b2]
MCRetries == [c \in Calls |-> IF c = c1 THEN 1 ELSE 0]
=============================================================================
