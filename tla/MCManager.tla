------------------------------ MODULE MCManager -----------------------------
(* Servers beyond the limit and a few clients, for TLC. *)
EXTENDS Manager, TLC

CONSTANTS s1, s2, c1, c2
=============================================================================
