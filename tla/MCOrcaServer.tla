---------------------------- MODULE MCOrcaServer ---------------------------
(* Two workers, few requests, for TLC. *)
EXTENDS OrcaServer

CONSTANTS w1, w2, a, b, v1, v2
=============================================================================
