------------------------------ MODULE MCRBuff ------------------------------
(* Small rings for TLC. *)
EXTENDS RBuff, TLC

CONSTANTS w1, w2, r1, r2, r3
=============================================================================
