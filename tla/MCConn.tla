------------------------------- MODULE MCConn ------------------------------
(* Two workers and two connections, for TLC. *)
EXTENDS Conn, TLC

CONSTANTS w1, w2, c1, c2

ConnSymmetry == Permutations({w1, w2}) \cup Permutations({c1, c2})
=============================================================================
