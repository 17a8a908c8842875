----------------------------- MODULE MCStorage -----------------------------
(* Four commands on keys that begin alike, for TLC. *)
EXTENDS Storage

Put1(k, v) == [fn |-> "SET", key |-> k, val |-> v]
Del1(k)    == [fn |-> "DEL", key |-> k, val |-> <<>>]

KeyA     == <<"a">>
KeyAB    == <<"a", "b">>
KeyLine  == <<"a", "\n">>  \* of a request line without a version
ValLong  == <<"x", "x", "x", "x", "x", "x", "x">>
  \* the line buffer ends within its record

MCCmds == {Put1(KeyA, <<"y", "\n">>), Put1(KeyAB, ValLong), Put1(KeyLine, <<"x">>),
           Del1(KeyAB)}
MCJunk == {NUL, "1"}
=============================================================================
