------------------------------- MODULE KVMap -------------------------------
(***************************************************************************)
(* What hashmap.h promises of the hash map: a dictionary.  One call is in  *)
(* progress at a time; an insert takes effect at some moment between its   *)
(* call and its return, a get or a delete at the moment it returns.        *)
(***************************************************************************)
CONSTANTS
  Keys,   \* key strings
  Vals,   \* value pointers, none of them NULL
  Calls,  \* which of the three operations the caller uses
  NoKey,  \* no key
  NoVal   \* a NULL value

VARIABLES
  dict,  \* the value of every key, NoVal for a key that is not in the map
  call,  \* the call in progress
  done,  \* the insert in progress has taken effect
  ret    \* the last call that returned, and what it returned

kvVars == <<dict, call, done, ret>>

NoCall == [fn |-> "idle", key |-> NoKey, val |-> NoVal]

Init ==
  /\ dict = [k \in Keys |-> NoVal]
  /\ call = NoCall /\ done = FALSE
  /\ ret = [fn |-> "none", key |-> NoKey, out |-> "ok"]

Call(fn, k, v) ==
  /\ call = NoCall /\ fn \in Calls
  /\ call' = [fn |-> fn, key |-> k, val |-> v]
  /\ UNCHANGED <<dict, done, ret>>

\* the new value becomes visible, the call goes on
TakeEffect ==
  /\ call.fn = "insert" /\ ~done
  /\ dict' = [dict EXCEPT ![call.key] = call.val]
  /\ done' = TRUE
  /\ UNCHANGED <<call, ret>>

Return(out) ==
  /\ call' = NoCall /\ done' = FALSE
  /\ ret' = [fn |-> call.fn, key |-> call.key, out |-> out]

\* "@return 0 on success": the key has the value of the call
PutReturns ==
  /\ call.fn = "insert"
  /\ dict' = IF done THEN dict ELSE [dict EXCEPT ![call.key] = call.val]
  /\ Return("ok")

\* "Pointer to value string, or NULL if not found"
GetReturns ==
  /\ call.fn = "get"
  /\ UNCHANGED dict
  /\ Return(dict[call.key])

\* "0 on success, -1 if key not found"
DeleteReturns ==
  /\ call.fn = "delete"
  /\ dict' = [dict EXCEPT ![call.key] = NoVal]
  /\ Return(IF dict[call.key] = NoVal THEN "fail" ELSE "ok")

Respond == PutReturns \/ GetReturns \/ DeleteReturns

Next ==
  \/ \E k \in Keys, v \in Vals : Call("insert", k, v)
  \/ \E k \in Keys : Call("get", k, NoVal) \/ Call("delete", k, NoVal)
  \/ TakeEffect
  \/ Respond

\* what the map may do, and that every call returns
Safety == Init /\ [][Next]_kvVars
Spec   == Safety /\ WF_kvVars(Respond)
=============================================================================
