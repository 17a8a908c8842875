-------------------------------- MODULE Fifo -------------------------------
(* A bounded first-in first-out queue of requests, the promise of rBuff.    *)
EXTENDS Naturals, Sequences

CONSTANTS Reqs, Room, NoReq

VARIABLES
  queue,  \* requests pushed and not yet popped, oldest first
  out     \* the request popped last

Init == queue = <<>> /\ out = NoReq

Push(r) ==
  /\ Len(queue) < Room
  /\ queue' = Append(queue, r)
  /\ UNCHANGED out

Pop ==
  /\ queue # <<>>
  /\ out' = Head(queue)
  /\ queue' = Tail(queue)

Next == Pop \/ \E r \in Reqs : Push(r)

Spec == Init /\ [][Next]_<<queue, out>>
=============================================================================
