--------------------------- MODULE ManagerProofs ---------------------------
(***************************************************************************)
(* Proofs about Manager, for any sets of servers and clients, any size of  *)
(* the registry and of a socket.                                           *)
(***************************************************************************)
EXTENDS Manager, ProofLemmas, TLAPS

-----------------------------------------------------------------------------
(* Every variable keeps its type, the registry its limit, a socket its room. *)
THEOREM TypeCorrect == Spec => []TypeOK
<1>1. Init => TypeOK
  BY LimitsAssumption DEF Init, TypeOK, Peers
<1>2. TypeOK /\ [Next]_vars => TypeOK'
  <2> SUFFICES ASSUME TypeOK, [Next]_vars PROVE TypeOK'
    OBVIOUS
  <2> USE DEF TypeOK, managerVars, netVars, Goes, NextConnection, CloseClient, Peers
  <2>1. CASE Accept
    <3>1. backlog # <<>> /\ backlog \in Seq(Peers)
      BY <2>1 DEF Accept
    <3>2. Head(backlog) \in Peers /\ Tail(backlog) \in Seq(Peers)
      BY <3>1, HeadTailSet
    <3> QED BY <2>1, <3>2 DEF Accept
  <2>2. CASE RecvNothing
    BY <2>2 DEF RecvNothing
  <2>3. CASE RegisterFull
    BY <2>3 DEF RegisterFull
  <2>4. CASE Register
    <3>1. fd \in Servers /\ Len(servers) < MaxServer
      BY <2>4 DEF Register
    <3>2. servers' \in Seq(Servers) /\ Len(servers') <= MaxServer
      BY <2>4, <3>1, LimitsAssumption DEF Register
    <3>3. acked' \subseteq Servers /\ rst' \in [Servers -> {"none", "due", "here"}]
      BY <2>4, <3>1 DEF Register, Acknowledge
    <3> QED BY <2>4, <3>2, <3>3 DEF Register
  <2>5. CASE Refuse
    BY <2>5 DEF Refuse
  <2>6. CASE Forward
    <3>1. fd \in Clients /\ Target \in Servers
      BY <2>6 DEF Forward, Forwarding, Target
    <3>2. chan' = [chan EXCEPT ![Target] = Append(@, fd)] /\ Len(chan[Target]) < SockBuf
      BY <2>6 DEF Forward
    <3>3. chan' \in [Servers -> Seq(Clients)]
      BY <3>1, <3>2
    <3>4. \A s \in Servers : Len(chan'[s]) <= SockBuf
      <4> TAKE s \in Servers
      <4>1. CASE s = Target
        <5>1. chan'[s] = Append(chan[s], fd) /\ chan[s] \in Seq(Clients)
          BY <3>1, <3>2, <4>1
        <5>2. Len(chan'[s]) = Len(chan[s]) + 1 /\ Len(chan[s]) \in Nat
          BY <5>1, <3>1
        <5> QED BY <5>2, <3>2, <4>1, LimitsAssumption
      <4>2. CASE s # Target
        BY <3>2, <4>2
      <4> QED BY <4>1, <4>2
    <3> QED BY <2>6, <3>3, <3>4 DEF Forward
  <2>7. CASE ForwardLost
    <3>1. Target \in Servers
      BY <2>7 DEF ForwardLost, Forwarding, Target
    <3> QED BY <2>7, <3>1 DEF ForwardLost
  <2>8. CASE ForwardKills
    BY <2>8 DEF ForwardKills
  <2>9. ASSUME NEW p \in Peers, Connect(p) PROVE TypeOK'
    BY <2>9 DEF Connect
  <2>10. ASSUME NEW p \in Peers, SendMsg(p) PROVE TypeOK'
    BY <2>10 DEF SendMsg
  <2>11. ASSUME NEW p \in Peers, Leave(p) PROVE TypeOK'
    BY <2>11 DEF Leave
  <2>12. ASSUME NEW s \in Servers, ConnectFails(s) PROVE TypeOK'
    BY <2>12 DEF ConnectFails
  <2>13. ASSUME NEW s \in Servers, HandshakeEnds(s) PROVE TypeOK'
    BY <2>13 DEF HandshakeEnds
  <2>14. ASSUME NEW s \in Servers, ResetArrives(s) PROVE TypeOK'
    BY <2>14 DEF ResetArrives
  <2>15. CASE UNCHANGED vars
    BY <2>15 DEF vars
  <2> QED BY <2>1, <2>2, <2>3, <2>4, <2>5, <2>6, <2>7, <2>8, <2>9, <2>10, <2>11, <2>12,
             <2>13, <2>14, <2>15 DEF Next, Manage
<1> QED BY <1>1, <1>2, PTL DEF Spec
-----------------------------------------------------------------------------
(* The inductive invariant.  A peer connects once: it is in one place at a    *)
(* time, and in none before it has connected.  So the connection in hand is   *)
(* not one of a registered server, and closing it closes no control channel.  *)

OnceInv ==
  /\ Distinct(backlog)
  /\ \A p \in Peers : ppc[p] = "start" =>
       p \notin ToSet(backlog) /\ p # fd /\ p \notin ToSet(servers) /\ p \notin refused
  /\ \A p \in ToSet(backlog) : p # fd /\ p \notin ToSet(servers)
  /\ mpc = "recv" => fd \in Peers /\ fd \notin ToSet(servers)

OpenInv ==
  /\ OnlyServersStayOpen
  /\ mpc = "recv" => open = ToSet(servers) \cup {fd}

\* a client is late only if there is a server by then
LateInv ==
  /\ AckedIsRegistered
  /\ NotRefusedAfterAck
  /\ late # {} => servers # <<>>

ManagerInv == OnceInv /\ OpenInv /\ LateInv

LEMMA ManagerInvInit == Init => ManagerInv
BY PeersAssumption, EmptySet
   DEF Init, ManagerInv, OnceInv, OpenInv, LateInv, OnlyServersStayOpen, AckedIsRegistered,
       NotRefusedAfterAck, Peers, ToSet

LEMMA ManagerInvStep == TypeOK /\ ManagerInv /\ [Next]_vars => ManagerInv'
<1> SUFFICES ASSUME TypeOK, ManagerInv, [Next]_vars PROVE ManagerInv'
  OBVIOUS
<1> USE DEF ManagerInv, managerVars, netVars, Goes, NextConnection, CloseClient
<1>0. Nobody \notin Peers /\ Servers \subseteq Peers /\ Clients \subseteq Peers
      /\ Servers \cap Clients = {} /\ ToSet(<<>>) = {}
  BY PeersAssumption, EmptySet DEF Peers
<1>1. CASE Accept
  <2>1. /\ mpc = "accept" /\ backlog # <<>> /\ backlog \in Seq(Peers)
        /\ fd' = Head(backlog) /\ backlog' = Tail(backlog)
        /\ open' = open \cup {Head(backlog)} /\ mpc' = "recv"
        /\ UNCHANGED <<servers, acked, refused, ppc, late>>
    BY <1>1 DEF Accept, TypeOK
  <2>2. /\ fd' \in Peers /\ fd' \in ToSet(backlog) /\ ToSet(backlog') \subseteq ToSet(backlog)
        /\ fd' \notin ToSet(backlog') /\ Distinct(backlog')
    BY <2>1, HeadTailSet, TailDistinct DEF OnceInv
  <2>3. OnceInv'
    <3>1. ToSet(servers') = ToSet(servers) /\ fd' \notin ToSet(servers')
      BY <2>1, <2>2 DEF OnceInv
    <3>2. \A p \in ToSet(backlog') : p # fd' /\ p \notin ToSet(servers')
      BY <2>2, <3>1 DEF OnceInv
    <3>3. \A p \in Peers : ppc'[p] = "start" =>
            p \notin ToSet(backlog') /\ p # fd' /\ p \notin ToSet(servers') /\ p \notin refused'
      BY <2>1, <2>2, <3>1 DEF OnceInv
    <3> QED BY <2>2, <3>1, <3>2, <3>3 DEF OnceInv
  <2>4. OpenInv'
    BY <2>1, <2>2 DEF OpenInv, OnlyServersStayOpen
  <2>5. LateInv'
    BY <2>1 DEF LateInv, AckedIsRegistered, NotRefusedAfterAck
  <2> QED BY <2>3, <2>4, <2>5
<1>2. CASE RecvNothing \/ RegisterFull \/ Forward \/ ForwardLost
  <2>1. /\ mpc = "recv" /\ mpc' = "accept" /\ fd' = Nobody /\ open' = open \ {fd}
        /\ UNCHANGED <<servers, backlog, acked, refused, ppc, late>>
    BY <1>2 DEF RecvNothing, RegisterFull, Forward, ForwardLost, Forwarding
  <2>2. \A p \in ToSet(backlog) : p \in Peers
    BY DEF TypeOK, ToSet
  <2>3. OnceInv'
    BY <1>0, <2>1, <2>2 DEF OnceInv, ToSet, Distinct
  <2>4. OpenInv'
    BY <2>1 DEF OpenInv, OnceInv, OnlyServersStayOpen
  <2>5. LateInv'
    BY <2>1 DEF LateInv, AckedIsRegistered, NotRefusedAfterAck
  <2> QED BY <2>3, <2>4, <2>5
<1>3. CASE Register
  <2>1. /\ mpc = "recv" /\ fd \in Servers /\ servers' = Append(servers, fd)
        /\ acked' = acked \cup {fd} /\ mpc' = "accept" /\ fd' = Nobody
        /\ UNCHANGED <<open, backlog, refused, ppc, late>>
    BY <1>3 DEF Register, Acknowledge
  <2>2. ToSet(servers') = ToSet(servers) \cup {fd} /\ servers' # <<>>
    BY <2>1, AppendSet DEF TypeOK
  <2>3. \A p \in ToSet(backlog) : p \in Peers
    BY DEF TypeOK, ToSet
  <2>4. OnceInv'
    BY <1>0, <2>1, <2>2, <2>3 DEF OnceInv, Distinct
  <2>5. OpenInv'
    BY <2>1, <2>2 DEF OpenInv, OnlyServersStayOpen
  <2>6. LateInv'
    BY <2>1, <2>2 DEF LateInv, AckedIsRegistered, NotRefusedAfterAck
  <2> QED BY <2>4, <2>5, <2>6
<1>4. CASE Refuse
  <2>1. /\ mpc = "recv" /\ fd \in Clients /\ servers = <<>> /\ refused' = refused \cup {fd}
        /\ mpc' = "accept" /\ fd' = Nobody /\ open' = open \ {fd}
        /\ UNCHANGED <<servers, backlog, acked, ppc, late>>
    BY <1>4 DEF Refuse
  <2>2. \A p \in ToSet(backlog) : p \in Peers
    BY DEF TypeOK, ToSet
  <2>3. OnceInv'
    BY <1>0, <2>1, <2>2 DEF OnceInv, Distinct
  <2>4. OpenInv'
    BY <2>1 DEF OpenInv, OnceInv, OnlyServersStayOpen
  <2>5. LateInv'
    BY <2>1 DEF LateInv, AckedIsRegistered, NotRefusedAfterAck
  <2> QED BY <2>3, <2>4, <2>5
<1>5. CASE ForwardKills
  <2>1. /\ mpc' = "killed" /\ fd' = Nobody
        /\ UNCHANGED <<servers, backlog, acked, refused, ppc, late>>
    BY <1>5 DEF ForwardKills
  <2>2. \A p \in ToSet(backlog) : p \in Peers
    BY DEF TypeOK, ToSet
  <2> QED BY <1>0, <2>1, <2>2 DEF OnceInv, OpenInv, LateInv, OnlyServersStayOpen,
             AckedIsRegistered, NotRefusedAfterAck, Distinct
<1>6. ASSUME NEW p \in Peers, Connect(p) PROVE ManagerInv'
  <2>1. /\ ppc[p] = "start" /\ ppc' = [ppc EXCEPT ![p] = "connected"]
        /\ backlog' = Append(backlog, p)
        /\ late' = IF p \in Clients /\ acked # {} THEN late \cup {p} ELSE late
        /\ UNCHANGED <<mpc, fd, open, servers, acked, refused>>
    BY <1>6 DEF Connect
  <2>2. p \notin ToSet(backlog) /\ p # fd /\ p \notin ToSet(servers) /\ p \notin refused
    BY <2>1 DEF OnceInv
  <2>3. ToSet(backlog') = ToSet(backlog) \cup {p} /\ Distinct(backlog')
    BY <2>1, <2>2, AppendSet, AppendDistinct DEF TypeOK, OnceInv
  <2>4. \A q \in Peers : ppc'[q] = "start" => ppc[q] = "start" /\ q # p
    BY <2>1 DEF TypeOK
  <2>5. OnceInv'
    BY <2>1, <2>2, <2>3, <2>4 DEF OnceInv
  <2>6. OpenInv'
    BY <2>1 DEF OpenInv, OnlyServersStayOpen
  <2>7. LateInv'
    <3>1. acked # {} => servers # <<>>
      BY <1>0 DEF LateInv, AckedIsRegistered
    <3> QED BY <2>1, <2>2, <3>1 DEF LateInv, AckedIsRegistered, NotRefusedAfterAck
  <2> QED BY <2>5, <2>6, <2>7
<1>7. ASSUME NEW p \in Peers,
             SendMsg(p) \/ Leave(p) \/ (p \in Servers /\ (ConnectFails(p) \/ HandshakeEnds(p)))
      PROVE  ManagerInv'
  <2>1. /\ \E to \in {"sent", "gone", "serving"} : ppc' = [ppc EXCEPT ![p] = to]
        /\ UNCHANGED <<mpc, fd, open, servers, backlog, acked, refused, late>>
    BY <1>7 DEF SendMsg, Leave, ConnectFails, HandshakeEnds
  <2>2. \A q \in Peers : ppc'[q] = "start" => ppc[q] = "start"
    BY <2>1 DEF TypeOK
  <2> QED BY <2>1, <2>2 DEF OnceInv, OpenInv, LateInv, OnlyServersStayOpen, AckedIsRegistered,
             NotRefusedAfterAck, Distinct
<1>8. ASSUME NEW s \in Servers, ResetArrives(s) PROVE ManagerInv'
  BY <1>8 DEF ResetArrives, OnceInv, OpenInv, LateInv, OnlyServersStayOpen, AckedIsRegistered,
     NotRefusedAfterAck, Distinct
<1>9. CASE UNCHANGED vars
  BY <1>9 DEF vars, OnceInv, OpenInv, LateInv, OnlyServersStayOpen, AckedIsRegistered,
     NotRefusedAfterAck, Distinct
<1> QED BY <1>0, <1>1, <1>2, <1>3, <1>4, <1>5, <1>6, <1>7, <1>8, <1>9 DEF Next, Manage

LEMMA ManagerInvHolds == Spec => []ManagerInv
<1>1. Spec => []TypeOK
  BY TypeCorrect
<1> QED BY <1>1, ManagerInvInit, ManagerInvStep, PTL DEF Spec

(* Between two connections exactly the registered servers have their      *)
(* descriptors open: none leaks and no control channel is closed.          *)
THEOREM ControlChannelsKept == Spec => []OnlyServersStayOpen
<1>1. ManagerInv => OnlyServersStayOpen
  BY DEF ManagerInv, OpenInv
<1> QED BY <1>1, ManagerInvHolds, PTL

(* Every server that was sent "OK" is in the registry. *)
THEOREM AckedServersRegistered == Spec => []AckedIsRegistered
<1>1. ManagerInv => AckedIsRegistered
  BY DEF ManagerInv, LateInv
<1> QED BY <1>1, ManagerInvHolds, PTL

(* A client that connects after an "OK" is never told that there is no server. *)
THEOREM LateClientsServed == Spec => []NotRefusedAfterAck
<1>1. ManagerInv => NotRefusedAfterAck
  BY DEF ManagerInv, LateInv
<1> QED BY <1>1, ManagerInvHolds, PTL
=============================================================================
