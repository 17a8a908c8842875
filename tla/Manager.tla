------------------------------ MODULE Manager ------------------------------
(***************************************************************************)
(* The manager process of misc/manager.c, one thread that takes one        *)
(* connection at a time, and its peers: servers, which register and keep   *)
(* the connection as a control channel, and clients, whose request it      *)
(* hands to the first server.  A message arrives whole or not at all.      *)
(***************************************************************************)
EXTENDS Naturals, Sequences, FiniteSets, SequencesExt

CONSTANTS
  Servers, Clients,
  MaxServer,  \* MAX_SERVER
  SockBuf,    \* requests the kernel holds for a server: no server reads them
  Nobody      \* no connection

ASSUME PeersAssumption  == Servers \cap Clients = {} /\ Nobody \notin Servers \cup Clients
ASSUME LimitsAssumption == MaxServer \in Nat \ {0} /\ SockBuf \in Nat \ {0}

Peers == Servers \cup Clients

VARIABLES
  mpc,       \* manager(): where its loop is; "killed" after a SIGPIPE
  fd,        \* the connection it handles
  servers,   \* servers[0 .. server_count - 1]
  open,      \* peers whose descriptor the manager holds
  backlog,   \* connections it has not accepted yet
  ppc,       \* per peer: its next step
  sent,      \* peers whose message has reached the manager's socket
  acked,     \* servers that were sent "OK"
  refused,   \* clients that were sent "No backend servers available"
  chan,      \* per server: the requests in its socket
  rst,       \* per server: "due" once a send met its closed socket, then "here"
  late       \* history: clients that connected after some server had its "OK"

managerVars == <<mpc, fd, servers, open>>
netVars     == <<backlog, sent, acked, refused, chan, rst>>
vars        == <<managerVars, netVars, ppc, late>>

Init ==
  /\ mpc = "accept" /\ fd = Nobody /\ servers = <<>> /\ open = {} /\ backlog = <<>>
  /\ ppc = [p \in Peers |-> "start"]
  /\ sent = {} /\ acked = {} /\ refused = {}
  /\ chan = [s \in Servers |-> <<>>] /\ rst = [s \in Servers |-> "none"]
  /\ late = {}

Goes(p, to) == ppc' = [ppc EXCEPT ![p] = to]
-----------------------------------------------------------------------------
(* Peers: handshake() of a server, and clients. *)

Connect(p) ==
  /\ ppc[p] = "start" /\ mpc # "killed"
  /\ Goes(p, "connected")
  /\ backlog' = Append(backlog, p)
  /\ late' = IF p \in Clients /\ acked # {} THEN late \cup {p} ELSE late
  /\ UNCHANGED <<managerVars, sent, acked, refused, chan, rst>>

\* connect() fails: the server starts without a manager
ConnectFails(s) ==
  /\ ppc[s] = "start" /\ mpc = "killed"
  /\ Goes(s, "serving")
  /\ UNCHANGED <<managerVars, netVars, late>>

SendMsg(p) ==
  /\ ppc[p] = "connected"
  /\ Goes(p, "sent")
  /\ sent' = sent \cup {p}
  /\ UNCHANGED <<managerVars, backlog, acked, refused, chan, rst, late>>

Closed(p) == mpc = "killed" \/ (p \notin open /\ p \notin ToSet(backlog))

\* recv() of the acknowledgement returns, with "OK" or at the end of file
HandshakeEnds(s) ==
  /\ ppc[s] = "sent" /\ (s \in acked \/ Closed(s))
  /\ Goes(s, "serving")
  /\ UNCHANGED <<managerVars, netVars, late>>

\* a client has its answer, or gives up; a server process dies
Leave(p) ==
  /\ ppc[p] \in {"connected", "sent", "serving"}
  /\ Goes(p, "gone")
  /\ UNCHANGED <<managerVars, netVars, late>>

\* what was sent to a dead server comes back as a reset
ResetArrives(s) ==
  /\ rst[s] = "due"
  /\ rst' = [rst EXCEPT ![s] = "here"]
  /\ UNCHANGED <<managerVars, backlog, sent, acked, refused, chan, ppc, late>>
-----------------------------------------------------------------------------
(* manager(): one connection after the other. *)

Accept ==
  /\ mpc = "accept" /\ backlog # <<>>
  /\ fd' = Head(backlog) /\ backlog' = Tail(backlog)
  /\ open' = open \cup {Head(backlog)}
  /\ mpc' = "recv"
  /\ UNCHANGED <<servers, sent, acked, refused, chan, rst, ppc, late>>

NextConnection == mpc' = "accept" /\ fd' = Nobody

\* n <= 0
RecvNothing ==
  /\ mpc = "recv" /\ ppc[fd] = "gone" /\ fd \notin sent
  /\ open' = open \ {fd}
  /\ NextConnection
  /\ UNCHANGED <<servers, netVars, ppc, late>>

\* send() to a server: it may have died
Acknowledge ==
  /\ acked' = acked \cup {fd}
  /\ rst' = IF ppc[fd] = "gone" THEN [rst EXCEPT ![fd] = "due"] ELSE rst

\* mutant: the descriptor stays open
Mut_FullKeepsOpen ==
  /\ mpc = "recv" /\ fd \in sent \cap Servers /\ Len(servers) >= MaxServer
  /\ NextConnection
  /\ UNCHANGED <<servers, open, netVars, ppc, late>>
\* mutant: "OK" is sent before the limit is looked at
Mut_FullAcks ==
  /\ mpc = "recv" /\ fd \in sent \cap Servers /\ Len(servers) >= MaxServer
  /\ Acknowledge
  /\ open' = open \ {fd}
  /\ NextConnection
  /\ UNCHANGED <<servers, backlog, sent, refused, chan, ppc, late>>

\* register_server, no room: closed, so that the "OK" goes nowhere
RegisterFull ==
  /\ mpc = "recv" /\ fd \in sent \cap Servers /\ Len(servers) >= MaxServer
  /\ open' = open \ {fd}
  /\ NextConnection
  /\ UNCHANGED <<servers, netVars, ppc, late>>

\* mutant: no limit
Mut_RegisterAny ==
  /\ mpc = "recv" /\ fd \in sent \cap Servers
  /\ servers' = Append(servers, fd)
  /\ Acknowledge
  /\ NextConnection
  /\ UNCHANGED <<open, backlog, sent, refused, chan, ppc, late>>
\* mutant: the entry is filled, server_count forgotten
Mut_RegisterNoCount ==
  /\ mpc = "recv" /\ fd \in sent \cap Servers /\ Len(servers) < MaxServer
  /\ Acknowledge
  /\ NextConnection
  /\ UNCHANGED <<servers, open, backlog, sent, refused, chan, ppc, late>>

Register ==
  /\ mpc = "recv" /\ fd \in sent \cap Servers /\ Len(servers) < MaxServer
  /\ servers' = Append(servers, fd)
  /\ Acknowledge
  /\ NextConnection
  /\ UNCHANGED <<open, backlog, sent, refused, chan, ppc, late>>

CloseClient == open' = open \ {fd} /\ NextConnection

\* handle_client
Refuse ==
  /\ mpc = "recv" /\ fd \in sent \cap Clients /\ servers = <<>>
  /\ refused' = refused \cup {fd}
  /\ CloseClient
  /\ UNCHANGED <<servers, backlog, sent, acked, chan, rst, ppc, late>>

Target == servers[1]
Forwarding == mpc = "recv" /\ fd \in sent \cap Clients /\ servers # <<>>

\* mutant: the descriptor of the client is kept
Mut_ForwardKeeps ==
  /\ Forwarding /\ ppc[Target] # "gone" /\ Len(chan[Target]) < SockBuf
  /\ chan' = [chan EXCEPT ![Target] = Append(@, fd)]
  /\ NextConnection
  /\ UNCHANGED <<servers, open, backlog, sent, acked, refused, rst, ppc, late>>

\* send() blocks while the socket of the server is full
Forward ==
  /\ Forwarding /\ ppc[Target] # "gone" /\ Len(chan[Target]) < SockBuf
  /\ chan' = [chan EXCEPT ![Target] = Append(@, fd)]
  /\ CloseClient
  /\ UNCHANGED <<servers, backlog, sent, acked, refused, rst, ppc, late>>

\* the server is dead and the manager does not know yet: the request is lost
ForwardLost ==
  /\ Forwarding /\ ppc[Target] = "gone" /\ rst[Target] # "here"
  /\ rst' = [rst EXCEPT ![Target] = "due"]
  /\ CloseClient
  /\ UNCHANGED <<servers, backlog, sent, acked, refused, chan, ppc, late>>

\* SIGPIPE: only CreateServer ignores it
ForwardKills ==
  /\ Forwarding /\ rst[Target] = "here"
  /\ mpc' = "killed" /\ fd' = Nobody /\ open' = {}
  /\ UNCHANGED <<servers, netVars, ppc, late>>

Manage == \/ Accept \/ RecvNothing \/ RegisterFull \/ Register
          \/ Refuse \/ Forward \/ ForwardLost \/ ForwardKills
-----------------------------------------------------------------------------
Next ==
  \/ Manage
  \/ \E p \in Peers : Connect(p) \/ SendMsg(p) \/ Leave(p)
  \/ \E s \in Servers : ConnectFails(s) \/ HandshakeEnds(s) \/ ResetArrives(s)

\* The manager and the handshakes run on, each a thread of its own process.  Nothing
\* makes a client that has connected send, nor anyone leave.
Spec == /\ Init /\ [][Next]_vars /\ WF_vars(Manage)
        /\ \A s \in Servers : WF_vars(SendMsg(s)) /\ WF_vars(HandshakeEnds(s))
-----------------------------------------------------------------------------
\* the registry within its array, every peer at one of its steps
TypeOK ==
  /\ mpc \in {"accept", "recv", "killed"} /\ fd \in Peers \cup {Nobody}
  /\ servers \in Seq(Servers) /\ Len(servers) <= MaxServer
  /\ open \subseteq Peers /\ backlog \in Seq(Peers)
  /\ ppc \in [Peers -> {"start", "connected", "sent", "serving", "gone"}]
  /\ sent \subseteq Peers /\ acked \subseteq Servers /\ refused \subseteq Clients
  /\ chan \in [Servers -> Seq(Clients)] /\ \A s \in Servers : Len(chan[s]) <= SockBuf
  /\ rst \in [Servers -> {"none", "due", "here"}]
  /\ late \subseteq Clients

\* Between two connections the descriptors the manager holds are those of the
\* registered servers: no path, at the limit or with a dead peer, leaks one, and
\* none closes a control channel (manager.c:135 "DO NOT close fd").
OnlyServersStayOpen == mpc = "accept" => open = ToSet(servers)

\* A server that reads "OK" is registered, also when the registry filled up while
\* it waited (manager.c:7-9, 133-134).
AckedIsRegistered == acked \subseteq ToSet(servers)

\* A client that connects after a server had its "OK" is not told that there is no
\* server, whatever was waiting before it and whoever died.
NotRefusedAfterAck == late \cap refused = {}

\* The handshake of a server ends, also over a full registry and a manager that died,
\* unless the manager itself waits for good: in recv(), which has no timeout, for a
\* client that has connected and sends nothing (manager.c:126), or in send(), on the full
\* socket of the first server (manager.c:29).
Silent == mpc = "recv" /\ fd \in Clients /\ ppc[fd] = "connected"
Stuck  == Forwarding /\ Len(chan[Target]) = SockBuf
HandshakeReturns ==
  <>[](Silent \/ Stuck) \/ \A s \in Servers : ppc[s] = "connected" ~> ppc[s] \in {"serving", "gone"}
=============================================================================
