------------------------------ MODULE MCPeers -------------------------------
(* Three parts that deal with peers and share no state, checked one at a    *)
(* time: SGWs that restart, the life monitoring, and the proxy.             *)
EXTENDS SgwRestart, Keepalive, Proxy

VARIABLE moves      \* the part this behaviour is about
peerVars == <<moves, restartVars, keepaliveVars, proxyVars>>

MCTeids == [s \in Senders |-> {s}]
MCGroups == [i \in Subscribers |-> IF i = 1 THEN "g" ELSE NoGroup]
MCTables == [Groups -> {<<>>, <<"p">>}]

MCInit ==
  /\ moves \in {"restart", "keepalive", "proxy"}
  /\ RestartInit /\ KeepaliveInit /\ ProxyInit
  /\ (moves # "proxy" => table = NoRoutes)
  /\ (moves # "restart" => \A i \in Imsis : row[i].sgw = CHOOSE s \in Sgws : TRUE)
Restarts(A) == moves = "restart" /\ A
Monitors(A) == moves = "keepalive" /\ A
Proxies(A) == moves = "proxy" /\ A
MCNext ==
  \/ Restarts(RestartNext) /\ UNCHANGED <<moves, keepaliveVars, proxyVars>>
  \/ Monitors(KeepaliveNext) /\ UNCHANGED <<moves, restartVars, proxyVars>>
  \/ Proxies(ProxyNext) /\ UNCHANGED <<moves, restartVars, keepaliveVars>>
(* The fairness of RestartFairSpec, KeepaliveFairSpec and ProxyFairSpec, of *)
(* the part that moves.                                                     *)
MCSpec ==
  /\ MCInit /\ [][MCNext]_peerVars
  /\ \A s \in Sgws : SF_restartVars(Restarts(SendEcho(s)))
  /\ WF_restartVars(Restarts(\E c \in creates : StoreSession(c)))
  /\ WF_restartVars(Restarts(EchoDeq)) /\ WF_restartVars(Restarts(EchoRequest))
  /\ WF_keepaliveVars(Monitors(Timer))
  /\ \A r \in Rows : WF_keepaliveVars(Monitors(TxSend(r))) /\ WF_keepaliveVars(Monitors(EchoResponse(r)))
  /\ WF_proxyVars(Proxies(Loop))

(* Probed, of the behaviours about the life monitoring: every master row    *)
(* with a valid source is probed again and again (event_timer).             *)
PeersProbed == moves = "keepalive" => Probed
=============================================================================
