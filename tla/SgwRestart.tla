----------------------------- MODULE SgwRestart -----------------------------
(***************************************************************************)
(* How the control plane notices that an SGW has restarted.                *)
(*                                                                         *)
(* An SGW counts its restarts in an 8 bit counter and announces it in the  *)
(* Recovery element of its Echo Requests and of its Create and Modify      *)
(* requests.  The GTPC_ECHO node keeps the first counter it saw of every   *)
(* peer; when an echo announces another one, the sessions of that peer     *)
(* with a smaller counter are ended, because the restarted SGW has         *)
(* forgotten them.  Session requests are handled by other nodes and may be *)
(* overtaken by echoes.                                                    *)
(***************************************************************************)
EXTENDS Integers, Sequences

CONSTANTS Sgws, Imsis,
          None,            \* no counter: (U32)-1, or a peer not in the cache
          Wrap,            \* counters are modulo Wrap (256)
          Burst,           \* packets taken by one pgw_deq_burst
          RecoveryAlways,  \* whether every message carries a Recovery element
          Known,           \* the peers that are in the cache from the start
          MaxRestart,      \* bound on the restarts of an SGW
          MaxCreate,       \* bound on the session requests
          MaxRing,         \* bound on the echoes waiting
          MaxFail          \* bound on the UPDATEs that fail

Counters == 0 .. Wrap - 1

ASSUME WrapAssumption == Wrap \in Nat \ {0} /\ None \notin Counters
ASSUME BurstAssumption == Burst \in Nat \ {0}
ASSUME FlagAssumption == RecoveryAlways \in BOOLEAN /\ Known \subseteq Sgws
ASSUME BoundAssumption ==
  MaxRestart \in Nat /\ MaxCreate \in Nat /\ MaxRing \in Nat /\ MaxFail \in Nat

VARIABLES
  restarts,  \* [Sgws -> Nat]: how often the SGW has restarted
  cache,     \* peers_table: the counter stored for a peer
  row,       \* tunnel: SGW, counter and state of the session of a contract;
             \* born: restarts of the SGW when it asked for the session
  ring,      \* ingress ring of GTPC_ECHO: Echo Requests
  burst,     \* the rest of the burst event_gtpc_echo_req works on
  counter,   \* its local restart_counter
  creates,   \* session requests on their way to the other nodes
  asked,     \* number of session requests sent
  fails      \* number of UPDATEs that failed
restartVars == <<restarts, cache, row, ring, burst, counter, creates, asked, fails>>

Count(s) == restarts[s] % Wrap
Recovery(s) == {Count(s)} \cup (IF RecoveryAlways THEN {} ELSE {None})
Echo == [from : Sgws, rc : Counters \cup {None}]
Create == [imsi : Imsis, from : Sgws, rc : Counters \cup {None}, born : Nat]

RestartInit ==
  /\ restarts = [s \in Sgws |-> 0]
  /\ cache = [s \in Sgws |-> IF s \in Known THEN 0 ELSE None]
  /\ \E s \in Sgws : row = [i \in Imsis |-> [sgw |-> s, rc |-> 0, active |-> 0, born |-> 0]]
  /\ ring = <<>>
  /\ burst = <<>>
  /\ counter = None
  /\ creates = {}
  /\ asked = 0
  /\ fails = 0

-----------------------------------------------------------------------------
(* The SGWs. *)

Restart(s) ==
  /\ restarts[s] < MaxRestart
  /\ restarts' = [restarts EXCEPT ![s] = @ + 1]
  /\ UNCHANGED <<cache, row, ring, burst, counter, creates, asked, fails>>

SendEcho(s) ==
  /\ Len(ring) < MaxRing
  /\ \E rc \in Recovery(s) : ring' = Append(ring, [from |-> s, rc |-> rc])
  /\ UNCHANGED <<restarts, cache, row, burst, counter, creates, asked, fails>>

SendCreate(s, i) ==
  /\ asked < MaxCreate
  /\ asked' = asked + 1
  /\ \E rc \in Recovery(s) :
        creates' = creates \cup {[imsi |-> i, from |-> s, rc |-> rc, born |-> restarts[s]]}
  /\ UNCHANGED <<restarts, cache, row, ring, burst, counter, fails>>

-----------------------------------------------------------------------------
(* The nodes. *)

(* The UPDATE of Create Session (and of a Modify that moves the session):  *)
(* without a Recovery element the counter of the row stays what it was.    *)
StoreSession(c) ==
  /\ c \in creates
  /\ creates' = creates \ {c}
  /\ row' = [row EXCEPT ![c.imsi] =
       [sgw |-> c.from, rc |-> IF c.rc = None THEN @.rc ELSE c.rc,
        active |-> 1, born |-> c.born]]
  /\ UNCHANGED <<restarts, cache, ring, burst, counter, asked, fails>>

(* event_gtpc_echo_req takes a burst; the local counter is cleared once.   *)
EchoDeq ==
  LET n == IF Len(ring) < Burst THEN Len(ring) ELSE Burst
  IN  /\ burst = <<>>
      /\ ring # <<>>
      /\ burst' = SubSeq(ring, 1, n)
      /\ ring' = SubSeq(ring, n + 1, Len(ring))
      /\ counter' = None
      /\ UNCHANGED <<restarts, cache, row, creates, asked, fails>>

(* Mutant: every session of the peer is ended. *)
EndAll(s, rc) ==
  row' = [i \in Imsis |-> IF row[i].sgw = s THEN [row[i] EXCEPT !.active = 0] ELSE row[i]]

(* ECHO_RESTART_UPD_SQL. *)
EndBelow(s, rc) ==
  row' = [i \in Imsis |-> IF row[i].sgw = s /\ row[i].rc < rc
                          THEN [row[i] EXCEPT !.active = 0] ELSE row[i]]

(* DBPROVIDER_QUERY: a failed UPDATE is logged and changes nothing. *)
EndSessions(s, rc) ==
  \/ EndBelow(s, rc) /\ UNCHANGED fails
  \/ fails < MaxFail /\ fails' = fails + 1 /\ UNCHANGED row

(* The cache of peers: the counter stored for a peer, None if there is no  *)
(* entry, and the storing of one.  The expiry time of an entry is written  *)
(* and never read.                                                         *)
pgw_get_sgw_peer(s) == cache[s]
pgw_set_sgw_peer(s, rc) == cache' = [cache EXCEPT ![s] = rc]

(* Mutant: the cache follows the peer, so that a second echo with the same *)
(* counter ends nothing.                                                   *)
ObserverUpdates(s, rc) ==
  /\ pgw_set_sgw_peer(s, rc)
  /\ IF pgw_get_sgw_peer(s) \notin {None, rc} THEN EndSessions(s, rc)
     ELSE UNCHANGED <<row, fails>>

(* _observer_sgw_peers: a new peer is stored; a counter other than the     *)
(* stored one ends sessions and leaves the stored one alone.               *)
Observer(s, rc) ==
  \/ /\ pgw_get_sgw_peer(s) = None
     /\ pgw_set_sgw_peer(s, rc)
     /\ UNCHANGED <<row, fails>>
  \/ /\ pgw_get_sgw_peer(s) \notin {None, rc}
     /\ EndSessions(s, rc)
     /\ UNCHANGED cache
  \/ /\ pgw_get_sgw_peer(s) = rc
     /\ UNCHANGED <<cache, row, fails>>

(* The counter in effect for an echo: its own, or, if it has none, the one *)
(* that an earlier echo of the burst left in the local variable.           *)
Heard(e) == IF e.rc = None THEN counter ELSE e.rc

(* One packet of the burst. *)
EchoRequest ==
  /\ burst # <<>>
  /\ burst' = Tail(burst)
  /\ counter' = Heard(Head(burst))
  /\ IF counter' = None THEN UNCHANGED <<cache, row, fails>>
     ELSE Observer(Head(burst).from, counter')
  /\ UNCHANGED <<restarts, ring, creates, asked>>

-----------------------------------------------------------------------------
RestartNext ==
  \/ \E s \in Sgws : Restart(s) \/ SendEcho(s) \/ \E i \in Imsis : SendCreate(s, i)
  \/ \E c \in creates : StoreSession(c)
  \/ EchoDeq
  \/ EchoRequest

RestartSpec == RestartInit /\ [][RestartNext]_restartVars

(* SGWs send echoes for ever, and the node threads keep running.  An SGW   *)
(* that finds the ring full tries again.                                   *)
RestartFairness ==
  /\ \A s \in Sgws : SF_restartVars(SendEcho(s))
  /\ WF_restartVars(\E c \in creates : StoreSession(c))
  /\ WF_restartVars(EchoDeq)
  /\ WF_restartVars(EchoRequest)

RestartFairSpec == RestartSpec /\ RestartFairness

-----------------------------------------------------------------------------
(* The cache, the rows and the queues hold counters, peers and sessions.   *)
RestartTypeOK ==
  /\ restarts \in [Sgws -> 0 .. MaxRestart]
  /\ cache \in [Sgws -> Counters \cup {None}]
  /\ row \in [Imsis -> [sgw : Sgws, rc : Counters, active : {0, 1}, born : Nat]]
  /\ ring \in Seq(Echo)
  /\ burst \in Seq(Echo)
  /\ counter \in Counters \cup {None}
  /\ creates \subseteq Create
  /\ asked \in 0 .. MaxCreate
  /\ fails \in 0 .. MaxFail

(* An echo ends only sessions that the SGW asked for before its last       *)
(* restart: a session the SGW knows survives every echo, delayed ones and  *)
(* those of other peers included.                                          *)
FreshSurvives ==
  [][burst # <<>> /\ burst' = Tail(burst) =>
       \A i \in Imsis : row[i].active = 1 /\ row'[i].active = 0
                          => row[i].born < restarts[row[i].sgw]]_restartVars

(* A session that its SGW, one that was known before the restart, has      *)
(* forgotten is ended, set up again or moved in the end, also when its     *)
(* request is handled after the first echo that announced the restart, or  *)
(* when the UPDATE of that echo fails.                                     *)
Stale(i, s) == row[i].sgw = s /\ row[i].active = 1 /\ row[i].born < restarts[s]
StaleEnds == \A i \in Imsis, s \in Known : Stale(i, s) ~> ~Stale(i, s)
=============================================================================
