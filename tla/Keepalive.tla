------------------------------ MODULE Keepalive ------------------------------
(***************************************************************************)
(* Life monitoring of the configured peers: the keepalive table and the    *)
(* three threads that write it.                                            *)
(*                                                                         *)
(* Every second the timer of the GTP-C server selects rows that were not   *)
(* updated for some time, queues an Echo Request for each of the master    *)
(* rows, and only then, in a second critical section, marks them WAIT.     *)
(* The TX node sends the requests, and marks a row ERR when its source     *)
(* port is that of no server.  The echo nodes mark a row OK when the Echo  *)
(* Response arrives.                                                       *)
(***************************************************************************)
EXTENDS Integers, FiniteSets

CONSTANTS Masters,  \* rows with server_type 0
          Slaves,   \* the other rows: they answer and are not probed
          BadSrc,   \* master rows whose source port is neither GTP-C nor GTP-U
          Due,      \* seconds since the last update that make a row due (60)
          Limit     \* LIMIT of the SELECT (10)

Rows == Masters \cup Slaves

ASSUME RowsAssumption == Masters \cap Slaves = {} /\ BadSrc \subseteq Masters
ASSUME FiniteAssumption == IsFiniteSet(Rows)
ASSUME DueAssumption == Due \in Nat \ {0} /\ Limit \in Nat \ {0}

VARIABLES
  stat,     \* "ERR", "DC", "WAIT" or "OK"
  age,      \* seconds since updated_at, up to Due
  timer,    \* where event_timer is: "idle", "due", "update"
  upkeys,   \* rows it still has to mark WAIT
  egress,   \* Echo Requests on the TIMER egress ring
  net,      \* Echo Requests that were sent and not answered
  ingress,  \* Echo Responses on the ring of an echo node
  answered  \* peers that have answered since the program started
keepaliveVars == <<stat, age, timer, upkeys, egress, net, ingress, answered>>

Stats == {"ERR", "DC", "WAIT", "OK"}

(* Both status statements set updated_at as well. *)
Mark(rows, s) ==
  /\ stat' = [r \in Rows |-> IF r \in rows THEN s ELSE stat[r]]
  /\ age' = [r \in Rows |-> IF r \in rows THEN 0 ELSE age[r]]

KeepaliveInit ==
  /\ stat = [r \in Rows |-> "DC"]
  /\ age = [r \in Rows |-> Due]
  /\ timer = "idle"
  /\ upkeys = {}
  /\ egress = {}
  /\ net = {}
  /\ ingress = {}
  /\ answered = {}

-----------------------------------------------------------------------------
(* __on_timeout: a second passes and event_timer is called; it is done     *)
(* before the next one.                                                    *)
Second ==
  /\ timer = "idle"
  /\ timer' = "due"
  /\ age' = [r \in Rows |-> IF age[r] < Due THEN age[r] + 1 ELSE Due]
  /\ UNCHANGED <<stat, upkeys, egress, net, ingress, answered>>

(* Mutant: rows with status OK are not selected. *)
SelectableNotOk(r) == age[r] >= Due /\ stat[r] \in {"DC", "WAIT"}

(* The WHERE clause of KEEPALIVE_SQL. *)
Selectable(r) == age[r] >= Due /\ stat[r] # "ERR"

(* Up to Limit rows in no particular order; on_rec skips the slave rows.   *)
TimerSelect ==
  LET due == {r \in Rows : Selectable(r)}
      n == IF Cardinality(due) < Limit THEN Cardinality(due) ELSE Limit
  IN  /\ timer = "due"
      /\ timer' = "update"
      /\ \E S \in SUBSET due :
            /\ Cardinality(S) = n
            /\ upkeys' = S \cap Masters
            /\ egress' = egress \cup (S \cap Masters)
      /\ UNCHANGED <<stat, age, net, ingress, answered>>

(* The second critical section: one UPDATE for each key. *)
TimerWait(r) ==
  /\ timer = "update"
  /\ r \in upkeys
  /\ upkeys' = upkeys \ {r}
  /\ Mark({r}, "WAIT")
  /\ UNCHANGED <<timer, egress, net, ingress, answered>>

TimerEnd ==
  /\ timer = "update"
  /\ upkeys = {}
  /\ timer' = "idle"
  /\ UNCHANGED <<stat, age, upkeys, egress, net, ingress, answered>>

(* event_tx: a source that is no server of ours marks the rows with that   *)
(* source; otherwise the request is sent, or the send fails without trace. *)
TxSend(r) ==
  /\ r \in egress
  /\ egress' = egress \ {r}
  /\ \/ /\ r \in BadSrc
        /\ Mark(BadSrc, "ERR")
        /\ UNCHANGED net
     \/ /\ r \notin BadSrc
        /\ net' = net \cup {r}
        /\ UNCHANGED <<stat, age>>
     \/ /\ r \notin BadSrc
        /\ UNCHANGED <<stat, age, net>>
  /\ UNCHANGED <<timer, upkeys, ingress, answered>>

(* The peer answers, or the request or its answer is lost. *)
PeerAnswer(r) ==
  /\ r \in net
  /\ net' = net \ {r}
  /\ \/ /\ ingress' = ingress \cup {r}
        /\ answered' = answered \cup {r}
     \/ UNCHANGED <<ingress, answered>>
  /\ UNCHANGED <<stat, age, timer, upkeys, egress>>

(* Mutant: source and destination of the response are not exchanged, and   *)
(* the row of another peer is matched.                                     *)
EchoResponseOther(r) ==
  /\ r \in ingress
  /\ ingress' = ingress \ {r}
  /\ \E o \in Rows : Mark({o}, "OK")
  /\ UNCHANGED <<timer, upkeys, egress, net, answered>>

(* The echo nodes on an Echo Response. *)
EchoResponse(r) ==
  /\ r \in ingress
  /\ ingress' = ingress \ {r}
  /\ Mark({r}, "OK")
  /\ UNCHANGED <<timer, upkeys, egress, net, answered>>

-----------------------------------------------------------------------------
Timer == Second \/ TimerSelect \/ TimerEnd \/ \E r \in Rows : TimerWait(r)

KeepaliveNext ==
  \/ Timer
  \/ \E r \in Rows : TxSend(r) \/ PeerAnswer(r) \/ EchoResponse(r)

KeepaliveSpec == KeepaliveInit /\ [][KeepaliveNext]_keepaliveVars

(* Time passes, and the timer, TX and echo threads keep running; nothing   *)
(* is assumed of the peers.                                                *)
KeepaliveFairSpec ==
  /\ KeepaliveSpec
  /\ WF_keepaliveVars(Timer)
  /\ \A r \in Rows : WF_keepaliveVars(TxSend(r)) /\ WF_keepaliveVars(EchoResponse(r))

-----------------------------------------------------------------------------
(* Rows have a known status and age, and only master rows are probed.      *)
KeepaliveTypeOK ==
  /\ stat \in [Rows -> Stats]
  /\ age \in [Rows -> 0 .. Due]
  /\ timer \in {"idle", "due", "update"}
  /\ upkeys \subseteq Masters
  /\ egress \subseteq Masters
  /\ net \subseteq Masters
  /\ ingress \subseteq Masters
  /\ answered \subseteq Masters

(* A peer that has never answered is never shown as alive, whatever the    *)
(* other peers do and however the three writers interleave.                *)
OkMeansAnswered == \A r \in Rows : stat[r] = "OK" => r \in answered

(* Every master row with a valid source is probed again and again ("start  *)
(* life monitoring for GTP[u/c]-directed servers configured in database"). *)
Probed == \A r \in Masters \ BadSrc : []<>(r \in egress)
=============================================================================
