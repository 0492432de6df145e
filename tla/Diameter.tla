------------------------------ MODULE Diameter ------------------------------
(***************************************************************************)
(* The Diameter server (tools/src/mod/mod_diameter).  One thread accepts   *)
(* connections; client threads read requests and hand each to one of       *)
(* several queues; a thread for each queue answers them, on the socket and *)
(* with the database connection that a copy of the client names; one       *)
(* thread reads the binlog.                                                *)
(*                                                                         *)
(* outcome[n] lists what became of the n-th request: "answered", "stored"  *)
(* or "refused" by the database, "shut" with its connection, "unread" when *)
(* the connection was closed first.                                        *)
(***************************************************************************)
EXTENDS Integers, Sequences, FiniteSets, LinkTable

CONSTANTS Fds,              \* descriptors of connections, as numbers
          RoundRobin,       \* DIAMETER_QUEUE_ROUNDROBIN
          BatchSize,        \* BATCH_SIZE
          DiaKinds,         \* kinds of requests that peers send
          DiaSubscribers,   \* IMSIs
          DiaRows,          \* row events: [type, key, active]
          MaxRequests, MaxConnections, MaxRows   \* bounds

ASSUME DiaAssumption ==
  /\ Fds \subseteq Nat
  /\ RoundRobin \in Nat \ {0} /\ BatchSize \in Nat \ {0}
  /\ MaxRequests \in Nat /\ MaxConnections \in Nat /\ MaxRows \in Nat
ASSUME DiaKindAssumption ==
  DiaKinds \subseteq {"initial", "update", "terminate", "event", "othertype", "dw", "ce",
                      "counter", "incomplete", "gy", "invalid"}

VARIABLES
  client,    \* descriptor -> the DiameterClient that reads it
  inbox,     \* descriptor -> requests sent and not yet read
  fifo,      \* diameter_queue_
  batch,     \* requests a queue's thread has taken
  deleted,   \* connections whose mysql_ is deleted
  links,     \* diameter_link_
  sessions,  \* session_, by IMSI
  rowlog,    \* binlog not yet read
  outcome, up,                 \* up: the process runs
  connected, requested, changed    \* connections, requests, row changes so far
io == <<client, inbox, deleted, connected, requested>>
queued == <<fifo, batch>>
contracts == <<links, rowlog, changed>>
diaVars == <<io, queued, contracts, sessions, outcome, up>>

QueueForDb == RoundRobin
DiaQueues == 0..QueueForDb
NoClient == [conn |-> 0, counter |-> 0, shut |-> FALSE, left |-> FALSE]
Open(fd) == client[fd] # NoClient

DiaInit ==
  /\ client = [fd \in Fds |-> NoClient] /\ inbox = [fd \in Fds |-> <<>>]
  /\ fifo = [q \in DiaQueues |-> <<>>] /\ batch = [q \in DiaQueues |-> <<>>]
  /\ deleted = {} /\ links = {} /\ sessions = {} /\ rowlog = <<>>
  /\ outcome = [n \in 1..MaxRequests |-> <<>>] /\ up = TRUE
  /\ connected = 0 /\ requested = 0 /\ changed = 0

-----------------------------------------------------------------------------
(* The peers and the database. *)
DiaAsks(fd, kind, imsi) ==
  /\ up /\ Open(fd) /\ ~client[fd].left /\ requested < MaxRequests
  /\ requested' = requested + 1
  /\ inbox' = [inbox EXCEPT ![fd] = Append(@, [n |-> requested + 1, kind |-> kind, imsi |-> imsi])]
  /\ UNCHANGED <<client, deleted, connected, queued, contracts, sessions, outcome, up>>
DiaLeaves(fd) ==
  /\ up /\ Open(fd) /\ ~client[fd].left
  /\ client' = [client EXCEPT ![fd].left = TRUE]
  /\ UNCHANGED <<inbox, deleted, connected, requested, queued, contracts, sessions, outcome, up>>
RowChanges(ev) ==
  /\ up /\ changed < MaxRows /\ changed' = changed + 1
  /\ rowlog' = Append(rowlog, ev)
  /\ UNCHANGED <<io, queued, links, sessions, outcome, up>>

(* OnAccept: the kernel gives a connection the lowest free descriptor. *)
OnAccept ==
  /\ up /\ connected < MaxConnections
  /\ \E fd \in Fds :
       /\ ~Open(fd) /\ \A lower \in Fds : lower < fd => Open(lower)
       /\ client' = [client EXCEPT ![fd] = [NoClient EXCEPT !.conn = connected + 1]]
  /\ connected' = connected + 1
  /\ UNCHANGED <<inbox, deleted, requested, queued, contracts, sessions, outcome, up>>

-----------------------------------------------------------------------------
Ended(n, how) == outcome' = [outcome EXCEPT ![n] = Append(@, how)]

(* ValidateDiameter and the checks of lengths before it. *)
ValidateDiameter(req) == req.kind # "invalid"

(* The queue of a request.  Code and application are compared with their   *)
(* bytes not swapped, so that no request is taken for an update; the       *)
(* request type is left uninitialized by a request that has none.          *)
QueueIds(cli, req) ==
  CASE req.kind = "counter" -> {QueueForDb}
    [] req.kind \in {"dw", "ce", "incomplete"} -> {cli.counter % RoundRobin, QueueForDb}
    [] OTHER -> {cli.counter % RoundRobin}

(* err_return: the client is deleted, and its database connection. *)
Closes(fd) ==
  /\ client' = [client EXCEPT ![fd] = NoClient]
  /\ deleted' = deleted \cup {client[fd].conn}
  /\ outcome' = [n \in DOMAIN outcome |->
                   IF \E i \in 1..Len(inbox[fd]) : inbox[fd][i].n = n THEN Append(outcome[n], "unread") ELSE outcome[n]]
  /\ inbox' = [inbox EXCEPT ![fd] = <<>>]
  /\ UNCHANGED fifo

(* PacketContainer: the request, its socket and a copy of the client. *)
Copied(req, fd, conn) == [n |-> req.n, kind |-> req.kind, imsi |-> req.imsi, fd |-> fd, conn |-> conn]

(* OnRecv: what was received is read before the end of the connection. *)
DiaOnRecv(fd) ==
  /\ up /\ Open(fd) /\ (inbox[fd] # <<>> \/ client[fd].shut \/ client[fd].left)
  /\ IF inbox[fd] = <<>> \/ ~ValidateDiameter(Head(inbox[fd])) THEN Closes(fd)
     ELSE LET req == Head(inbox[fd])
              cli == client[fd]
          IN /\ \E q \in QueueIds(cli, req) :
                  /\ fifo' = [fifo EXCEPT ![q] = Append(@, Copied(req, fd, cli.conn))]
                  /\ client' = [client EXCEPT ![fd].counter = IF q = QueueForDb THEN @ ELSE (@ + 1) % RoundRobin]
             /\ inbox' = [inbox EXCEPT ![fd] = Tail(@)]
             /\ UNCHANGED <<deleted, outcome>>
  /\ UNCHANGED <<connected, requested, batch, contracts, sessions, up>>

-----------------------------------------------------------------------------
(* QueueLoop: a batch is taken under the queue's lock. *)
(* Mutant: one request more than the batch holds is taken. *)
TakesOneMore == BatchSize + 1
Takes == BatchSize
Dequeue(q) ==
  /\ up /\ batch[q] = <<>> /\ fifo[q] # <<>>
  /\ LET some == IF Len(fifo[q]) < Takes THEN Len(fifo[q]) ELSE Takes
     IN /\ batch' = [batch EXCEPT ![q] = SubSeq(fifo[q], 1, IF some < BatchSize THEN some ELSE BatchSize)]
        /\ fifo' = [fifo EXCEPT ![q] = SubSeq(@, some + 1, Len(@))]
  /\ UNCHANGED <<io, contracts, sessions, outcome, up>>

(* The handlers: what each returns, how many answers it sent itself, and   *)
(* whether it wrote to the database.  A Gx request is looked up with NAS 0. *)
Handled(ret, sends, stores) == [ret |-> ret, sends |-> sends, stores |-> stores]
Contract(req) == FindTable(links, <<req.imsi, 0>>)
(* Mutant: the handler answers for itself that there is no contract. *)
ReqGxInitialRefuses(req) == IF Contract(req) THEN Handled("OK", 1, FALSE) ELSE Handled("ERR", 1, FALSE)
ReqGxInitial(req) == IF Contract(req) THEN Handled("OK", 1, FALSE) ELSE Handled("ERR", 0, FALSE)
ReqGxUpdate(req) == IF Contract(req) THEN Handled("OK", 1, TRUE) ELSE Handled("ERR", 0, FALSE)
ReqGxTerminate(req) == Handled("OK", 1, FALSE)
ReqGxEvent(req) == Handled("OK", 1, FALSE)
ReqGx(req) ==
  LET done == CASE req.kind = "initial" -> ReqGxInitial(req)
                [] req.kind = "update" -> ReqGxUpdate(req)
                [] req.kind = "terminate" -> ReqGxTerminate(req)
                [] req.kind = "event" -> ReqGxEvent(req)
                [] OTHER -> Handled("ERR", 0, FALSE)
  IN IF done.ret = "OK" THEN done ELSE [done EXCEPT !.sends = @ + 1]
ReqDw == Handled("OK", 1, FALSE)
ReqCe == Handled("OK", 1, FALSE)
Gx == {"initial", "update", "terminate", "event", "othertype"}
Processed(req) ==
  CASE req.kind \in Gx -> ReqGx(req) [] req.kind = "dw" -> ReqDw [] req.kind = "ce" -> ReqCe
GxSessions(req) ==
  CASE req.kind = "initial" /\ Contract(req) -> sessions \cup {req.imsi}
    [] req.kind = "terminate" -> sessions \ {req.imsi}
    [] OTHER -> sessions

(* Send, to whichever connection has the descriptor by now: one that has   *)
(* none fails; writing to a connection that was shut down ends the process *)
(* (SIGPIPE), to one whose peer has left may.                              *)
SendSurvives(fd) ==
  CASE client[fd].shut -> {FALSE} [] client[fd].left -> BOOLEAN [] OTHER -> {TRUE}
(* Query; using a database connection that was deleted may end the process. *)
QuerySurvives(conn) == IF conn \in deleted THEN BOOLEAN ELSE {TRUE}

Responds(req) ==
  LET done == Processed(req)
  IN /\ outcome' = [outcome EXCEPT ![req.n] = @ \o [i \in 1..done.sends |-> "answered"]]
     /\ \E sent \in SendSurvives(req.fd), stored \in IF done.stores THEN QuerySurvives(req.conn) ELSE {TRUE} :
          up' = (sent /\ stored)
     /\ sessions' = GxSessions(req)
     /\ UNCHANGED client
ReqAny(req) ==
  /\ \E how \in {"stored", "refused"} : Ended(req.n, how)
  /\ up' \in QuerySurvives(req.conn)
  /\ UNCHANGED <<client, sessions>>
ShutsDown(req) ==
  /\ client' = [client EXCEPT ![req.fd].shut = Open(req.fd)]
  /\ Ended(req.n, "shut")
  /\ UNCHANGED <<up, sessions>>

Handle(q) ==
  LET req == Head(batch[q])
  IN /\ up /\ batch[q] # <<>>
     /\ batch' = [batch EXCEPT ![q] = Tail(@)]
     /\ CASE req.kind = "counter" -> ReqAny(req)
          [] req.kind \in {"incomplete", "gy"} -> ShutsDown(req)
          [] OTHER -> Responds(req)
     /\ UNCHANGED <<inbox, deleted, connected, requested, fifo, contracts>>

(* BinLogLoop *)
DiaBinLog ==
  /\ up /\ rowlog # <<>>
  /\ links' = BinLogLoop(links, Head(rowlog)) /\ rowlog' = Tail(rowlog)
  /\ UNCHANGED <<io, queued, changed, sessions, outcome, up>>

DiaNext ==
  \/ \E fd \in Fds : DiaLeaves(fd) \/ DiaOnRecv(fd)
  \/ \E fd \in Fds, kind \in DiaKinds, imsi \in DiaSubscribers : DiaAsks(fd, kind, imsi)
  \/ \E ev \in DiaRows : RowChanges(ev)
  \/ OnAccept \/ DiaBinLog
  \/ \E q \in DiaQueues : Dequeue(q) \/ Handle(q)
DiaSpec == DiaInit /\ [][DiaNext]_diaVars
(* Event loops and queue threads do not stop. *)
DiaFairSpec ==
  /\ DiaSpec
  /\ \A fd \in Fds : WF_diaVars(DiaOnRecv(fd))
  /\ \A q \in DiaQueues : WF_diaVars(Dequeue(q)) /\ WF_diaVars(Handle(q))

-----------------------------------------------------------------------------
(* A request meets one end: it is answered once, or stored or refused by   *)
(* the database, or its connection is shut down or closed.  In particular  *)
(* ReqGx adds no second answer to the one its handler has sent, and the    *)
(* queues hand out no request twice.                                       *)
EndsOnce == \A n \in DOMAIN outcome : Len(outcome[n]) <= 1

(* Every request that is sent meets its end, unless the process ends: no   *)
(* queue's thread loses a request of its batch, and none waits for more.   *)
RequestsEnd == \A n \in 1..MaxRequests : (requested >= n) ~> (outcome[n] # <<>> \/ ~up)

(* "it is important that DiameterClient variable is instance copy.  ->     *)
(* Those are weak copy, must not be released/freed."                       *)
(* (mixipgw_mod_diameter.hpp): while a request waits, the database         *)
(* connection that its copy of the client names is not deleted.            *)
CopiesHold ==
  \A q \in DiaQueues : \A i \in 1..Len(fifo[q] \o batch[q]) : (fifo[q] \o batch[q])[i].conn \notin deleted
=============================================================================
