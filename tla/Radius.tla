------------------------------- MODULE Radius -------------------------------
(***************************************************************************)
(* The RADIUS server (tools/src/mod/mod_radius): one thread reads up to    *)
(* VLEN datagrams at a time from a UDP socket and answers them, another    *)
(* reads the binlog.  The network may repeat datagrams.                    *)
(***************************************************************************)
EXTENDS FiniteSets, LinkTable, Loops

CONSTANTS Nases,          \* addresses that send requests
          Identifiers,    \* of requests
          RadiusKinds,    \* kinds of datagrams
          Callers,        \* Calling-Station-Ids
          RadiusRows,     \* row events: [type, key, active]
          VLEN,
          MaxDatagrams, MaxRepeats, MaxContracts   \* bounds

ASSUME RadiusAssumption ==
  VLEN \in Nat \ {0} /\ MaxDatagrams \in Nat /\ MaxRepeats \in Nat /\ MaxContracts \in Nat

VARIABLES
  socket,      \* datagrams that arrived
  identifier,  \* radius_identifier_: address -> the RadiusClient of it
  replies,     \* address -> answers sent to it
  read,        \* address -> its datagrams that OnRecv has read
  contract,    \* radius_link_
  contractLog, \* binlog not yet read
  made, repeated, signed   \* datagrams, repetitions, row changes so far
radiusVars == <<socket, identifier, replies, read, contract, contractLog, made, repeated, signed>>

RadiusInit ==
  /\ socket = <<>> /\ identifier = <<>>
  /\ replies = [nas \in Nases |-> <<>>] /\ read = [nas \in Nases |-> <<>>]
  /\ contract = {} /\ contractLog = <<>>
  /\ made = 0 /\ repeated = 0 /\ signed = 0

(* The NASes, the network and the database.  The authenticator of a        *)
(* request is a number that no other has.                                  *)
Datagrams == [nas : Nases, id : Identifiers, auth : Nat, kind : RadiusKinds, caller : Callers]
NasAsks(nas, id, kind, caller) ==
  /\ made < MaxDatagrams /\ made' = made + 1
  /\ socket' = Append(socket, [nas |-> nas, id |-> id, auth |-> made, kind |-> kind, caller |-> caller])
  /\ UNCHANGED <<identifier, replies, read, contract, contractLog, repeated, signed>>
Repeats ==
  /\ repeated < MaxRepeats /\ repeated' = repeated + 1
  /\ \E past \in {socket} \cup {read[nas] : nas \in Nases} : \E i \in 1..Len(past) : socket' = Append(socket, past[i])
  /\ UNCHANGED <<identifier, replies, read, contract, contractLog, made, signed>>
ContractChanges(ev) ==
  /\ signed < MaxContracts /\ signed' = signed + 1
  /\ contractLog' = Append(contractLog, ev)
  /\ UNCHANGED <<socket, identifier, replies, read, contract, made, repeated>>

-----------------------------------------------------------------------------
(* ValidateRadius and RECVMMSG: the lengths and the code are right, and    *)
(* the request has not the identifier of the one before it.                *)
WellFormed(d) == d.kind # "invalid"
Repeated(ids, d) == d.nas \in DOMAIN ids /\ ids[d.nas].seq = d.id
ValidateRadius(ids, d) == WellFormed(d) /\ ~Repeated(ids, d)

(* Mutant: the client keeps those of its first request. *)
ClientOnce(ids, d) ==
  [nas \in DOMAIN ids \cup {d.nas} |->
     IF nas \in DOMAIN ids THEN ids[nas] ELSE [seq |-> d.id, auth |-> d.auth]]

(* The client of the address, made for its first request, takes the        *)
(* identifier and the authenticator of each.                               *)
Client(ids, d) ==
  [nas \in DOMAIN ids \cup {d.nas} |->
     IF nas = d.nas THEN [seq |-> d.id, auth |-> d.auth] ELSE ids[nas]]

(* ReqAccess, ReqAccount; a request must name the subscriber and the NAS.  *)
ReqAccess(d) == IF FindTable(contract, <<d.caller, d.nas>>) THEN "ACCEPT" ELSE "REJECT"
ReqAccount(d) == IF FindTable(contract, <<d.caller, d.nas>>) THEN "ACCOUNTED" ELSE "REJECT"
Code(d) ==
  CASE d.kind = "access" -> ReqAccess(d)
    [] d.kind = "account" -> ReqAccount(d)
    [] OTHER -> "REJECT"

(* ResponseWithCode, ResponseAcceptFrameIp *)
Response(cli, code) == [id |-> cli.seq, auth |-> cli.auth, code |-> code]

(* s carries the clients and what was sent so far. *)
RecvEvent(s, d) ==
  IF ~ValidateRadius(s.ids, d) THEN s
  ELSE LET ids == Client(s.ids, d)
       IN [ids |-> ids, sent |-> [s.sent EXCEPT ![d.nas] = Append(@, Response(ids[d.nas], Code(d)))]]

RecvEach(s, burst) ==
  LET after[i \in 0..Len(burst)] ==
        IF i = 0 THEN s ELSE The({RecvEvent(x, burst[i]) : x \in {after[i - 1]}})
  IN after[Len(burst)]

RadiusOnRecv ==
  LET some == IF Len(socket) < VLEN THEN Len(socket) ELSE VLEN
      burst == SubSeq(socket, 1, some)
      after == RecvEach([ids |-> identifier, sent |-> replies], burst)
  IN /\ socket # <<>>
     /\ identifier' = after.ids /\ replies' = after.sent
     /\ read' = [nas \in Nases |-> read[nas] \o Among(burst, {d \in Datagrams : d.nas = nas})]
     /\ socket' = SubSeq(socket, some + 1, Len(socket))
     /\ UNCHANGED <<contract, contractLog, made, repeated, signed>>

RadiusBinLog ==
  /\ contractLog # <<>>
  /\ contract' = BinLogLoop(contract, Head(contractLog)) /\ contractLog' = Tail(contractLog)
  /\ UNCHANGED <<socket, identifier, replies, read, made, repeated, signed>>

RadiusNext ==
  \/ \E nas \in Nases, id \in Identifiers, kind \in RadiusKinds, caller \in Callers :
       NasAsks(nas, id, kind, caller)
  \/ \E ev \in RadiusRows : ContractChanges(ev)
  \/ Repeats \/ RadiusOnRecv \/ RadiusBinLog
RadiusSpec == RadiusInit /\ [][RadiusNext]_radiusVars

-----------------------------------------------------------------------------
(* The answers to an address are those to its well-formed datagrams, in    *)
(* their order and with their identifiers and authenticators, except that  *)
(* of datagrams with one identifier in a row only the first is answered:   *)
(* requests of other addresses and other datagrams of a burst between them *)
(* make no difference.                                                     *)
RepliesFit ==
  \A nas \in Nases :
    LET good == Among(read[nas], {d \in Datagrams : WellFormed(d)})
        firsts == {i \in 1..Len(good) : i = 1 \/ good[i - 1].id # good[i].id}
    IN /\ Len(replies[nas]) = Cardinality(firsts)
       /\ \A i \in firsts :
            LET reply == replies[nas][Cardinality({j \in firsts : j <= i})]
            IN reply.id = good[i].id /\ reply.auth = good[i].auth
=============================================================================
