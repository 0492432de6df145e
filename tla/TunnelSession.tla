---------------------------- MODULE TunnelSession ----------------------------
(***************************************************************************)
(* The session handlers of the control plane on the tunnel table.          *)
(*                                                                         *)
(* Four node threads change the table: two Create Session nodes, the       *)
(* Modify Bearer node, and the GTPC_OTHER node (Delete Session, Delete     *)
(* Bearer, Suspend, Resume and the GTPv1 PDP context messages).  A handler *)
(* is a sequence of SQL statements; each statement is atomic, nothing      *)
(* holds the row between two of them, so the handlers interleave statement *)
(* by statement.  What a handler read stays in its parse_state.            *)
(*                                                                         *)
(* A row is one contract (IMSI), provisioned with a PGW TEID.  A TEID is a *)
(* two digit number <<prefix, low>>: the digit a Create or Modify replaces *)
(* by the bearer id (4 bits in the code), and the rest (28 bits).  ntohl   *)
(* reverses the digits.                                                    *)
(***************************************************************************)
EXTENDS Integers, Sequences, FiniteSets

CONSTANTS Imsis,     \* contracts in the table
          NoImsi,    \* an IMSI that is absent from the request or the table
          Msisdns,   \* telephone numbers
          Ebis,      \* bearer ids; 0 stands for an absent one
          Eps,       \* SGW endpoints: the F-TEIDs and addresses of a request
          NoEp,      \* F-TEIDs absent (a zero TEID)
          Low,       \* low digits of the provisioned PGW TEID of a contract
          Requests,  \* the requests the SGWs may send
          DbFails,   \* whether an UPDATE may fail
          MaxReq     \* bound on the requests taken

ASSUME LowAssumption ==
  /\ Low \in [Imsis -> Nat]
  /\ \A i, j \in Imsis : Low[i] = Low[j] => i = j
ASSUME AbsentAssumption == NoImsi \notin Imsis /\ NoEp \notin Eps
ASSUME EbiAssumption == Ebis \subseteq Nat
ASSUME MaxReqAssumption == MaxReq \in Nat
ASSUME DbFailsAssumption == DbFails \in BOOLEAN

CreateNodes == {"cs0", "cs1"}
Threads == CreateNodes \cup {"mb", "other"}

Teids == Nat \X Nat
Swap(t) == <<t[2], t[1]>>            \* ntohl, htonl

(* The parsed request: an absent field has its absent value. *)
Ops == {"create", "modify", "delete", "suspend", "resume",
        "pdp_create", "pdp_update", "pdp_delete"}
Request == [op : Ops, complete : BOOLEAN, imsi : Imsis \cup {NoImsi}, msisdn : Msisdns,
            teid : Teids, ebi : Ebis \cup {0}, ep : Eps \cup {NoEp}, rat : BOOLEAN]

ASSUME RequestsAssumption == Requests \subseteq Request /\ Requests # {}

(* The node whose ring a request is put on. *)
Serves(t, op) ==
  CASE op = "create" -> t \in CreateNodes
    [] op = "modify" -> t = "mb"
    [] OTHER -> t = "other"

VARIABLES
  tunnel,   \* the table, by IMSI
  th,       \* per thread: where it is, its request and its parse_state
  taken     \* requests taken so far
vars == <<tunnel, th, taken>>

Row == [active : {0, 1}, teid : Teids, ebi : Ebis \cup {0}, ep : Eps \cup {NoEp}, msisdn : Msisdns]

(* What on_tunnel_record copies from a row, and the copy before any. *)
Record == [imsi : Imsis \cup {NoImsi}, teid : Teids, ep : Eps \cup {NoEp}]
NoRecord == [imsi |-> NoImsi, teid |-> <<0, 0>>, ep |-> NoEp]
Copy(i) == [imsi |-> i, teid |-> tunnel[i].teid, ep |-> tunnel[i].ep]

(* cause: of the response; hdr: the SGW TEID in its header; touched: the   *)
(* handler has changed a session column of some row.                       *)
Thread == [pc : {"idle", "begin", "imsi", "msisdn", "update", "ebi"},
           req : Request, rec : Record, touched : BOOLEAN,
           cause : {"none", "accepted", "denied", "silent"}, hdr : Eps \cup {NoEp}]

-----------------------------------------------------------------------------
(* Provisioned rows without a session. *)
Init ==
  /\ th = [t \in Threads |->
        [pc |-> "idle", req |-> CHOOSE r \in Requests : TRUE, rec |-> NoRecord,
         touched |-> FALSE, cause |-> "none", hdr |-> NoEp]]
  /\ \E m \in [Imsis -> Msisdns] :
        tunnel = [i \in Imsis |-> [active |-> 0, teid |-> <<0, Low[i]>>, ebi |-> 0,
                                   ep |-> NoEp, msisdn |-> m[i]]]
  /\ taken = 0

At(t, pc, ops) == th[t].pc = pc /\ th[t].req.op \in ops
Goto(t, pc) == th' = [th EXCEPT ![t].pc = pc]

Respond(t, cause, hdr, touched) ==
  th' = [th EXCEPT ![t].pc = "idle", ![t].cause = cause, ![t].hdr = hdr, ![t].touched = touched]

(* The SGW TEID a response's header carries: the request's for Create and  *)
(* the denied v1 ones, the row's (0 if there is none) for the others.      *)
HeaderTeid(t, cause) ==
  IF \/ th[t].req.op \in {"create", "pdp_create"}
     \/ th[t].req.op \in {"pdp_update", "pdp_delete"} /\ cause = "denied"
  THEN th[t].req.ep ELSE th[t].rec.ep

Accept(t) == Respond(t, "accepted", HeaderTeid(t, "accepted"), TRUE)
Deny(t) == Respond(t, "denied", HeaderTeid(t, "denied"), th[t].touched)

(* A SELECT: the last row fetched is the one kept; no row is a denial. *)
Lookup(t, rows, pc) ==
  /\ \/ /\ rows = {}
        /\ Deny(t)
     \/ \E i \in rows : th' = [th EXCEPT ![t].pc = pc, ![t].rec = Copy(i)]
  /\ UNCHANGED <<tunnel, taken>>

(* An UPDATE that fails leaves the table alone and the request is denied.  *)
Failed(t) ==
  /\ DbFails
  /\ Deny(t)
  /\ UNCHANGED <<tunnel, taken>>

(* Mutants of NewTeid: the prefix is not replaced; the wrong half is kept. *)
NewTeidOld(t) == th[t].rec.teid
NewTeidMask(t) == <<th[t].req.ebi, th[t].rec.teid[1]>>

(* The TEID found in the table with the bearer id of the request (0 if it  *)
(* has none) as its prefix.                                                *)
NewTeid(t) == <<th[t].req.ebi, th[t].rec.teid[2]>>

-----------------------------------------------------------------------------
(* The node takes a request from its ring and parses it. *)
Take(t, r) ==
  /\ th[t].pc = "idle"
  /\ Serves(t, r.op)
  /\ taken < MaxReq
  /\ taken' = taken + 1
  /\ th' = [th EXCEPT ![t] = [pc |-> "begin", req |-> r, rec |-> NoRecord,
                              touched |-> FALSE, cause |-> "none", hdr |-> NoEp]]
  /\ UNCHANGED tunnel

(* The payload cannot be parsed: no response at all. *)
Unparsable(t) ==
  /\ th[t].pc = "begin"
  /\ Respond(t, "silent", NoEp, FALSE)
  /\ UNCHANGED <<tunnel, taken>>

(* A required information element is missing. *)
Malformed(t) ==
  /\ At(t, "begin", {"create", "resume", "pdp_create", "pdp_update", "pdp_delete"})
  /\ ~th[t].req.complete
  /\ Deny(t)
  /\ UNCHANGED <<tunnel, taken>>

Wellformed(t) == th[t].req.op \in {"modify", "delete", "suspend"} \/ th[t].req.complete

(* Create Session, first statements: the PGW's address and the telephone   *)
(* number are written to the row of the IMSI before any lookup.            *)
CreateMsisdn(t) ==
  /\ At(t, "begin", {"create"})
  /\ Wellformed(t)
  /\ \/ /\ tunnel' = [i \in Imsis |-> IF i = th[t].req.imsi
                                      THEN [tunnel[i] EXCEPT !.msisdn = th[t].req.msisdn]
                                      ELSE tunnel[i]]
        /\ Goto(t, "imsi")
        /\ UNCHANGED taken
     \/ Failed(t)

(* Mutant: nothing is done when the IMSI is not in the table. *)
CreateByImsiOnly(t) ==
  /\ At(t, "imsi", {"create"})
  /\ th[t].req.imsi \in Imsis
  /\ Lookup(t, {th[t].req.imsi}, "update")

CreateByImsi(t) ==
  /\ At(t, "imsi", {"create"})
  /\ \/ /\ th[t].req.imsi \in Imsis
        /\ Lookup(t, {th[t].req.imsi}, "update")
     \/ /\ th[t].req.imsi \notin Imsis
        /\ Goto(t, "msisdn")
        /\ UNCHANGED <<tunnel, taken>>

CreateByMsisdn(t) ==
  /\ At(t, "msisdn", {"create"})
  /\ Lookup(t, {i \in Imsis : tunnel[i].msisdn = th[t].req.msisdn}, "update")

(* Mutants: the result of the UPDATE is tested the wrong way round; the    *)
(* octet of the bearer id is stored with its spare bits.                   *)
CreateUpdateThenDeny(t) ==
  /\ At(t, "update", {"create"})
  /\ tunnel' = [tunnel EXCEPT ![th[t].rec.imsi].active = 1]
  /\ Respond(t, "denied", NoEp, TRUE)
  /\ UNCHANGED taken

(* The session is written in one UPDATE; _accept answers, or stays silent  *)
(* when the UE address of the row is out of range.                         *)
CreateUpdate(t) ==
  /\ At(t, "update", {"create"})
  /\ \/ /\ tunnel' = [tunnel EXCEPT ![th[t].rec.imsi] =
             [@ EXCEPT !.active = 1, !.ebi = th[t].req.ebi, !.ep = th[t].req.ep,
                       !.teid = NewTeid(t)]]
        /\ \/ Accept(t)
           \/ Respond(t, "silent", NoEp, TRUE)
        /\ UNCHANGED taken
     \/ Failed(t)

-----------------------------------------------------------------------------
(* Modify Bearer, and the v1 Update PDP Context, look for an active row.   *)
ModifyLookup(t) ==
  /\ At(t, "begin", {"modify", "pdp_update"})
  /\ Wellformed(t)
  /\ Lookup(t, {i \in Imsis : tunnel[i].teid = th[t].req.teid /\ tunnel[i].active = 1}, "update")

(* After the endpoint statement, or instead of it. *)
AfterModify(t, ep, touched) ==
  th' = [th EXCEPT ![t] = IF @.req.ebi = 0
                          THEN [@ EXCEPT !.pc = "idle", !.cause = "accepted", !.hdr = ep,
                                         !.rec.ep = ep, !.touched = touched]
                          ELSE [@ EXCEPT !.pc = "ebi", !.rec.ep = ep, !.touched = touched]]

(* Both F-TEIDs: endpoints and TEID, with the prefix 0 if the request has  *)
(* no bearer id.  Otherwise a RAT change alone, or no statement at all.    *)
ModifyUpdate(t) ==
  LET r == th[t].req
      i == th[t].rec.imsi
  IN  /\ At(t, "update", {"modify"})
      /\ \/ /\ r.ep # NoEp
            /\ tunnel' = [tunnel EXCEPT ![i] =
                 [@ EXCEPT !.active = 1, !.ep = r.ep, !.teid = NewTeid(t)]]
            /\ AfterModify(t, r.ep, TRUE)
            /\ UNCHANGED taken
         \/ /\ r.ep = NoEp
            /\ r.rat
            /\ tunnel' = [tunnel EXCEPT ![i].active = 1]
            /\ AfterModify(t, th[t].rec.ep, TRUE)
            /\ UNCHANGED taken
         \/ /\ r.ep = NoEp
            /\ ~r.rat
            /\ AfterModify(t, th[t].rec.ep, FALSE)
            /\ UNCHANGED <<tunnel, taken>>
         \/ /\ r.ep # NoEp \/ r.rat
            /\ Failed(t)

(* The bearer id is a statement of its own. *)
ModifyEbi(t) ==
  /\ At(t, "ebi", {"modify"})
  /\ \/ /\ tunnel' = [tunnel EXCEPT ![th[t].rec.imsi].ebi = th[t].req.ebi]
        /\ Accept(t)
        /\ UNCHANGED taken
     \/ Failed(t)

-----------------------------------------------------------------------------
(* Delete Session, Delete Bearer, Suspend and Resume look for the TEID     *)
(* whatever the state of the row.                                          *)
OtherLookup(t) ==
  /\ At(t, "begin", {"delete", "suspend", "resume"})
  /\ Wellformed(t)
  /\ Lookup(t, {i \in Imsis : tunnel[i].teid = th[t].req.teid}, "update")

Deactivate(rows) ==
  tunnel' = [i \in Imsis |-> IF i \in rows THEN [tunnel[i] EXCEPT !.active = 0] ELSE tunnel[i]]

DeleteUpdate(t) ==
  LET r == th[t].req
  IN  /\ At(t, "update", {"delete"})
      /\ \/ /\ Deactivate({i \in Imsis : tunnel[i].teid = r.teid /\ tunnel[i].ebi = r.ebi})
            /\ Accept(t)
            /\ UNCHANGED taken
         \/ Failed(t)

SuspendUpdate(t) ==
  /\ At(t, "update", {"suspend"})
  /\ \/ /\ Deactivate({i \in Imsis : tunnel[i].teid = th[t].req.teid})
        /\ Accept(t)
        /\ UNCHANGED taken
     \/ Failed(t)

(* The row resumed is the one of the request's IMSI, not the one found. *)
ResumeUpdate(t) ==
  /\ At(t, "update", {"resume"})
  /\ \/ /\ tunnel' = [i \in Imsis |-> IF i = th[t].req.imsi
                                      THEN [tunnel[i] EXCEPT !.active = 1] ELSE tunnel[i]]
        /\ Accept(t)
        /\ UNCHANGED taken
     \/ Failed(t)

-----------------------------------------------------------------------------
(* GTPv1 PDP contexts. *)

PdpCreateLookup(t) ==
  /\ At(t, "begin", {"pdp_create"})
  /\ Wellformed(t)
  /\ Lookup(t, {th[t].req.imsi} \cap Imsis, "update")

(* Mutant: the UPDATE has no WHERE clause. *)
PdpCreateUpdateAll(t) ==
  /\ At(t, "update", {"pdp_create"})
  /\ tunnel' = [i \in Imsis |-> [tunnel[i] EXCEPT !.active = 1, !.teid = th[t].rec.teid]]
  /\ Accept(t)
  /\ UNCHANGED taken

(* Bearer id 0, and the TEID that was read is written back. *)
PdpCreateUpdate(t) ==
  /\ At(t, "update", {"pdp_create"})
  /\ \/ /\ tunnel' = [tunnel EXCEPT ![th[t].rec.imsi] =
             [@ EXCEPT !.active = 1, !.ebi = 0, !.ep = th[t].req.ep, !.teid = th[t].rec.teid]]
        /\ Accept(t)
        /\ UNCHANGED taken
     \/ Failed(t)

(* Endpoints are written when both TEIDs are there. *)
PdpUpdate(t) ==
  /\ At(t, "update", {"pdp_update"})
  /\ \/ /\ th[t].req.ep # NoEp
        /\ tunnel' = [tunnel EXCEPT ![th[t].rec.imsi] =
             [@ EXCEPT !.active = 1, !.ep = th[t].req.ep]]
        /\ Respond(t, "accepted", th[t].req.ep, TRUE)
        /\ UNCHANGED taken
     \/ /\ th[t].req.ep = NoEp
        /\ Respond(t, "accepted", th[t].rec.ep, FALSE)
        /\ UNCHANGED <<tunnel, taken>>
     \/ /\ th[t].req.ep # NoEp
        /\ Failed(t)

(* Delete PDP Context reads the TEID of the header without ntohl. *)
PdpDeleteLookup(t) ==
  /\ At(t, "begin", {"pdp_delete"})
  /\ Wellformed(t)
  /\ Lookup(t, {i \in Imsis : tunnel[i].teid = Swap(th[t].req.teid)}, "update")

PdpDeleteUpdate(t) ==
  LET r == th[t].req
  IN  /\ At(t, "update", {"pdp_delete"})
      /\ \/ /\ Deactivate({i \in Imsis : tunnel[i].teid = Swap(r.teid) /\ tunnel[i].ebi = r.ebi})
            /\ Accept(t)
            /\ UNCHANGED taken
         \/ Failed(t)

-----------------------------------------------------------------------------
Step(t) ==
  \/ Unparsable(t)
  \/ Malformed(t)
  \/ CreateMsisdn(t)
  \/ CreateByImsi(t)
  \/ CreateByMsisdn(t)
  \/ CreateUpdate(t)
  \/ ModifyLookup(t)
  \/ ModifyUpdate(t)
  \/ ModifyEbi(t)
  \/ OtherLookup(t)
  \/ DeleteUpdate(t)
  \/ SuspendUpdate(t)
  \/ ResumeUpdate(t)
  \/ PdpCreateLookup(t)
  \/ PdpCreateUpdate(t)
  \/ PdpUpdate(t)
  \/ PdpDeleteLookup(t)
  \/ PdpDeleteUpdate(t)

Next == \E t \in Threads : Step(t) \/ \E r \in Requests : Take(t, r)

Spec == Init /\ [][Next]_vars

(* A node thread runs until its request is answered. *)
FairSpec == Spec /\ \A t \in Threads : WF_vars(Step(t))

-----------------------------------------------------------------------------
(* The table and the threads keep their types: no handler writes a value   *)
(* that the columns it stands for cannot hold.                             *)
TypeOK ==
  /\ tunnel \in [Imsis -> Row]
  /\ th \in [Threads -> Thread]
  /\ taken \in 0 .. MaxReq

(* Every copy of a row that a handler still holds has the low digits the   *)
(* contract was provisioned with, whatever happened to the row since.      *)
LowKept ==
  /\ \A i \in Imsis : tunnel[i].teid[2] = Low[i]
  /\ \A t \in Threads : /\ th[t].rec.imsi \in Imsis => th[t].rec.teid[2] = Low[th[t].rec.imsi]
                        /\ th[t].pc \in {"update", "ebi"} => th[t].rec.imsi \in Imsis

(* Two contracts never have the same PGW TEID, although Create and Modify  *)
(* rewrite its prefix from a copy that may be out of date: the lookups by  *)
(* pgw_teid of Modify, Delete, Suspend and Resume find one row.            *)
TeidUnique == \A i, j \in Imsis : tunnel[i].teid = tunnel[j].teid => i = j

(* The SGW endpoints of a row and the prefix of its TEID were written by   *)
(* one request: concurrent Create and Modify do not leave a mixture.  (The *)
(* endpoints of GTPv1 requests, which set no prefix, are left out.)        *)
V2Requests == {r \in Requests : r.op \in {"create", "modify"}}
EndpointsPaired ==
  \A i \in Imsis : tunnel[i].ep \in {r.ep : r \in V2Requests} \ {NoEp} =>
     \E r \in V2Requests : r.ep = tunnel[i].ep /\ r.ebi = tunnel[i].teid[1]

(* A request answered with a denial changed no session, whichever of its   *)
(* statements failed.  Modify Bearer is left out: its bearer id is a       *)
(* second UPDATE, which can fail after the first one was done.             *)
DeniedChangedNothing ==
  \A t \in Threads : th[t].cause = "denied" /\ th[t].req.op # "modify" => ~th[t].touched

(* A session that was ended (deleted, suspended) comes back only through a *)
(* Create, a Resume or a v1 Create, never through a Modify or a v1 Update, *)
(* which look for an active row and deny the others.                       *)
NoRevival ==
  [][\A i \in Imsis : tunnel[i].active = 0 /\ tunnel'[i].active = 1 =>
        \E t \in Threads : th'[t] # th[t] /\ th[t].req.op \in {"create", "resume", "pdp_create"}]_vars

(* Every request that a node takes is answered or dropped: no path through *)
(* a handler stops halfway, also when a row is missing or an UPDATE fails. *)
Answered == \A t \in Threads : th[t].pc # "idle" ~> th[t].pc = "idle"
=============================================================================
