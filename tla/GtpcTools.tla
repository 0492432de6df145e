------------------------------ MODULE GtpcTools ------------------------------
(***************************************************************************)
(* The GTP-C packet library of the tools: the second codec of the          *)
(* repository, with its own message and element numbers and its own        *)
(* structs.  The SGW simulator speaks to the control plane through it, so  *)
(* what one side builds the other must read.  Elements and datagrams have  *)
(* the form described in Gtpc; the numbers here are those of the tools.    *)
(***************************************************************************)
EXTENDS Walks

Msg == [echo_req |-> 1, echo_res |-> 2, version_not_supported |-> 3,
        create_req |-> 32, create_res |-> 33, modify_req |-> 34, modify_res |-> 35,
        delete_req |-> 36, delete_res |-> 37, bearer_req |-> 99, bearer_res |-> 100,
        suspend |-> 162, suspend_ack |-> 163, resume |-> 164, resume_ack |-> 165]

Ie == [imsi |-> 1, cause |-> 2, recovery |-> 3, apn |-> 71, ambr |-> 72, ebi |-> 73,
       mei |-> 75, msisdn |-> 76, indication |-> 77, pco |-> 78, paa |-> 79,
       bearer_qos |-> 80, rat |-> 82, serving_network |-> 83, uli |-> 86, f_teid |-> 87,
       bearer_ctx |-> 93, charging_id |-> 94, pdn_type |-> 99, apn_restriction |-> 127,
       selection_mode |-> 128]

Code == [utran |-> 1, imsi_len |-> 8, mei_len |-> 8, msisdn_len |-> 6, apn_len |-> 32,
         pco_len |-> 253, paa_len |-> 21, sgw_u |-> 4, pgw_u |-> 5, sgw_c |-> 6, pgw_c |-> 7,
         page |-> 2048]

HeaderSize == [gtpc |-> 12, comm |-> 4]
NumberSize == [imsi |-> 12, recovery |-> 5, ambr |-> 12, ebi |-> 5, mei |-> 12, msisdn |-> 10]
OptionSize == [bearer_qos |-> 26]
LocationSize == [rat |-> 5, serving_network |-> 7]
TunnelSize == [charging_id |-> 8, pdn_type |-> 5, apn_restriction |-> 5, selection_mode |-> 5]

Size(item) == HeaderSize.comm + item.len
SumSize(items) == FoldLeft(LAMBDA n, i : n + Size(i), 0, items)

Mem(n) == <<n % 256, (n \div 256) % 256, (n \div 65536) % 256, n \div 16777216>>
htonl(b) == Reverse(b)

Item(type, inst, len, v) == [type |-> type, inst |-> inst, len |-> len, v |-> v]
Pairs(n, digits) == [k \in 1..n |-> <<digits[2 * k - 1], digits[2 * k]>>]
Zeros(n) == [k \in 1..n |-> <<0, 0>>]

-----------------------------------------------------------------------------
\* The element classes: what their constructors build.  A number of the wrong
\* length leaves the digits zero.

(* Mutant: an IMSI has an even number of digits. *)
ImsiEven(digits) ==
    Item(Ie.imsi, 0, Code.imsi_len,
         IF Len(digits) = 2 * Code.imsi_len THEN Pairs(Code.imsi_len, digits)
         ELSE Zeros(Code.imsi_len))

Imsi(digits) ==
    Item(Ie.imsi, 0, Code.imsi_len,
         IF Len(digits) = 2 * Code.imsi_len - 1 THEN Pairs(Code.imsi_len, Append(digits, 15))
         ELSE Zeros(Code.imsi_len))
Msisdn(digits) ==
    Item(Ie.msisdn, 0, Code.msisdn_len,
         IF Len(digits) = 2 * Code.msisdn_len THEN Pairs(Code.msisdn_len, digits)
         ELSE Zeros(Code.msisdn_len))
Recovery(n) == Item(Ie.recovery, 0, 1, <<n>>)
Rat(n) == Item(Ie.rat, 0, 1, <<n>>)
Ebi(inst, n) == Item(Ie.ebi, inst, 1, <<n % 16>>)
EbiOctet(inst, n) == Item(Ie.ebi, inst, 1, <<n>>)
\* labels are the lengths of the dotted parts of the name; one that does not
\* fit leaves an empty name.
Apn(labels) ==
    LET n == FoldLeft(LAMBDA s, l : s + l + 1, 0, labels)
        fits == \A k \in 1..Len(labels) :
                   FoldLeft(LAMBDA s, l : s + l + 1, 0, SubSeq(labels, 1, k - 1)) + labels[k]
                       < Code.apn_len
    IN  Item(Ie.apn, 0, IF fits THEN n ELSE 0, IF fits THEN labels ELSE <<>>)
Fteid(inst, iftype, teid) == Item(Ie.f_teid, inst, 4 + 5, <<iftype>> \o htonl(teid))
Ambr(up, down) == Item(Ie.ambr, 0, 8, htonl(up) \o htonl(down))
Bqos(flags, qci, rate) == Item(Ie.bearer_qos, 0, OptionSize.bearer_qos - HeaderSize.comm,
                               <<flags, qci>> \o rate)
ServingNetwork(digits) == Item(Ie.serving_network, 0, 3, digits)
\* options as the control plane reads them, after one octet of header.
Pco(options, len) == IF len > 0 /\ len < Code.pco_len THEN Item(Ie.pco, 0, len, options)
                     ELSE Item(Ie.pco, 0, 0, <<>>)
BearerContext(children) == Item(Ie.bearer_ctx, 0, SumSize(children), children)

-----------------------------------------------------------------------------
\* ... and what they take from a received payload.

RecoveryAttach(i) == Size(i) = NumberSize.recovery
ApnAttach(i) == i.len \in 1..Code.apn_len
ImsiAttach(i) == Size(i) = NumberSize.imsi /\ i.len = Code.imsi_len
AmbrAttach(i) == Size(i) = NumberSize.ambr
MsisdnAttach(i) == Size(i) = NumberSize.msisdn /\ i.len = Code.msisdn_len
CauseAttach(i) == Size(i) \in {6, 10} /\ i.len \in {2, 6}
MeiAttach(i) == Size(i) = NumberSize.mei /\ i.len = Code.mei_len
EbiAttach(i) == Size(i) = NumberSize.ebi /\ i.len = 1
IndicationAttach(i) == Size(i) <= 10 /\ i.len \in 1..5
PcoAttach(i) == i.len > 0 /\ i.len < Code.pco_len
PaaAttach(i) == i.len > 0 /\ i.len < Code.paa_len
BqosAttach(i) == Size(i) = OptionSize.bearer_qos
RatAttach(i) == Size(i) = LocationSize.rat /\ i.len = 1
ServingNetworkAttach(i) == Size(i) = LocationSize.serving_network
UliAttach(i) == Size(i) >= 12
FteidAttach(i) == Size(i) >= 13 /\ i.len >= 9
ChargingIdAttach(i) == Size(i) = TunnelSize.charging_id
PdnAttach(i) == Size(i) = TunnelSize.pdn_type
ApnRestrictionAttach(i) == Size(i) = TunnelSize.apn_restriction
SelectionModeAttach(i) == Size(i) = TunnelSize.selection_mode

\* The switch on the element type; a type it does not name becomes an Any,
\* which takes everything.  Bearer contexts do not nest.
attach_leaf(i) ==
    \/ i.type = Ie.recovery /\ RecoveryAttach(i)
    \/ i.type = Ie.apn /\ ApnAttach(i)
    \/ i.type = Ie.imsi /\ ImsiAttach(i)
    \/ i.type = Ie.ambr /\ AmbrAttach(i)
    \/ i.type = Ie.msisdn /\ MsisdnAttach(i)
    \/ i.type = Ie.cause /\ CauseAttach(i)
    \/ i.type = Ie.mei /\ MeiAttach(i)
    \/ i.type = Ie.ebi /\ EbiAttach(i)
    \/ i.type = Ie.indication /\ IndicationAttach(i)
    \/ i.type = Ie.pco /\ PcoAttach(i)
    \/ i.type = Ie.paa /\ PaaAttach(i)
    \/ i.type = Ie.bearer_qos /\ BqosAttach(i)
    \/ i.type = Ie.rat /\ RatAttach(i)
    \/ i.type = Ie.serving_network /\ ServingNetworkAttach(i)
    \/ i.type = Ie.uli /\ UliAttach(i)
    \/ i.type = Ie.f_teid /\ FteidAttach(i)
    \/ i.type = Ie.charging_id /\ ChargingIdAttach(i)
    \/ i.type = Ie.pdn_type /\ PdnAttach(i)
    \/ i.type = Ie.apn_restriction /\ ApnRestrictionAttach(i)
    \/ i.type = Ie.selection_mode /\ SelectionModeAttach(i)
    \/ \A n \in DOMAIN Ie : Ie[n] # i.type

BearerContextAttach(i) ==
    /\ Size(i) >= HeaderSize.gtpc
    /\ i.len > HeaderSize.comm
    /\ \A c \in 1..Len(i.v) : attach_leaf(i.v[c])
    /\ SumSize(i.v) = i.len

attach_impl(i) == IF i.type = Ie.bearer_ctx THEN BearerContextAttach(i) ELSE attach_leaf(i)

-----------------------------------------------------------------------------
headerlen(type) == IF type \in {Msg.echo_req, Msg.echo_res} THEN 8 ELSE 12

issupported(type) ==
    type \in {Msg[m] : m \in DOMAIN Msg} \ {Msg.suspend_ack, Msg.resume_ack}

\* append passes over an element that would not fit a page.
append(items, item) ==
    IF HeaderSize.gtpc + SumSize(items) + Size(item) > Code.page THEN items
    ELSE Append(items, item)

\* ref and len: the datagram of a packet, its length field by the header it has.
Datagram(type, items, teid, seqno) ==
    LET kept == Walk(append, <<>>, items)
        len == headerlen(type) + SumSize(kept)
    IN  [type |-> type, version |-> 2, piggy |-> 0,
         length |-> IF headerlen(type) = HeaderSize.gtpc THEN len - 4 ELSE len - 8,
         teid |-> teid, seqno |-> seqno, items |-> kept, len |-> len]

\* The elements kept of a received datagram, and whether there is a packet at
\* all: an element that does not attach is skipped, one that overruns the
\* payload, or a payload with no element, gives none.
attach(d) ==
    LET kept == Walk(append, <<>>, SelectSeq(d.items, attach_impl))
        good == /\ d.length >= HeaderSize.comm
                /\ d.version = 2 /\ d.piggy = 0
                /\ issupported(d.type)
                /\ d.items # <<>>
                /\ headerlen(d.type) + SumSize(d.items) = d.len
                /\ Len(d.items) <= 256
    IN  [ok |-> good, items |-> IF good THEN kept ELSE <<>>]

\* GtpcPkt::find: the first element of the type, none if it does not attach.
find(items, type) ==
    LET at == {k \in 1..Len(items) : items[k].type = type}
        first == CHOOSE k \in at : \A j \in at : k <= j
    IN  IF at = {} THEN <<>> ELSE IF attach_impl(items[first]) THEN <<items[first]>> ELSE <<>>

teid(item) == htonl(SubSeq(item.v, 2, 5))
=============================================================================
